----------------------------- MODULE Algorithms -----------------------------
(***************************************************************************)
(* The service's pure functions, one call at a time, against what they are *)
(* meant to compute: the split of a metrics export, the decryption of a    *)
(* ciphertext, the preimage of a signature, the parsing of a field.        *)
(***************************************************************************)
EXTENDS OtlpSplit, DirectDecrypt, Answers, WireFields

CONSTANTS
  Exports,         \* requests and caps to split
  Ciphertexts,     \* client keys, types and ciphertexts, with the plaintext
                   \* of those that are real encryptions
  SignedAnswers,   \* answers to sign, with what the signature comes out as
  Texts,           \* spellings of a field
  WirePermissions  \* permissions as a client spells them

\* Names, labels and samples are texts.
ASSUME ExportsAssumption ==
  \A e \in Exports :
    /\ e.request \in Seq(ResourceOf(STRING)) /\ e.max \in Nat \ {0}
    /\ \A i, j \in 1..Len(e.request) : e.request[i].resource = e.request[j].resource => i = j

\* A block as the engine stores it: under a mask, a step for each cleartext m,
\* and noise of at most half a step.
Encrypts(ck, b, m) ==
  LET n == Len(ck.s)
      space == 2 * ck.msg * ck.carry
      step == Pow2[b.log] \div space
  IN /\ b = [msg |-> ck.msg, carry |-> ck.carry, pattern |-> "KeyswitchBootstrap",
             form |-> "Classic", dim |-> n, log |-> b.log, initial_len |-> n + 1,
             packed_len |-> ((n + 1) * b.log + Word - 1) \div Word, words |-> b.words]
     /\ b.log \in 1..(Word - 1) /\ step * space = Pow2[b.log]
     /\ \E noise \in -(step \div 2)..((step - 1) \div 2) :
          b.words[n + 1] % Pow2[b.log] =
            (Total([i \in 1..n |-> b.words[i] * ck.s[i]]) + m * step + noise) % Pow2[b.log]

Cleartexts(ck) == 0..(2 * ck.msg * ck.carry - 1)

\* The digits of v, of p bits each and not too many for w bits, are in the
\* blocks of radix, two in each and an odd one last; what a block holds above
\* its digits does not count.
EncryptsRadix(ck, radix, v, p, w) ==
  LET n == 2 * Len(radix.paired) + Len(radix.last)
      digit(i) == (v \div Pow2[p * (i - 1)]) % ck.msg
  IN /\ n >= 1 /\ p * n <= next_multiple_of(w, p) /\ v < Pow2[p * n]
     /\ \A k \in DOMAIN radix.paired : \E m \in Cleartexts(ck) :
          PairOf(ck, m) = <<digit(2 * k - 1), digit(2 * k)>> /\ Encrypts(ck, radix.paired[k], m)
     /\ \A k \in DOMAIN radix.last : \E m \in Cleartexts(ck) :
          m % ck.msg = digit(n) /\ Encrypts(ck, radix.last[k], m)

\* The ciphertext is one of the service's engine: v encrypted under ck as ty.
Encryption(c) ==
  /\ c.ck.pattern = "Standard" /\ c.zone = 0 /\ c.ty \in EncryptionTypes
  /\ c.ct.form = "ModulusSwitched" /\ c.ct.size <= CT_SIZE_LIMIT
  /\ \E p \in 1..Word :
       /\ Pow2[p] = c.ck.msg
       /\ IF c.ty = 0
          THEN c.ct.kind = "bool" /\ c.plaintext \in {0, 1} /\ Encrypts(c.ck, c.ct.block, c.plaintext)
          ELSE c.ct.kind = "uint" /\ EncryptsRadix(c.ck, c.ct.radix, c.plaintext, p, bits(c.ty))

\* The moduli are those of a generated key.  A ciphertext with a plaintext is
\* an encryption of it; any other is as it arrives.
ASSUME CiphertextsAssumption ==
  \A c \in Ciphertexts :
    /\ c.ck.s \in Seq(Nat) /\ c.ck.msg \in Nat \ {0} /\ c.ck.carry \in Nat \ {0}
    /\ c.ct \in UintMirror \cup BoolMirror
    /\ c.plaintext \in Int /\ (c.plaintext >= 0 => Encryption(c))

\* A value is a U256, a type an i32 and a chain a u64; the signer's s is a
\* scalar of the group.
ASSUME AnswersAssumption ==
  \A a \in SignedAnswers :
    /\ a.op \in {"decrypt", "seal"} /\ a.ty \in EncryptionTypes
    /\ Fits(a.value, 32) /\ Fits(a.ty, 4) /\ Fits(a.chain, 8)
    /\ a.order \in Nat /\ a.s \in 1..(a.order - 1)
    /\ a.recid \in [odd : BOOLEAN, reduced : BOOLEAN]
    /\ a.format \in {"raw", "evm"}

ASSUME TextsAssumption == Texts \subseteq WireText

ASSUME PermissionsAssumption == WirePermissions \subseteq WirePermission

VARIABLES
  fn, call,        \* the function called and its arguments
  done, result

algorithmVars == <<fn, call, done, result>>

AlgorithmsInit ==
  /\ \/ fn = "split_request" /\ call \in Exports
     \/ fn = "decrypt_compressed" /\ call \in Ciphertexts
     \/ fn = "sign" /\ call \in SignedAnswers
     \/ fn = "parse" /\ call \in Texts
     \/ fn = "try_from" /\ call \in WirePermissions
  /\ done = FALSE
  /\ result = << >>

Returns(value) == ~done /\ done' = TRUE /\ result' = value /\ UNCHANGED <<fn, call>>

Split == fn = "split_request" /\ Returns(split_request(call.request, call.max))

\* The key is derived at boot, and a process without one never decrypts; then
\* the order of fetch_decrypt: the zone's key, the type, the ciphertext.
decrypted(c) ==
  LET store == load(c.ck) IN
    IF store.err # "none" THEN Err(store.err)
    ELSE IF direct_key(store, c.zone) = {} THEN Err("UnsupportedZone")
    ELSE IF from_i32(c.ty).err # "none" THEN from_i32(c.ty)
    ELSE decrypt_compressed(CHOOSE key \in direct_key(store, c.zone) : TRUE, c.ty, c.ct)

Decrypt == fn = "decrypt_compressed" /\ Returns(decrypted(call))

\* A decrypt signs its value, a seal the box it made.
signed(a) ==
  LET sealed == seal_to_user(a.recipient, encode(a.ty, a.value), a.pk, a.nonce)
      sig == sign_prehash(a.s, a.recid, a.order)
      Over(preimage) == [err |-> "none", preimage |-> preimage,
                         v |-> convert_v(a.format, sig.recid), s |-> sig.s]
  IN IF a.op = "decrypt" THEN Over(sign_decrypt(a))
     ELSE IF sealed.err # "none" THEN sealed
     ELSE Over(sign_sealoutput(a, sealed))

Sign == fn = "sign" /\ Returns(signed(call))

\* A text read as each kind of field.
fields(t) ==
  [handle |-> Handle_parse(t), ct_hash |-> parse_ct_hash(t), b32 |-> parse_b32(t),
   addr |-> parse_addr(t), signature |-> hex_serde(t), revoker_data |-> u256_str(t),
   version |-> parse_version(t)]

Parse == fn = "parse" /\ Returns(fields(call))

\* A permission of the body, up to the tuple the contract is asked about.
converted(p) ==
  LET read == deserialize(p) IN IF read.ok THEN try_from(read.acp) ELSE Rejected

Convert == fn = "try_from" /\ Returns(converted(call))

AlgorithmsNext == Split \/ Decrypt \/ Sign \/ Parse \/ Convert

AlgorithmsSpec == AlgorithmsInit /\ [][AlgorithmsNext]_algorithmVars

Called(f) == done /\ fn = f

-----------------------------------------------------------------------------
(* Properties *)

(* Splitting an export loses, repeats and reorders no point and moves none *)
(* under another resource or scope; no piece is empty or over the cap, an  *)
(* export within the cap stays whole, and a piece is closed only because   *)
(* the next one would not have fitted in it.                               *)
SplitExact ==
  Called("split_request") =>
    LET original == Points(call.request)
        points == [k \in DOMAIN result |-> Points(result[k])]
    IN IF Len(original) <= call.max THEN result = <<call.request>>
       ELSE /\ FlattenSeq(points) = original
            /\ \A k \in DOMAIN points : Len(points[k]) \in 1..call.max
            /\ \A k \in DOMAIN points \ {1} : Len(points[k - 1]) + Len(points[k]) > call.max
            /\ \A k \in DOMAIN result : \A r \in DOMAIN result[k] :
                 /\ result[k][r].scopes # << >>
                 /\ \A i, j \in DOMAIN result[k] :
                      result[k][i].resource = result[k][j].resource => i = j

(* A real encryption decrypts to its plaintext, whatever its mask and as   *)
(* long as the noise is from half a step below, included, to half a step   *)
(* above, excluded, so that a tie has one reading: at the boundary between *)
(* two plaintexts, at the wrap from the last to the first, and for an odd  *)
(* number of digits.                                                       *)
DecryptsPlaintext ==
  Called("decrypt_compressed") /\ call.plaintext >= 0 =>
    result = [err |-> "none", value |-> call.plaintext]

(* Whatever the source of ciphertexts puts into an envelope, a value that  *)
(* comes out has no more digits than the declared type has room for, so a  *)
(* wide ciphertext under a narrow label is never signed; a boolean is one. *)
WidthHolds ==
  Called("decrypt_compressed") /\ result.err = "none" =>
    IF call.ty = 0 THEN result.value \in {0, 1}
    ELSE \E per_digit \in 1..Word :
           /\ Pow2[per_digit] = call.ck.msg
           /\ result.value \in 0..(Pow2[next_multiple_of(bits(call.ty), per_digit)] - 1)

\* The number big-endian bytes stand for.
Value(bytes) == Radix(256, bytes)

\* The answer a preimage stands for, read off its bytes alone.
ReadPreimage(bytes) ==
  LET n == Len(bytes)
      Part(first, len) == SubSeq(bytes, first, first + len - 1)
      Answer(op, body) == [op |-> op, body |-> body, ty |-> Value(Part(n - 43, 4)),
                           chain |-> Value(Part(n - 39, 8)), hash |-> Part(n - 31, 32)]
  IN IF n = 76 THEN Answer("decrypt", <<Value(Part(1, 32))>>)
     ELSE Answer("seal", <<Part(1, n - 100), Part(n - 99, 32), Part(n - 67, 24)>>)

(* A signature commits to one answer only: operation, value or box, type,  *)
(* chain and handle can be read off what is signed, so no two answers have *)
(* the same preimage; and the pair (s, v) recovers the signer's key: it is *)
(* the pair the signer computed, or its mirror image, with a low s, and v  *)
(* still says whether the signer's point had its x reduced.                *)
SignaturesBindAnswer ==
  Called("sign") /\ result.err = "none" =>
    /\ ReadPreimage(result.preimage) =
         [op |-> call.op,
          body |-> IF call.op = "decrypt" THEN <<call.value>>
                   ELSE <<CryptoBox(encode(call.ty, call.value), call.pk, call.nonce),
                          Material(call.pk, 32), Material(call.nonce, 24)>>,
          ty |-> call.ty, chain |-> call.chain, hash |-> Material(call.hash, 32)]
    /\ 2 * result.s <= call.order
    /\ LET id == result.v - IF call.format = "evm" THEN 27 ELSE 0
           odd == id % 2 = 1
       IN /\ <<result.s, odd>> \in
               {<<call.s, call.recid.odd>>, <<call.order - call.s, ~call.recid.odd>>}
          /\ id \div 2 = IF call.recid.reduced THEN 1 ELSE 0

(* The gates, the ciphertext source and the signer never disagree about    *)
(* which handle a request names: the HTTP layer and the signer accept the  *)
(* same spellings, read the same bytes from a spelling and from its        *)
(* canonical form, and those are the bytes of the number the chain is      *)
(* asked about.                                                            *)
HandlesAgree ==
  Called("parse") =>
    /\ result.handle.ok <=> result.ct_hash.ok
    /\ result.handle.ok =>
         /\ parse_ct_hash(result.handle.hex) = result.ct_hash
         /\ Handle_parse(result.handle.hex) = result.handle
         /\ result.handle.u256 = Value(result.ct_hash.bytes)

\* The number a hexadecimal text spells, and the one a revoker's datum does.
Spelled(text) == Number(Digits(Strip0x(text)))
Meant(d) ==
  CASE d.kind = "none" -> 0
    [] d.kind = "num" -> d.num
    [] d.kind = "str" -> Radix(IF d.str.prefix = "" THEN 10 ELSE 16, Digits(d.str.chars))

IsUint256(d) ==
  \/ d.kind = "none"
  \/ d.kind = "num" /\ d.num \in 0..MAX_U64
  \/ /\ d.kind = "str" /\ IsHex(d.str.chars) /\ Meant(d) <= MAX_U256
     /\ d.str.prefix # "" \/ \A i \in DOMAIN d.str.chars : DigitOf[d.str.chars[i]] < 10

WholeBytes(text) == IsHex(Strip0x(text)) /\ Len(Strip0x(text)) % 2 = 0

\* Every text of a list is hexadecimal, with one of these numbers of digits.
Spells(texts, lengths) ==
  \A i \in DOMAIN texts : IsHex(Strip0x(texts[i])) /\ Len(Strip0x(texts[i])) \in lengths

\* A permission of which every part can be read, if addresses may have these
\* numbers of digits.
Legible(p, lengths) ==
  /\ Len(p.contracts) <= MAX_SCOPE_ENTRIES /\ Len(p.handles) <= MAX_SCOPE_ENTRIES
  /\ Spells(p.contracts, lengths) /\ Spells(p.handles, 0..WordDigits)
  /\ Spells(<<p.issuer, p.recipient, p.revoker_contract>>, lengths)
  /\ Spells(<<p.sealing_key>>, 0..WordDigits)
  /\ p.expiration \in 0..MAX_U64 /\ p.scope \in 0..255 /\ IsUint256(p.revoker_data)
  /\ WholeBytes(p.issuer_signature) /\ WholeBytes(p.recipient_signature)

\* The bytes a text became stand for its number; a signature keeps its length.
Keeps(bytes, text) == Value(bytes) = Spelled(text)
KeepsAll(lists, texts) ==
  DOMAIN lists = DOMAIN texts /\ \A i \in DOMAIN texts : Keeps(lists[i], texts[i])
KeepsLength(bytes, text) == Keeps(bytes, text) /\ 2 * Len(bytes) = Len(Strip0x(text))

\* A permission is refused whole if a list is over the limit or a part cannot
\* be read; otherwise all its fields are there, in their places, with their
\* values.  That an address may be left out or written in full is certain;
\* nothing is said of one with fewer digits.
PermissionKept ==
  Called("try_from") =>
    /\ Legible(call, {0, AddressDigits}) => result.ok
    /\ result.ok =>
         /\ Legible(call, 0..AddressDigits)
         /\ Keeps(result.issuer, call.issuer) /\ Keeps(result.recipient, call.recipient)
         /\ Keeps(result.revoker_contract, call.revoker_contract)
         /\ Keeps(result.sealing_key, call.sealing_key)
         /\ KeepsAll(result.contracts, call.contracts) /\ KeepsAll(result.handles, call.handles)
         /\ result.expiration = call.expiration /\ result.scope = call.scope
         /\ result.revoker_data = Meant(call.revoker_data)
         /\ KeepsLength(result.issuer_signature, call.issuer_signature)
         /\ KeepsLength(result.recipient_signature, call.recipient_signature)

(* A field keeps the number the issuer signed: a short word or an omitted  *)
(* address is completed to it, nothing is cut, a text that is not such a   *)
(* number is refused, and one with a prefix means the same number in every *)
(* field.  A version has one spelling only, the canonical one.  And the    *)
(* permission the contract is asked about has each of the eleven fields    *)
(* the client sent: issuer, expiration, recipient, revoker data and        *)
(* contract, scope, contracts, handles, sealing key and both signatures.   *)
FieldsKeepValue ==
  /\ PermissionKept
  /\ Called("parse") =>
       LET chars == Strip0x(call) IN
          /\ result.b32.ok <=> IsHex(chars) /\ Len(chars) <= WordDigits
          /\ result.b32.ok => Value(result.b32.bytes) = Number(Digits(chars))
          /\ result.addr.ok => result.b32.ok /\ Value(result.addr.bytes) = Value(result.b32.bytes)
          /\ result.signature.ok /\ result.b32.ok =>
               Value(result.signature.bytes) = Value(result.b32.bytes)
          /\ result.b32.ok /\ call.prefix # "" =>
               result.revoker_data = [ok |-> TRUE, number |-> Value(result.b32.bytes)]
          /\ result.version.ok =>
               /\ result.version = result.b32
               /\ result.handle.hex = [prefix |-> call.prefix, chars |-> call.chars]

\* The unused address as the comments on AcpData spell it.
ZeroAddress == [prefix |-> "0x", chars |-> <<"0">>]
Omitted == [prefix |-> "", chars |-> << >>]
LeftOut(text) == IF text = ZeroAddress THEN Omitted ELSE text

(* "Use `0x0` if unused" (permit.rs:221) and "Use `0x0` to disable the     *)
(* revocation check" (permit.rs:238): a permission with that recipient or  *)
(* that revoker contract is accepted if it is with the field left out.     *)
ZeroMeansUnused ==
  Called("try_from") =>
    (converted([call EXCEPT !.recipient = LeftOut(@), !.revoker_contract = LeftOut(@)]).ok
       => result.ok)
=============================================================================
