------------------------------ MODULE WireFields ------------------------------
(***************************************************************************)
(* The hexadecimal fields of a request: the handle as src/http.rs and the  *)
(* signer read it, and the fields of a permission as src/permit.rs reads   *)
(* them.  A text is a prefix and the characters after it.                  *)
(***************************************************************************)
EXTENDS Integers, Sequences

CONSTANTS
  WordDigits,      \* hexadecimal digits of 32 bytes: 64 in the code
  AddressDigits,   \* of an address: 40 in the code
  MAX_SCOPE_ENTRIES,  \* contracts, or handles, a permission may list
  MAX_U64          \* u64::MAX

ASSUME WireAssumption ==
  /\ WordDigits \in Nat \ {0} /\ WordDigits % 2 = 0
  /\ AddressDigits \in 1..WordDigits /\ AddressDigits % 2 = 0
  /\ MAX_SCOPE_ENTRIES \in Nat /\ MAX_U64 \in Nat

\* The digit a character stands for.
DigitOf ==
  [c \in {"0", "1", "2", "3", "4", "5", "6", "7", "8", "9", "a", "b", "c", "d", "e", "f",
          "A", "B", "C", "D", "E", "F"} |->
     CASE c = "0" -> 0 [] c = "1" -> 1 [] c = "2" -> 2 [] c = "3" -> 3 [] c = "4" -> 4
       [] c = "5" -> 5 [] c = "6" -> 6 [] c = "7" -> 7 [] c = "8" -> 8 [] c = "9" -> 9
       [] c \in {"a", "A"} -> 10 [] c \in {"b", "B"} -> 11 [] c \in {"c", "C"} -> 12
       [] c \in {"d", "D"} -> 13 [] c \in {"e", "E"} -> 14 [] c \in {"f", "F"} -> 15]

\* The digits, the X of a prefix, and a letter that is no digit.
Characters == DOMAIN DigitOf \cup {"X", "g"}

WireText == [prefix : {"", "0x", "0X"}, chars : Seq(Characters)]

\* What may stand for a uint256: nothing, a JSON number or a text.
NumOrStr ==
  [kind : {"none"}] \cup [kind : {"num"}, num : Int] \cup [kind : {"str"}, str : WireText]

\* AcpData as it arrives; a text or a list that is left out is empty, and a
\* scope that is left out is 0.
WirePermission ==
  [issuer : WireText, expiration : Int, recipient : WireText, revoker_data : NumOrStr,
   revoker_contract : WireText, scope : Int, contracts : Seq(WireText), handles : Seq(WireText),
   sealing_key : WireText, issuer_signature : WireText, recipient_signature : WireText]

IsHex(chars) == \A i \in DOMAIN chars : chars[i] \in DOMAIN DigitOf
Digits(chars) == [i \in DOMAIN chars |-> DigitOf[chars[i]]]

\* The number that digits to a base stand for.
Radix(base, digits) ==
  LET read[k \in 0..Len(digits)] == IF k = 0 THEN 0 ELSE base * read[k - 1] + digits[k]
  IN read[Len(digits)]

Number(digits) == Radix(16, digits)
MAX_U256 == Number([i \in 1..WordDigits |-> 15])

lower(c) ==
  CASE c = "A" -> "a" [] c = "B" -> "b" [] c = "C" -> "c" [] c = "D" -> "d" [] c = "E" -> "e"
    [] c = "F" -> "f" [] OTHER -> c

lowercase(chars) == [i \in DOMAIN chars |-> lower(chars[i])]

Rejected == [ok |-> FALSE]

\* strip_prefix of "0x" only: another prefix stays, and is not hexadecimal.
Strip0x(text) == IF text.prefix = "0X" THEN <<"0", "X">> \o text.chars ELSE text.chars

\* Handle::parse, which strips either prefix.
Handle_parse(text) ==
  IF Len(text.chars) # WordDigits \/ ~IsHex(text.chars) THEN Rejected
  ELSE [ok |-> TRUE, u256 |-> Number(Digits(text.chars)),
        hex |-> [prefix |-> "0x", chars |-> lowercase(text.chars)]]

\* hex::decode: an even number of digits, two to a byte.
decode(chars) ==
  IF ~IsHex(chars) \/ Len(chars) % 2 = 1 THEN Rejected
  ELSE [ok |-> TRUE, bytes |-> [i \in 1..(Len(chars) \div 2) |->
          16 * DigitOf[chars[2 * i - 1]] + DigitOf[chars[2 * i]]]]

\* Faulty variant: a long handle is cut and a short one padded, as upstream.
ParseCtHashPads(text) ==
  LET n == Len(text.chars) IN
    decode([i \in 1..WordDigits |-> IF i <= n THEN text.chars[i] ELSE "0"])

\* signing::service::parse_ct_hash, which strips either prefix too.
parse_ct_hash(text) ==
  LET decoded == decode(text.chars) IN
    IF decoded.ok /\ Len(decoded.bytes) = WordDigits \div 2 THEN decoded ELSE Rejected

\* Faulty variant: a short value is padded on the right.
ParseB32PadsRight(text) ==
  LET chars == Strip0x(text) IN
    IF Len(chars) > WordDigits THEN Rejected
    ELSE decode([i \in 1..WordDigits |-> IF i <= Len(chars) THEN chars[i] ELSE "0"])

\* permit::parse_b32: left-padded, so that the empty text is zero.
parse_b32(text) ==
  LET chars == Strip0x(text)
      pad == WordDigits - Len(chars)
  IN IF Len(chars) > WordDigits THEN Rejected
     ELSE decode([i \in 1..WordDigits |-> IF i <= pad THEN "0" ELSE chars[i - pad]])

\* permit::parse_addr: empty is the zero address, otherwise all of it.
parse_addr(text) ==
  LET chars == Strip0x(text) IN
    IF chars = << >> THEN [ok |-> TRUE, bytes |-> [i \in 1..(AddressDigits \div 2) |-> 0]]
    ELSE IF Len(chars) # AddressDigits THEN Rejected ELSE decode(chars)

\* An unsigned integer of the body, at most max.
unsigned(n, max) == IF n \in 0..max THEN [ok |-> TRUE, number |-> n] ELSE Rejected

\* A uint256 as a text: decimal unless it has a prefix, and any number of
\* digits as long as the number fits.
u256_str(text) ==
  LET radix == IF text.prefix = "" THEN 10 ELSE 16
      digits == Digits(text.chars)
      value == Radix(radix, digits)
  IN IF ~IsHex(text.chars) THEN Rejected
     ELSE IF (\E i \in DOMAIN digits : digits[i] >= radix) \/ value > MAX_U256
     THEN Rejected ELSE [ok |-> TRUE, number |-> value]

\* u256_flex::deserialize.
u256_flex(d) ==
  CASE d.kind = "none" -> [ok |-> TRUE, number |-> 0]
    [] d.kind = "num" -> unsigned(d.num, MAX_U64)
    [] d.kind = "str" -> u256_str(d.str)

\* hex_serde: a signature, of any length.
hex_serde(text) == decode(Strip0x(text))

\* commitment::parse_version: one spelling of a version, and no other.
parse_version(text) ==
  IF \/ text.prefix # "0x"
     \/ Len(text.chars) # WordDigits
     \/ lowercase(text.chars) # text.chars
  THEN Rejected ELSE decode(text.chars)

\* AcpData as serde reads it: what is not a text is converted on the way in.
deserialize(p) ==
  LET expiration == unsigned(p.expiration, MAX_U64)
      revoker_data == u256_flex(p.revoker_data)
      scope == unsigned(p.scope, 255)
      issuer_signature == hex_serde(p.issuer_signature)
      recipient_signature == hex_serde(p.recipient_signature)
  IN IF \/ ~expiration.ok \/ ~revoker_data.ok \/ ~scope.ok
        \/ ~issuer_signature.ok \/ ~recipient_signature.ok
     THEN Rejected
     ELSE [ok |-> TRUE,
           acp |-> [p EXCEPT !.expiration = expiration.number,
                             !.revoker_data = revoker_data.number, !.scope = scope.number,
                             !.issuer_signature = issuer_signature.bytes,
                             !.recipient_signature = recipient_signature.bytes]]

\* TryFrom<&AcpData> for ACP: the lists are bounded before anything is read.
try_from(p) ==
  LET contracts == [i \in DOMAIN p.contracts |-> parse_addr(p.contracts[i])]
      handles == [i \in DOMAIN p.handles |-> parse_b32(p.handles[i])]
      issuer == parse_addr(p.issuer)
      recipient == parse_addr(p.recipient)
      revoker_contract == parse_addr(p.revoker_contract)
      sealing_key == parse_b32(p.sealing_key)
      All(parsed) == \A i \in DOMAIN parsed : parsed[i].ok
      Bytes(parsed) == [i \in DOMAIN parsed |-> parsed[i].bytes]
  IN IF Len(p.contracts) > MAX_SCOPE_ENTRIES \/ Len(p.handles) > MAX_SCOPE_ENTRIES
     THEN Rejected
     ELSE IF \/ ~All(contracts) \/ ~All(handles) \/ ~issuer.ok \/ ~recipient.ok
             \/ ~revoker_contract.ok \/ ~sealing_key.ok
     THEN Rejected
     ELSE [ok |-> TRUE, issuer |-> issuer.bytes, expiration |-> p.expiration,
           recipient |-> recipient.bytes, revoker_data |-> p.revoker_data,
           revoker_contract |-> revoker_contract.bytes, scope |-> p.scope,
           contracts |-> Bytes(contracts), handles |-> Bytes(handles),
           sealing_key |-> sealing_key.bytes, issuer_signature |-> p.issuer_signature,
           recipient_signature |-> p.recipient_signature]
=============================================================================
