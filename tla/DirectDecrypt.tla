---------------------------- MODULE DirectDecrypt ----------------------------
(***************************************************************************)
(* src/direct_decrypt.rs: the decryption of a compressed ciphertext with   *)
(* the small LWE key.  Arithmetic is that of words of Word bits.  Until    *)
(* decode_block has checked it, every field of a block is whatever the     *)
(* ciphertext source sent.                                                 *)
(***************************************************************************)
EXTENDS Integers, SequencesExt

CONSTANTS
  Word,            \* bits of a machine word: 64 in the code
  CT_SIZE_LIMIT    \* bytes safe_deserialize reads at most

ASSUME DirectDecryptAssumption == Word \in Nat \ {0} /\ CT_SIZE_LIMIT \in Nat

\* A shift by n.
Pow2[n \in Nat] == IF n = 0 THEN 1 ELSE 2 * Pow2[n - 1]

Total(s) ==
  LET sum[k \in 0..Len(s)] == IF k = 0 THEN 0 ELSE sum[k - 1] + s[k] IN sum[Len(s)]

Err(reason) == [err |-> reason, value |-> 0]
Ok(v) == [err |-> "none", value |-> v]

\* What safe_deserialize can yield: the layouts of tfhe, field by field.
\* The words are those unpack yields, as many as the block claims.
BlockMirror ==
  {b \in [msg : Nat, carry : Nat, pattern : {"KeyswitchBootstrap", "BootstrapKeyswitch"},
          form : {"Classic", "MultiBit"}, dim : Nat, log : Nat, initial_len : Nat,
          packed_len : Nat, words : Seq(Nat)] : Len(b.words) = b.initial_len}

GenericMirror ==
  [paired : Seq(BlockMirror), last : {s \in Seq(BlockMirror) : Len(s) <= 1}]

UintMirror ==
  [kind : {"uint"}, form : {"Seeded", "ModulusSwitched"}, size : Nat, radix : GenericMirror]

BoolMirror ==
  [kind : {"bool"}, form : {"Seeded", "ModulusSwitched"}, size : Nat, block : BlockMirror]

\* The discriminants of the wire that name a supported type.
EncryptionTypes == {0, 2, 3, 4, 5, 6, 7}

from_i32(v) == IF v \in EncryptionTypes THEN Ok(v) ELSE Err("UnsupportedType")

bits(ty) ==
  CASE ty = 0 -> 1 [] ty = 2 -> 8 [] ty = 3 -> 16 [] ty = 4 -> 32
    [] ty = 5 -> 64 [] ty = 6 -> 128 [] ty = 7 -> 160

\* The key that decrypts, taken once from the client key at boot.
from_client_key(ck) ==
  IF ck.pattern = "Standard"
  THEN [err |-> "none", key |-> [s |-> ck.s, msg |-> ck.msg, carry |-> ck.carry]]
  ELSE [err |-> "unsupported atomic pattern", key |-> << >>]

\* KeyStore: one key, for zone 0; a client key it cannot use stops the boot.
load(ck) ==
  LET direct == from_client_key(ck) IN
    IF direct.err # "none" THEN [err |-> "KeyLoad"] ELSE [err |-> "none", zone_0 |-> direct.key]

direct_key(store, zone) == IF zone = 0 THEN {store.zone_0} ELSE {}

\* The checks of decode_block in their order, each with what it refuses.
Checks(key, b) ==
  << <<b.msg = key.msg /\ b.carry = key.carry, "ModuliMismatch">>,
     <<b.pattern = "KeyswitchBootstrap", "WrongAtomicPattern">>,
     <<b.form = "Classic", "multi-bit">>,
     <<b.dim = Len(key.s), "DimensionMismatch">>,
     <<b.log \in 1..(Word - 1), "invalid modulus log">>,
     <<b.initial_len = b.dim + 1, "PackedLenMismatch">>,
     <<b.packed_len = (b.initial_len * b.log + Word - 1) \div Word, "PackedLenMismatch">> >>

Fault(key, b) ==
  LET failed == {i \in DOMAIN Checks(key, b) : ~Checks(key, b)[i][1]} IN
    IF failed = {} THEN "none" ELSE Checks(key, b)[Min(failed)][2]

\* Faulty variant: the value is rounded down.
RoundDown(dec, space, log) == ((dec * space) \div Pow2[log]) % space

\* round(dec * space / 2^log) mod space, in a double word.
Round(dec, space, log) == ((dec * space + Pow2[log - 1]) \div Pow2[log]) % space

\* The cleartext of a block, its padding bit included.
decode_block(key, b) ==
  IF Fault(key, b) # "none" THEN Err(Fault(key, b))
  ELSE LET n == Len(key.s)
           dot == Total([i \in 1..n |-> b.words[i] * key.s[i]]) % Pow2[Word]
           dec == ((b.words[n + 1] - dot) % Pow2[Word]) % Pow2[b.log]
       IN Ok(Round(dec, 2 * key.msg * key.carry, b.log))

next_multiple_of(n, k) == ((n + k - 1) \div k) * k

\* Faulty variant: the width of the ciphertext is not compared.
TooWideNever(digits, per_digit, max_bits) == FALSE

TooWide(digits, per_digit, max_bits) ==
  per_digit * Len(digits) > next_multiple_of(max_bits, per_digit)

\* The digits of paired blocks, low one first, then of the odd last block.
PairOf(key, m) == <<m % key.msg, (m \div key.msg) % key.msg>>

RadixDigits(key, radix) ==
  FlattenSeq([i \in DOMAIN radix.paired |-> PairOf(key, decode_block(key, radix.paired[i]).value)])
  \o [i \in DOMAIN radix.last |-> decode_block(key, radix.last[i]).value % key.msg]

\* value |= digit << shift: the digits do not overlap.
Positional(digits, per_digit) ==
  Total([i \in DOMAIN digits |-> digits[i] * Pow2[per_digit * (i - 1)]])

decode_radix(key, radix, max_bits) ==
  LET widths == {k \in 1..Word : Pow2[k] = key.msg}
      per_digit == CHOOSE k \in widths : TRUE
      blocks == radix.paired \o radix.last
      failed == {i \in DOMAIN blocks : decode_block(key, blocks[i]).err # "none"}
      digits == RadixDigits(key, radix)
  IN IF widths = {} THEN Err("invalid message modulus")
     ELSE IF failed # {} THEN decode_block(key, blocks[Min(failed)])
     ELSE IF digits = << >> THEN Err("empty radix ciphertext")
     ELSE IF TooWide(digits, per_digit, max_bits) THEN Err("WidthExceeded")
     ELSE Ok(Positional(digits, per_digit))

decrypt_bool(key, ct) ==
  LET r == decode_block(key, ct.block) IN
    IF r.err # "none" THEN r ELSE Ok(IF r.value % key.msg # 0 THEN 1 ELSE 0)

\* to_mirror: the name in the header tells booleans from integers, not widths.
Readable(ty, ct) ==
  ct.size <= CT_SIZE_LIMIT /\ ct.kind = IF ty = 0 THEN "bool" ELSE "uint"

decrypt_compressed(key, ty, ct) ==
  IF ~Readable(ty, ct) THEN Err("Deserialize")
  ELSE IF ct.form = "Seeded" THEN Err("seeded")
  ELSE IF ty = 0 THEN decrypt_bool(key, ct)
  ELSE decode_radix(key, ct.radix, bits(ty))
=============================================================================
