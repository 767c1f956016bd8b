------------------------------- MODULE Answers -------------------------------
(***************************************************************************)
(* What the service hands out once a value is decrypted: the type-sized    *)
(* bytes of src/decrypt.rs, the box of src/seal.rs, and the signatures of  *)
(* src/signing/ over an answer.                                            *)
(***************************************************************************)
EXTENDS Integers, Sequences

\* v, and what is left of it as its low bytes are taken off one by one.
Quotients(v, n) ==
  LET quotient[k \in 0..n] == IF k = 0 THEN v ELSE quotient[k - 1] \div 256 IN quotient

\* v is a number of n bytes.
Fits(v, n) == v \in Nat /\ Quotients(v, n)[n] = 0

\* The n low bytes of v, big-endian.
to_be_bytes(v, n) == [i \in 1..n |-> Quotients(v, n)[n - i] % 256]

width(ty) ==
  CASE ty \in {0, 2} -> 1 [] ty = 3 -> 2 [] ty = 4 -> 4
    [] ty = 5 -> 8 [] ty = 6 -> 16 [] ty = 7 -> 20

encode(ty, v) == to_be_bytes(v, width(ty))

\* A run of n bytes derived from a seed: a key, a nonce, a tag.
Material(seed, n) == [i \in 1..n |-> (seed + i) % 256]

\* DryocBox: a 16-byte tag, then as many bytes as the plaintext has.
CryptoBox(plaintext, pk, nonce) ==
  Material(pk + nonce, 16) \o [i \in DOMAIN plaintext |-> (plaintext[i] + pk + nonce) % 256]

\* seal_to_user, with a fresh key pair and a fresh nonce.
seal_to_user(recipient, plaintext, pk, nonce) ==
  IF Len(recipient) # 32 THEN [err |-> "BadKeyLength"]
  ELSE IF \A i \in DOMAIN recipient : recipient[i] = 0 THEN [err |-> "DegenerateKey"]
  ELSE [err |-> "none", data |-> CryptoBox(plaintext, pk, nonce),
        public_key |-> Material(pk, 32), nonce |-> Material(nonce, 24)]

\* The end of either preimage.
Context(a) == to_be_bytes(a.ty, 4) \o to_be_bytes(a.chain, 8) \o Material(a.hash, 32)

sign_decrypt(a) == to_be_bytes(a.value, 32) \o Context(a)

sign_sealoutput(a, sealed) ==
  sealed.data \o sealed.public_key \o sealed.nonce \o Context(a)

\* Faulty variant: the parity is the one of the unnormalised signature.
SignPrehashKeepsParity(s, recid, order) ==
  [s |-> IF 2 * s > order THEN order - s ELSE s, recid |-> recid]

\* sign_prehash: low-S, and the parity that goes with it.
sign_prehash(s, recid, order) ==
  [s |-> IF 2 * s > order THEN order - s ELSE s,
   recid |-> [recid EXCEPT !.odd = @ # (2 * s > order)]]

\* SignatureVFormat, over RecoveryId::to_byte: the parity of y, and whether x
\* was reduced by the order.
convert_v(format, recid) ==
  (IF recid.odd THEN 1 ELSE 0) + (IF recid.reduced THEN 2 ELSE 0)
    + (IF format = "evm" THEN 27 ELSE 0)
=============================================================================
