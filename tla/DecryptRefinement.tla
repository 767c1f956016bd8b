------------------------- MODULE DecryptRefinement -------------------------
(* The request path implements Decryptor. *)
EXTENDS DecryptPath

\* The code's many awaits are one open phase to the client.
Phase(r) ==
  CASE pc[r] = "new"     -> "idle"
    [] pc[r] = "done"    -> "answered"
    [] pc[r] = "dropped" -> "gone"
    [] OTHER             -> "open"

\* All a client learns from a response: nothing yet, no, or the plaintext of
\* the bytes that were decrypted.
Told(r) ==
  CASE outcome[r] = "none" -> "none"
    [] outcome[r] = "ok"   -> ct[r].bytes
    [] OTHER               -> "refused"

Promise == INSTANCE Decryptor WITH
  AclEnforced <- AcpGate,
  Committing  <- CommitmentGate /\ ~WarnOnly,
  wiped       <- redeploys # 0,
  asked       <- input,
  phase       <- [r \in Requests |-> Phase(r)],
  entitled    <- authorised,
  answer      <- [r \in Requests |-> Told(r)]

(* Whatever the gates, caches, permits and disconnects do inside, a client *)
(* sees a Decryptor: no plaintext reaches a request the ACL never allowed  *)
(* or of bytes other than the committed ones, and no answer changes.       *)
ImplementsDecryptor == Promise!DSpec
=============================================================================
