--------------------------- MODULE MCDecryptPath ---------------------------
(* Small instances of DecryptPath for TLC. *)
EXTENDS DecryptRefinement

CONSTANTS h1, h2, c1, c2, p1, x, y, b1, b2

MCKeccak == (b1 :> x) @@ (b2 :> y)
OneKeccak == b1 :> x

Body(op, api, p) ==
  [op |-> op, api |-> api, key |-> <<c1, h1>>, form |-> "good", acp |-> p,
   acp_form |-> "good", seal_key |-> "good"]

\* One caller with a permission, one without.
TwoCallers == {Body("decrypt", "v2", NoAcp), Body("decrypt", "v1", p1)}
V2Callers == {Body("decrypt", "v2", NoAcp), Body("sealoutput", "v2", p1),
              Body("decrypt", "v1", NoAcp)}
\* A caller with a permission, and one whose handle does not parse.
OneCaller == {Body("decrypt", "v2", p1),
              [Body("decrypt", "v2", p1) EXCEPT !.form = "bad_handle"]}
CtDown == {"ct_source_timeout"}

\* Every kind of body: malformed ones, a chain the verifier does not know, a
\* permission or a sealing key that does not parse.
AllBodies ==
  LET good == Body("sealoutput", "v2", p1) IN
  {Body(op, api, p1) : op \in {"decrypt", "sealoutput"}, api \in {"v1", "v2"}}
    \cup {Body("decrypt", "v2", NoAcp), Body("sealoutput", "v1", NoAcp),
          [good EXCEPT !.form = "rejected"], [good EXCEPT !.form = "bad_handle"],
          [good EXCEPT !.acp_form = "bad"], [good EXCEPT !.seal_key = "bad"],
          [good EXCEPT !.key = <<c2, h1>>], [good EXCEPT !.key = <<c1, h2>>]}

Row(b, ty, zone, compact, gzipped) ==
  [bytes |-> b, ty |-> ty, zone |-> zone, compact |-> compact, gzipped |-> gzipped]

\* The row the engine stored and one with other bytes.
EitherBytes == {Row(b1, "u8", 0, FALSE, TRUE), Row(b2, "u8", 0, FALSE, TRUE)}
OneRow == {Row(b1, "u8", 0, FALSE, TRUE)}

\* Every label ct-server could put on the bytes.
AllRows == {Row(b1, ty, z, cp, gz) : ty \in WireTypes, z \in Zones,
                                     cp \in BOOLEAN, gz \in BOOLEAN}

AllFaults == AcpFaults \cup CtFaults \cup {"seal_failed", "signing_failed"}

AllU8 == [h \in Handles |-> "u8"]
AllZone0 == [h \in Handles |-> 0]
MixedTypes == (h1 :> "u8") @@ (h2 :> "u16")
MixedZones == (h1 :> 0) @@ (h2 :> 1)

Symmetry == Permutations(Tasks)
============================================================================
