------------------------------- MODULE Health -------------------------------
(***************************************************************************)
(* The dependency health of src/metrics/health.rs: the probe loop of       *)
(* src/main.rs writes one atomic per configured dependency, and metric     *)
(* collections, on another thread, read them one by one for the verdict    *)
(* teecryptor_healthy.                                                     *)
(***************************************************************************)
EXTENDS Integers, Sequences

CONSTANTS
  Dependencies,    \* what the deployment configures, in the order of Health
  Singletons       \* how many of them are named; the rest are ACL chains

ASSUME HealthAssumption ==
  /\ Dependencies \in Seq(STRING)
  /\ \A i, j \in DOMAIN Dependencies : Dependencies[i] = Dependencies[j] => i = j
  /\ Singletons \in 1..Len(Dependencies)

VARIABLES
  answers,         \* would the dependency answer a probe in time?
  state,           \* its atomic
  todo,            \* dependencies the current round has still to probe
  next,            \* position of the collection in its scan, 0 when none runs
  verdict,         \* the value of teecryptor_healthy last published
  lastUp,          \* history: dependencies that answered their last probe
  seenUp           \* history: those in lastUp at some instant of the scan

healthVars == <<answers, state, todo, next, verdict, lastUp, seenUp>>

Deps == {Dependencies[i] : i \in DOMAIN Dependencies}

HealthTypeOK ==
  /\ answers \in [Deps -> BOOLEAN]
  /\ state \in [Deps -> {"UNPROBED", "DOWN", "UP"}]
  /\ todo \subseteq Deps
  /\ next \in 0..Len(Dependencies)
  /\ verdict \in {"none", "0", "1"}
  /\ lastUp \subseteq Deps /\ seenUp \subseteq Deps

\* Faulty variant: up until proven down.
HealthInitUp ==
  /\ answers \in [Deps -> BOOLEAN]
  /\ state = [d \in Deps |-> "UP"]
  /\ todo = {}
  /\ next = 0
  /\ verdict = "none"
  /\ lastUp = {} /\ seenUp = {}

HealthInit ==
  /\ answers \in [Deps -> BOOLEAN]
  /\ state = [d \in Deps |-> "UNPROBED"]
  /\ todo = {}
  /\ next = 0
  /\ verdict = "none"
  /\ lastUp = {} /\ seenUp = {}

\* What the history records of a probe of d.
Observe(d) ==
  /\ lastUp' = IF answers[d] THEN lastUp \cup {d} ELSE lastUp \ {d}
  /\ seenUp' = IF next = 0 THEN seenUp ELSE seenUp \cup lastUp'

\* ticker.tick(): a round begins when the last one is over.
RoundBegins ==
  /\ todo = {}
  /\ todo' = Deps
  /\ UNCHANGED <<answers, state, next, verdict, lastUp, seenUp>>

\* Named dependencies are probed in their order, then the chains in any.
Due(d) ==
  /\ d \in todo
  /\ \A i, j \in DOMAIN Dependencies :
       d = Dependencies[j] /\ Dependencies[i] \in todo /\ i < j => i > Singletons

\* One probe, bounded by its timeout, and the store of its result.
Probe(d) ==
  /\ Due(d)
  /\ state' = [state EXCEPT ![d] = IF answers[d] THEN "UP" ELSE "DOWN"]
  /\ todo' = todo \ {d}
  /\ Observe(d)
  /\ UNCHANGED <<answers, next, verdict>>

\* A scrape or a push asks for the verdict.
CollectBegins ==
  /\ next = 0
  /\ next' = 1
  /\ seenUp' = lastUp
  /\ UNCHANGED <<answers, state, todo, verdict, lastUp>>

\* healthy(): one load, in order; all() stops at the first that is not UP.
CollectLoads ==
  /\ next > 0
  /\ LET up == state[Dependencies[next]] = "UP" IN
       /\ next' = IF up /\ next < Len(Dependencies) THEN next + 1 ELSE 0
       /\ verdict' = IF ~up THEN "0"
                     ELSE IF next = Len(Dependencies) THEN "1" ELSE verdict
  /\ UNCHANGED <<answers, state, todo, lastUp, seenUp>>

\* A dependency dies or comes back.
Flip(d) ==
  /\ answers' = [answers EXCEPT ![d] = ~@]
  /\ UNCHANGED <<state, todo, next, verdict, lastUp, seenUp>>

HealthNext ==
  \/ RoundBegins
  \/ \E d \in Deps : Probe(d) \/ Flip(d)
  \/ CollectBegins
  \/ CollectLoads

HealthSpec == HealthInit /\ [][HealthNext]_healthVars

-----------------------------------------------------------------------------
(* Properties *)

(* The process never reports itself healthy unless every dependency it is  *)
(* configured with had answered its last probe at some instant while the   *)
(* verdict was being taken, though probes rewrite the atomics under the    *)
(* scan; before the first round it is never healthy.                       *)
HealthyIsEarned == verdict = "1" /\ next = 0 => seenUp = Deps
=============================================================================
