--------------------------- MODULE EventRunsProofs ---------------------------
(***************************************************************************)
(* What EventDispatchProofs shows of dispatches that end within their      *)
(* lease, of the instance of MCEventRuns that keeps its leases.            *)
(***************************************************************************)
EXTENDS MCEventRuns, TLAPS

\* There is someone to dispatch, and the lease of that instance outlasts a dispatch.
KeepsLeases == Callers # {} /\ 2 > MaxRun

LEMMA KeptAssumptions ==
    ASSUME KeepsLeases
    PROVE  /\ NoOne \notin Kept!Dispatchers
           /\ 2 \in Nat \ {0} /\ 4 \in Nat
           /\ Kept!LeaseOutlasts
           /\ \A n \in 1..MaxAttempts : Kept!backoffSeconds(n) \in 1..BackoffCap
<1>1. (CHOOSE c \in Callers : TRUE) \in Callers
  BY DEF KeepsLeases
<1>2. NoOne \notin Kept!Dispatchers
  BY <1>1, DispatchersAssumption DEF Dispatchers, Kept!Dispatchers
<1>3. \A n : Kept!backoffSeconds(n) = backoffSeconds(n)
  BY DEF backoffSeconds, Kept!backoffSeconds
<1>. QED
  BY <1>2, <1>3, BackoffAssumption DEF Kept!LeaseOutlasts, KeepsLeases

\* What the run does to the instance that keeps its leases is what EventDispatch allows.
LEMMA RunsKept == RunSpec => Kept!Spec
<1>1. RunInit => Kept!Init
  BY DEF RunInit
<1>2. [RunNext]_<<focus, vars, kept>> => [Kept!Next]_(Kept!vars)
  BY DEF RunNext, kept, Kept!vars
<1>. QED
  BY <1>1, <1>2, PTL DEF RunSpec, Kept!Spec

\* Where dispatches end within their lease, the row is recorded, processed and given up as the
\* Outbox promises.
THEOREM KeptImplementsOutbox == ASSUME KeepsLeases PROVE RunSpec => KeptActsAsOutbox
<1>1. Kept!Spec => Kept!ActsAsOutbox
  BY Kept!DispatchImplementsOutbox, KeptAssumptions, HandlersAssumption, TimesAssumption
<1>. QED
  BY <1>1, RunsKept, PTL DEF KeptActsAsOutbox

\* Where dispatches end within their lease, a handler on the record is not run again.
THEOREM KeptRecordedHandlersRest == ASSUME KeepsLeases PROVE RunSpec => KeptRunsRecordedOnce
<1>1. Kept!Spec => Kept!RunsRecordedOnce
  BY Kept!RecordedHandlersRest, KeptAssumptions, HandlersAssumption, TimesAssumption
<1>. QED
  BY <1>1, RunsKept, PTL DEF KeptRunsRecordedOnce
=============================================================================
