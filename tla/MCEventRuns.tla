------------------------------ MODULE MCEventRuns ------------------------------
(***************************************************************************)
(* Two instances of EventDispatch in one run: one whose leases may run out   *)
(* under a dispatch, and one whose dispatches end within their lease, as the *)
(* deployment means them to, with more calls.  `focus` is the one a          *)
(* behaviour is about, and the other stays as it was.                        *)
(***************************************************************************)
EXTENDS MCEventDispatch

VARIABLES
    focus,
    \* of the instance that keeps its leases
    kRow, kDisp, kQueue, kDone, kOwner, kCalls

kept == <<kRow, kDisp, kQueue, kDone, kOwner, kCalls>>

\* An instance of the module with the proofs, which has all of EventDispatch: its theorems are
\* those of the dispatches that keep their leases.
Kept == INSTANCE EventDispatchProofs
    WITH Callers <- {CHOOSE c \in Callers : TRUE}, Lease <- 2, MaxCalls <- 4,
         row <- kRow, disp <- kDisp, queue <- kQueue, done <- kDone, owner <- kOwner,
         calls <- kCalls

RunInit == focus \in {"overrun", "kept"} /\ Init /\ Kept!Init

RunNext ==
    \/ focus = "overrun" /\ Next /\ UNCHANGED <<focus, kept>>
    \/ focus = "kept" /\ Kept!Next /\ UNCHANGED <<focus, vars>>

RunSpec == RunInit /\ [][RunNext]_<<focus, vars, kept>>

\* The fairness of EventDispatch, of the instance that keeps its leases.
RunFairness ==
    /\ WF_kept(focus = "kept" /\ Kept!Tick)
    /\ \A d \in Kept!Dispatchers :
        WF_kept(focus = "kept" /\ Kept!Proceed(d)) /\ WF_kept(focus = "kept" /\ Kept!Sweep(d))

FairRunSpec == RunSpec /\ RunFairness

\* While leases are kept: the row is recorded, processed and given up as the Outbox promises.
KeptActsAsOutbox == Kept!ActsAsOutbox

\* While leases are kept: a handler on the record is not run again.
KeptRunsRecordedOnce == Kept!RunsRecordedOnce

\* While leases are kept: every event ends processed or given up.
KeptSettles == focus = "kept" => Kept!EventSettles
=============================================================================
