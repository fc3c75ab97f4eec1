---------------------------- MODULE EventDispatch ----------------------------
(***************************************************************************)
(* One row of the events outbox and the dispatchers that run its handlers: *)
(* the request that committed it, the sweeper, the queue's consumer and an  *)
(* admin's "run it now" (events/dispatcher.ts, events/executor.ts,          *)
(* events/live-queue.ts, packages/events).                                  *)
(*                                                                         *)
(* Every statement on the row is an action: other dispatchers come between  *)
(* them, and a lease runs out while a handler works.  Times are kept as the *)
(* distance to the present, so the clock needs no bound.                    *)
(***************************************************************************)
EXTENDS Integers, FiniteSets

CONSTANTS
    Sweepers,     \* dispatchers the Cron Trigger runs
    Callers,      \* dispatchers of requests, of the queue's consumer and of admins
    NoOne,        \* no claim token
    Handlers,     \* the handlers of the event's type: naturals, run in this order
    Live,         \* the handlers a request may leave to the queue
    MaxAttempts,
    Lease,        \* LEASE_MS
    BackoffBase, BackoffCap,  \* 30 and 3600 seconds
    MaxRun,       \* how long one dispatch may take
    MaxMessages,  \* bound of the references on the queue
    MaxCalls      \* bound of requests, forced runs, repeated deliveries and crashes together

Dispatchers == Sweepers \cup Callers

ASSUME DispatchersAssumption == NoOne \notin Dispatchers
ASSUME HandlersAssumption == Handlers \subseteq Nat /\ Live \subseteq Handlers
ASSUME TimesAssumption ==
    /\ MaxAttempts \in Nat \ {0} /\ Lease \in Nat \ {0} /\ MaxRun \in Nat
    /\ BackoffBase \in Nat \ {0} /\ BackoffCap \in Nat \ {0}
    /\ MaxMessages \in Nat /\ MaxCalls \in Nat

VARIABLES
    row,    \* the events row
    disp,   \* Dispatchers -> the dispatch it runs
    queue,  \* references to the event on the queue
    done,   \* handlers whose effect has happened at least once
    owner,  \* the dispatcher that claimed the row last
    calls   \* what is left of MaxCalls

vars == <<row, disp, queue, done, owner, calls>>

\* No lease, and a lease that ran out before any running dispatch began: both may be claimed.
Free == -MaxRun

Waits == -MaxRun..BackoffCap
Leases == -MaxRun..Lease

RowStates ==
    [processed: BOOLEAN, failed: BOOLEAN, attempts: 0..MaxAttempts, handledBy: SUBSET Handlers,
     wait: Waits,    \* nextAttemptAt, from now
     lease: Leases,  \* claimedUntil, from now
     token: Dispatchers \cup {NoOne}]

Idle == [kind |-> "idle", step |-> "idle", fenced |-> FALSE, routed |-> FALSE, age |-> 0,
         todo |-> {}, left |-> FALSE, failed |-> FALSE, saw |-> 0]

DispatchStates ==
    [kind: {"idle", "request", "sweep", "consumer", "admin"},
     step: {"idle", "called", "running", "handled"},
     fenced: BOOLEAN,
     routed: BOOLEAN,              \* a request whose live handlers go to the queue
     age: 0..MaxRun,               \* since it read `now`
     todo: SUBSET Handlers,        \* its handlers that have not run
     left: BOOLEAN,                \* some are left to others
     failed: BOOLEAN,
     saw: 0..MaxAttempts]          \* attempts, as claimed

TypeOK ==
    /\ row \in RowStates
    /\ disp \in [Dispatchers -> DispatchStates]
    /\ queue \in 0..MaxMessages
    /\ done \subseteq Handlers
    /\ owner \in Dispatchers \cup {NoOne}
    /\ calls \in 0..MaxCalls

-----------------------------------------------------------------------------
(* Times, claims and ends. *)

backoffSeconds(n) ==
    LET doubled == BackoffBase * 2 ^ (n - 1) IN IF doubled < BackoffCap THEN doubled ELSE BackoffCap

ASSUME BackoffAssumption == \A n \in 1..MaxAttempts : backoffSeconds(n) \in 1..BackoffCap

Unsettled == ~row.processed /\ ~row.failed

\* Mistake: the sweeper retries, and never picks up what was not tried once.
DueAgain(age) == Unsettled /\ row.attempts > 0 /\ row.wait <= -age /\ row.lease <= -age

\* Mistake: a row on its first attempt is claimed without a look at its lease.
ClaimableHeld(age) == Unsettled /\ (row.attempts = 0 \/ (row.wait <= -age /\ row.lease <= -age))

\* What the sweeper looks for, and what a dispatch may claim, by a clock read `age` ago.
Due(age) == Unsettled /\ row.wait <= -age /\ row.lease <= -age
Claimable(age) == Unsettled /\ (row.attempts = 0 \/ row.wait <= -age) /\ row.lease <= -age

\* Only the consumer is given a clock and fenced; everyone else works with the `now` of its call.
Behind(d) == IF disp[d].kind = "consumer" THEN 0 ELSE disp[d].age

Mine(d) ==
    IF disp[d].kind = "consumer" THEN Live
    ELSE IF disp[d].routed THEN Handlers \ Live
    ELSE Handlers

First(S) == CHOOSE h \in S : \A k \in S : h <= k

\* Mistake: the update asks that the row has a token, not that it has this one.
OwnsAny(d) == disp[d].fenced => row.token # NoOne

\* The condition of every update after the claim: an unfenced dispatch asks for nothing but the id.
Owns(d) == disp[d].fenced => row.token = d

\* More(n): the queue with n more references, or as many as it is modelled with.
More(n) == IF queue + n <= MaxMessages THEN queue + n ELSE MaxMessages

\* settle: a consumer's retry comes again, unless the delivery was the last one; all else is
\* acknowledged.
End(d, again) ==
    /\ disp' = [disp EXCEPT ![d] = Idle]
    /\ queue' \in IF disp[d].kind = "consumer" /\ again THEN {queue, More(1)} ELSE {queue}

Start(d, kind, fenced, routed) ==
    /\ disp[d] = Idle
    /\ disp' = [disp EXCEPT ![d] = [Idle EXCEPT !.kind = kind, !.step = "called",
                                                !.fenced = fenced, !.routed = routed]]

Spend == calls > 0 /\ calls' = calls - 1

-----------------------------------------------------------------------------
(* Who calls dispatchEvent. *)

\* dispatchEvents, after the write's answer; its flags say whether it is fenced and routed.
Request(d) ==
    /\ d \in Callers /\ Spend
    /\ \E fenced, routed \in BOOLEAN : Start(d, "request", fenced, routed)
    /\ UNCHANGED <<row, queue, done, owner>>

\* sweepEvents: what is due by the clock of the whole run.
Sweep(d) ==
    /\ d \in Sweepers
    /\ Due(0)
    /\ Start(d, "sweep", FALSE, FALSE)
    /\ UNCHANGED <<row, queue, done, owner, calls>>

\* One delivery of a reference.  The queue may deliver it once more.
Deliver(d) ==
    /\ d \in Callers /\ queue > 0
    /\ Start(d, "consumer", TRUE, FALSE)
    /\ \/ queue' = queue - 1 /\ UNCHANGED calls
       \/ Spend /\ UNCHANGED queue
    /\ UNCHANGED <<row, done, owner>>

\* forceEvent: makes the row due, and then dispatches it inline.  The admin's connection registers
\* no fencing and no queue.
forceEvent(d) ==
    /\ d \in Callers /\ Spend
    /\ ~row.processed /\ row.lease <= 0
    /\ row' = [row EXCEPT !.attempts = IF row.failed THEN 0 ELSE row.attempts,
                          !.failed = FALSE, !.wait = 0]
    /\ Start(d, "admin", FALSE, FALSE)
    /\ UNCHANGED <<queue, done, owner>>

-----------------------------------------------------------------------------
(* dispatchEvent. *)

\* The token is the claim's own; a dispatcher has one claim at a time, so its name stands for it.
\* A request may publish the reference here too (publishShadow), unless Release will.
Claim(d) ==
    LET unhandled == Handlers \ row.handledBy
        todo == unhandled \cap Mine(d)
        left == todo # unhandled IN
    /\ disp[d].step = "called"
    /\ Claimable(Behind(d))
    /\ row' = [row EXCEPT !.lease = Lease - Behind(d), !.token = IF disp[d].fenced THEN d ELSE NoOne]
    /\ disp' = [disp EXCEPT ![d].step = "running", ![d].todo = todo,
                            ![d].left = left, ![d].saw = row.attempts]
    /\ owner' = d
    /\ queue' \in IF disp[d].kind = "request" /\ ~(disp[d].routed /\ left) THEN {queue, More(1)}
                  ELSE {queue}
    /\ UNCHANGED <<done, calls>>

\* A consumer comes back to a row that is neither processed nor given up: someone else holds it.
Skip(d) ==
    /\ disp[d].step = "called"
    /\ ~Claimable(Behind(d))
    /\ End(d, Unsettled)
    /\ UNCHANGED <<row, done, owner, calls>>

HandlerSucceeds(d) ==
    /\ disp[d].step = "running" /\ disp[d].todo # {}
    /\ done' = done \cup {First(disp[d].todo)}
    /\ disp' = [disp EXCEPT ![d].step = "handled"]
    /\ UNCHANGED <<row, queue, owner, calls>>

\* It throws, or the update that would record it does.
HandlerFails(d) ==
    /\ disp[d].step \in {"running", "handled"} /\ disp[d].todo # {}
    /\ disp' = [disp EXCEPT ![d].step = "running", ![d].failed = TRUE,
                            ![d].todo = @ \ {First(@)}]
    /\ UNCHANGED <<row, queue, done, owner, calls>>

Mark(d) ==
    /\ disp[d].step = "handled" /\ Owns(d)
    /\ row' = [row EXCEPT !.handledBy = @ \cup {First(disp[d].todo)}]
    /\ disp' = [disp EXCEPT ![d].step = "running", ![d].todo = @ \ {First(@)}]
    /\ UNCHANGED <<queue, done, owner, calls>>

Finished(d) == disp[d].step = "running" /\ disp[d].todo = {}

\* A fenced dispatch finds that the row is someone else's: it stops.
Lost(d) ==
    /\ disp[d].step = "handled" \/ Finished(d)
    /\ ~Owns(d)
    /\ End(d, TRUE)
    /\ UNCHANGED <<row, done, owner, calls>>

\* Its handlers succeeded and some are left to others: the lease goes, and a request that routes
\* them publishes the reference, which may fail.
Release(d) ==
    /\ Finished(d) /\ Owns(d)
    /\ ~disp[d].failed /\ disp[d].left
    /\ row' = [row EXCEPT !.lease = Free, !.token = NoOne]
    /\ disp' = [disp EXCEPT ![d] = Idle]
    /\ queue' \in IF disp[d].routed THEN {queue, More(1)} ELSE {queue}
    /\ UNCHANGED <<done, owner, calls>>

\* Mistake: processed as soon as one's own handlers succeeded.
DoneMine(d) ==
    /\ Finished(d) /\ Owns(d) /\ ~disp[d].failed
    /\ row' = [row EXCEPT !.processed = TRUE, !.lease = Free, !.token = NoOne]
    /\ End(d, FALSE)
    /\ UNCHANGED <<done, owner, calls>>

Done(d) ==
    /\ Finished(d) /\ Owns(d)
    /\ ~disp[d].failed /\ ~disp[d].left
    /\ row' = [row EXCEPT !.processed = TRUE, !.lease = Free, !.token = NoOne]
    /\ End(d, FALSE)
    /\ UNCHANGED <<done, owner, calls>>

\* Mistake: one attempt more than the cap.
FailLater(d) ==
    LET attempts == disp[d].saw + 1
        exhausted == disp[d].saw >= MaxAttempts IN
    /\ Finished(d) /\ Owns(d)
    /\ disp[d].failed
    /\ row' = [row EXCEPT !.attempts = attempts, !.lease = Free, !.token = NoOne,
                          !.failed = exhausted \/ row.failed,
                          !.wait = IF exhausted THEN row.wait
                                   ELSE backoffSeconds(attempts) - Behind(d)]
    /\ End(d, ~exhausted)
    /\ UNCHANGED <<done, owner, calls>>

Fail(d) ==
    LET attempts == disp[d].saw + 1
        exhausted == attempts >= MaxAttempts IN
    /\ Finished(d) /\ Owns(d)
    /\ disp[d].failed
    /\ row' = [row EXCEPT !.attempts = attempts, !.lease = Free, !.token = NoOne,
                          !.failed = exhausted \/ row.failed,
                          !.wait = IF exhausted THEN row.wait
                                   ELSE backoffSeconds(attempts) - Behind(d)]
    /\ End(d, ~exhausted)
    /\ UNCHANGED <<done, owner, calls>>

\* The Worker is gone; a delivery it did not settle comes again.
Crash(d) ==
    /\ disp[d] # Idle /\ Spend
    /\ End(d, TRUE)
    /\ UNCHANGED <<row, done, owner>>

\* Time passes; no dispatch runs for longer than MaxRun.
Tick ==
    LET later(t) == IF t > -MaxRun THEN t - 1 ELSE t IN
    /\ \A d \in Dispatchers : disp[d] # Idle => disp[d].age < MaxRun
    /\ row' = [row EXCEPT !.wait = later(@), !.lease = later(@)]
    /\ disp' = [d \in Dispatchers |-> IF disp[d] = Idle THEN Idle ELSE [disp[d] EXCEPT !.age = @ + 1]]
    /\ UNCHANGED <<queue, done, owner, calls>>

Init ==
    /\ row = [processed |-> FALSE, failed |-> FALSE, attempts |-> 0, handledBy |-> {},
              wait |-> 0, lease |-> Free, token |-> NoOne]
    /\ disp = [d \in Dispatchers |-> Idle]
    /\ queue = 0 /\ done = {} /\ owner = NoOne /\ calls = MaxCalls

Proceed(d) ==
    \/ Claim(d) \/ Skip(d)
    \/ HandlerSucceeds(d) \/ HandlerFails(d) \/ Mark(d)
    \/ Lost(d) \/ Release(d) \/ Done(d) \/ Fail(d)

Next ==
    \/ Tick
    \/ \E d \in Dispatchers :
        Request(d) \/ Sweep(d) \/ Deliver(d) \/ forceEvent(d) \/ Proceed(d) \/ Crash(d)

Spec == Init /\ [][Next]_vars

\* A dispatch that has begun goes on, the Cron Trigger keeps firing, time passes.
Fairness ==
    /\ WF_vars(Tick)
    /\ \A d \in Dispatchers : WF_vars(Proceed(d)) /\ WF_vars(Sweep(d))

FairSpec == Spec /\ Fairness

-----------------------------------------------------------------------------
(* Properties. *)

\* An event is processed only when every one of its handlers has succeeded, whoever ran which,
\* however leases overlapped, and a handler is recorded only after it succeeded.
NothingSkipped == row.handledBy \subseteq done /\ (row.processed => done = Handlers)

Writes(d) == Mark(d) \/ Release(d) \/ Done(d) \/ Fail(d)

\* A fenced dispatch whose claim was taken over, by a fenced or an unfenced one, changes nothing
\* on the row any more (every update is conditional on the token, and every claim replaces it).
FencedLeavesAlone ==
    [][\A d \in Dispatchers : disp[d].fenced /\ Writes(d) => owner = d]_vars

\* The same of every dispatch, fenced or not.
TakenOverCannotFinish == [][\A d \in Dispatchers : Writes(d) => owner = d]_vars

\* While no dispatch outlives its lease, the row says one thing: given up exactly at the cap, and
\* never both processed and given up.
GivenUpAtTheCap ==
    /\ row.failed <=> row.attempts >= MaxAttempts
    /\ ~(row.failed /\ row.processed)

\* While no dispatch outlives its lease, a handler on the record is not run again.
RunsRecordedOnce ==
    [][\A d \in Dispatchers : HandlerSucceeds(d) => First(disp[d].todo) \notin row.handledBy]_vars

\* While no dispatch outlives its lease, the row changes only as the Outbox promises: whoever
\* dispatches, and whatever fails, crashes or is delivered twice, nothing is recorded twice, nothing
\* is processed before every handler is on the record, and every failed round counts once.
Promise == INSTANCE Outbox
    WITH state <- IF row.processed THEN "processed" ELSE IF row.failed THEN "givenUp" ELSE "waiting",
         recorded <- row.handledBy, attempts <- row.attempts
ActsAsOutbox == Promise!Spec

\* Every event ends processed or given up, whatever references are lost and whoever crashes.
EventSettles == []<>~Unsettled
=============================================================================
