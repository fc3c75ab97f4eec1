------------------------------- MODULE RateLimits -------------------------------
(***************************************************************************)
(* What one person or one address may do in a window of time, counted from   *)
(* the rows earlier requests left: events of the audit log (rate-limit.ts),  *)
(* sign-in attempts (auth/attempt-limit.ts), messages (messages/service.ts). *)
(* A request reads its clock, then waits for the lock on the person or the    *)
(* address; the count, the row and the commit follow under that lock and are *)
(* one step, so two requests may take it in the other order.                  *)
(***************************************************************************)
EXTENDS Integers, FiniteSets

CONSTANTS
    Uses,     \* requests that use the limit up, one row each
    Kinds,    \* what the instances limit: "audit", "attempt", "message"
    Limit,    \* the limit's max
    Window,   \* its windowSeconds
    MaxWait,  \* bound of the wait of a message for its sender's lock
    MaxSecond \* bound of the clock

ASSUME RateLimitsAssumption ==
    /\ Kinds \subseteq {"audit", "attempt", "message"}
    /\ Limit \in Nat /\ Window \in Nat \ {0} /\ MaxWait \in Nat /\ MaxSecond \in Nat

VARIABLES
    kind,    \* what this instance limits
    log,     \* the rows: which use and when
    using,   \* Uses -> how far each is and its clock
    second

limitVars == <<kind, log, using, second>>

LimitsTypeOK ==
    /\ kind \in Kinds
    /\ log \subseteq [use: Uses, at: 0..MaxSecond] /\ IsFiniteSet(log)
    /\ using \in [Uses -> [step: {"new", "waits", "done"}, now: 0..MaxSecond]]
    /\ second \in 0..MaxSecond

-----------------------------------------------------------------------------
startUse(u) ==
    /\ using[u].step = "new"
    /\ using' = [using EXCEPT ![u] = [step |-> "waits", now |-> second]]
    /\ UNCHANGED <<kind, log, second>>

\* The messages of the window that ends at the request's clock: later ones are not counted.
CountedUpTo(now) == {e \in log : e.at > now - Window /\ e.at <= now}

\* Every row younger than the window, those written meanwhile included.
Counted(now) == {e \in log : e.at > now - Window}

\* Refused without a trace, or written.
Settle(u, used, at) ==
    /\ using[u].step = "waits"
    /\ using' = [using EXCEPT ![u].step = "done"]
    /\ log' = IF Cardinality(used) < Limit THEN log \cup {[use |-> u, at |-> at]} ELSE log
    /\ UNCHANGED <<kind, second>>

\* The event carries the request's clock, or the database's when the transaction began.
enforceRateLimit(u) ==
    /\ kind = "audit"
    /\ \E at \in using[u].now..second : Settle(u, Counted(using[u].now), at)

recordAttempt(u) ==
    /\ kind = "attempt"
    /\ Settle(u, Counted(using[u].now), using[u].now)

sendMessage(u) ==
    /\ kind = "message" /\ second - using[u].now <= MaxWait
    /\ Settle(u, CountedUpTo(using[u].now), using[u].now)

SecondPasses ==
    /\ second < MaxSecond /\ second' = second + 1
    /\ UNCHANGED <<kind, log, using>>

-----------------------------------------------------------------------------
LimitsInit ==
    /\ kind \in Kinds /\ log = {} /\ second = 0
    /\ using = [u \in Uses |-> [step |-> "new", now |-> 0]]

LimitsNext ==
    \/ \E u \in Uses : startUse(u) \/ enforceRateLimit(u) \/ recordAttempt(u) \/ sendMessage(u)
    \/ SecondPasses

LimitsSpec == LimitsInit /\ [][LimitsNext]_limitVars

-----------------------------------------------------------------------------
(* Properties. *)

\* The limit holds in any window, not only in those that end when a request is made: however long
\* requests wait for the lock, and in whatever order they get it (rate-limit.ts:19, "how many are
\* allowed in any windowSeconds"; service.ts:240 of messages, "so two at once cannot both slip
\* under the limit").
WithinLimit ==
    \A t \in 0..MaxSecond : Cardinality({e \in log : e.at > t - Window /\ e.at <= t}) <= Limit

=============================================================================
