-------------------------------- MODULE MailOnce --------------------------------
(***************************************************************************)
(* One mail of a handler that may be run again: sendOnce looks for its key,   *)
(* hands the mail to the provider, then keeps the key (mail/once.ts).  The    *)
(* provider drops a key it took less than ProviderWindow ago.                *)
(***************************************************************************)
EXTENDS Integers

CONSTANTS
    Runs,       \* runs of the handler: retries of its event, and runs an admin forces however late
    ProviderWindow,  \* 24 hours
    Retention,  \* MAIL_DELIVERY_RETENTION_DAYS
    MaxTimer    \* bound of the clock

ASSUME MailOnceAssumption ==
    /\ ProviderWindow \in Nat \ {0}
    /\ {Retention, MaxTimer} \subseteq Nat

VARIABLES
    run,        \* Runs -> how far each is
    tookAt,     \* when the provider last took the key
    noted,      \* when the key was kept in mail_deliveries
    delivered,  \* mails that reached the person
    uncertain,  \* a run was lost between the provider's answer and the row, and no key kept since
    timer

mailVars == <<run, tookAt, noted, delivered, uncertain, timer>>

NotYet == -1

MailTypeOK ==
    /\ run \in [Runs -> {"new", "looked", "sent", "done"}]
    /\ {tookAt, noted} \subseteq {NotYet} \cup 0..MaxTimer
    /\ delivered \in Nat /\ uncertain \in BOOLEAN /\ timer \in 0..MaxTimer

-----------------------------------------------------------------------------
\* Mistake: the provider's own memory is taken to be enough.
NotKept == TRUE

NotSent == noted = NotYet

lookForKey(r) ==
    /\ run[r] = "new"
    /\ run' = [run EXCEPT ![r] = IF NotSent THEN "looked" ELSE "done"]
    /\ UNCHANGED <<tookAt, noted, delivered, uncertain, timer>>

\* The provider takes it, or drops it as one it has.
sendMail(r) ==
    LET repeated == tookAt # NotYet /\ timer - tookAt < ProviderWindow IN
    /\ run[r] = "looked"
    /\ run' = [run EXCEPT ![r] = "sent"]
    /\ delivered' = IF repeated THEN delivered ELSE delivered + 1
    /\ tookAt' = IF repeated THEN tookAt ELSE timer
    /\ UNCHANGED <<noted, uncertain, timer>>

keepKey(r) ==
    /\ run[r] = "sent"
    /\ run' = [run EXCEPT ![r] = "done"]
    /\ noted' = IF noted = NotYet THEN timer ELSE noted
    /\ uncertain' = FALSE
    /\ UNCHANGED <<tookAt, delivered, timer>>

\* The run dies, or the provider or the database refuses.
runDies(r) ==
    /\ run[r] \in {"looked", "sent"}
    /\ run' = [run EXCEPT ![r] = "done"]
    /\ uncertain' = (uncertain \/ (run[r] = "sent" /\ noted = NotYet))
    /\ UNCHANGED <<tookAt, noted, delivered, timer>>

pruneMailDeliveries ==
    /\ noted # NotYet /\ noted < timer - Retention
    /\ noted' = NotYet
    /\ UNCHANGED <<run, tookAt, delivered, uncertain, timer>>

\* A run is over well within a tick.
TimerTicks ==
    /\ timer < MaxTimer /\ \A r \in Runs : run[r] \in {"new", "done"}
    /\ timer' = timer + 1
    /\ UNCHANGED <<run, tookAt, noted, delivered, uncertain>>

-----------------------------------------------------------------------------
MailInit ==
    /\ run = [r \in Runs |-> "new"] /\ tookAt = NotYet /\ noted = NotYet /\ delivered = 0
    /\ uncertain = FALSE /\ timer = 0

MailNext ==
    \/ \E r \in Runs : lookForKey(r) \/ sendMail(r) \/ keepKey(r) \/ runDies(r)
    \/ pruneMailDeliveries \/ TimerTicks

MailSpec == MailInit /\ [][MailNext]_mailVars

-----------------------------------------------------------------------------
(* Properties. *)

\* However often its event is run again, and by however many dispatchers at once, a mail that reached
\* the person reaches them again only when the run that sent it was lost before it kept the key, or
\* when the key's retention has gone by since (mail/once.ts): a run that is forced so late repeats it.
MailedAgainLate ==
    [][delivered > 0 /\ delivered' > delivered => uncertain \/ timer - tookAt > Retention]_mailVars

=============================================================================
