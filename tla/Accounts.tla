-------------------------------- MODULE Accounts --------------------------------
(***************************************************************************)
(* One account: the bans an admin puts on it and takes off, the ones time     *)
(* ends, and its closing, which is four calls one after the other            *)
(* (moderation/admin.ts, moderation/bans.ts, account/delete.ts,              *)
(* account/service.ts).                                                      *)
(*                                                                         *)
(* Each call is a transaction and one step; what a visit read before it is    *)
(* not read again.  A request may die between two calls.                     *)
(***************************************************************************)
EXTENDS Integers

CONSTANTS
    Visits,   \* requests of the person
    MaxHour,  \* bound of the clock
    MaxBans   \* bound of the bans

ASSUME AccountsAssumption == MaxHour \in Nat /\ MaxBans \in Nat

VARIABLES
    account,   \* the profiles row: status, bannedAt, bannedUntil, and whether it was emptied
    authUser,  \* the Auth user exists
    visit,     \* Visits -> the step each is at and its clock
    hour,
    bansLeft   \* what is left of MaxBans

accountVars == <<account, authUser, visit, hour, bansLeft>>

ForGood == -1
NoVisit == [step |-> "none", now |-> 0]

AccountsTypeOK ==
    /\ account \in [status: {"active", "suspended"}, banned: BOOLEAN, until: {ForGood} \cup 0..MaxHour,
                    empty: BOOLEAN]
    /\ authUser \in BOOLEAN
    /\ visit \in [Visits -> [step: {"none", "lift", "in", "close", "empty", "authUser"}, now: 0..MaxHour]]
    /\ hour \in 0..MaxHour /\ bansLeft \in 0..MaxBans

-----------------------------------------------------------------------------
(* Bans. *)

Suspended == account.status = "suspended"
Temporary == account.banned /\ account.until # ForGood

\* The rest of what a ban does to tables and seats is banAccount of Seats.
banAccount(until) ==
    /\ ~Suspended /\ bansLeft > 0
    /\ account' = [account EXCEPT !.status = "suspended", !.banned = TRUE, !.until = until]
    /\ bansLeft' = bansLeft - 1
    /\ UNCHANGED <<authUser, visit, hour>>

Reinstated == [account EXCEPT !.status = "active", !.banned = FALSE, !.until = ForGood]

\* Mistake: whatever suspended the account, an admin brings it back.
revokeAny ==
    /\ Suspended
    /\ account' = Reinstated
    /\ UNCHANGED <<authUser, visit, hour, bansLeft>>

revokeBan ==
    /\ Suspended /\ account.banned
    /\ account' = Reinstated
    /\ UNCHANGED <<authUser, visit, hour, bansLeft>>

\* Mistake: a ban is over in its last hour only, so one that a run misses is not looked at again.
BanOverAt(now) == Suspended /\ Temporary /\ account.until = now

\* The condition of the update, on the row as it is then.
BanOver(now) == Suspended /\ Temporary /\ account.until <= now

LiftExpired(now) == account' = IF BanOver(now) THEN Reinstated ELSE account

\* The sweeper's run.
liftExpiredBans ==
    /\ BanOver(hour) /\ LiftExpired(hour)
    /\ UNCHANGED <<authUser, visit, hour, bansLeft>>

\* A visit that reads an expired ban asks for it to be lifted...
stillBanned(v) ==
    /\ visit[v] = NoVisit /\ authUser /\ BanOver(hour)
    /\ visit' = [visit EXCEPT ![v] = [step |-> "lift", now |-> hour]]
    /\ UNCHANGED <<account, authUser, hour, bansLeft>>

\* Mistake: it lifts the ban there is by then.
LiftWhatIsThere(v) ==
    /\ visit[v].step = "lift"
    /\ account' = Reinstated
    /\ visit' = [visit EXCEPT ![v].step = "in"]
    /\ UNCHANGED <<authUser, hour, bansLeft>>

\* ...and by then the row may say something else; the visit goes on as an active account's either way.
LiftOnVisit(v) ==
    /\ visit[v].step = "lift"
    /\ LiftExpired(visit[v].now)
    /\ visit' = [visit EXCEPT ![v].step = "in"]
    /\ UNCHANGED <<authUser, hour, bansLeft>>

-----------------------------------------------------------------------------
(* Closing. *)

\* The person, let in (now, or by a visit that asked for a lift) and with a username to confirm.
deleteAccount(v) ==
    /\ authUser /\ ~account.empty
    /\ visit[v].step = "in" \/ (visit[v] = NoVisit /\ ~Suspended)
    /\ visit' = [visit EXCEPT ![v] = [step |-> "close", now |-> hour]]
    /\ UNCHANGED <<account, authUser, hour, bansLeft>>

\* What it does to ratings is closeGm of GmScores; its seats and tables are not modelled. The
\* profile is left alone, and the events are dispatched before it is.
closeAccount(v) ==
    /\ visit[v].step = "close"
    /\ visit' = [visit EXCEPT ![v].step = "empty"]
    /\ UNCHANGED <<account, authUser, hour, bansLeft>>

\* Whatever ban there is stays on the row.
anonymiseProfile(v) ==
    /\ visit[v].step = "empty"
    /\ account' = [account EXCEPT !.status = "suspended", !.empty = TRUE]
    /\ visit' = [visit EXCEPT ![v].step = "authUser"]
    /\ UNCHANGED <<authUser, hour, bansLeft>>

deleteAuthUser(v) ==
    /\ visit[v].step = "authUser"
    /\ authUser' = FALSE
    /\ visit' = [visit EXCEPT ![v] = NoVisit]
    /\ UNCHANGED <<account, hour, bansLeft>>

\* The request ends without closing anything, dies, or Auth refuses.
visitDies(v) ==
    /\ visit[v] # NoVisit
    /\ visit' = [visit EXCEPT ![v] = NoVisit]
    /\ UNCHANGED <<account, authUser, hour, bansLeft>>

HourPasses ==
    /\ hour < MaxHour /\ hour' = hour + 1
    /\ UNCHANGED <<account, authUser, visit, bansLeft>>

-----------------------------------------------------------------------------
AccountsInit ==
    /\ account = [status |-> "active", banned |-> FALSE, until |-> ForGood, empty |-> FALSE]
    /\ authUser = TRUE /\ visit = [v \in Visits |-> NoVisit] /\ hour = 0 /\ bansLeft = MaxBans

AccountsNext ==
    \/ \E until \in {ForGood} \cup (hour + 1)..MaxHour : banAccount(until)
    \/ revokeBan \/ liftExpiredBans \/ HourPasses
    \/ \E v \in Visits :
        \/ stillBanned(v) \/ LiftOnVisit(v) \/ deleteAccount(v) \/ closeAccount(v)
        \/ anonymiseProfile(v) \/ deleteAuthUser(v) \/ visitDies(v)

AccountsSpec == AccountsInit /\ [][AccountsNext]_accountVars

-----------------------------------------------------------------------------
(* Properties. *)

\* A ban is served: unless an admin revokes it, the account is let in again only once the time of
\* the ban it has now is over, even when a visit that read an older ban lifts it (bans.ts).
BanIsServed ==
    [][Suspended /\ ~Suspended' => revokeBan \/ (Temporary /\ account.until <= hour)]_accountVars

\* A closed account stays barred: one that is suspended with no ban on it is brought back by no
\* admin, no sweep and no visit (bans.ts, schema.ts).
ClosedStaysBarred == [][Suspended /\ ~account.banned => Suspended']_accountVars

\* Nobody waits on the person or an admin: a temporary ban ends, although the sweeper may miss the hour
\* it was over in. An account that is closed meanwhile need not come back.
TemporaryBansEnd == Suspended /\ Temporary ~> ~Suspended \/ account.empty

=============================================================================
