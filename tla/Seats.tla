-------------------------------- MODULE Seats --------------------------------
(***************************************************************************)
(* The seats of one table: registrations, the waitlist, invitations, and   *)
(* the edits and bans that move them (registrations/service.ts,            *)
(* registrations/waitlist.ts, invitations/service.ts, tables/write.ts,     *)
(* tables/end.ts, moderation/admin.ts).                                    *)
(*                                                                         *)
(* Every operation is a READ COMMITTED transaction.  One that takes the    *)
(* row lock of the table first, and reads nothing before it, is a single   *)
(* action guarded by TableFree.  One that reads before it locks, or that   *)
(* waits for a registration's row with the table locked, is a client's     *)
(* transaction in tx, one action per statement other transactions can come *)
(* between; its writes are published by the action that commits it.        *)
(* A request the code refuses changes nothing and is no action.            *)
(***************************************************************************)
EXTENDS Integers, FiniteSets

CONSTANTS
    Players,      \* profile ids: naturals, compared when two joined the line at once
    Clients,      \* concurrent transactions of more than one step
    Invitations,  \* rows player_invitations may get
    Kinds,        \* the operations that run in this instance, of the ones that may be left out
    Capacities,   \* capacities the GM may set
    StartsAt,     \* when the session starts
    HoldFor,      \* how long an invitation reserves its seat (48 hours)
    MaxTime,      \* bound of the clock
    MaxWait       \* bound of the wait between reading `new Date()` and getting the lock

ClientKinds == {"leave", "decline", "remove", "approve", "update", "ban"}
OtherKinds == {"waitlist", "optOut", "close"}

ASSUME PlayersAssumption == Players \subseteq Nat /\ IsFiniteSet(Players)
ASSUME InvitationsAssumption == IsFiniteSet(Invitations)
ASSUME KindsAssumption == Kinds \subseteq ClientKinds \cup OtherKinds
ASSUME CapacitiesAssumption == Capacities \subseteq Nat \ {0} /\ Capacities # {}
ASSUME TimeAssumption ==
    StartsAt \in Nat /\ HoldFor \in Nat \ {0} /\ MaxTime \in Nat /\ MaxWait \in Nat

VARIABLES
    reg,        \* Players -> registration status, "none" without a row
    line,       \* Players -> createdAt of the waitlist row, NotWaiting without one
    invites,    \* Invitations -> the player_invitations row
    capacity, joinMode, status,   \* of the game_tables row
    clock,
    suspended,  \* profiles with status "suspended"
    inFlight,   \* suspended players with a request authenticated before their ban
    optedOut,   \* profiles with invitationsEnabled off
    sweep,      \* expired invitations the sweeper has read and not reached yet
    tx,         \* Clients -> the transaction it runs
    ledger      \* Players -> what the recorded events last said of the seat

table == <<capacity, joinMode, status>>
profiles == <<suspended, inFlight, optedOut>>
vars == <<reg, line, invites, table, clock, profiles, sweep, tx, ledger>>

NotWaiting == -1
NoPlayer == -1
RegStatuses == {"none", "pending", "confirmed"}
InviteStatuses == {"none", "pending", "accepted", "declined", "expired", "cancelled"}
JoinModes == {"auto", "approval"}
Steps == {"idle", "begun", "read", "deleted", "missed", "locked"}

NoTx == [op |-> "idle", step |-> "idle", who |-> NoPlayer, saw |-> "none", cap |-> 0,
         holds |-> FALSE]

NoInvitation == [status |-> "none", player |-> NoPlayer, expiresAt |-> 0]
InviteRows ==
    {NoInvitation} \cup [status: InviteStatuses \ {"none"}, player: Players, expiresAt: Nat]
TxStates == [op: ClientKinds \cup {"idle"}, step: Steps, who: Players \cup {NoPlayer},
             saw: RegStatuses, cap: Capacities \cup {0}, holds: BOOLEAN]

TypeOK ==
    /\ reg \in [Players -> RegStatuses]
    /\ line \in [Players -> {NotWaiting} \cup 0..MaxTime]
    /\ invites \in [Invitations -> InviteRows]
    /\ capacity \in Capacities /\ joinMode \in JoinModes /\ status \in {"active", "disabled"}
    /\ clock \in 0..MaxTime
    /\ suspended \subseteq Players /\ inFlight \subseteq suspended /\ optedOut \subseteq Players
    /\ sweep \subseteq Invitations
    /\ tx \in [Clients -> TxStates]
    /\ ledger \in [Players -> {"seated", "unseated"}]

-----------------------------------------------------------------------------
(* Locks, clocks and counts. *)

\* The row lock of the table, and the profile lock a ban and the invitation writes take.
TableFree == \A c \in Clients : ~tx[c].holds
ProfileFree(p) == \A c \in Clients : ~(tx[c].op = "ban" /\ tx[c].who = p)

\* Registration p's row is locked by whoever deleted it and has not committed.
RowFree(c, p) == \A d \in Clients \ {c} : ~(tx[d].step = "deleted" /\ tx[d].who = p)

\* What a request that has just got its lock may have read as `new Date()` before it.
Recent == {t \in 0..clock : clock - t <= MaxWait}

Started(now) == StartsAt <= now
InState(r, s) == {p \in Players : r[p] = s}
Reserved(inv, now) == {i \in Invitations : inv[i].status = "pending" /\ inv[i].expiresAt > now}
Available(r, inv, cap, now) ==
    cap - Cardinality(InState(r, "confirmed")) - Cardinality(Reserved(inv, now))
ReservedFor(p, now) == {i \in Reserved(invites, now) : invites[i].player = p}

-----------------------------------------------------------------------------
(* The line moves up: promoteWaitlist, run inside a transaction that holds   *)
(* the table's lock, over what that transaction has written so far.          *)

Waiting == {p \in Players : line[p] # NotWaiting}
Before(p, q) == line[p] < line[q] \/ (line[p] = line[q] /\ p < q)
\* Mistake: the line does not look at the profile's status.
EligibleUnseated(r) == {p \in Waiting : r[p] = "none"}
Eligible(r) == {p \in Waiting : p \notin suspended /\ r[p] = "none"}

Room(r, inv, cap, mode, now) ==
    IF status = "active" /\ ~Started(now)
    THEN Available(r, inv, cap, now)
         - (IF mode = "auto" THEN 0 ELSE Cardinality(InState(r, "pending")))
    ELSE 0

\* Mistake: the line is let in without a count.
EveryoneInLine(E, room) == {E}

\* The first of E, as many as there is room for (a set with one member).
FirstInLine(E, room) ==
    {S \in SUBSET E :
        /\ Cardinality(S) <= room
        /\ Cardinality(S) < room => S = E
        /\ \A p \in S, q \in E \ S : Before(p, q)}

\* Mistake: the whole line is read off before the seats are given.
PassedAll(S, room) == Waiting

\* The loop stops right after the last player it seats; whoever it passes is off the line.
Passed(S, room) ==
    IF Cardinality(S) < room THEN Waiting
    ELSE {p \in Waiting : \E s \in S : p = s \/ Before(p, s)}

\* Mistake: the row gets the table's join mode for a status.
SeatStatusIsMode(mode) == IF mode = "auto" THEN "confirmed" ELSE mode
SeatStatus(mode) == IF mode = "auto" THEN "confirmed" ELSE "pending"

\* Publishes r and ev with the line moved up.
MoveUp(r, ev, inv, cap, mode, now) ==
    LET room == Room(r, inv, cap, mode, now) IN
    IF room <= 0
    THEN reg' = r /\ ledger' = ev /\ UNCHANGED line
    ELSE \E S \in FirstInLine(Eligible(r), room) :
            /\ reg' = [p \in Players |-> IF p \in S THEN SeatStatus(mode) ELSE r[p]]
            /\ ledger' = [p \in Players |-> IF p \in S /\ mode = "auto" THEN "seated" ELSE ev[p]]
            /\ line' = [p \in Players |-> IF p \in Passed(S, room) THEN NotWaiting ELSE line[p]]

\* promoteWaitlist as it is written, turn by turn: it counts the room again, takes the first player
\* off the line, and seats them if they can join.
Turn(s, inv, cap, mode, now) ==
    LET inLine == {p \in Players : s.line[p] # NotWaiting}
        next == CHOOSE p \in inLine : \A q \in inLine \ {p} : Before(p, q)
        passes == next \in suspended \/ s.reg[next] # "none" IN
    IF Room(s.reg, inv, cap, mode, now) <= 0 \/ inLine = {} THEN s
    ELSE [reg |-> IF passes THEN s.reg ELSE [s.reg EXCEPT ![next] = SeatStatus(mode)],
          line |-> [s.line EXCEPT ![next] = NotWaiting]]

\* Every turn but an idle one takes a player off the line, so as many turns as players are enough.
promoteWaitlist(r, inv, cap, mode, now) ==
    LET after[k \in 0..Cardinality(Players)] ==
            IF k = 0 THEN [reg |-> r, line |-> line] ELSE Turn(after[k - 1], inv, cap, mode, now)
    IN  after[Cardinality(Players)]

-----------------------------------------------------------------------------
(* Players and the line: one transaction that begins with the table's lock. *)

\* The actor's status is the one the request was authenticated with, before any lock.
ActsAs(p) ==
    /\ p \notin suspended \/ p \in inFlight
    /\ inFlight' = inFlight \ {p}
    /\ UNCHANGED suspended

\* joinBlocker, up to the free seat; a live invitation is refused before it.
MayAsk(p, now) ==
    /\ ReservedFor(p, now) = {}
    /\ status = "active" /\ ~Started(now)
    /\ reg[p] = "none"

joinTable(p, now) ==
    /\ TableFree
    /\ ActsAs(p) /\ MayAsk(p, now)
    /\ Available(reg, invites, capacity, now) > 0
    /\ reg' = [reg EXCEPT ![p] = SeatStatus(joinMode)]
    /\ ledger' = IF joinMode = "auto" THEN [ledger EXCEPT ![p] = "seated"] ELSE ledger
    /\ UNCHANGED <<line, invites, table, clock, optedOut, sweep, tx>>

joinWaitlist(p, now) ==
    /\ "waitlist" \in Kinds
    /\ TableFree
    /\ ActsAs(p) /\ MayAsk(p, now)
    /\ Available(reg, invites, capacity, now) <= 0
    /\ line[p] = NotWaiting
    /\ line' = [line EXCEPT ![p] = now]
    /\ UNCHANGED <<reg, invites, table, clock, optedOut, sweep, tx, ledger>>

leaveWaitlist(p) ==
    /\ line[p] # NotWaiting
    /\ line' = [line EXCEPT ![p] = NotWaiting]
    /\ UNCHANGED <<reg, invites, table, clock, profiles, sweep, tx, ledger>>

-----------------------------------------------------------------------------
(* Invitations: the profiles' locks, then the table's. *)

\* Mistake: the answer is written without looking at what the row says.
FinishAny(inv, I, answer) ==
    [i \in Invitations |-> IF i \in I THEN [inv[i] EXCEPT !.status = answer] ELSE inv[i]]

\* finish: the answer is written only over a pending row.
Finish(inv, I, answer) ==
    [i \in Invitations |->
        IF i \in I /\ inv[i].status = "pending" THEN [inv[i] EXCEPT !.status = answer] ELSE inv[i]]

CanReceive(p) == p \notin suspended /\ p \notin optedOut
RowsOf(p) == {i \in Invitations : invites[i].status # "none" /\ invites[i].player = p}
Earlier(a, b) == IF a < b THEN a ELSE b

invitePlayer(i, p, now) ==
    LET expired == Finish(invites, RowsOf(p), "expired") IN
    /\ TableFree /\ ProfileFree(p)
    /\ invites[i].status = "none"
    /\ status = "active" /\ ~Started(now)
    /\ CanReceive(p)
    /\ \A j \in RowsOf(p) : invites[j].status # "declined"
    /\ ReservedFor(p, now) = {}
    /\ reg[p] = "none"
    /\ Available(reg, expired, capacity, now) >= 1
    /\ invites' = [expired EXCEPT ![i] = [status |-> "pending", player |-> p,
                                          expiresAt |-> Earlier(now + HoldFor, StartsAt)]]
    /\ UNCHANGED <<reg, line, table, clock, profiles, sweep, tx, ledger>>

\* Mistake: a reservation that has run out can still be accepted.
AnswerLate(i, accept, now) ==
    IF Started(now) THEN "expired"
    ELSE IF status # "active" \/ ~CanReceive(invites[i].player) THEN "cancelled"
    ELSE IF ~accept THEN "declined"
    ELSE IF reg[invites[i].player] # "none" THEN "cancelled"
    ELSE "accepted"

\* What respondToInvitation makes of a pending invitation, its checks in the code's order.
Answer(i, accept, now) ==
    LET p == invites[i].player IN
    IF invites[i].expiresAt <= now \/ Started(now) THEN "expired"
    ELSE IF status # "active" \/ ~CanReceive(p) THEN "cancelled"
    ELSE IF ~accept THEN "declined"
    ELSE IF reg[p] # "none" THEN "cancelled"
    ELSE "accepted"

\* An accepted invitation is exchanged for a seat without looking at what is free.
respondToInvitation(i, accept, now) ==
    LET p == invites[i].player
        answer == Answer(i, accept, now) IN
    /\ invites[i].status = "pending"
    /\ TableFree /\ ProfileFree(p)
    /\ ActsAs(p)
    /\ invites' = Finish(invites, {i}, answer)
    /\ reg' = IF answer = "accepted" THEN [reg EXCEPT ![p] = "confirmed"] ELSE reg
    /\ ledger' = IF answer = "accepted" THEN [ledger EXCEPT ![p] = "seated"] ELSE ledger
    /\ UNCHANGED <<line, table, clock, optedOut, sweep, tx>>

cancelInvitation(i) ==
    /\ invites[i].status = "pending"
    /\ TableFree /\ ProfileFree(invites[i].player)
    /\ invites' = Finish(invites, {i}, "cancelled")
    /\ UNCHANGED <<reg, line, table, clock, profiles, sweep, tx, ledger>>

\* setInvitationsEnabled(false); blocking the GM (setGmInviteBlock) does the same here.
OptOut(p) ==
    /\ "optOut" \in Kinds
    /\ p \notin optedOut /\ ActsAs(p)
    /\ TableFree /\ ProfileFree(p)
    /\ optedOut' = optedOut \cup {p}
    /\ invites' = Finish(invites, RowsOf(p), "cancelled")
    /\ UNCHANGED <<reg, line, table, clock, sweep, tx, ledger>>

OptIn(p) ==
    /\ p \in optedOut /\ ActsAs(p)
    /\ ProfileFree(p)
    /\ optedOut' = optedOut \ {p}
    /\ UNCHANGED <<reg, line, invites, table, clock, sweep, tx, ledger>>

\* expireInvitations reads its candidates without a lock, then takes each in a transaction.
Expired == {i \in Invitations : invites[i].status = "pending" /\ invites[i].expiresAt <= clock}

SweepRead ==
    /\ ~(Expired \subseteq sweep)
    /\ sweep' = sweep \cup Expired
    /\ UNCHANGED <<reg, line, invites, table, clock, profiles, tx, ledger>>

SweepOne(i) ==
    /\ i \in sweep
    /\ TableFree /\ ProfileFree(invites[i].player)
    /\ invites' = Finish(invites, {i}, "expired")
    /\ sweep' = sweep \ {i}
    /\ UNCHANGED <<reg, line, table, clock, profiles, tx, ledger>>

\* The worker stops between two candidates; the next run reads them again.
SweepStops ==
    /\ sweep # {}
    /\ sweep' = {}
    /\ UNCHANGED <<reg, line, invites, table, clock, profiles, tx, ledger>>

-----------------------------------------------------------------------------
(* The GM ends the table: nothing is read before the lock, and a pending     *)
(* registration another transaction is deleting is waited for.               *)

closeTable ==
    /\ "close" \in Kinds
    /\ TableFree /\ status = "active"
    /\ \A c \in Clients : tx[c].step = "deleted" => reg[tx[c].who] # "pending"
    /\ status' = "disabled"
    /\ reg' = [p \in Players |-> IF reg[p] = "pending" THEN "none" ELSE reg[p]]
    /\ invites' = Finish(invites, Invitations, "cancelled")
    /\ UNCHANGED <<line, capacity, joinMode, clock, profiles, sweep, tx, ledger>>

-----------------------------------------------------------------------------
(* Transactions that read before they lock, or hold the lock and wait.       *)

Begin(c, op, step, who, saw, holds) ==
    /\ tx[c] = NoTx
    /\ op \in Kinds
    /\ tx' = [tx EXCEPT ![c] = [NoTx EXCEPT !.op = op, !.step = step, !.who = who,
                                            !.saw = saw, !.holds = holds]]

Step(c, op, step) == tx[c].op = op /\ tx[c].step = step
End(c) == tx' = [tx EXCEPT ![c] = NoTx]

\* The registration as leaveTable, declineRegistration and removePlayer accept it.
Accepts(op, s) ==
    \/ op = "leave" /\ s # "none"
    \/ op = "decline" /\ s = "pending"
    \/ op = "remove" /\ s = "confirmed"

\* They read the registration without a lock.
ReadSeat(c, op, p) ==
    /\ op \in {"leave", "decline", "remove"}
    /\ Accepts(op, reg[p])
    /\ IF op = "leave" THEN ActsAs(p) ELSE UNCHANGED <<suspended, inFlight>>
    /\ Begin(c, op, "read", p, reg[p], FALSE)
    /\ UNCHANGED <<reg, line, invites, table, clock, optedOut, sweep, ledger>>

GivesUpSeat(c) == tx[c].op \in {"decline", "remove"} \/ (tx[c].op = "leave" /\ tx[c].saw = "confirmed")

\* A request withdrawn: the row goes, whatever it is by now, with no event and no promotion.
WithdrawRequest(c) ==
    /\ Step(c, "leave", "read") /\ ~GivesUpSeat(c)
    /\ RowFree(c, tx[c].who)
    /\ reg' = [reg EXCEPT ![tx[c].who] = "none"]
    /\ End(c)
    /\ UNCHANGED <<line, invites, table, clock, profiles, sweep, ledger>>

\* Mistake: it waits for a row that another transaction has deleted.
DeleteSeatThere(c) ==
    /\ tx[c].step = "read" /\ GivesUpSeat(c)
    /\ RowFree(c, tx[c].who) /\ reg[tx[c].who] # "none"
    /\ tx' = [tx EXCEPT ![c].step = "deleted"]
    /\ UNCHANGED <<reg, line, invites, table, clock, profiles, sweep, ledger>>

\* The others delete it, and hold its row while they wait for the table's.
DeleteSeat(c) ==
    /\ tx[c].step = "read" /\ GivesUpSeat(c)
    /\ RowFree(c, tx[c].who)
    /\ tx' = [tx EXCEPT ![c].step = IF reg[tx[c].who] = "none" THEN "missed" ELSE "deleted"]
    /\ UNCHANGED <<reg, line, invites, table, clock, profiles, sweep, ledger>>

\* Mistake: only a removal records a PlayerLeft.
ToldRemoval(c) == IF tx[c].op = "remove" THEN [ledger EXCEPT ![tx[c].who] = "unseated"] ELSE ledger

\* What their commit publishes before the line moves: a declined request is no PlayerLeft.
Emptied(c) == IF tx[c].step = "deleted" THEN [reg EXCEPT ![tx[c].who] = "none"] ELSE reg
Told(c) == IF tx[c].op = "decline" THEN ledger ELSE [ledger EXCEPT ![tx[c].who] = "unseated"]

\* Mistake: the seat is given up and the line does not move.
GiveUpQuietly(c, now) ==
    /\ tx[c].step \in {"deleted", "missed"}
    /\ TableFree
    /\ reg' = Emptied(c) /\ ledger' = Told(c)
    /\ End(c)
    /\ UNCHANGED <<line, invites, table, clock, profiles, sweep>>

GiveUpSeat(c, now) ==
    /\ tx[c].step \in {"deleted", "missed"}
    /\ TableFree
    /\ MoveUp(Emptied(c), Told(c), invites, capacity, joinMode, now)
    /\ End(c)
    /\ UNCHANGED <<invites, table, clock, profiles, sweep>>

\* Mistake: the seats are counted without keeping the table's lock.
ApproveUnlocked(c, p) ==
    /\ TableFree
    /\ status = "active" /\ reg[p] = "pending"
    /\ Available(reg, invites, capacity, clock) >= 1
    /\ Begin(c, "approve", "locked", p, "pending", FALSE)
    /\ UNCHANGED <<reg, line, invites, table, clock, profiles, sweep, ledger>>

\* approveRegistration: reads under the table's lock, which does not lock the registration.
ApproveLock(c, p) ==
    /\ TableFree
    /\ status = "active" /\ reg[p] = "pending"
    /\ Available(reg, invites, capacity, clock) >= 1
    /\ Begin(c, "approve", "locked", p, "pending", TRUE)
    /\ UNCHANGED <<reg, line, invites, table, clock, profiles, sweep, ledger>>

\* The update may find no row; JoinApproved is recorded all the same.
ApproveWrite(c) ==
    LET p == tx[c].who IN
    /\ Step(c, "approve", "locked")
    /\ RowFree(c, p)
    /\ reg' = IF reg[p] = "none" THEN reg ELSE [reg EXCEPT ![p] = "confirmed"]
    /\ ledger' = [ledger EXCEPT ![p] = "seated"]
    /\ End(c)
    /\ UNCHANGED <<line, invites, table, clock, profiles, sweep>>

\* updateTable compares the new capacity with the one it read before the transaction.
UpdateRead(c) ==
    /\ tx[c] = NoTx /\ "update" \in Kinds
    /\ tx' = [tx EXCEPT ![c] = [NoTx EXCEPT !.op = "update", !.step = "read", !.cap = capacity]]
    /\ UNCHANGED <<reg, line, invites, table, clock, profiles, sweep, ledger>>

\* consent: a field the invited agreed to has changed.
UpdateWrite(c, cap, mode, consent) ==
    LET inv == IF consent THEN Finish(invites, Invitations, "cancelled") ELSE invites IN
    /\ Step(c, "update", "read")
    /\ TableFree
    /\ Available(reg, invites, cap, clock) >= 0
    /\ capacity' = cap /\ joinMode' = mode
    /\ invites' = inv
    /\ IF cap > tx[c].cap THEN MoveUp(reg, ledger, inv, cap, mode, clock)
       ELSE UNCHANGED <<reg, line, ledger>>
    /\ End(c)
    /\ UNCHANGED <<status, clock, profiles, sweep>>

\* banAccount locks the profile, and the table only if the player has a row that names it.
BanLock(c, p) ==
    LET atTable == reg[p] # "none" \/ RowsOf(p) # {} IN
    /\ p \notin suspended
    /\ ProfileFree(p)
    /\ atTable => TableFree
    /\ Begin(c, "ban", "begun", p, "none", atTable)
    /\ UNCHANGED <<reg, line, invites, table, clock, profiles, sweep, ledger>>

BanRead(c) ==
    /\ Step(c, "ban", "begun")
    /\ tx' = [tx EXCEPT ![c].step = "read", ![c].saw = reg[tx[c].who]]
    /\ UNCHANGED <<reg, line, invites, table, clock, profiles, sweep, ledger>>

\* The seat it read goes with a PlayerLeft, a request too; the line does not move.
BanWrite(c) ==
    LET p == tx[c].who
        leaves == tx[c].saw # "none" IN
    /\ Step(c, "ban", "read")
    /\ leaves => RowFree(c, p)
    /\ suspended' = suspended \cup {p}
    /\ inFlight' \in {inFlight, inFlight \cup {p}}
    /\ invites' = Finish(invites, RowsOf(p), "cancelled")
    /\ reg' = IF leaves THEN [reg EXCEPT ![p] = "none"] ELSE reg
    /\ ledger' = IF leaves THEN [ledger EXCEPT ![p] = "unseated"] ELSE ledger
    /\ End(c)
    /\ UNCHANGED <<line, table, clock, optedOut, sweep>>

\* revokeBan and liftExpiredBans: the seats a ban took stay gone.
LiftBan(p) ==
    /\ p \in suspended
    /\ suspended' = suspended \ {p}
    /\ inFlight' = inFlight \ {p}
    /\ UNCHANGED <<reg, line, invites, table, clock, optedOut, sweep, tx, ledger>>

-----------------------------------------------------------------------------
(* Time, aborted transactions, and the whole system. *)

Tick ==
    /\ clock < MaxTime
    /\ clock' = clock + 1
    /\ UNCHANGED <<reg, line, invites, table, profiles, sweep, tx, ledger>>

\* A transaction that ends without its commit (its connection or its Worker is lost).
Abort(c) ==
    /\ tx[c] # NoTx
    /\ End(c)
    /\ UNCHANGED <<reg, line, invites, table, clock, profiles, sweep, ledger>>

\* d waits, with the table locked, for a row c deleted; c waits for the table.
WaitsForRow(d, c) ==
    /\ tx[d].holds /\ tx[d].who = tx[c].who
    /\ tx[d].op = "approve" \/ (Step(d, "ban", "read") /\ tx[d].saw # "none")
Deadlocked(c) == tx[c].step = "deleted" /\ \E d \in Clients : WaitsForRow(d, c)

Init ==
    /\ reg = [p \in Players |-> "none"]
    /\ line = [p \in Players |-> NotWaiting]
    /\ invites = [i \in Invitations |-> NoInvitation]
    /\ capacity \in Capacities /\ joinMode \in JoinModes /\ status = "active"
    /\ clock = 0
    /\ suspended = {} /\ inFlight = {} /\ optedOut = {} /\ sweep = {}
    /\ tx = [c \in Clients |-> NoTx]
    /\ ledger = [p \in Players |-> "unseated"]

\* What the transaction of c does next, but for an abort.
Proceed(c) ==
    \/ WithdrawRequest(c) \/ DeleteSeat(c) \/ ApproveWrite(c) \/ BanRead(c) \/ BanWrite(c)
    \/ \E now \in Recent : GiveUpSeat(c, now)
    \/ \E cap \in Capacities, mode \in JoinModes, consent \in BOOLEAN :
            UpdateWrite(c, cap, mode, consent)

Request(c) ==
    \/ \E p \in Players, op \in ClientKinds : ReadSeat(c, op, p)
    \/ \E p \in Players : ApproveLock(c, p) \/ BanLock(c, p)
    \/ UpdateRead(c)

Attendance ==
    \/ \E p \in Players, now \in Recent : joinTable(p, now) \/ joinWaitlist(p, now)
    \/ \E p \in Players : leaveWaitlist(p) \/ OptOut(p) \/ OptIn(p) \/ LiftBan(p)
    \/ closeTable

Invitation ==
    \/ \E i \in Invitations, p \in Players, now \in Recent : invitePlayer(i, p, now)
    \/ \E i \in Invitations, accept \in BOOLEAN, now \in Recent :
            respondToInvitation(i, accept, now)
    \/ \E i \in Invitations : cancelInvitation(i) \/ SweepOne(i)
    \/ SweepRead \/ SweepStops

Next ==
    \/ Tick
    \/ Attendance
    \/ Invitation
    \/ \E c \in Clients : Request(c) \/ Proceed(c) \/ Abort(c)

Spec == Init /\ [][Next]_vars

\* A Worker runs its transaction to the end; Postgres queues the waiters of a row lock, and ends
\* a deadlock by aborting one of its transactions.
Fairness ==
    \A c \in Clients : SF_vars(Proceed(c)) /\ WF_vars(Deadlocked(c) /\ Abort(c))

FairSpec == Spec /\ Fairness

-----------------------------------------------------------------------------
(* Properties. *)

\* No more seats are given out than the table has: the confirmed players and the invitations
\* that still reserve a seat never exceed the capacity, in any order of joins, approvals,
\* promotions, edits and answers (the count under the lock in seats.ts).
NoOverbooking == Available(reg, invites, capacity, clock) >= 0

\* An invitation that was answered, cancelled or expired keeps that answer: the sweeper, which
\* reads its candidates without a lock, never overwrites one (the WHERE of `finish`).
AnswersAreFinal ==
    [][\A i \in Invitations :
            invites[i].status \notin {"none", "pending"} => invites'[i] = invites[i]]_vars

\* Somebody in the line of an open table with room could take a seat.
Stranded == \E p \in Eligible(reg) : Room(reg, invites, capacity, joinMode, clock) > 0

\* The seats are what the recorded events say: a player is confirmed exactly when the last
\* PlayerJoined, JoinApproved or PlayerLeft about them says so.
LedgerTellsSeats == \A p \in Players : reg[p] = "confirmed" <=> ledger[p] = "seated"

\* Seating the first of the line at once, as MoveUp does, is what the loop of promoteWaitlist does
\* turn by turn: the room it counts again each time, the players it only passes, the order, the ties.
PromotionIsTheLoop ==
    LET room == Room(reg, invites, capacity, joinMode, clock) IN
    room > 0 =>
        {[reg |-> [p \in Players |-> IF p \in S THEN SeatStatus(joinMode) ELSE reg[p]],
          line |-> [p \in Players |-> IF p \in Passed(S, room) THEN NotWaiting ELSE line[p]]] :
               S \in FirstInLine(Eligible(reg), room)}
        = {promoteWaitlist(reg, invites, capacity, joinMode, clock)}

\* A transaction that frees a seat of an open table leaves nobody waiting who could take one.
Free == Available(reg, invites, capacity, clock)
FreedSeatGoesToTheLine == [][(clock' = clock /\ Free' > Free) => ~Stranded']_vars

\* After a seat is given up, nobody who could take one is left in the line.
GivenSeatsGoToTheLine ==
    [][(\E c \in Clients : \E now \in Recent : GiveUpSeat(c, now)) => ~Stranded']_vars

\* Whoever leaves the table, or is taken off it, is not at the table when that commits.
LeaverIsOut ==
    [][\A c \in Clients :
            (\E now \in Recent : GiveUpSeat(c, now)) => reg'[tx[c].who] = "none"]_vars

\* A suspended player gets no seat and no request from the line they may still be in, by an
\* approval or by an invitation; only a request they made before the ban may still go through.
SuspendedGetNothing ==
    [][\A p \in suspended \ inFlight : reg[p] = "none" => reg'[p] = "none"]_vars

\* Every transaction ends, the ones that wait for each other's locks too.
TransactionsEnd == \A c \in Clients : tx[c] # NoTx ~> tx[c] = NoTx

\* The seats, their holds and the capacity change only as TableSeats promises, while no request
\* waits for its lock past a tick of its clock (MaxWait = 0).
Office == INSTANCE TableSeats
    WITH seated <- InState(reg, "confirmed"), held <- Reserved(invites, clock),
         Holds <- Invitations
SeatsAreAccounted == Office!Spec
=============================================================================
