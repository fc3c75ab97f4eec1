----------------------------- MODULE TableCalendar -----------------------------
(***************************************************************************)
(* The dates of one table: the date of its game_tables row, the rows of      *)
(* table_sessions that must agree with it, and who moves them - the GM's     *)
(* answer to "did it happen?", the GM's edits of the calendar, and the       *)
(* sweeper that asks, reminds and finally answers for the GM                 *)
(* (tables/sessions.ts, session-actions.ts, lifecycle.ts,                    *)
(* close-reminders.ts, write.ts).                                            *)
(*                                                                         *)
(* Every write holds the table's row, so a transaction is one step.  What    *)
(* is read before it is not: an answer carries the date it read, and for a   *)
(* session that goes on the next date it computed; the sweeper carries its   *)
(* list.  Requests and sweeps last less than a tick of the clock.            *)
(***************************************************************************)
EXTENDS Integers, FiniteSets, FiniteSetsExt

CONSTANTS
    TableKinds, \* kinds of table an instance starts from
    Drafts,     \* whether it starts from a draft too
    StartDates, \* dates it starts from
    Tabs,       \* the GM's requests in flight
    Week,       \* the rule's interval, in ticks
    Upcoming,   \* UPCOMING_SESSIONS
    Duration,
    FirstAfter, LastAfter, CloseAfter, Notice,  \* of close-reminders.ts
    Attempts,   \* HOLD_ATTEMPTS
    Busy,       \* dates held by the other tables of the family
    Until,      \* the rule's last date
    LastDate,   \* bound of the dates
    MaxClock,   \* bound of the clock
    MaxEdits    \* bound of the GM's calls

ASSUME CalendarAssumption ==
    /\ TableKinds \subseteq {"one_shot", "campaign", "adventure"} /\ Drafts \in BOOLEAN
    /\ {Week, Upcoming, Duration, Attempts, Notice} \subseteq Nat \ {0}
    /\ {FirstAfter, LastAfter, CloseAfter, MaxClock, MaxEdits, LastDate} \subseteq Nat
    /\ Until \in 0..LastDate /\ Busy \subseteq Nat

VARIABLES
    table,  \* the game_tables row: kind, status, startsAt
    rows,   \* the table_sessions rows
    sent,   \* the session_close_reminders rows
    asked,  \* Tabs -> the GM's answer in flight
    due,    \* what the sweeper's unlocked read found to do
    edits,  \* what is left of MaxEdits
    today

calendar == <<table, rows, sent, asked, due, edits, today>>

Dates == 0..LastDate
Never == -1
TableStatuses == {"draft", "active", "awaiting_confirmation", "concluded", "not_held", "disabled"}
RowStatuses == {"scheduled", "held", "not_held", "cancelled"}
Sessions == [at: Dates, status: RowStatuses, pinned: BOOLEAN, movedFrom: Dates \cup {Never}]
Answers == {"conclude", "hold", "skip", "notHeld", "postpone"}
NoAnswer == [op |-> "none", date |-> Never, next |-> Never]
NoStep == [step |-> "none", date |-> Never]

CalendarTypeOK ==
    /\ table \in [kind: TableKinds, status: TableStatuses, startsAt: Dates]
    /\ rows \subseteq Sessions
    /\ sent \subseteq [startsAt: Dates, step: {"1h", "7d"}, sentAt: 0..MaxClock]
    /\ asked \in [Tabs -> [op: Answers \cup {"none"}, date: Dates \cup {Never},
                           next: Dates \cup {Never}]]
    /\ due \in [step: {"none", "1h", "7d", "close"}, date: Dates \cup {Never}]
    /\ edits \in 0..MaxEdits
    /\ today \in 0..MaxClock

-----------------------------------------------------------------------------
(* The rows of a table. *)

Going(t) == t.status \in {"active", "awaiting_confirmation", "draft"}
Weekly(t) == t.kind = "campaign"
Overlap(d, e) == d < e + Duration /\ e < d + Duration
Free(d) == \A b \in Busy : ~Overlap(d, b)

\* A copy is compared with its family before it is made; a table of its own has none yet.
ASSUME StartDatesAssumption == StartDates \subseteq {d \in Dates : Free(d)}

Over(d) == d + Duration <= today

Scheduled(R) == {r \in R : r.status = "scheduled"}
First(R) == CHOOSE r \in R : \A q \in R : r.at <= q.at
Loose(d) == [at |-> d, status |-> "scheduled", pinned |-> FALSE, movedFrom |-> Never]
Cancelled(R) == {[r EXCEPT !.status = "cancelled"] : r \in R}

\* dropSessions: what the GM pinned is cancelled, the rest deleted.
Drop(R, S) == (R \ S) \cup Cancelled({r \in S : r.pinned})

\* Mistake: the session of that date is taken whatever became of it.
CloseAnyRow(R, d, outcome) ==
    LET match == {r \in R : r.at = d} IN
    (R \ match) \cup {[Loose(d) EXCEPT !.status = outcome]}

\* The session that passed takes its outcome, on the date the answer read.
closeSession(R, d, outcome) ==
    LET open == Scheduled(R)
        match == IF \E r \in open : r.at = d THEN {CHOOSE r \in open : r.at = d}
                 ELSE IF open # {} THEN {First(open)} ELSE {}
        passed == IF match = {} THEN {Loose(d)} ELSE match IN
    (R \ match) \cup {[r EXCEPT !.status = outcome, !.at = d] : r \in passed}

\* The dates the rule adds: on its grid past the last one it wrote, none twice, and none in the
\* week of a session that was moved away or cancelled.
Fresh(R, kept, next, t) ==
    LET loose == {r.at : r \in {k \in kept : ~k.pinned}}
        origins == {r.movedFrom : r \in {n \in next : n.pinned /\ n.movedFrom # Never}}
        anchor == IF loose # {} THEN Max(loose)
                  ELSE IF origins # {} THEN Max(origins) ELSE t.startsAt
        later == {r \in R : r.at > t.startsAt}
        gone == ({r.at : r \in {l \in later : l.status = "cancelled"}}
                    \cup {r.movedFrom : r \in later \cup next}) \ {Never}
        grid == {d \in 0..Until :
                    /\ d > anchor /\ (d - anchor) % Week = 0 /\ d > t.startsAt
                    /\ d \notin {r.at : r \in later}
                    /\ \A g \in gone : 2 * d >= 2 * g + Week \/ 2 * g >= 2 * d + Week} IN
    {d \in grid : Cardinality({e \in grid : e < d}) + Cardinality(kept) < Upcoming - 1}

\* Mistake: the dates the table's own date went past stay.
SyncKeepsPassed(R, t, reflow) ==
    LET open == Scheduled(R)
        next == IF open = {} THEN {} ELSE {First(open)} IN
    IF ~Going(t) THEN Drop(R, open)
    ELSE (R \ next) \cup (IF next = {} THEN {Loose(t.startsAt)}
                           ELSE {[r EXCEPT !.at = t.startsAt] : r \in next})

\* syncTableSessions: brings the rows in line with the table.
Sync(R, t, reflow) ==
    LET open == Scheduled(R)
        next == IF open = {} THEN {} ELSE {First(open)}
        rest == open \ next
        stale == {r \in rest : r.at <= t.startsAt \/ (reflow /\ ~r.pinned)}
        placed == IF next = {} THEN {Loose(t.startsAt)}
                  ELSE {[r EXCEPT !.at = t.startsAt] : r \in next}
        synced == Drop(R \ next, stale) \cup placed IN
    IF ~Going(t) THEN Drop(R \ next, rest) \cup Cancelled(next)
    ELSE IF ~Weekly(t) \/ t.status = "draft" THEN synced
    ELSE synced \cup {Loose(d) : d \in Fresh(synced, rest \ stale, next, t)}

-----------------------------------------------------------------------------
(* Dates to come. *)

\* nextScheduledAfter: the first date on the list still ahead.
Listed(date) == {r.at : r \in {s \in Scheduled(rows) : s.at > date /\ s.at > today}}
nextScheduledAfter(date) == Min(Listed(date))

\* nextWeeklySession: the first date of the rule past `after`.
nextWeeklySession(date, after) ==
    date + Week * (1 + (IF after > date THEN (after - date) \div Week ELSE 0))

\* Where a session that goes on may go: the date the GM gives, or the next on the list, or the rule's.
nextSessionAt ==
    {d \in Dates : d > today}
    \cup (IF Listed(table.startsAt) # {} THEN {nextScheduledAfter(table.startsAt)}
          ELSE IF Weekly(table) THEN {nextWeeklySession(table.startsAt, today)} \cap Dates ELSE {})

-----------------------------------------------------------------------------
(* The GM's answer to "did it happen?". *)

Call == edits > 0 /\ edits' = edits - 1

\* Read and authorized before the transaction.
Ask(k, op, next) ==
    /\ asked[k] = NoAnswer /\ table.status = "awaiting_confirmation" /\ Call
    /\ op \in {"hold", "skip"} => table.kind # "one_shot"
    /\ next \in CASE op \in {"hold", "skip"} -> nextSessionAt
                  [] op = "postpone" -> {d \in Dates : d > today}
                  [] OTHER -> {Never}
    /\ asked' = [asked EXCEPT ![k] = [op |-> op, date |-> table.startsAt, next |-> next]]
    /\ UNCHANGED <<table, rows, sent, due, today>>

Settled(op) == CASE op = "conclude" -> "concluded"
                 [] op = "notHeld" -> "not_held"
                 [] OTHER -> "active"

\* Mistake: the transaction trusts the status read before it.
TakesBlind(a) == Settled(a.op) = "active" => Free(a.next)

\* Whether the transaction still takes the answer: the table waits, and a new date is free.
Takes(a) == table.status = "awaiting_confirmation" /\ (Settled(a.op) = "active" => Free(a.next))

\* The new row, the outcome of the session that passed (a postponement has none) and the sync.
Apply(a) ==
    LET moves == Settled(a.op) = "active"
        t == [table EXCEPT !.status = Settled(a.op), !.startsAt = IF moves THEN a.next ELSE @]
        passed == IF a.op = "hold" \/ a.op = "skip" THEN table.startsAt ELSE a.date
        outcome == IF a.op \in {"conclude", "hold"} THEN "held" ELSE "not_held" IN
    /\ table' = t
    /\ rows' = Sync(IF a.op = "postpone" THEN rows ELSE closeSession(rows, passed, outcome), t, FALSE)

Answer(k) ==
    /\ asked[k] # NoAnswer
    /\ asked' = [asked EXCEPT ![k] = NoAnswer]
    /\ IF Takes(asked[k]) THEN Apply(asked[k]) ELSE UNCHANGED <<table, rows>>
    /\ UNCHANGED <<sent, due, edits, today>>

-----------------------------------------------------------------------------
(* The GM's calendar. *)

Becomes(t, R, reflow) == table' = t /\ rows' = Sync(R, t, reflow)
Rest == UNCHANGED <<sent, asked, due, today>>

finishTable ==
    /\ table.kind # "one_shot" /\ table.status \in {"active", "awaiting_confirmation"} /\ Call
    /\ Becomes([table EXCEPT !.status = "concluded"], rows, FALSE)
    /\ Rest

\* disableTable, closeTable and the admin's close.
disableTable ==
    /\ table.status \notin {"concluded", "disabled"} /\ Call
    /\ Becomes([table EXCEPT !.status = "disabled"], rows, FALSE)
    /\ Rest

\* The form posts a date, any date, whatever the status short of concluded; a new rule or length
\* reflows too.
updateTable(d, reflow) ==
    /\ table.status # "concluded" /\ Call
    /\ table.status \notin {"disabled", "not_held"} => Free(d)
    /\ Becomes([table EXCEPT !.startsAt = d], rows, reflow \/ d # table.startsAt)
    /\ Rest

\* The rows are not brought in line here.
publishTable ==
    /\ table.status = "draft" /\ table.startsAt >= today /\ Free(table.startsAt) /\ Call
    /\ table' = [table EXCEPT !.status = "active"]
    /\ UNCHANGED rows
    /\ Rest

MayPlan == table.kind # "one_shot" /\ table.status \in {"active", "awaiting_confirmation"}

\* Mistake: the table follows its first session and its rows are left as they are.
FollowOnly(R) ==
    LET first == First(Scheduled(R)).at
        follows == table.status = "active" /\ first # table.startsAt IN
    /\ follows => Free(first)
    /\ table' = IF follows THEN [table EXCEPT !.startsAt = first] ELSE table
    /\ rows' = R

\* followFirst, then the sync: an active table takes the date of its first session, if it is free.
Follow(R) ==
    LET first == First(Scheduled(R)).at
        follows == table.status = "active" /\ first # table.startsAt IN
    /\ follows => Free(first)
    /\ Becomes(IF follows THEN [table EXCEPT !.startsAt = first] ELSE table, R, FALSE)

scheduleSession(d) ==
    /\ MayPlan /\ d > today /\ Call
    /\ \A r \in Scheduled(rows) : r.at # d
    /\ Follow(rows \cup {[Loose(d) EXCEPT !.pinned = TRUE]})
    /\ Rest

moveSession(r, d) ==
    /\ MayPlan /\ r.at > today /\ d > today /\ Call
    /\ \A q \in Scheduled(rows) \ {r} : q.at # d
    /\ Follow((rows \ {r}) \cup
              {[r EXCEPT !.at = d, !.pinned = TRUE,
                         !.movedFrom = IF @ = Never THEN r.at ELSE @]})
    /\ Rest

cancelSession(r) ==
    /\ MayPlan /\ r.at > today /\ Call
    /\ \E q \in Scheduled(rows) \ {r} : q.at > today
    /\ Follow((rows \ {r}) \cup {[r EXCEPT !.status = "cancelled", !.pinned = TRUE]})
    /\ Rest

-----------------------------------------------------------------------------
(* The sweeper. *)

\* closeElapsedTables
closeElapsed ==
    /\ table.status = "active" /\ Over(table.startsAt)
    /\ table' = [table EXCEPT !.status = "awaiting_confirmation"]
    /\ UNCHANGED <<rows, sent, asked, due, edits, today>>

SentFor(date, step) == {s \in sent : s.startsAt = date /\ s.step = step}

\* autoCloseAt, from the last reminder of the session.
CloseAt(date, s) == Max({date + Duration + CloseAfter, s.sentAt + Notice})

\* Mistake: the last reminder waits for a first one that a late sweep skips.
StepAfterFirst(date) ==
    LET elapsed == today - (date + Duration) IN
    IF elapsed < FirstAfter THEN "none"
    ELSE IF elapsed < LastAfter THEN (IF SentFor(date, "1h") # {} THEN "none" ELSE "1h")
    ELSE IF SentFor(date, "1h") = {} THEN "none"
    ELSE IF SentFor(date, "7d") = {} THEN "7d" ELSE "close"

closeStepFor(date) ==
    LET elapsed == today - (date + Duration) IN
    IF elapsed < FirstAfter THEN "none"
    ELSE IF elapsed < LastAfter THEN (IF SentFor(date, "1h") # {} THEN "none" ELSE "1h")
    ELSE IF SentFor(date, "7d") = {} THEN "7d"
    ELSE IF \A s \in SentFor(date, "7d") : today >= CloseAt(date, s) THEN "close" ELSE "none"

\* remindToClose reads the tables that wait, and what they were sent, without a lock.
remindToClose ==
    /\ due = NoStep /\ table.status = "awaiting_confirmation"
    /\ closeStepFor(table.startsAt) # "none"
    /\ due' = [step |-> closeStepFor(table.startsAt), date |-> table.startsAt]
    /\ UNCHANGED <<table, rows, sent, asked, edits, today>>

remind ==
    /\ due.step \in {"1h", "7d"}
    /\ due' = NoStep
    /\ sent' = IF SentFor(due.date, due.step) # {} THEN sent
               ELSE sent \cup {[startsAt |-> due.date, step |-> due.step, sentAt |-> today]}
    /\ UNCHANGED <<table, rows, asked, edits, today>>

\* Mistake: the close takes a table that waits for the answer to another session.
StillWaits == table.status = "awaiting_confirmation"

StillDue == table.status = "awaiting_confirmation" /\ table.startsAt = due.date

autoClose ==
    /\ due.step = "close" /\ table.kind = "one_shot"
    /\ due' = NoStep
    /\ IF StillDue
       THEN Becomes([table EXCEPT !.status = "concluded"], closeSession(rows, due.date, "held"), FALSE)
       ELSE UNCHANGED <<table, rows>>
    /\ UNCHANGED <<sent, asked, edits, today>>

\* Mistake: the next date is not compared with the family's tables.
AnyNextHeld ==
    {IF Listed(table.startsAt) # {} THEN nextScheduledAfter(table.startsAt)
     ELSE nextWeeklySession(table.startsAt, today)} \cap Dates

\* The next date on the list or of the rule, or the first of the weeks after it that is free.
NextHeld ==
    LET start == IF Listed(table.startsAt) # {} THEN nextScheduledAfter(table.startsAt)
                 ELSE nextWeeklySession(table.startsAt, today) IN
    {d \in {start + n * Week : n \in 0..(Attempts - 1)} \cap Dates : Free(d)}

autoHold ==
    /\ due.step = "close" /\ table.kind # "one_shot"
    /\ due' = NoStep
    /\ IF StillDue /\ NextHeld # {}
       THEN Becomes([table EXCEPT !.status = "active", !.startsAt = Min(NextHeld)],
                    closeSession(rows, table.startsAt, "held"), FALSE)
       ELSE UNCHANGED <<table, rows>>
    /\ UNCHANGED <<sent, asked, edits, today>>

\* Requests and sweeps last less than a tick.
DayEnds ==
    /\ today < MaxClock /\ due = NoStep /\ \A k \in Tabs : asked[k] = NoAnswer
    /\ today' = today + 1
    /\ UNCHANGED <<table, rows, sent, asked, due, edits>>

-----------------------------------------------------------------------------
CalendarInit ==
    /\ table \in [kind: TableKinds, status: {"active"} \cup (IF Drafts THEN {"draft"} ELSE {}),
                  startsAt: StartDates]
    /\ rows = Sync({}, table, FALSE)
    /\ sent = {} /\ asked = [k \in Tabs |-> NoAnswer] /\ due = NoStep
    /\ edits = MaxEdits /\ today = 0

GmStep ==
    \/ \E k \in Tabs : Answer(k) \/ \E op \in Answers, d \in Dates \cup {Never} : Ask(k, op, d)
    \/ finishTable \/ disableTable \/ publishTable
    \/ \E d \in Dates : scheduleSession(d) \/ \E reflow \in BOOLEAN : updateTable(d, reflow)
    \/ \E r \in Scheduled(rows) : cancelSession(r) \/ \E d \in Dates : moveSession(r, d)

SweeperStep == closeElapsed \/ remindToClose \/ remind \/ autoClose \/ autoHold

CalendarNext == GmStep \/ SweeperStep \/ DayEnds

CalendarSpec == CalendarInit /\ [][CalendarNext]_calendar

-----------------------------------------------------------------------------
(* Properties. *)

\* The rows never disagree with the table: no two of its sessions are scheduled on one date, whoever
\* put them there; while it goes on, its date is the first of them; once it ended, nothing is
\* scheduled (sessions.ts: every write that changes a date or a status calls syncTableSessions).
RowsMatchTable ==
    /\ \A r, q \in Scheduled(rows) : r.at = q.at => r = q
    /\ IF Going(table)
       THEN \E r \in Scheduled(rows) :
               r.at = table.startsAt /\ \A q \in Scheduled(rows) : q.at >= r.at
       ELSE Scheduled(rows) = {}

\* A table that holds its slot is never on a date that overlaps another table of its family,
\* whichever way its date moved: an answer, an edit, a session moved or cancelled, the sweeper.
NoClash == table.status \notin {"disabled", "not_held"} => Free(table.startsAt)

\* What happened stays: a session that was held, not held or cancelled is never rewritten or
\* deleted, whatever is done to the calendar later.
HistoryKept == [][rows \ Scheduled(rows) \subseteq rows']_calendar

InLine == Sync(rows, table, FALSE) = rows

\* Syncing again finds nothing to do: every write but publishing a draft leaves the rows as the
\* table says, the dates of the rule included.
StaysInLine ==
    [][<<table, rows>>' # <<table, rows>> /\ InLine => InLine' \/ table.status = "draft"]_calendar

\* The sweeper answers for a GM only after the last reminder of that very session has had its
\* notice, whatever was answered or moved since it read the table (close-reminders.ts).
WarnedBeforeClose ==
    [][due.step = "close" /\ due' = NoStep /\ table' # table =>
        /\ table.status = "awaiting_confirmation"
        /\ today >= table.startsAt + Duration + CloseAfter
        /\ \E s \in SentFor(table.startsAt, "7d") : s.sentAt + Notice <= today]_calendar

\* A session is answered once: of two answers, or an answer and the sweeper, one takes the table
\* and the other changes nothing.
OneAnswer ==
    [][asked' # asked /\ table.status # "awaiting_confirmation" => UNCHANGED <<table, rows>>]_calendar

\* The bounds of the instance, not the code, keep the close from coming.
OutOfTime ==
    \/ table.startsAt + Duration + CloseAfter > MaxClock
    \/ \E s \in SentFor(table.startsAt, "7d") : s.sentAt + Notice > MaxClock

\* Nobody waits for ever: a session whose GM never answers is settled by the sweeper, unless a
\* campaign has no free date in sight.
Settles ==
    table.status = "awaiting_confirmation" ~>
        (table.status # "awaiting_confirmation" \/ OutOfTime
            \/ (table.kind # "one_shot" /\ NextHeld = {}))

=============================================================================
