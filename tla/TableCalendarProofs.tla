-------------------------- MODULE TableCalendarProofs --------------------------
(***************************************************************************)
(* Theorems about TableCalendar, for any rule, lengths, reminders, dates of  *)
(* the other tables and calls of the GM, with any number of answers in       *)
(* flight: the rows say what the table says, no date clashes, what happened  *)
(* stays, and nobody is closed on unwarned.                                  *)
(***************************************************************************)
EXTENDS TableCalendar, FiniteSetTheorems, WellFoundedInduction, TLAPS

Unique(R) == \A r, q \in Scheduled(R) : r.at = q.at => r = q

\* RowsMatchTable, of any rows and table.
Match(R, t) ==
    /\ Unique(R)
    /\ IF Going(t)
       THEN \E r \in Scheduled(R) : r.at = t.startsAt /\ \A q \in Scheduled(R) : q.at >= r.at
       ELSE Scheduled(R) = {}

Tables == [kind: TableKinds, status: TableStatuses, startsAt: Dates]
Reminders == [startsAt: Dates, step: {"1h", "7d"}, sentAt: 0..MaxClock]
Requests == [op: Answers \cup {"none"}, date: Dates \cup {Never}, next: Dates \cup {Never}]

\* An answer in flight that moves the table says where to.
AnswersDated ==
    \A k \in Tabs : asked[k] # NoAnswer =>
        /\ asked[k].op \in Answers /\ asked[k].date \in Dates
        /\ Settled(asked[k].op) = "active" => asked[k].next \in Dates

\* A close that is due was warned of, and stays so until the table moves.
CloseIsWarned ==
    /\ due.step # "none" => due.date \in Dates
    /\ due.step = "close" =>
        /\ today >= due.date + Duration + CloseAfter
        /\ \E s \in SentFor(due.date, "7d") : s.sentAt + Notice <= today

CalendarInv == CalendarTypeOK /\ AnswersDated /\ CloseIsWarned /\ RowsMatchTable /\ NoClash

LEMMA Numbers ==
    /\ LastDate \in Nat /\ MaxClock \in Nat /\ MaxEdits \in Nat /\ Until \in 0..LastDate
    /\ {Week, Upcoming, Duration, Attempts, Notice} \subseteq Nat \ {0}
    /\ {FirstAfter, LastAfter, CloseAfter} \subseteq Nat /\ Dates \subseteq Nat
    /\ 0..Until \subseteq Dates /\ Never \notin Dates
  BY CalendarAssumption DEF Dates, Never

-----------------------------------------------------------------------------
(* The first of some dates. *)

Less == {r \in Nat \X Nat : r[1] < r[2]}

LEMMA EarliestExists ==
    ASSUME NEW T, T \subseteq Nat, T # {}
    PROVE  \E h \in T : \A k \in T : h <= k
<1>1. IsWellFoundedOn(Less, Nat)
  <2>1. OpToRel(<, Nat) = Less
    BY DEF OpToRel, Less
  <2>. QED
    BY <2>1, NatLessThanWellFounded
<1>2. PICK h \in T : \A k \in T : ~(<<k, h>> \in Less)
  BY <1>1, WFMin
<1>3. ASSUME NEW k \in T PROVE h <= k
  <2>1. k \in Nat /\ h \in Nat /\ ~(<<k, h>> \in Less)
    BY <1>2
  <2>2. <<k, h>> \in Nat \X Nat /\ ~(k < h)
    BY <2>1 DEF Less
  <2>. QED
    BY <2>1, <2>2
<1>. QED
  BY <1>3

LEMMA MinIsOne ==
    ASSUME NEW T, T \subseteq Nat, T # {}
    PROVE  Min(T) \in T /\ \A k \in T : Min(T) <= k
  BY EarliestExists DEF Min

LEMMA FirstIsOne ==
    ASSUME NEW R, R \subseteq Sessions, R # {}
    PROVE  First(R) \in R /\ \A q \in R : First(R).at <= q.at
<1> DEFINE T == {r.at : r \in R}
<1>1. T \subseteq Nat /\ T # {}
  BY Numbers DEF Sessions
<1>2. PICK h \in T : \A k \in T : h <= k
  <2> HIDE DEF T
  <2>. QED
    BY <1>1, EarliestExists
<1>3. PICK r \in R : r.at = h
  OBVIOUS
<1>4. \A q \in R : r.at <= q.at
  BY <1>2, <1>3
<1>. QED
  BY <1>4 DEF First

LEMMA MaxOfTwo ==
    ASSUME NEW a \in Int, NEW b \in Int, NEW t \in Int, t >= Max({a, b})
    PROVE  t >= a /\ t >= b
<1>1. \E x \in {a, b} : \A y \in {a, b} : x >= y
  OBVIOUS
<1>2. Max({a, b}) \in {a, b} /\ \A y \in {a, b} : Max({a, b}) >= y
  BY <1>1 DEF Max
<1>. QED
  BY <1>2

-----------------------------------------------------------------------------
(* What syncTableSessions makes of any rows and table. *)

NextOf(R) == IF Scheduled(R) = {} THEN {} ELSE {First(Scheduled(R))}
RestOf(R) == Scheduled(R) \ NextOf(R)
StaleOf(R, t, reflow) == {r \in RestOf(R) : r.at <= t.startsAt \/ (reflow /\ ~r.pinned)}
PlacedOf(R, t) == IF NextOf(R) = {} THEN {Loose(t.startsAt)}
                  ELSE {[r EXCEPT !.at = t.startsAt] : r \in NextOf(R)}
SyncedOf(R, t, reflow) == Drop(R \ NextOf(R), StaleOf(R, t, reflow)) \cup PlacedOf(R, t)
FreshOf(R, t, reflow) ==
    Fresh(SyncedOf(R, t, reflow), RestOf(R) \ StaleOf(R, t, reflow), NextOf(R), t)

LEMMA SyncParts ==
    ASSUME NEW R, NEW t, NEW reflow
    PROVE  Sync(R, t, reflow) =
               IF ~Going(t) THEN Drop(R \ NextOf(R), RestOf(R)) \cup Cancelled(NextOf(R))
               ELSE IF ~Weekly(t) \/ t.status = "draft" THEN SyncedOf(R, t, reflow)
               ELSE SyncedOf(R, t, reflow) \cup {Loose(d) : d \in FreshOf(R, t, reflow)}
  BY DEF Sync, NextOf, RestOf, StaleOf, PlacedOf, SyncedOf, FreshOf

LEMMA LooseIs ==
    ASSUME NEW d \in Dates
    PROVE  Loose(d) \in Sessions /\ Loose(d).status = "scheduled" /\ Loose(d).at = d
  BY DEF Loose, Sessions, RowStatuses

LEMMA CancelledAre ==
    ASSUME NEW R, R \subseteq Sessions
    PROVE  Cancelled(R) \subseteq Sessions /\ Scheduled(Cancelled(R)) = {}
<1>1. ASSUME NEW r \in R
      PROVE  /\ [r EXCEPT !.status = "cancelled"] \in Sessions
             /\ [r EXCEPT !.status = "cancelled"].status = "cancelled"
  BY DEF Sessions, RowStatuses
<1>. QED
  BY <1>1 DEF Cancelled, Scheduled

LEMMA DropKeeps ==
    ASSUME NEW R, NEW S, R \subseteq Sessions, S \subseteq Sessions
    PROVE  /\ Drop(R, S) \subseteq Sessions
           /\ Scheduled(Drop(R, S)) = Scheduled(R) \ S
           /\ R \ S \subseteq Drop(R, S)
<1> DEFINE P == {r \in S : r.pinned}
<1>1. Cancelled(P) \subseteq Sessions /\ Scheduled(Cancelled(P)) = {}
  BY CancelledAre
<1>2. Drop(R, S) = (R \ S) \cup Cancelled(P)
  BY DEF Drop
<1> HIDE DEF P
<1>. QED
  BY <1>1, <1>2 DEF Scheduled

\* The session that holds the table's date, written there or made.
LEMMA PlacedIs ==
    ASSUME NEW R, R \subseteq Sessions, NEW t \in Tables
    PROVE  \E p \in Sessions : PlacedOf(R, t) = {p} /\ p.status = "scheduled" /\ p.at = t.startsAt
<1>1. t.startsAt \in Dates
  BY DEF Tables
<1>2. CASE NextOf(R) = {}
  BY <1>1, <1>2, LooseIs DEF PlacedOf
<1>3. CASE NextOf(R) # {}
  <2>1. Scheduled(R) \subseteq Sessions /\ Scheduled(R) # {}
    BY <1>3 DEF Scheduled, NextOf
  <2>2. First(Scheduled(R)) \in Scheduled(R)
    BY <2>1, FirstIsOne
  <2>3. PICK r \in Scheduled(R) : NextOf(R) = {r}
    BY <2>1, <2>2 DEF NextOf
  <2> DEFINE p == [r EXCEPT !.at = t.startsAt]
  <2>4. r \in Sessions /\ r.status = "scheduled"
    BY <2>1, <2>3 DEF Scheduled
  <2>5. p \in Sessions /\ p.status = "scheduled" /\ p.at = t.startsAt
    BY <1>1, <2>4 DEF Sessions
  <2>6. PlacedOf(R, t) = {p}
    BY <2>3 DEF PlacedOf
  <2> HIDE DEF p
  <2>. QED
    BY <2>5, <2>6
<1>. QED
  BY <1>2, <1>3

\* NextOf, RestOf and StaleOf are scheduled rows.
LEMMA OpenParts ==
    ASSUME NEW R, R \subseteq Sessions, NEW t, NEW reflow
    PROVE  /\ NextOf(R) \subseteq Scheduled(R) /\ RestOf(R) = Scheduled(R) \ NextOf(R)
           /\ StaleOf(R, t, reflow) \subseteq RestOf(R) /\ Scheduled(R) \subseteq R
           /\ Scheduled(R \ NextOf(R)) = RestOf(R)
<1>1. Scheduled(R) \subseteq Sessions /\ Scheduled(R) \subseteq R
  BY DEF Scheduled
<1>2. NextOf(R) \subseteq Scheduled(R)
  BY <1>1, FirstIsOne DEF NextOf
<1>3. Scheduled(R \ NextOf(R)) = RestOf(R)
  BY DEF Scheduled, RestOf
<1>. QED
  BY <1>1, <1>2, <1>3 DEF RestOf, StaleOf

\* Before the rule adds its dates.
LEMMA SyncedIs ==
    ASSUME NEW R, R \subseteq Sessions, NEW t \in Tables, NEW reflow
    PROVE  /\ SyncedOf(R, t, reflow) \subseteq Sessions
           /\ Scheduled(SyncedOf(R, t, reflow)) = (RestOf(R) \ StaleOf(R, t, reflow)) \cup PlacedOf(R, t)
           /\ R \ Scheduled(R) \subseteq SyncedOf(R, t, reflow)
<1> DEFINE D == Drop(R \ NextOf(R), StaleOf(R, t, reflow))
<1>1. /\ NextOf(R) \subseteq Scheduled(R) /\ RestOf(R) = Scheduled(R) \ NextOf(R)
      /\ StaleOf(R, t, reflow) \subseteq RestOf(R) /\ Scheduled(R) \subseteq R
      /\ Scheduled(R \ NextOf(R)) = RestOf(R)
  BY OpenParts
<1>2. R \ NextOf(R) \subseteq Sessions /\ StaleOf(R, t, reflow) \subseteq Sessions
  BY <1>1
<1>3. /\ D \subseteq Sessions /\ Scheduled(D) = RestOf(R) \ StaleOf(R, t, reflow)
      /\ (R \ NextOf(R)) \ StaleOf(R, t, reflow) \subseteq D
  <2> DEFINE X == R \ NextOf(R)
             S == StaleOf(R, t, reflow)
  <2>1. X \subseteq Sessions /\ S \subseteq Sessions /\ Scheduled(X) = RestOf(R)
    BY <1>1, <1>2
  <2> HIDE DEF X, S
  <2>2. /\ Drop(X, S) \subseteq Sessions /\ Scheduled(Drop(X, S)) = Scheduled(X) \ S
        /\ X \ S \subseteq Drop(X, S)
    BY <2>1, DropKeeps
  <2>. QED
    BY <2>1, <2>2 DEF X, S
<1>4. PICK p \in Sessions : PlacedOf(R, t) = {p} /\ p.status = "scheduled"
  BY PlacedIs
<1>5. SyncedOf(R, t, reflow) = D \cup {p}
  BY <1>4 DEF SyncedOf
<1>6. Scheduled(D \cup {p}) = Scheduled(D) \cup {p}
  BY <1>4 DEF Scheduled
<1> HIDE DEF D
<1>. QED
  BY <1>1, <1>3, <1>4, <1>5, <1>6

\* A date the rule adds is past the table's, and no row past it has it.
LEMMA FreshIs ==
    ASSUME NEW R, NEW kept, NEW next, NEW t \in Tables, NEW d \in Fresh(R, kept, next, t)
    PROVE  /\ d \in Dates /\ d > t.startsAt
           /\ \A r \in R : r.at > t.startsAt => r.at # d
<1>1. d \in 0..Until /\ d > t.startsAt /\ d \notin {r.at : r \in {q \in R : q.at > t.startsAt}}
  BY DEF Fresh
<1>. QED
  BY <1>1, Numbers

\* Two sessions scheduled on one date become none; the table's date is the first of them.
LEMMA SyncMatches ==
    ASSUME NEW R, R \subseteq Sessions, NEW t \in Tables, NEW reflow, Unique(R)
    PROVE  Match(Sync(R, t, reflow), t)
<1> DEFINE N == SyncedOf(R, t, reflow)
           rest == RestOf(R) \ StaleOf(R, t, reflow)
<1>1. /\ NextOf(R) \subseteq Scheduled(R) /\ RestOf(R) = Scheduled(R) \ NextOf(R)
      /\ StaleOf(R, t, reflow) \subseteq RestOf(R) /\ Scheduled(R) \subseteq R
      /\ Scheduled(R \ NextOf(R)) = RestOf(R)
  BY OpenParts
<1>2. CASE ~Going(t)
  <2>1. R \ NextOf(R) \subseteq Sessions /\ RestOf(R) \subseteq Sessions /\ NextOf(R) \subseteq Sessions
    BY <1>1
  <2>2. Scheduled(Drop(R \ NextOf(R), RestOf(R))) = {}
    <3> DEFINE X == R \ NextOf(R)
    <3>1. X \subseteq Sessions /\ RestOf(R) \subseteq Sessions /\ Scheduled(X) = RestOf(R)
      BY <1>1, <2>1
    <3> HIDE DEF X
    <3>2. Scheduled(Drop(X, RestOf(R))) = Scheduled(X) \ RestOf(R)
      BY <3>1, DropKeeps
    <3>. QED
      BY <3>1, <3>2 DEF X
  <2>3. Scheduled(Cancelled(NextOf(R))) = {}
    BY <2>1, CancelledAre
  <2>4. Scheduled(Sync(R, t, reflow)) = {}
    BY <1>2, <2>2, <2>3, SyncParts DEF Scheduled
  <2>. QED
    BY <1>2, <2>4 DEF Match, Unique
<1>3. CASE Going(t)
  <2>1. N \subseteq Sessions /\ Scheduled(N) = rest \cup PlacedOf(R, t)
    BY SyncedIs
  <2>2. PICK p \in Sessions : PlacedOf(R, t) = {p} /\ p.status = "scheduled" /\ p.at = t.startsAt
    BY PlacedIs
  <2>3. t.startsAt \in Nat /\ \A r \in Sessions : r.at \in Nat
    BY Numbers DEF Tables, Sessions
  <2>4. \A r \in rest : r \in Scheduled(R) /\ r \in Sessions /\ r.at > t.startsAt
    BY <1>1, <2>3 DEF StaleOf
  <2> DEFINE added == IF ~Weekly(t) \/ t.status = "draft" THEN {} ELSE FreshOf(R, t, reflow)
             A == {Loose(d) : d \in added}
  <2>5. Sync(R, t, reflow) = N \cup A
    BY <1>3, SyncParts
  <2>6. ASSUME NEW d \in added
        PROVE  /\ d \in Dates /\ d > t.startsAt /\ Loose(d).status = "scheduled"
               /\ Loose(d).at = d /\ \A r \in N : r.at > t.startsAt => r.at # d
    <3>1. d \in FreshOf(R, t, reflow)
      OBVIOUS
    <3>2. /\ d \in Dates /\ d > t.startsAt
          /\ \A r \in N : r.at > t.startsAt => r.at # d
      BY <3>1, FreshIs DEF FreshOf
    <3>. QED
      BY <3>2, LooseIs
  <2> HIDE DEF N, rest, added
  <2>7. Scheduled(N \cup A) = rest \cup {p} \cup A
    BY <2>1, <2>2, <2>6 DEF Scheduled
  <2>8. rest \subseteq N
    BY <2>1 DEF Scheduled
  <2>9. ASSUME NEW r \in Scheduled(N \cup A)
        PROVE  r.at >= t.startsAt /\ (r.at = t.startsAt => r = p)
    <3>1. CASE r \in rest
      BY <2>3, <2>4, <3>1
    <3>2. CASE r = p
      BY <2>2, <2>3, <3>2
    <3>3. CASE r \in A
      <4>1. PICK d \in added : r = Loose(d)
        BY <3>3
      <4>2. r.at = d /\ d \in Nat /\ d > t.startsAt
        BY <2>6, <4>1, Numbers
      <4>. QED
        BY <2>3, <4>2
    <3>. QED
      BY <2>7, <3>1, <3>2, <3>3
  <2>10. ASSUME NEW r \in Scheduled(N \cup A), NEW q \in Scheduled(N \cup A), r.at = q.at
         PROVE  r = q
    <3>1. CASE r.at = t.startsAt
      BY <2>9, <2>10, <3>1
    <3>2. CASE r.at # t.startsAt
      <4>1. r \in rest \cup A /\ q \in rest \cup A
        BY <2>2, <2>7, <2>10, <3>2
      <4>2. CASE r \in rest /\ q \in rest
        BY <2>4, <2>10, <4>2 DEF Unique
      <4>3. CASE r \in A /\ q \in A
        <5>1. PICK d \in added : r = Loose(d)
          BY <4>3
        <5>2. PICK e \in added : q = Loose(e)
          BY <4>3
        <5>. QED
          BY <2>6, <2>10, <5>1, <5>2
      <4>4. CASE r \in A /\ q \in rest
        <5>1. PICK d \in added : r = Loose(d)
          BY <4>4
        <5>. QED
          BY <2>4, <2>6, <2>8, <2>10, <4>4, <5>1
      <4>5. CASE r \in rest /\ q \in A
        <5>1. PICK d \in added : q = Loose(d)
          BY <4>5
        <5>. QED
          BY <2>4, <2>6, <2>8, <2>10, <4>5, <5>1
      <4>. QED
        BY <4>1, <4>2, <4>3, <4>4, <4>5
    <3>. QED
      BY <3>1, <3>2
  <2>11. p \in Scheduled(N \cup A) /\ p.at = t.startsAt
    BY <2>2, <2>7
  <2>. QED
    BY <1>3, <2>5, <2>9, <2>10, <2>11 DEF Match, Unique
<1>. QED
  BY <1>2, <1>3

LEMMA SyncTyped ==
    ASSUME NEW R, R \subseteq Sessions, NEW t \in Tables, NEW reflow
    PROVE  Sync(R, t, reflow) \subseteq Sessions /\ R \ Scheduled(R) \subseteq Sync(R, t, reflow)
<1>1. /\ NextOf(R) \subseteq Scheduled(R) /\ RestOf(R) = Scheduled(R) \ NextOf(R)
      /\ Scheduled(R) \subseteq R
  BY OpenParts
<1>2. CASE ~Going(t)
  <2>1. R \ NextOf(R) \subseteq Sessions /\ RestOf(R) \subseteq Sessions /\ NextOf(R) \subseteq Sessions
    BY <1>1
  <2>2. /\ Drop(R \ NextOf(R), RestOf(R)) \subseteq Sessions
        /\ (R \ NextOf(R)) \ RestOf(R) \subseteq Drop(R \ NextOf(R), RestOf(R))
    BY <2>1, DropKeeps
  <2>3. Cancelled(NextOf(R)) \subseteq Sessions
    BY <2>1, CancelledAre
  <2>. QED
    BY <1>1, <1>2, <2>2, <2>3, SyncParts
<1>3. CASE Going(t)
  <2>1. SyncedOf(R, t, reflow) \subseteq Sessions /\ R \ Scheduled(R) \subseteq SyncedOf(R, t, reflow)
    BY SyncedIs
  <2>2. {Loose(d) : d \in FreshOf(R, t, reflow)} \subseteq Sessions
    BY FreshIs, LooseIs DEF FreshOf
  <2>. QED
    BY <1>3, <2>1, <2>2, SyncParts
<1>. QED
  BY <1>2, <1>3

-----------------------------------------------------------------------------
(* Syncing twice.  Of the dates of the rule that are left, either the first  *)
(* sync added the first few and now there are enough, or none is left.       *)

LEMMA MaxIsOne ==
    ASSUME NEW T, T \subseteq Dates, T # {}
    PROVE  Max(T) \in T /\ \A k \in T : Max(T) >= k
<1> DEFINE U == {LastDate - x : x \in T}
<1>1. U \subseteq Nat /\ U # {}
  <2>1. \A x \in T : LastDate - x \in Nat
    BY Numbers DEF Dates
  <2>. QED
    BY <2>1
<1>2. PICK h \in U : \A k \in U : h <= k
  <2> HIDE DEF U
  <2>. QED
    BY <1>1, EarliestExists
<1>3. PICK x \in T : h = LastDate - x
  OBVIOUS
<1>4. \A k \in T : LastDate - x <= LastDate - k
  BY <1>2, <1>3
<1>5. \A k \in T : x >= k
  BY <1>4, Numbers DEF Dates
<1>. QED
  BY <1>5 DEF Max

\* A grid of weeks does not depend on which of its dates it is counted from.
LEMMA WeeksAdd ==
    ASSUME NEW w \in Nat \ {0}, NEW x \in Nat, NEW y \in Nat, x % w = 0, y % w = 0
    PROVE  (x + y) % w = 0
<1> DEFINE a == x \div w
           b == y \div w
<1>1. a \in Nat /\ b \in Nat
  BY Z3
<1>2. x = a * w /\ y = b * w
  BY Z3
<1> HIDE DEF a, b
<1>3. x + y = (a + b) * w
  BY <1>1, <1>2, Z3
<1>4. ((a + b) * w) % w = 0
  BY <1>1, Z3
<1>. QED
  BY <1>3, <1>4

\* The anchor and the grid of Fresh.
LooseDates(kept) == {r.at : r \in {k \in kept : ~k.pinned}}
Origins(next) == {r.movedFrom : r \in {n \in next : n.pinned /\ n.movedFrom # Never}}
Anchor(kept, next, t) ==
    IF LooseDates(kept) # {} THEN Max(LooseDates(kept))
    ELSE IF Origins(next) # {} THEN Max(Origins(next)) ELSE t.startsAt
Later(R, t) == {r \in R : r.at > t.startsAt}
GoneDates(R, next, t) ==
    ({r.at : r \in {l \in Later(R, t) : l.status = "cancelled"}}
        \cup {r.movedFrom : r \in Later(R, t) \cup next}) \ {Never}
Untaken(d, R, next, t) ==
    /\ d > t.startsAt /\ d \notin {r.at : r \in Later(R, t)}
    /\ \A g \in GoneDates(R, next, t) : 2 * d >= 2 * g + Week \/ 2 * g >= 2 * d + Week
OnGrid(d, anchor) == d > anchor /\ (d - anchor) % Week = 0
Grid(R, kept, next, t) ==
    {d \in 0..Until : OnGrid(d, Anchor(kept, next, t)) /\ Untaken(d, R, next, t)}
Below(G, d) == {e \in G : e < d}

LEMMA FreshOnGrid ==
    ASSUME NEW R, NEW kept, NEW next, NEW t
    PROVE  Fresh(R, kept, next, t) =
               {d \in Grid(R, kept, next, t) :
                   Cardinality(Below(Grid(R, kept, next, t), d)) + Cardinality(kept) < Upcoming - 1}
<1>1. Grid(R, kept, next, t) =
          {d \in 0..Until :
              /\ d > Anchor(kept, next, t) /\ (d - Anchor(kept, next, t)) % Week = 0 /\ d > t.startsAt
              /\ d \notin {r.at : r \in Later(R, t)}
              /\ \A g \in GoneDates(R, next, t) : 2 * d >= 2 * g + Week \/ 2 * g >= 2 * d + Week}
  BY DEF Grid, OnGrid, Untaken
<1>. QED
  BY <1>1 DEF Fresh, Below, Anchor, LooseDates, Origins, Later, GoneDates

\* Sessions on different dates are as many as their dates.
LEMMA CountByDate ==
    ASSUME NEW K, K \subseteq Sessions, \A r, q \in K : r.at = q.at => r = q
    PROVE  /\ IsFiniteSet(K) /\ IsFiniteSet({r.at : r \in K})
           /\ Cardinality(K) = Cardinality({r.at : r \in K}) /\ Cardinality(K) \in Nat
<1> DEFINE D == {r.at : r \in K}
           f == [r \in K |-> r.at]
<1>1. D \subseteq Dates
  BY DEF Sessions
<1>2. IsFiniteSet(D)
  <2>1. IsFiniteSet(0..LastDate)
    BY Numbers, FS_Interval
  <2> HIDE DEF D
  <2>. QED
    BY <1>1, <2>1, FS_Subset DEF Dates
<1>3. f \in Injection(K, D) /\ f \in Surjection(K, D)
  BY DEF Injection, Surjection, IsInjective
<1> HIDE DEF D, f
<1>4. IsFiniteSet(K) /\ (Cardinality(K) = Cardinality(D))
  BY <1>2, <1>3, FS_Injection
<1>5. Cardinality(K) \in Nat
  BY <1>4, FS_CardinalityType
<1>. QED
  BY <1>2, <1>4, <1>5 DEF D

LEMMA LooseCount ==
    ASSUME NEW A, A \subseteq Dates
    PROVE  /\ IsFiniteSet({Loose(d) : d \in A}) /\ IsFiniteSet(A)
           /\ Cardinality({Loose(d) : d \in A}) = Cardinality(A) /\ Cardinality(A) \in Nat
<1> DEFINE L == {Loose(d) : d \in A}
<1>1. L \subseteq Sessions /\ \A r, q \in L : r.at = q.at => r = q
  BY LooseIs
<1>2. {r.at : r \in L} = A
  <2>1. \A d \in A : Loose(d).at = d
    BY LooseIs
  <2>. QED
    BY <2>1
<1> HIDE DEF L
<1>3. /\ IsFiniteSet(L) /\ IsFiniteSet({r.at : r \in L})
      /\ Cardinality(L) = Cardinality({r.at : r \in L}) /\ Cardinality(L) \in Nat
  BY <1>1, CountByDate
<1>. QED
  BY <1>2, <1>3 DEF L

\* The dates added are enough, if any date of the grid was left out.
LEMMA EnoughAdded ==
    ASSUME NEW G, G \subseteq Dates, NEW K, IsFiniteSet(K), NEW A,
           A = {d \in G : Cardinality(Below(G, d)) + Cardinality(K) < Upcoming - 1}, G \ A # {}
    PROVE  Cardinality(A) + Cardinality(K) >= Upcoming - 1
<1>1. G \ A \subseteq Nat /\ A \subseteq Dates /\ A \subseteq G /\ G \subseteq Nat
  BY Numbers
<1>2. PICK d \in G \ A : \A e \in G \ A : d <= e
  BY <1>1, EarliestExists
<1>3. Below(G, d) \subseteq A
  BY <1>1, <1>2 DEF Below
<1>4. IsFiniteSet(A) /\ Cardinality(A) \in Nat
  BY <1>1, LooseCount
<1>5. IsFiniteSet(Below(G, d)) /\ Cardinality(Below(G, d)) <= Cardinality(A)
  BY <1>3, <1>4, FS_Subset
<1>6. Cardinality(Below(G, d)) \in Nat /\ Cardinality(K) \in Nat
  BY <1>5, FS_CardinalityType
<1>7. ~(Cardinality(Below(G, d)) + Cardinality(K) < Upcoming - 1)
  BY <1>2
<1>8. Upcoming \in Nat
  BY Numbers
<1>. QED
  BY <1>4, <1>5, <1>6, <1>7, <1>8

\* Rows that match a table that goes on: syncing again would at most add dates.
LEMMA MatchingIsSynced ==
    ASSUME NEW S, S \subseteq Sessions, NEW t \in Tables, Going(t), Match(S, t)
    PROVE  \E p \in Scheduled(S) :
              /\ p.at = t.startsAt /\ NextOf(S) = {p} /\ RestOf(S) = Scheduled(S) \ {p}
              /\ StaleOf(S, t, FALSE) = {} /\ SyncedOf(S, t, FALSE) = S
<1>1. Scheduled(S) \subseteq Sessions /\ Scheduled(S) \subseteq S
  BY DEF Scheduled
<1>2. PICK p \in Scheduled(S) : p.at = t.startsAt /\ \A q \in Scheduled(S) : q.at >= p.at
  BY DEF Match
<1>3. \A q \in Scheduled(S) : q.at \in Nat
  BY <1>1, Numbers DEF Sessions
<1>4. First(Scheduled(S)) = p
  <2>1. First(Scheduled(S)) \in Scheduled(S) /\ \A q \in Scheduled(S) : First(Scheduled(S)).at <= q.at
    BY <1>1, <1>2, FirstIsOne
  <2>2. First(Scheduled(S)).at = p.at
    BY <1>2, <1>3, <2>1
  <2>. QED
    BY <2>1, <2>2 DEF Match, Unique
<1>5. NextOf(S) = {p} /\ RestOf(S) = Scheduled(S) \ {p}
  BY <1>2, <1>4 DEF NextOf, RestOf
<1>6. \A q \in RestOf(S) : q.at > t.startsAt
  BY <1>2, <1>3, <1>5 DEF Match, Unique
<1>7. StaleOf(S, t, FALSE) = {}
  <2>1. t.startsAt \in Nat
    BY Numbers DEF Tables
  <2>2. \A q \in RestOf(S) : ~(q.at <= t.startsAt)
    BY <1>3, <1>5, <1>6, <2>1
  <2>. QED
    BY <2>2 DEF StaleOf
<1>8. PlacedOf(S, t) = {p}
  <2>1. p \in Sessions /\ p.at = t.startsAt
    BY <1>1, <1>2
  <2>2. [p EXCEPT !.at = t.startsAt] = p
    BY <2>1 DEF Sessions
  <2>. QED
    BY <1>5, <2>2 DEF PlacedOf
<1>9. SyncedOf(S, t, FALSE) = S
  <2>1. Drop(S \ {p}, {}) = S \ {p}
    BY DEF Drop, Cancelled
  <2>. QED
    BY <1>1, <1>5, <1>7, <1>8, <2>1 DEF SyncedOf
<1>. QED
  BY <1>2, <1>5, <1>7, <1>9

\* The dates of the rule: none is missing from rows that were brought in line.
LEMMA NothingFreshTwice ==
    ASSUME NEW R, R \subseteq Sessions, NEW t \in Tables, NEW reflow, Unique(R),
           Going(t), Weekly(t), t.status # "draft"
    PROVE  FreshOf(Sync(R, t, reflow), t, FALSE) = {}
<1> DEFINE N == SyncedOf(R, t, reflow)
           K == RestOf(R) \ StaleOf(R, t, reflow)
           X == NextOf(R)
           A == FreshOf(R, t, reflow)
           L == {Loose(d) : d \in A}
           S == Sync(R, t, reflow)
           G == Grid(N, K, X, t)
<1>1. S = N \cup L
  BY SyncParts
<1>2. /\ X \subseteq Scheduled(R) /\ RestOf(R) = Scheduled(R) \ X
      /\ StaleOf(R, t, reflow) \subseteq RestOf(R) /\ Scheduled(R) \subseteq R
  BY OpenParts
<1>3. N \subseteq Sessions /\ Scheduled(N) = K \cup PlacedOf(R, t)
  BY SyncedIs
<1>4. PICK q \in Sessions : PlacedOf(R, t) = {q} /\ q.status = "scheduled" /\ q.at = t.startsAt
  BY PlacedIs
<1>5. t.startsAt \in Nat /\ \A r \in Sessions : r.at \in Nat /\ r.at \in Dates
  BY Numbers DEF Tables, Sessions
<1>6. \A r \in K : r \in Scheduled(R) /\ r \in Sessions /\ r \in N /\ r.at > t.startsAt
  BY <1>2, <1>3, <1>5 DEF StaleOf, Scheduled
<1>7. A = {d \in G : Cardinality(Below(G, d)) + Cardinality(K) < Upcoming - 1}
  BY FreshOnGrid DEF FreshOf
<1>8. G \subseteq Dates /\ A \subseteq G
  BY <1>7, Numbers DEF Grid
<1>9. \A d \in A : /\ d \in Dates /\ d \in Nat /\ d > t.startsAt
                   /\ Loose(d) \in Sessions /\ Loose(d).status = "scheduled" /\ Loose(d).at = d
                   /\ ~Loose(d).pinned
                   /\ \A r \in N : r.at > t.startsAt => r.at # d
  <2>1. ASSUME NEW d \in A PROVE d \in Dates /\ d > t.startsAt /\ \A r \in N : r.at > t.startsAt => r.at # d
    BY FreshIs DEF FreshOf
  <2>2. \A d \in A : ~Loose(d).pinned
    BY DEF Loose
  <2> HIDE DEF A, N
  <2>. QED
    BY <2>1, <2>2, LooseIs, Numbers
<1>10. S \subseteq Sessions /\ Match(S, t)
  BY SyncTyped, SyncMatches
<1>11. PICK p \in Scheduled(S) :
          /\ p.at = t.startsAt /\ NextOf(S) = {p} /\ RestOf(S) = Scheduled(S) \ {p}
          /\ StaleOf(S, t, FALSE) = {} /\ SyncedOf(S, t, FALSE) = S
  <2> HIDE DEF S
  <2>. QED
    BY <1>10, MatchingIsSynced
\* What there is to sync again: the session that holds the date, those kept and those added.
<1>12. p = q /\ RestOf(S) = K \cup L
  <2> HIDE DEF S, N, K, A
  <2>1. Scheduled(S) = K \cup {q} \cup L
    BY <1>1, <1>3, <1>4, <1>9 DEF Scheduled
  <2>2. q \notin K /\ q \notin L
    BY <1>4, <1>5, <1>6, <1>9
  <2>3. p = q
    BY <1>4, <1>10, <1>11, <2>1 DEF Match, Unique
  <2>. QED
    BY <1>11, <2>1, <2>2, <2>3
<1>13. FreshOf(S, t, FALSE) = Fresh(S, K \cup L, {p}, t)
  BY <1>11, <1>12 DEF FreshOf
<1> DEFINE H == Grid(S, K \cup L, {p}, t)
\* Its grid is what the first sync left of its own.
<1>14. Origins({p}) = Origins(X) /\ {r.movedFrom : r \in X} \ {Never} \subseteq {p.movedFrom}
  <2>1. CASE X = {}
    <3>1. ~p.pinned
      BY <1>4, <1>12, <2>1 DEF PlacedOf, Loose
    <3>. QED
      BY <2>1, <3>1 DEF Origins
  <2>2. CASE X # {}
    <3>1. PICK x \in X : X = {x}
      BY <2>2 DEF NextOf
    <3>2. x \in Sessions
      BY <1>2
    <3>3. p = [x EXCEPT !.at = t.startsAt]
      BY <1>4, <1>12, <3>1 DEF PlacedOf
    <3>4. p.movedFrom = x.movedFrom /\ p.pinned = x.pinned
      BY <3>2, <3>3 DEF Sessions
    <3> HIDE DEF X
    <3>. QED
      BY <3>1, <3>4 DEF Origins
  <2>. QED
    BY <2>1, <2>2
<1>15. LooseDates(K \cup L) = LooseDates(K) \cup A
  <2> HIDE DEF K, A
  <2>. QED
    BY <1>9 DEF LooseDates
<1>16. LooseDates(K) \subseteq Dates /\ Origins(X) \subseteq Dates
  <2>1. K \subseteq Sessions /\ X \subseteq Sessions
    BY <1>2, <1>6
  <2> HIDE DEF K, X
  <2>. QED
    BY <2>1 DEF LooseDates, Origins, Sessions
<1> DEFINE a == Anchor(K, X, t)
           b == Anchor(K \cup L, {p}, t)
<1>17. a \in Nat /\ (LooseDates(K) # {} => \A k \in LooseDates(K) : a >= k)
  <2> HIDE DEF K, X
  <2>. QED
    BY <1>5, <1>16, MaxIsOne, Numbers DEF Anchor
<1>18. \A d \in G : OnGrid(d, a) /\ Untaken(d, N, X, t)
  BY DEF Grid
<1>19. IF A = {} THEN b = a ELSE b \in A /\ \A d \in A : b >= d
  <2> HIDE DEF K, X, A, G, N
  <2>1. CASE A = {}
    BY <1>14, <1>15, <2>1 DEF Anchor
  <2>2. CASE A # {}
    <3>1. b = Max(LooseDates(K) \cup A)
      BY <1>15, <2>2 DEF Anchor
    <3>2. LooseDates(K) \cup A \subseteq Dates
      BY <1>8, <1>16
    <3>3. b \in LooseDates(K) \cup A /\ \A d \in LooseDates(K) \cup A : b >= d
      BY <2>2, <3>1, <3>2, MaxIsOne
    <3>4. \A d \in A : d > a
      BY <1>8, <1>18 DEF OnGrid
    <3>5. b \notin LooseDates(K)
      <4>1. PICK d \in A : d \in Nat /\ d > a /\ b >= d
        BY <1>9, <2>2, <3>3, <3>4
      <4>2. b \in Nat
        BY <3>2, <3>3, Numbers
      <4>3. b \in LooseDates(K) => a >= b
        BY <1>17
      <4> HIDE DEF a, b
      <4>. QED
        BY <1>17, <4>1, <4>2, <4>3
    <3>. QED
      BY <2>2, <3>3, <3>5
  <2>. QED
    BY <2>1, <2>2
<1>20. ASSUME NEW d \in H PROVE d \in G \ A
  <2>1. d \in 0..Until /\ d \in Nat /\ OnGrid(d, b) /\ Untaken(d, S, {p}, t)
    BY Numbers DEF Grid
  <2>2. Untaken(d, N, X, t)
    <3>1. Later(N, t) \subseteq Later(S, t)
      BY <1>1 DEF Later
    <3>2. GoneDates(N, X, t) \subseteq GoneDates(S, {p}, t)
      <4> HIDE DEF N, X, S
      <4>. QED
        BY <1>14, <3>1 DEF GoneDates
    <3> HIDE DEF N, X, S
    <3>. QED
      BY <2>1, <3>1, <3>2 DEF Untaken
  <2>3. OnGrid(d, a) /\ d \notin A
    <3>1. CASE A = {}
      BY <1>19, <2>1, <3>1
    <3>2. CASE A # {}
      <4> HIDE DEF A, G, a, b, S, H
      <4>1. b \in A /\ \A e \in A : b >= e
        BY <1>19, <3>2
      <4>2. b \in Nat /\ b > a /\ (b - a) % Week = 0
        BY <1>8, <1>9, <1>18, <4>1 DEF OnGrid
      <4>3. d > b /\ (d - b) % Week = 0
        BY <2>1 DEF OnGrid
      <4>4. d - b \in Nat /\ b - a \in Nat /\ Week \in Nat \ {0}
        BY <1>17, <2>1, <4>2, <4>3, Numbers
      <4>5. ((d - b) + (b - a)) % Week = 0
        BY <4>2, <4>3, <4>4, WeeksAdd
      <4>6. (d - b) + (b - a) = d - a
        BY <1>17, <2>1, <4>2
      <4>7. d > a
        BY <1>17, <2>1, <4>2, <4>3
      <4>8. d \notin A
        BY <2>1, <4>1, <4>2, <4>3
      <4>. QED
        BY <4>5, <4>6, <4>7, <4>8 DEF OnGrid
    <3>. QED
      BY <3>1, <3>2
  <2>. QED
    BY <2>1, <2>2, <2>3 DEF Grid
\* If there was more to add, enough was added.
<1>21. ASSUME NEW d \in H, Cardinality(Below(H, d)) + Cardinality(K \cup L) < Upcoming - 1
       PROVE  FALSE
  <2>1. /\ IsFiniteSet(K) /\ Cardinality(K) \in Nat
    <3>1. K \subseteq Sessions /\ \A r, s \in K : r.at = s.at => r = s
      BY <1>6 DEF Unique
    <3> HIDE DEF K
    <3>. QED
      BY <3>1, CountByDate
  <2>2. /\ IsFiniteSet(L) /\ Cardinality(L) = Cardinality(A) /\ Cardinality(A) \in Nat
    <3> HIDE DEF A
    <3>. QED
      BY <1>8, LooseCount
  <2>3. K \cap L = {}
    <3> HIDE DEF K, A, N
    <3>. QED
      BY <1>6, <1>9
  <2>4. G \ A # {}
    BY <1>20, <1>21
  <2>5. Cardinality(A) + Cardinality(K) >= Upcoming - 1
    <3> HIDE DEF A, G, K
    <3>. QED
      BY <1>7, <1>8, <2>1, <2>4, EnoughAdded
  <2>6. Cardinality(K \cup L) = Cardinality(K) + Cardinality(L)
    <3> HIDE DEF K, L
    <3>1. Cardinality(K \cap L) = 0
      BY <2>3, FS_EmptySet
    <3>2. Cardinality(K \cup L) = Cardinality(K) + Cardinality(L) - Cardinality(K \cap L)
      BY <2>1, <2>2, FS_Union
    <3>3. Cardinality(L) \in Nat
      BY <2>2
    <3>. QED
      BY <2>1, <3>1, <3>2, <3>3
  <2>7. Cardinality(Below(H, d)) \in Nat
    <3>1. H \subseteq Dates
      BY Numbers DEF Grid
    <3> HIDE DEF H
    <3>2. Below(H, d) \subseteq Dates
      BY <3>1 DEF Below
    <3>. QED
      BY <3>2, LooseCount
  <2>8. Upcoming \in Nat
    BY Numbers
  <2> HIDE DEF A, K, L, H
  <2>. QED
    BY <1>21, <2>1, <2>2, <2>5, <2>6, <2>7, <2>8
<1>22. Fresh(S, K \cup L, {p}, t) = {}
  <2>1. Fresh(S, K \cup L, {p}, t) =
            {d \in H : Cardinality(Below(H, d)) + Cardinality(K \cup L) < Upcoming - 1}
    BY FreshOnGrid
  <2> HIDE DEF H, S, K, L
  <2>. QED
    BY <1>21, <2>1
<1>. QED
  BY <1>13, <1>22

\* Bringing rows in line twice is bringing them in line once.
LEMMA SyncTwice ==
    ASSUME NEW R, R \subseteq Sessions, NEW t \in Tables, NEW reflow, Unique(R)
    PROVE  Sync(Sync(R, t, reflow), t, FALSE) = Sync(R, t, reflow)
<1> DEFINE S == Sync(R, t, reflow)
<1>1. S \subseteq Sessions /\ Match(S, t)
  BY SyncTyped, SyncMatches
<1>2. Going(t) /\ Weekly(t) /\ t.status # "draft" => FreshOf(S, t, FALSE) = {}
  BY NothingFreshTwice
<1> HIDE DEF S
<1>3. CASE ~Going(t)
  <2>1. NextOf(S) = {} /\ RestOf(S) = {}
    BY <1>1, <1>3 DEF Match, NextOf, RestOf
  <2>. QED
    BY <1>3, <2>1, SyncParts DEF Drop, Cancelled, S
<1>4. CASE Going(t)
  <2>1. SyncedOf(S, t, FALSE) = S
    BY <1>1, <1>4, MatchingIsSynced
  <2>2. {Loose(d) : d \in {}} = {}
    OBVIOUS
  <2>3. Sync(S, t, FALSE) = S
    BY <1>2, <1>4, <2>1, <2>2, SyncParts
  <2>. QED
    BY <2>3 DEF S
<1>. QED
  BY <1>3, <1>4

-----------------------------------------------------------------------------
(* What every write leaves of the table and its rows. *)

\* NoClash, of any table.
Clear(t) == t.status \notin {"disabled", "not_held"} => Free(t.startsAt)

History(R) == R \ Scheduled(R)

Kept ==
    /\ table' \in Tables /\ rows' \subseteq Sessions
    /\ RowsMatchTable' /\ NoClash'
    /\ History(rows) \subseteq rows'
    /\ UNCHANGED <<table, rows>> \/ table.status = "draft" \/ (InLine => InLine')

LEMMA Typed ==
    ASSUME CalendarInv
    PROVE  /\ table \in Tables /\ rows \subseteq Sessions /\ Unique(rows) /\ Match(rows, table)
           /\ Clear(table) /\ table.startsAt \in Dates /\ table.status \in TableStatuses
           /\ asked \in [Tabs -> Requests] /\ edits \in 0..MaxEdits /\ today \in 0..MaxClock
           /\ sent \subseteq Reminders
           /\ due \in [step: {"none", "1h", "7d", "close"}, date: Dates \cup {Never}]
  BY DEF CalendarInv, CalendarTypeOK, RowsMatchTable, NoClash, Match, Unique, Clear, Tables, Requests,
      Reminders

LEMMA Unmoved ==
    ASSUME CalendarInv, UNCHANGED <<table, rows>>
    PROVE  Kept
  BY DEF Kept, CalendarInv, CalendarTypeOK, RowsMatchTable, NoClash, Free, Overlap, History, Tables

LEMMA Becoming ==
    ASSUME CalendarInv, NEW t \in Tables, NEW R, R \subseteq Sessions, NEW reflow, Unique(R), Clear(t),
           History(rows) \subseteq History(R), table' = t, rows' = Sync(R, t, reflow)
    PROVE  Kept
<1>1. rows' \subseteq Sessions /\ R \ Scheduled(R) \subseteq rows'
  BY SyncTyped
<1>2. Match(rows', t)
  BY SyncMatches
<1>3. RowsMatchTable'
  BY <1>2 DEF Match, Unique, RowsMatchTable
<1>4. NoClash'
  BY DEF Clear, NoClash
<1>5. InLine'
  BY SyncTwice DEF InLine
<1>. QED
  BY <1>1, <1>3, <1>4, <1>5 DEF Kept, History

LEMMA TableMoved ==
    ASSUME NEW status \in TableStatuses, NEW d \in Dates, table \in Tables
    PROVE  /\ [table EXCEPT !.status = status, !.startsAt = d] \in Tables
           /\ [table EXCEPT !.status = status] \in Tables
           /\ [table EXCEPT !.startsAt = d] \in Tables
  BY DEF Tables

LEMMA CloseSessionIs ==
    ASSUME NEW R, R \subseteq Sessions, Unique(R), NEW d \in Dates, NEW outcome \in {"held", "not_held"}
    PROVE  /\ closeSession(R, d, outcome) \subseteq Sessions
           /\ Unique(closeSession(R, d, outcome))
           /\ History(R) \subseteq History(closeSession(R, d, outcome))
<1> DEFINE open == Scheduled(R)
           match == IF \E r \in open : r.at = d THEN {CHOOSE r \in open : r.at = d}
                    ELSE IF open # {} THEN {First(open)} ELSE {}
           passed == IF match = {} THEN {Loose(d)} ELSE match
           closed == {[r EXCEPT !.status = outcome, !.at = d] : r \in passed}
<1>1. open \subseteq Sessions /\ open \subseteq R
  BY DEF Scheduled
<1>2. match \subseteq open
  <2>1. open # {} => First(open) \in open
    BY <1>1, FirstIsOne
  <2>. QED
    BY <2>1
<1>3. passed \subseteq Sessions
  BY <1>1, <1>2, LooseIs
<1>4. closeSession(R, d, outcome) = (R \ match) \cup closed
  BY DEF closeSession
<1> HIDE DEF match, passed
<1>5. ASSUME NEW r \in closed PROVE r \in Sessions /\ r.status # "scheduled"
  <2>1. PICK q \in passed : r = [q EXCEPT !.status = outcome, !.at = d]
    OBVIOUS
  <2>. QED
    BY <1>3, <2>1 DEF Sessions, RowStatuses
<1> HIDE DEF closed
<1>6. Scheduled((R \ match) \cup closed) \subseteq Scheduled(R)
  BY <1>5 DEF Scheduled
<1>7. History(R) \subseteq History((R \ match) \cup closed)
  BY <1>2, <1>6 DEF History, Scheduled
<1>. QED
  BY <1>4, <1>5, <1>6, <1>7 DEF Unique

\* An active table follows the first of its sessions; its rows follow the table.
LEMMA Following ==
    ASSUME CalendarInv, NEW R, R \subseteq Sessions, Unique(R), Scheduled(R) # {},
           History(rows) \subseteq History(R), Follow(R)
    PROVE  Kept
<1> DEFINE first == First(Scheduled(R)).at
<1>1. first \in Dates
  <2>1. Scheduled(R) \subseteq Sessions
    BY DEF Scheduled
  <2>2. First(Scheduled(R)) \in Sessions
    BY <2>1, FirstIsOne
  <2>. QED
    BY <2>2 DEF Sessions
<1>2. CASE table.status = "active" /\ first # table.startsAt
  <2>1. [table EXCEPT !.startsAt = first] \in Tables /\ [table EXCEPT !.startsAt = first].startsAt = first
    BY <1>1, Typed, TableMoved DEF Tables
  <2>2. Clear([table EXCEPT !.startsAt = first])
    BY <1>2, <2>1 DEF Clear, Follow
  <2>3. /\ table' = [table EXCEPT !.startsAt = first]
        /\ rows' = Sync(R, [table EXCEPT !.startsAt = first], FALSE)
    BY <1>2 DEF Follow, Becomes
  <2> HIDE DEF first
  <2>. QED
    BY <2>1, <2>2, <2>3, Becoming
<1>3. CASE ~(table.status = "active" /\ first # table.startsAt)
  BY <1>3, Typed, Becoming DEF Follow, Becomes
<1>. QED
  BY <1>2, <1>3

-----------------------------------------------------------------------------
(* The table and its rows, one lemma per kind of step. *)

\* A write that keeps the rows but for the sync.
LEMMA Resynced ==
    ASSUME CalendarInv, NEW t \in Tables, NEW reflow, Clear(t), Becomes(t, rows, reflow)
    PROVE  Kept
  BY Typed, Becoming DEF Becomes

LEMMA AnswerKeeps ==
    ASSUME CalendarInv, NEW k \in Tabs, Answer(k)
    PROVE  Kept
<1> DEFINE a == asked[k]
           moves == Settled(a.op) = "active"
           t == [table EXCEPT !.status = Settled(a.op), !.startsAt = IF moves THEN a.next ELSE @]
           passed == IF a.op = "hold" \/ a.op = "skip" THEN table.startsAt ELSE a.date
           outcome == IF a.op \in {"conclude", "hold"} THEN "held" ELSE "not_held"
           R == IF a.op = "postpone" THEN rows ELSE closeSession(rows, passed, outcome)
<1>1. CASE ~Takes(a)
  BY <1>1, Unmoved DEF Answer
<1>2. CASE Takes(a)
  <2>1. table' = t /\ rows' = Sync(R, t, FALSE)
    BY <1>2 DEF Answer, Apply
  <2>2. /\ a.op \in Answers /\ a.date \in Dates /\ (moves => a.next \in Dates)
    BY DEF Answer, CalendarInv, AnswersDated
  <2>3. Settled(a.op) \in TableStatuses \ {"disabled"}
    BY DEF Settled, TableStatuses
  <2>4. t \in Tables /\ t.status = Settled(a.op) /\ (t.startsAt = IF moves THEN a.next ELSE table.startsAt)
    BY <2>2, <2>3, Typed DEF Tables
  <2>5. Clear(t)
    BY <1>2, <2>4, Typed DEF Clear, Takes
  <2>6. R \subseteq Sessions /\ Unique(R) /\ History(rows) \subseteq History(R)
    <3>1. passed \in Dates /\ outcome \in {"held", "not_held"}
      BY <2>2, Typed
    <3>. QED
      BY <3>1, Typed, CloseSessionIs
  <2> HIDE DEF t, R
  <2>. QED
    BY <2>1, <2>4, <2>5, <2>6, Becoming
<1>. QED
  BY <1>1, <1>2

LEMMA EditKeeps ==
    ASSUME CalendarInv,
           \/ finishTable \/ disableTable \/ publishTable
           \/ \E d \in Dates, reflow \in BOOLEAN : updateTable(d, reflow)
    PROVE  Kept
<1>1. CASE finishTable
  <2> DEFINE t == [table EXCEPT !.status = "concluded"]
  <2>1. t \in Tables /\ t.startsAt = table.startsAt
    BY Typed DEF Tables, TableStatuses
  <2>2. Clear(t)
    BY <1>1, <2>1, Typed DEF Clear, finishTable
  <2>3. Becomes(t, rows, FALSE)
    BY <1>1 DEF finishTable
  <2> HIDE DEF t
  <2>. QED
    BY <2>1, <2>2, <2>3, Resynced
<1>2. CASE disableTable
  <2> DEFINE t == [table EXCEPT !.status = "disabled"]
  <2>1. t \in Tables /\ t.status = "disabled"
    BY Typed DEF Tables, TableStatuses
  <2>2. Becomes(t, rows, FALSE)
    BY <1>2 DEF disableTable
  <2> HIDE DEF t
  <2>. QED
    BY <2>1, <2>2, Resynced DEF Clear
<1>3. CASE publishTable
  <2>1. /\ table' = [table EXCEPT !.status = "active"] /\ rows' = rows
        /\ table.status = "draft" /\ Free(table.startsAt)
    BY <1>3 DEF publishTable
  <2>2. table' \in Tables /\ table'.status = "active" /\ table'.startsAt = table.startsAt
    BY <2>1, Typed DEF Tables, TableStatuses
  <2>3. Match(rows, table')
    BY <2>1, <2>2, Typed DEF Match, Going
  <2>. QED
    BY <2>1, <2>2, <2>3, Typed DEF Kept, RowsMatchTable, NoClash, Match, Unique, History
<1>4. ASSUME NEW d \in Dates, NEW reflow \in BOOLEAN, updateTable(d, reflow) PROVE Kept
  <2> DEFINE t == [table EXCEPT !.startsAt = d]
  <2>1. t \in Tables /\ t.startsAt = d /\ t.status = table.status
    BY Typed DEF Tables
  <2>2. Clear(t) /\ Becomes(t, rows, reflow \/ d # table.startsAt)
    BY <1>4, <2>1 DEF Clear, updateTable
  <2> HIDE DEF t
  <2>. QED
    BY <2>1, <2>2, Resynced
<1>. QED
  BY <1>1, <1>2, <1>3, <1>4

LEMMA ScheduleKeeps ==
    ASSUME CalendarInv, NEW d \in Dates, scheduleSession(d)
    PROVE  Kept
<1> DEFINE s == [Loose(d) EXCEPT !.pinned = TRUE]
<1>1. s \in Sessions /\ s.status = "scheduled" /\ s.at = d
  BY LooseIs DEF Sessions
<1>2. \A r \in Scheduled(rows) : r.at # d
  BY DEF scheduleSession
<1>3. Follow(rows \cup {s})
  BY DEF scheduleSession
<1> HIDE DEF s
<1>4. Scheduled(rows \cup {s}) = Scheduled(rows) \cup {s}
  BY <1>1 DEF Scheduled
<1>5. Unique(rows \cup {s}) /\ History(rows) \subseteq History(rows \cup {s})
  BY <1>1, <1>2, <1>4, Typed DEF Unique, History, Scheduled
<1>. QED
  BY <1>1, <1>3, <1>4, <1>5, Typed, Following

LEMMA MoveKeeps ==
    ASSUME CalendarInv, NEW r \in Scheduled(rows), NEW d \in Dates, moveSession(r, d)
    PROVE  Kept
<1> DEFINE s == [r EXCEPT !.at = d, !.pinned = TRUE, !.movedFrom = IF @ = Never THEN r.at ELSE @]
           R == (rows \ {r}) \cup {s}
<1>1. r \in Sessions /\ r \in rows /\ r.status = "scheduled"
  BY Typed DEF Scheduled
<1>2. s \in Sessions /\ s.status = "scheduled" /\ s.at = d
  BY <1>1 DEF Sessions
<1>3. (\A q \in Scheduled(rows) \ {r} : q.at # d) /\ Follow(R)
  BY DEF moveSession
<1> HIDE DEF s
<1>4. Scheduled(R) = (Scheduled(rows) \ {r}) \cup {s}
  BY <1>2 DEF Scheduled
<1>5. Unique(R) /\ History(rows) \subseteq History(R)
  BY <1>1, <1>2, <1>3, <1>4, Typed DEF Unique, History, Scheduled
<1>6. R \subseteq Sessions /\ Scheduled(R) # {}
  BY <1>2, <1>4, Typed
<1> HIDE DEF R
<1>. QED
  BY <1>3, <1>5, <1>6, Following

LEMMA CancelKeeps ==
    ASSUME CalendarInv, NEW r \in Scheduled(rows), cancelSession(r)
    PROVE  Kept
<1> DEFINE s == [r EXCEPT !.status = "cancelled", !.pinned = TRUE]
           R == (rows \ {r}) \cup {s}
<1>1. r \in Sessions /\ r \in rows
  BY Typed DEF Scheduled
<1>2. s \in Sessions /\ s.status = "cancelled"
  BY <1>1 DEF Sessions, RowStatuses
<1>3. (\E q \in Scheduled(rows) \ {r} : q.at > today) /\ Follow(R)
  BY DEF cancelSession
<1> HIDE DEF s
<1>4. Scheduled(R) = Scheduled(rows) \ {r}
  BY <1>2 DEF Scheduled
<1>5. Unique(R) /\ History(rows) \subseteq History(R)
  BY <1>1, <1>2, <1>4, Typed DEF Unique, History, Scheduled
<1>6. R \subseteq Sessions /\ Scheduled(R) # {}
  BY <1>2, <1>3, <1>4, Typed
<1> HIDE DEF R
<1>. QED
  BY <1>3, <1>5, <1>6, Following

LEMMA SweepKeeps ==
    ASSUME CalendarInv, closeElapsed \/ autoClose \/ autoHold
    PROVE  Kept
<1>1. CASE closeElapsed
  <2>1. table' = [table EXCEPT !.status = "awaiting_confirmation"] /\ rows' = rows /\ table.status = "active"
    BY <1>1 DEF closeElapsed
  <2>2. /\ table' \in Tables /\ table'.status = "awaiting_confirmation"
        /\ table'.startsAt = table.startsAt
    BY <2>1, Typed DEF Tables, TableStatuses
  <2>3. Match(rows, table')
    BY <2>1, <2>2, Typed DEF Match, Going
  <2>4. InLine => InLine'
    <3>1. ASSUME NEW R PROVE Sync(R, table', FALSE) = Sync(R, table, FALSE)
      <4>1. Going(table) /\ Going(table') /\ (Weekly(table') <=> Weekly(table)) /\ table'.status # "draft"
        BY <2>1, <2>2, Typed DEF Going, Weekly, Tables
      <4>2. /\ FreshOf(R, table', FALSE) = FreshOf(R, table, FALSE)
            /\ SyncedOf(R, table', FALSE) = SyncedOf(R, table, FALSE)
        BY <2>2 DEF FreshOf, SyncedOf, StaleOf, PlacedOf, Fresh
      <4>. QED
        BY <2>1, <4>1, <4>2, SyncParts
    <3>. QED
      BY <2>1, <3>1 DEF InLine
  <2>. QED
    BY <2>1, <2>2, <2>3, <2>4, Typed DEF Kept, RowsMatchTable, NoClash, Clear, Match, Unique, History
<1>2. CASE autoClose /\ StillDue
  <2> DEFINE t == [table EXCEPT !.status = "concluded"]
             R == closeSession(rows, due.date, "held")
  <2>1. t \in Tables /\ t.startsAt = table.startsAt
    BY Typed DEF Tables, TableStatuses
  <2>2. Clear(t) /\ due.date \in Dates
    BY <1>2, <2>1, Typed DEF Clear, StillDue
  <2>3. R \subseteq Sessions /\ Unique(R) /\ History(rows) \subseteq History(R)
    BY <2>2, Typed, CloseSessionIs
  <2>4. table' = t /\ rows' = Sync(R, t, FALSE)
    BY <1>2 DEF autoClose, Becomes
  <2> HIDE DEF t, R
  <2>. QED
    BY <2>1, <2>2, <2>3, <2>4, Becoming
<1>3. CASE autoHold /\ StillDue /\ NextHeld # {}
  <2> DEFINE next == Min(NextHeld)
             t == [table EXCEPT !.status = "active", !.startsAt = next]
             R == closeSession(rows, table.startsAt, "held")
  <2>1. NextHeld \subseteq Dates /\ NextHeld \subseteq Nat /\ \A d \in NextHeld : Free(d)
    BY Numbers DEF NextHeld
  <2>2. next \in Dates /\ Free(next)
    BY <1>3, <2>1, MinIsOne
  <2>3. table' = t /\ rows' = Sync(R, t, FALSE)
    BY <1>3 DEF autoHold, Becomes
  <2> HIDE DEF next
  <2>4. t \in Tables /\ t.startsAt = next
    BY <2>2, Typed DEF Tables, TableStatuses
  <2>5. Clear(t)
    BY <2>2, <2>4 DEF Clear
  <2>6. R \subseteq Sessions /\ Unique(R) /\ History(rows) \subseteq History(R)
    BY Typed, CloseSessionIs
  <2> HIDE DEF t, R
  <2>. QED
    BY <2>3, <2>4, <2>5, <2>6, Becoming
<1>4. CASE UNCHANGED <<table, rows>>
  BY <1>4, Unmoved
<1>. QED
  BY <1>1, <1>2, <1>3, <1>4 DEF autoClose, autoHold

LEMMA NextKeeps == ASSUME CalendarInv, [CalendarNext]_calendar PROVE Kept
<1>1. CASE GmStep
  <2>1. ASSUME NEW k \in Tabs, NEW op, NEW d, Ask(k, op, d) PROVE Kept
    BY <2>1, Unmoved DEF Ask
  <2>. QED
    BY <1>1, <2>1, AnswerKeeps, EditKeeps, ScheduleKeeps, MoveKeeps, CancelKeeps DEF GmStep
<1>2. CASE SweeperStep
  BY <1>2, SweepKeeps, Unmoved DEF SweeperStep, remindToClose, remind
<1>3. CASE DayEnds \/ UNCHANGED calendar
  BY <1>3, Unmoved DEF DayEnds, calendar
<1>. QED
  BY <1>1, <1>2, <1>3 DEF CalendarNext

-----------------------------------------------------------------------------
(* The answers in flight, the reminders and what is due. *)

Around ==
    /\ asked \in [Tabs -> Requests] /\ AnswersDated
    /\ sent \subseteq Reminders /\ CloseIsWarned
    /\ due \in [step: {"none", "1h", "7d", "close"}, date: Dates \cup {Never}]
    /\ edits \in 0..MaxEdits /\ today \in 0..MaxClock

LEMMA InvParts ==
    CalendarInv <=>
        table \in Tables /\ rows \subseteq Sessions /\ RowsMatchTable /\ NoClash /\ Around
  BY DEF CalendarInv, CalendarTypeOK, Around, Tables, Requests, Reminders

LEMMA CallsLeft == ASSUME CalendarInv, Call PROVE edits' \in 0..MaxEdits
  BY Typed, Numbers DEF Call

\* Where the GM may send a session that goes on.
LEMMA NextIsDated == ASSUME CalendarInv PROVE nextSessionAt \subseteq Dates
<1>1. Listed(table.startsAt) \subseteq Dates
  BY Typed DEF Listed, Scheduled, Sessions
<1>2. Listed(table.startsAt) # {} => nextScheduledAfter(table.startsAt) \in Dates
  BY <1>1, Numbers, MinIsOne DEF nextScheduledAfter
<1>. QED
  BY <1>2 DEF nextSessionAt

LEMMA AskAround ==
    ASSUME CalendarInv, NEW k \in Tabs, NEW op \in Answers, NEW next \in Dates \cup {Never},
           Ask(k, op, next)
    PROVE  Around'
<1> DEFINE a == [op |-> op, date |-> table.startsAt, next |-> next]
<1>1. a \in Requests
  BY Typed DEF Requests
<1>2. Settled(op) = "active" => next \in Dates
  <2>1. CASE op \in {"hold", "skip"}
    BY <2>1, NextIsDated DEF Ask
  <2>2. CASE op = "postpone"
    BY <2>2 DEF Ask
  <2>3. CASE op \in {"conclude", "notHeld"}
    BY <2>3 DEF Settled
  <2>. QED
    BY <2>1, <2>2, <2>3 DEF Answers
<1>3. asked' = [asked EXCEPT ![k] = a] /\ UNCHANGED <<sent, due, today>> /\ edits' \in 0..MaxEdits
  BY CallsLeft DEF Ask
<1>4. a.op = op /\ a.date = table.startsAt /\ a.next = next
  OBVIOUS
<1> HIDE DEF a
<1>5. asked' \in [Tabs -> Requests] /\ asked'[k] = a /\ \A j \in Tabs \ {k} : asked'[j] = asked[j]
  BY <1>1, <1>3, Typed
<1>6. AnswersDated'
  BY <1>2, <1>4, <1>5, Typed DEF AnswersDated, CalendarInv
<1>7. CloseIsWarned'
  BY <1>3 DEF CloseIsWarned, CalendarInv, SentFor
<1>. QED
  BY <1>3, <1>5, <1>6, <1>7, Typed DEF Around

LEMMA AnswerAround ==
    ASSUME CalendarInv, NEW k \in Tabs, Answer(k)
    PROVE  Around'
<1>1. NoAnswer \in Requests
  BY DEF NoAnswer, Requests
<1>2. asked' = [asked EXCEPT ![k] = NoAnswer] /\ UNCHANGED <<sent, due, edits, today>>
  BY DEF Answer
<1>3. asked' \in [Tabs -> Requests] /\ asked'[k] = NoAnswer /\ \A j \in Tabs \ {k} : asked'[j] = asked[j]
  BY <1>1, <1>2, Typed
<1>4. AnswersDated' /\ CloseIsWarned'
  BY <1>2, <1>3 DEF AnswersDated, CloseIsWarned, CalendarInv, SentFor
<1>. QED
  BY <1>2, <1>3, <1>4, Typed DEF Around

\* Steps that leave the answers, the reminders and the sweeper alone.
LEMMA EditAround ==
    ASSUME CalendarInv, UNCHANGED <<sent, asked, due, today>>, Call \/ UNCHANGED edits
    PROVE  Around'
<1>1. edits' \in 0..MaxEdits
  BY CallsLeft, Typed
<1>2. AnswersDated' /\ CloseIsWarned'
  BY DEF AnswersDated, CloseIsWarned, CalendarInv, SentFor
<1>. QED
  BY <1>1, <1>2, Typed DEF Around

\* closeStepFor says "close" only after the last reminder had its notice.
LEMMA CloseStepIsWarned ==
    ASSUME CalendarInv, closeStepFor(table.startsAt) = "close"
    PROVE  /\ today >= table.startsAt + Duration + CloseAfter
           /\ \E s \in SentFor(table.startsAt, "7d") : s.sentAt + Notice <= today
<1> DEFINE d == table.startsAt
<1>1. SentFor(d, "7d") # {} /\ \A s \in SentFor(d, "7d") : today >= CloseAt(d, s)
  BY DEF closeStepFor
<1>2. PICK s \in SentFor(d, "7d") : today >= CloseAt(d, s)
  BY <1>1
<1>3. s.sentAt \in Nat /\ d \in Nat /\ today \in Int /\ {Duration, CloseAfter, Notice} \subseteq Nat
  <2>1. s \in Reminders
    BY Typed DEF SentFor
  <2>2. s.sentAt \in Nat
    BY <2>1, Numbers DEF Reminders
  <2>3. d \in Nat
    BY Numbers, Typed
  <2>4. today \in Int
    BY Numbers, Typed
  <2> HIDE DEF d
  <2>. QED
    BY <2>2, <2>3, <2>4, Numbers
<1>4. today >= d + Duration + CloseAfter /\ today >= s.sentAt + Notice
  BY <1>2, <1>3, MaxOfTwo DEF CloseAt
<1>. QED
  BY <1>2, <1>3, <1>4

LEMMA SweepAround ==
    ASSUME CalendarInv, remindToClose \/ remind \/ autoClose \/ autoHold
    PROVE  Around'
<1>1. UNCHANGED <<asked, edits, today>>
  BY DEF remindToClose, remind, autoClose, autoHold
<1>2. AnswersDated'
  BY <1>1 DEF AnswersDated, CalendarInv
<1>3. CASE remindToClose
  <2> DEFINE step == closeStepFor(table.startsAt)
  <2>1. due' = [step |-> step, date |-> table.startsAt] /\ sent' = sent
    BY <1>3 DEF remindToClose
  <2>2. step \in {"none", "1h", "7d", "close"}
    BY DEF closeStepFor
  <2>3. due'.step = step /\ due'.date = table.startsAt /\ table.startsAt \in Dates
    BY <2>1, Typed
  <2>4. due' \in [step: {"none", "1h", "7d", "close"}, date: Dates \cup {Never}]
    BY <2>1, <2>2, <2>3
  <2>5. SentFor(due.date, "7d")' = SentFor(table.startsAt, "7d")
    BY <2>1, <2>3 DEF SentFor
  <2> HIDE DEF step
  <2>6. CloseIsWarned'
    BY <1>1, <2>3, <2>5, CloseStepIsWarned DEF CloseIsWarned, step
  <2>. QED
    BY <1>1, <1>2, <2>1, <2>4, <2>6, Typed DEF Around
<1>4. CASE ~remindToClose
  <2>1. due' = NoStep
    BY <1>4 DEF remind, autoClose, autoHold
  <2>2. CloseIsWarned' /\ due' \in [step: {"none", "1h", "7d", "close"}, date: Dates \cup {Never}]
    BY <2>1 DEF NoStep, CloseIsWarned
  <2>3. sent' \subseteq Reminders
    <3>1. CASE remind
      <4> DEFINE s == [startsAt |-> due.date, step |-> due.step, sentAt |-> today]
      <4>1. s \in Reminders
        BY <3>1, Typed DEF remind, Reminders, CalendarInv, CloseIsWarned
      <4>2. sent' = sent \/ sent' = sent \cup {s}
        BY <3>1 DEF remind
      <4> HIDE DEF s
      <4>. QED
        BY <4>1, <4>2, Typed
    <3>2. CASE ~remind
      BY <1>4, <3>2, Typed DEF autoClose, autoHold
    <3>. QED
      BY <3>1, <3>2
  <2>. QED
    BY <1>1, <1>2, <2>2, <2>3, Typed DEF Around
<1>. QED
  BY <1>3, <1>4

LEMMA DayAround == ASSUME CalendarInv, DayEnds PROVE Around'
<1>1. today' \in 0..MaxClock /\ UNCHANGED <<sent, asked, due, edits>> /\ due.step = "none"
  BY Typed, Numbers DEF DayEnds, NoStep
<1>2. AnswersDated' /\ CloseIsWarned'
  BY <1>1 DEF AnswersDated, CloseIsWarned, CalendarInv
<1>. QED
  BY <1>1, <1>2, Typed DEF Around

LEMMA NextAround == ASSUME CalendarInv, [CalendarNext]_calendar PROVE Around'
<1>1. CASE GmStep
  <2>1. ASSUME NEW d, NEW reflow, scheduleSession(d) \/ updateTable(d, reflow) PROVE Around'
    BY <2>1, EditAround DEF scheduleSession, updateTable, Rest
  <2>2. ASSUME NEW r, NEW d, cancelSession(r) \/ moveSession(r, d) PROVE Around'
    BY <2>2, EditAround DEF cancelSession, moveSession, Rest
  <2>3. CASE finishTable \/ disableTable \/ publishTable
    BY <2>3, EditAround DEF finishTable, disableTable, publishTable, Rest
  <2>. QED
    BY <1>1, <2>1, <2>2, <2>3, AskAround, AnswerAround DEF GmStep
<1>2. CASE SweeperStep
  <2>1. CASE closeElapsed
    BY <2>1, EditAround DEF closeElapsed
  <2>. QED
    BY <1>2, <2>1, SweepAround DEF SweeperStep
<1>3. CASE UNCHANGED calendar
  BY <1>3, EditAround DEF calendar
<1>. QED
  BY <1>1, <1>2, <1>3, DayAround DEF CalendarNext

-----------------------------------------------------------------------------
(* The theorems. *)

LEMMA CalendarStarts == CalendarInit => CalendarInv
<1> SUFFICES ASSUME CalendarInit PROVE CalendarInv
  OBVIOUS
<1>1. table \in Tables /\ Free(table.startsAt)
  BY StartDatesAssumption DEF CalendarInit, Tables, TableStatuses
<1>2. rows \subseteq Sessions /\ Match(rows, table)
  <2>1. Unique({})
    BY DEF Unique, Scheduled
  <2>2. {} \subseteq Sessions
    OBVIOUS
  <2>. QED
    BY <1>1, <2>1, <2>2, SyncTyped, SyncMatches DEF CalendarInit
<1>3. NoAnswer \in Requests /\ asked = [k \in Tabs |-> NoAnswer]
  BY DEF NoAnswer, Requests, CalendarInit
<1>4. asked \in [Tabs -> Requests] /\ AnswersDated
  BY <1>3 DEF AnswersDated
<1>5. /\ due \in [step: {"none", "1h", "7d", "close"}, date: Dates \cup {Never}]
      /\ due.step = "none"
  BY DEF CalendarInit, NoStep
<1>6. Around
  BY <1>4, <1>5, Numbers DEF CalendarInit, Around, CloseIsWarned
<1>. QED
  BY <1>1, <1>2, <1>6, InvParts DEF Match, Unique, RowsMatchTable, NoClash

LEMMA CalendarAlways == CalendarSpec => []CalendarInv
<1>1. CalendarInv /\ [CalendarNext]_calendar => CalendarInv'
  <2> SUFFICES ASSUME CalendarInv, [CalendarNext]_calendar PROVE CalendarInv'
    OBVIOUS
  <2>1. Kept /\ Around'
    BY NextKeeps, NextAround
  <2>2. CalendarTypeOK'
    BY <2>1 DEF Kept, Around, CalendarTypeOK, Tables, Requests, Reminders
  <2>. QED
    BY <2>1, <2>2 DEF CalendarInv, Kept, Around
<1>. QED
  BY <1>1, CalendarStarts, PTL DEF CalendarSpec

\* Every reachable state is well typed: no computed date falls outside the calendar.
THEOREM CalendarIsTyped == CalendarSpec => []CalendarTypeOK
<1>1. CalendarInv => CalendarTypeOK
  BY DEF CalendarInv
<1>. QED
  BY <1>1, CalendarAlways, PTL

\* Whatever the GM and the sweeper do to a table of any kind: no two of its sessions are scheduled on
\* one date, its date is the first of them while it goes on, and nothing is once it ended
\* (syncTableSessions after every write).
THEOREM RowsFollowTheTable == CalendarSpec => []RowsMatchTable
<1>1. CalendarInv => RowsMatchTable
  BY DEF CalendarInv
<1>. QED
  BY <1>1, CalendarAlways, PTL

\* For any other tables of the family: one that holds its slot never overlaps them, whichever way
\* its date moved (assertTableSchedule).
THEOREM DatesNeverClash == CalendarSpec => []NoClash
<1>1. CalendarInv => NoClash
  BY DEF CalendarInv
<1>. QED
  BY <1>1, CalendarAlways, PTL

\* No write rewrites or deletes a session that was held, not held or cancelled.
THEOREM HistoryIsKept == CalendarSpec => HistoryKept
<1>1. CalendarInv /\ [CalendarNext]_calendar => [rows \ Scheduled(rows) \subseteq rows']_calendar
  BY NextKeeps DEF Kept, History
<1>. QED
  BY <1>1, CalendarAlways, PTL DEF CalendarSpec, HistoryKept

\* Whoever writes the calendar leaves the rows as another sync would: the dates of the rule are all
\* there, and none too many.  Only publishing a draft does not bring them in line (write.ts).
THEOREM LineIsKept == CalendarSpec => StaysInLine
<1>1. CalendarInv /\ [CalendarNext]_calendar =>
          [<<table, rows>>' # <<table, rows>> /\ InLine => InLine' \/ table.status = "draft"]_calendar
  BY NextKeeps DEF Kept
<1>. QED
  BY <1>1, CalendarAlways, PTL DEF CalendarSpec, StaysInLine

\* An answer that meets a table which waits no longer changes nothing, whoever answered first.
THEOREM AnsweredOnce == CalendarSpec => OneAnswer
<1>1. [CalendarNext]_calendar =>
          [asked' # asked /\ table.status # "awaiting_confirmation" => UNCHANGED <<table, rows>>]_calendar
  BY DEF CalendarNext, GmStep, SweeperStep, Ask, Answer, Takes, finishTable, disableTable, publishTable,
      updateTable, scheduleSession, moveSession, cancelSession, Rest, closeElapsed, remindToClose,
      remind, autoClose, autoHold, DayEnds, calendar
<1>. QED
  BY <1>1, PTL DEF CalendarSpec, OneAnswer

\* The sweeper answers for the GM of any table only when its last reminder, of that very session,
\* has had its notice (closeStepFor, and the condition of the close on the table as it is then).
THEOREM WarnedBeforeTheClose == CalendarSpec => WarnedBeforeClose
<1>1. ASSUME CalendarInv, [CalendarNext]_calendar, due.step = "close", due' = NoStep, table' # table
      PROVE  /\ table.status = "awaiting_confirmation"
             /\ today >= table.startsAt + Duration + CloseAfter
             /\ \E s \in SentFor(table.startsAt, "7d") : s.sentAt + Notice <= today
  <2>1. due' # due
    BY <1>1 DEF NoStep
  <2>2. autoClose \/ autoHold
    BY <1>1, <2>1 DEF CalendarNext, GmStep, SweeperStep, Ask, Answer, finishTable, disableTable,
        publishTable, updateTable, scheduleSession, moveSession, cancelSession, Rest, closeElapsed,
        remindToClose, remind, DayEnds, calendar
  <2>3. StillDue
    BY <1>1, <2>2 DEF autoClose, autoHold
  <2>. QED
    BY <1>1, <2>3 DEF StillDue, CalendarInv, CloseIsWarned
<1>2. CalendarInv /\ [CalendarNext]_calendar =>
          [due.step = "close" /\ due' = NoStep /\ table' # table =>
              /\ table.status = "awaiting_confirmation"
              /\ today >= table.startsAt + Duration + CloseAfter
              /\ \E s \in SentFor(table.startsAt, "7d") : s.sentAt + Notice <= today]_calendar
  BY <1>1
<1>. QED
  BY <1>2, CalendarAlways, PTL DEF CalendarSpec, WarnedBeforeClose
=============================================================================
