---------------------------- MODULE ServicesProofs ----------------------------
(***************************************************************************)
(* Theorems about the parts MCServices runs together, for any members,     *)
(* admins, people, requests and bounds: the decisions on a place, the      *)
(* limits of a window, the score of a GM, the bans of an account, a mail.  *)
(* Last, the types of the parts in their run.                              *)
(***************************************************************************)
EXTENDS MCServices, CrowdfundingImportsProofs, FiniteSetTheorems

-----------------------------------------------------------------------------
(* Places: an owner ends the claims. *)

Deciding(a) == desk[a].step \in {"claim", "place"}

\* An admin who locked a claim holds it, still pending, alone: with this OwnerEndsClaims is inductive.
ClaimsHeld ==
    \A a \in Admins : Deciding(a) =>
        /\ desk[a].on \in Members /\ claims[desk[a].on] = "pending"
        /\ \A b \in Admins \ {a} : Deciding(b) => desk[b].on # desk[a].on

PlacesInv == PlacesTypeOK /\ ClaimsHeld /\ OwnerEndsClaims

DeskRows == [task: Tasks \cup {"none"}, step: {"none", "claim", "place", "read"},
             on: Members \cup {Nobody}]
PlaceRows == [approved: BOOLEAN, hidden: BOOLEAN, removed: BOOLEAN, owner: Members \cup {Nobody}]

LEMMA PlacesInitHolds == PlacesInit => PlacesInv
<1> SUFFICES ASSUME PlacesInit PROVE PlacesInv
  OBVIOUS
<1>1. NoTask \in DeskRows /\ NoTask.step = "none"
  BY DEF NoTask, DeskRows
<1>2. \A a \in Admins : desk[a] = NoTask
  BY DEF PlacesInit
<1>3. PlacesTypeOK
  <2>1. desk \in [Admins -> DeskRows]
    BY <1>1 DEF PlacesInit
  <2>2. place \in PlaceRows
    BY DEF PlacesInit, PlaceRows
  <2>3. requests \in 0..MaxRequests
    BY PlacesAssumption DEF PlacesInit
  <2>. QED
    BY <2>1, <2>2, <2>3 DEF PlacesInit, PlacesTypeOK, DeskRows, PlaceRows
<1>4. ClaimsHeld
  BY <1>1, <1>2 DEF ClaimsHeld, Deciding
<1>. QED
  BY <1>3, <1>4 DEF PlacesInv, PlacesInit, OwnerEndsClaims

\* What a step of one admin leaves of the others.
LEMMA DeskMoved ==
    ASSUME PlacesTypeOK, NEW a \in Admins, NEW next \in DeskRows, desk' = [desk EXCEPT ![a] = next]
    PROVE  /\ desk' \in [Admins -> DeskRows] /\ desk'[a] = next
           /\ \A b \in Admins \ {a} : desk'[b] = desk[b]
  BY DEF PlacesTypeOK, DeskRows

\* A step of one admin that leaves place and claims alone: it locks a claim nobody holds, goes on
\* with the one it holds, or holds none.
LEMMA DeskHolds ==
    ASSUME PlacesInv, NEW a \in Admins, NEW next \in DeskRows, desk' = [desk EXCEPT ![a] = next],
           UNCHANGED <<place, claims>>,
           reports' \in [Members -> {"none"} \cup Waiting \cup Closed], requests' \in 0..MaxRequests,
           next.step \in {"claim", "place"} =>
               /\ next.on \in Members /\ claims[next.on] = "pending"
               /\ \A b \in Admins \ {a} : Deciding(b) => desk[b].on # next.on
    PROVE  PlacesInv'
<1>1. /\ desk' \in [Admins -> DeskRows] /\ desk'[a] = next
      /\ \A b \in Admins \ {a} : desk'[b] = desk[b]
  BY DeskMoved DEF PlacesInv
<1>2. PlacesTypeOK'
  BY <1>1 DEF PlacesInv, PlacesTypeOK, DeskRows
<1>3. ClaimsHeld'
  BY <1>1 DEF PlacesInv, ClaimsHeld, Deciding
<1>. QED
  BY <1>2, <1>3 DEF PlacesInv, OwnerEndsClaims

\* A step on the place's row alone that names no new owner.
LEMMA PlaceRowHolds ==
    ASSUME PlacesInv, place' \in PlaceRows, place'.owner \in {place.owner, Nobody},
           UNCHANGED <<claims, desk>>,
           reports' \in [Members -> {"none"} \cup Waiting \cup Closed], requests' \in 0..MaxRequests
    PROVE  PlacesInv'
  BY DEF PlacesInv, PlacesTypeOK, PlaceRows, ClaimsHeld, Deciding, OwnerEndsClaims

LEMMA RequestTyped ==
    ASSUME PlacesTypeOK, Request
    PROVE  requests' \in 0..MaxRequests
  BY PlacesAssumption DEF PlacesTypeOK, Request

LEMMA FileClaimHolds ==
    ASSUME PlacesInv, NEW m \in Members, fileClaim(m)
    PROVE  PlacesInv'
<1>1. /\ claims' = [claims EXCEPT ![m] = "pending"] /\ UNCHANGED <<place, reports, desk>>
      /\ place.owner = Nobody
  BY DEF fileClaim
<1>2. requests' \in 0..MaxRequests
  BY RequestTyped DEF fileClaim, PlacesInv
<1>. QED
  BY <1>1, <1>2 DEF PlacesInv, PlacesTypeOK, ClaimsHeld, Deciding, OwnerEndsClaims

LEMMA MemberHolds ==
    ASSUME PlacesInv, NEW m \in Members, filePlaceReport(m) \/ updatePlace(m) \/ withdrawPlace(m)
    PROVE  PlacesInv'
<1>1. PlacesTypeOK /\ place \in PlaceRows
  BY DEF PlacesInv, PlacesTypeOK, PlaceRows
<1>2. requests' \in 0..MaxRequests
  BY <1>1, RequestTyped DEF filePlaceReport, updatePlace, withdrawPlace
<1>3. /\ UNCHANGED <<claims, desk>>
      /\ reports' \in [Members -> {"none"} \cup Waiting \cup Closed]
  BY <1>1 DEF filePlaceReport, updatePlace, withdrawPlace, PlacesTypeOK, Waiting
<1>4. place' \in PlaceRows /\ place'.owner = place.owner
  <2>1. CASE filePlaceReport(m)
    <3> DEFINE due == Cardinality(Reporters \cup {m}) >= ReportsToHide
    <3>1. place' = [place EXCEPT !.hidden = due] /\ due \in BOOLEAN
      BY <2>1 DEF filePlaceReport
    <3> HIDE DEF due
    <3>. QED
      BY <1>1, <3>1 DEF PlaceRows
  <2>2. CASE updatePlace(m)
    <3> DEFINE stays == place.approved /\ m = place.owner
    <3>1. place' = [place EXCEPT !.approved = stays] /\ stays \in BOOLEAN
      BY <2>2 DEF updatePlace
    <3> HIDE DEF stays
    <3>. QED
      BY <1>1, <3>1 DEF PlaceRows
  <2>3. CASE withdrawPlace(m)
    BY <1>1, <2>3 DEF withdrawPlace, PlaceRows
  <2>. QED
    BY <2>1, <2>2, <2>3
<1>. QED
  BY <1>2, <1>3, <1>4, PlaceRowHolds

LEMMA AdminHolds ==
    ASSUME PlacesInv, removePlaceOwner \/ approvePlace \/ removePlace \/ restorePlace
    PROVE  PlacesInv'
<1>1. PlacesTypeOK /\ place \in PlaceRows
  BY DEF PlacesInv, PlacesTypeOK, PlaceRows
<1>2. requests' \in 0..MaxRequests
  BY <1>1, RequestTyped DEF removePlaceOwner, approvePlace, removePlace, restorePlace
<1>3. /\ UNCHANGED <<claims, desk>>
      /\ reports' \in [Members -> {"none"} \cup Waiting \cup Closed]
  BY <1>1 DEF removePlaceOwner, approvePlace, removePlace, restorePlace, PlacesTypeOK, Outcome, Closed
<1>4. place' \in PlaceRows /\ place'.owner \in {place.owner, Nobody}
  BY <1>1 DEF removePlaceOwner, approvePlace, removePlace, restorePlace, PlaceRows
<1>. QED
  BY <1>2, <1>3, <1>4, PlaceRowHolds

LEMMA LockClaimHolds ==
    ASSUME PlacesInv, NEW a \in Admins, NEW task \in Tasks, NEW m \in Members, lockClaim(a, task, m)
    PROVE  PlacesInv'
<1> DEFINE next == [task |-> task, step |-> "claim", on |-> m]
<1>1. next \in DeskRows /\ next.on = m
  BY DEF DeskRows
<1>2. /\ desk' = [desk EXCEPT ![a] = next] /\ UNCHANGED <<place, claims, reports>>
      /\ claims[m] = "pending" /\ \A b \in Admins \ {a} : ~ClaimHeld(b, m)
  BY DEF lockClaim, Take, ClaimFree
<1>3. requests' \in 0..MaxRequests
  BY RequestTyped DEF lockClaim, PlacesInv
<1> HIDE DEF next
<1>. QED
  BY <1>1, <1>2, <1>3, DeskHolds DEF Deciding, ClaimHeld, PlacesInv, PlacesTypeOK

LEMMA ReadReportHolds ==
    ASSUME PlacesInv, NEW a \in Admins, NEW task \in Tasks, NEW m \in Members, readReport(a, task, m)
    PROVE  PlacesInv'
<1> DEFINE next == [task |-> task, step |-> "read", on |-> m]
<1>1. next \in DeskRows /\ next.step = "read"
  BY DEF DeskRows
<1>2. desk' = [desk EXCEPT ![a] = next] /\ UNCHANGED <<place, claims, reports>>
  BY DEF readReport, Take
<1>3. requests' \in 0..MaxRequests
  BY RequestTyped DEF readReport, PlacesInv
<1> HIDE DEF next
<1>. QED
  BY <1>1, <1>2, <1>3, DeskHolds DEF PlacesInv, PlacesTypeOK

LEMMA LockPlaceHolds ==
    ASSUME PlacesInv, NEW a \in Admins, lockPlace(a)
    PROVE  PlacesInv'
<1> DEFINE next == [task |-> desk[a].task, step |-> "place", on |-> desk[a].on]
<1>1. desk[a] \in DeskRows /\ NoTask \in DeskRows /\ NoTask.step = "none"
  BY DEF PlacesInv, PlacesTypeOK, DeskRows, NoTask
<1>2. next \in DeskRows /\ next.on = desk[a].on
  BY <1>1 DEF DeskRows
<1>3. /\ desk[a].step = "claim" /\ UNCHANGED <<place, claims, reports, requests>>
      /\ desk' = [desk EXCEPT ![a] = NoTask] \/ desk' = [desk EXCEPT ![a] = next]
  BY DEF lockPlace, Done, Take
<1>4. Deciding(a)
  BY <1>3 DEF Deciding
<1> HIDE DEF next
<1>. QED
  BY <1>1, <1>2, <1>3, <1>4, DeskHolds DEF PlacesInv, PlacesTypeOK, ClaimsHeld

LEMMA AbortHolds ==
    ASSUME PlacesInv, NEW a \in Admins, abort(a)
    PROVE  PlacesInv'
<1>1. NoTask \in DeskRows /\ NoTask.step = "none"
  BY DEF DeskRows, NoTask
<1>2. desk' = [desk EXCEPT ![a] = NoTask] /\ UNCHANGED <<place, claims, reports, requests>>
  BY DEF abort, Done
<1>. QED
  BY <1>1, <1>2, DeskHolds DEF PlacesInv, PlacesTypeOK

LEMMA WriteReportHolds ==
    ASSUME PlacesInv, NEW a \in Admins, writeReport(a)
    PROVE  PlacesInv'
<1>1. NoTask \in DeskRows /\ NoTask.step = "none"
  BY DEF DeskRows, NoTask
<1>2. desk' = [desk EXCEPT ![a] = NoTask] /\ UNCHANGED <<place, claims, requests>>
  BY DEF writeReport, Done
<1>3. reports' \in [Members -> {"none"} \cup Waiting \cup Closed]
  BY DEF writeReport, PlacesInv, PlacesTypeOK, Waiting, Closed
<1>. QED
  BY <1>1, <1>2, <1>3, DeskHolds DEF PlacesInv, PlacesTypeOK

\* An approval holds the one claim that is decided, and waits until nobody holds another.
LEMMA ApproveHolds ==
    ASSUME PlacesInv, NEW a \in Admins, approveClaim(a)
    PROVE  PlacesInv'
<1> DEFINE m == desk[a].on
<1>1. NoTask \in DeskRows /\ NoTask.step = "none" /\ place \in PlaceRows
  BY DEF DeskRows, NoTask, PlacesInv, PlacesTypeOK, PlaceRows
<1>2. desk' = [desk EXCEPT ![a] = NoTask] /\ UNCHANGED <<reports, requests>> /\ Deciding(a)
  BY DEF approveClaim, Done, Deciding
<1>3. m \in Members
  BY <1>2 DEF PlacesInv, ClaimsHeld
<1>4. place' = [place EXCEPT !.owner = m]
      /\ claims' = [q \in Members |-> IF q = m THEN "approved"
                                       ELSE IF claims[q] = "pending" THEN "rejected" ELSE claims[q]]
      /\ \A q \in Members : claims[q] = "pending" => ClaimFree(a, q)
  BY DEF approveClaim
<1> HIDE DEF m
<1>5. /\ desk' \in [Admins -> DeskRows] /\ desk'[a] = NoTask
      /\ \A b \in Admins \ {a} : desk'[b] = desk[b]
  BY <1>1, <1>2, DeskMoved DEF PlacesInv
<1>6. \A b \in Admins \ {a} : ~Deciding(b)
  BY <1>4 DEF PlacesInv, ClaimsHeld, ClaimFree, ClaimHeld, Deciding
<1>7. place' \in PlaceRows /\ place'.owner = m
  BY <1>1, <1>3, <1>4 DEF PlaceRows
<1>8. claims' \in [Members -> {"none", "pending", "approved", "rejected"}]
  BY <1>4 DEF PlacesInv, PlacesTypeOK
<1>9. PlacesTypeOK'
  BY <1>2, <1>5, <1>7, <1>8 DEF PlacesInv, PlacesTypeOK, DeskRows, PlaceRows
<1>10. ClaimsHeld'
  BY <1>1, <1>5, <1>6 DEF ClaimsHeld, Deciding
<1>11. OwnerEndsClaims'
  BY <1>3, <1>4, <1>7 DEF OwnerEndsClaims
<1>. QED
  BY <1>9, <1>10, <1>11 DEF PlacesInv

\* A rejection holds a pending claim, so the place has no owner yet.
LEMMA RejectHolds ==
    ASSUME PlacesInv, NEW a \in Admins, rejectClaim(a)
    PROVE  PlacesInv'
<1>1. NoTask \in DeskRows /\ NoTask.step = "none"
  BY DEF DeskRows, NoTask
<1>2. /\ desk' = [desk EXCEPT ![a] = NoTask] /\ UNCHANGED <<place, reports, requests>> /\ Deciding(a)
      /\ claims' = [claims EXCEPT ![desk[a].on] = "rejected"]
  BY DEF rejectClaim, Done, Deciding
<1>3. /\ desk[a].on \in Members /\ claims[desk[a].on] = "pending"
      /\ \A b \in Admins \ {a} : Deciding(b) => desk[b].on # desk[a].on
  BY <1>2 DEF PlacesInv, ClaimsHeld
<1>4. /\ desk' \in [Admins -> DeskRows] /\ desk'[a] = NoTask
      /\ \A b \in Admins \ {a} : desk'[b] = desk[b]
  BY <1>1, <1>2, DeskMoved DEF PlacesInv
<1>5. /\ claims' \in [Members -> {"none", "pending", "approved", "rejected"}]
      /\ \A q \in Members \ {desk[a].on} : claims'[q] = claims[q]
  BY <1>2 DEF PlacesInv, PlacesTypeOK
<1>6. PlacesTypeOK'
  BY <1>2, <1>4, <1>5 DEF PlacesInv, PlacesTypeOK, DeskRows
<1>7. ClaimsHeld'
  BY <1>1, <1>3, <1>4, <1>5 DEF PlacesInv, ClaimsHeld, Deciding
<1>8. OwnerEndsClaims'
  BY <1>2, <1>3 DEF PlacesInv, OwnerEndsClaims
<1>. QED
  BY <1>6, <1>7, <1>8 DEF PlacesInv

LEMMA PlacesNextHolds == PlacesInv /\ [PlacesNext]_placeVars => PlacesInv'
<1> SUFFICES ASSUME PlacesInv, [PlacesNext]_placeVars PROVE PlacesInv'
  OBVIOUS
<1>1. CASE UNCHANGED placeVars
  BY <1>1 DEF placeVars, PlacesInv, PlacesTypeOK, ClaimsHeld, Deciding, OwnerEndsClaims
<1>2. CASE MemberStep
  BY <1>2, FileClaimHolds, MemberHolds, AdminHolds DEF MemberStep
<1>3. CASE AdminStep
  <2>1. ASSUME NEW a \in Admins, Finish(a) PROVE PlacesInv'
    BY <2>1, LockPlaceHolds, ApproveHolds, RejectHolds, AbortHolds, WriteReportHolds DEF Finish
  <2>. QED
    BY <1>3, <2>1, AdminHolds, LockClaimHolds, ReadReportHolds DEF AdminStep
<1>. QED
  BY <1>1, <1>2, <1>3 DEF PlacesNext

\* Every reachable state of a place, its claims, its reports and its admins' desks is well typed.
THEOREM PlacesAreTyped == PlacesSpec => []PlacesTypeOK
<1>1. PlacesInv => PlacesTypeOK
  BY DEF PlacesInv
<1>. QED
  BY <1>1, PlacesInitHolds, PlacesNextHolds, PTL DEF PlacesSpec

\* For any members and admins, however their decisions interleave: a place with an owner has no
\* claim left waiting, and its owner's is approved (claims.ts).
THEOREM OwnersEndClaims == PlacesSpec => []OwnerEndsClaims
<1>1. PlacesInv => OwnerEndsClaims
  BY DEF PlacesInv
<1>. QED
  BY <1>1, PlacesInitHolds, PlacesNextHolds, PTL DEF PlacesSpec

\* Nothing but an admin's restoring lists a place that reports hid, and it closes every report.
THEOREM HiddenPlacesStayHidden == PlacesSpec => HiddenUntilRestored
<1> DEFINE Closes == place.hidden /\ ~place'.hidden => \A m \in Members : reports'[m] \notin Waiting
<1>1. ASSUME PlacesInv, [PlacesNext]_placeVars PROVE Closes
  <2> SUFFICES ASSUME place.hidden, ~place'.hidden
               PROVE  \A m \in Members : reports'[m] \notin Waiting
    OBVIOUS
  <2>1. place \in PlaceRows
    BY <1>1 DEF PlacesInv, PlacesTypeOK, PlaceRows
  <2>2. restorePlace
    BY <1>1, <2>1
       DEF PlacesNext, MemberStep, AdminStep, Finish, placeVars, PlaceRows, OnTheList,
           fileClaim, filePlaceReport, updatePlace, withdrawPlace, removePlaceOwner, approvePlace,
           removePlace, lockClaim, readReport, lockPlace, approveClaim, rejectClaim, abort, writeReport
  <2>. QED
    BY <1>1, <2>2 DEF restorePlace, Outcome, Reporters, Waiting
<1>. QED
  BY <1>1, PlacesInitHolds, PlacesNextHolds, PTL DEF PlacesSpec, HiddenUntilRestored

-----------------------------------------------------------------------------
(* Rate limits: any window, not only those that end at a request. *)

\* No row is of the future, and no request's clock is.
ClocksBehind ==
    /\ log \subseteq [use: Uses, at: 0..MaxSecond] /\ IsFiniteSet(log) /\ kind \in Kinds
    /\ second \in 0..MaxSecond /\ \A e \in log : e.at <= second
    /\ using \in [Uses -> [step: {"new", "waits", "done"}, now: 0..MaxSecond]]
    /\ \A u \in Uses : using[u].now <= second

LimitsInv == ClocksBehind /\ WithinLimit

InWindow(rows, t) == {e \in rows : e.at > t - Window /\ e.at <= t}

\* A row is written only where every window it falls in has a place for it.
LEMMA RowWithin ==
    ASSUME LimitsInv, NEW u \in Uses, NEW at \in using[u].now..second,
           Settle(u, Counted(using[u].now), at)
    PROVE  LimitsInv'
<1> DEFINE now == using[u].now
           row == [use |-> u, at |-> at]
<1>1. now \in Nat /\ second \in 0..MaxSecond /\ at \in 0..MaxSecond /\ now <= at /\ at <= second
  BY RateLimitsAssumption DEF LimitsInv, ClocksBehind
<1>2. UNCHANGED <<kind, second>> /\ using' = [using EXCEPT ![u].step = "done"]
  BY DEF Settle
<1>3. /\ using' \in [Uses -> [step: {"new", "waits", "done"}, now: 0..MaxSecond]]
      /\ \A v \in Uses : using'[v].now = using[v].now
  BY <1>2 DEF LimitsInv, ClocksBehind
<1>4. CASE log' = log
  BY <1>2, <1>3, <1>4 DEF LimitsInv, ClocksBehind, WithinLimit
<1>5. CASE log' = log \cup {row} /\ Cardinality(Counted(now)) < Limit
  <2>1. row \in [use: Uses, at: 0..MaxSecond] /\ row.at = at
    BY <1>1
  <2>2. IsFiniteSet(log') /\ IsFiniteSet(log)
    BY <1>5, FS_AddElement DEF LimitsInv, ClocksBehind
  <2>3. ClocksBehind'
    BY <1>1, <1>2, <1>3, <1>5, <2>1, <2>2 DEF LimitsInv, ClocksBehind
  <2>4. ASSUME NEW t \in 0..MaxSecond PROVE Cardinality(InWindow(log', t)) <= Limit
    <3>1. CASE at > t - Window /\ at <= t
      <4>1. InWindow(log, t) \subseteq Counted(now)
        BY <1>1, <3>1, RateLimitsAssumption DEF InWindow, Counted, LimitsInv, ClocksBehind
      <4>2. Counted(now) \subseteq log
        BY DEF Counted
      <4>3. IsFiniteSet(Counted(now)) /\ Cardinality(Counted(now)) \in Nat
        BY <2>2, <4>2, FS_Subset, FS_CardinalityType
      <4>4. /\ IsFiniteSet(InWindow(log, t)) /\ Cardinality(InWindow(log, t)) \in Nat
            /\ Cardinality(InWindow(log, t)) <= Cardinality(Counted(now))
        BY <4>1, <4>3, FS_Subset, FS_CardinalityType
      <4>5. InWindow(log', t) = InWindow(log, t) \cup {row}
        BY <1>5, <2>1, <3>1 DEF InWindow
      <4>6. Cardinality(InWindow(log', t)) <= Cardinality(InWindow(log, t)) + 1
        <5> DEFINE W == InWindow(log, t)
        <5>1. Cardinality(W \cup {row}) = IF row \in W THEN Cardinality(W) ELSE Cardinality(W) + 1
          BY <4>4, FS_AddElement
        <5>2. Cardinality(W) \in Nat
          BY <4>4
        <5> HIDE DEF W
        <5>3. Cardinality(W \cup {row}) <= Cardinality(W) + 1
          BY <5>1, <5>2
        <5>. QED
          BY <4>5, <5>3 DEF W
      <4>7. Cardinality(InWindow(log', t)) \in Nat
        BY <4>4, <4>5, FS_AddElement, FS_CardinalityType
      <4>. QED
        BY <1>5, <4>3, <4>4, <4>6, <4>7, RateLimitsAssumption
    <3>2. CASE ~(at > t - Window /\ at <= t)
      <4>1. InWindow(log', t) = InWindow(log, t)
        BY <1>5, <2>1, <3>2 DEF InWindow
      <4>. QED
        BY <4>1 DEF LimitsInv, WithinLimit, InWindow
    <3>. QED
      BY <3>1, <3>2
  <2>. QED
    BY <2>3, <2>4 DEF LimitsInv, WithinLimit, InWindow
<1>. QED
  BY <1>4, <1>5 DEF Settle

LEMMA LimitsInitHolds == LimitsInit => LimitsInv
<1> SUFFICES ASSUME LimitsInit PROVE LimitsInv
  OBVIOUS
<1>1. log = {} /\ second = 0 /\ second \in 0..MaxSecond /\ kind \in Kinds
  BY RateLimitsAssumption DEF LimitsInit
<1>2. /\ using \in [Uses -> [step: {"new", "waits", "done"}, now: 0..MaxSecond]]
      /\ \A u \in Uses : using[u].now = 0
  BY RateLimitsAssumption DEF LimitsInit
<1>3. ClocksBehind
  BY <1>1, <1>2, FS_EmptySet DEF ClocksBehind
<1>4. \A t \in 0..MaxSecond : {e \in log : e.at > t - Window /\ e.at <= t} = {}
  BY <1>1
<1>5. WithinLimit
  BY <1>4, FS_EmptySet, RateLimitsAssumption DEF WithinLimit
<1>. QED
  BY <1>3, <1>5 DEF LimitsInv

\* Every reachable state of RateLimits is well typed, however long requests wait.
THEOREM LimitsAreTyped == LimitsSpec => []LimitsTypeOK
<1>1. LimitsInit => LimitsTypeOK
  BY RateLimitsAssumption, FS_EmptySet DEF LimitsInit, LimitsTypeOK
<1>2. ASSUME LimitsTypeOK, [LimitsNext]_limitVars PROVE LimitsTypeOK'
  <2>1. ASSUME NEW u \in Uses, NEW used, NEW at \in 0..MaxSecond, Settle(u, used, at) PROVE LimitsTypeOK'
    <3> DEFINE row == [use |-> u, at |-> at]
    <3>1. row \in [use: Uses, at: 0..MaxSecond] /\ IsFiniteSet(log \cup {row})
      BY <1>2, FS_AddElement DEF LimitsTypeOK
    <3>2. log' = log \cup {row} \/ log' = log
      BY <2>1 DEF Settle
    <3>3. log' \subseteq [use: Uses, at: 0..MaxSecond] /\ IsFiniteSet(log')
      BY <1>2, <3>1, <3>2 DEF LimitsTypeOK
    <3>. QED
      BY <1>2, <2>1, <3>3 DEF Settle, LimitsTypeOK
  <2>2. ASSUME NEW u \in Uses, enforceRateLimit(u) \/ recordAttempt(u) \/ sendMessage(u) PROVE LimitsTypeOK'
    <3>1. using[u].now \in 0..MaxSecond /\ using[u].now..second \subseteq 0..MaxSecond
      BY <1>2, RateLimitsAssumption DEF LimitsTypeOK
    <3>. QED
      BY <2>1, <2>2, <3>1 DEF enforceRateLimit, recordAttempt, sendMessage
  <2>3. ASSUME NEW u \in Uses, startUse(u) PROVE LimitsTypeOK'
    BY <1>2, <2>3 DEF startUse, LimitsTypeOK
  <2>4. CASE SecondPasses \/ UNCHANGED limitVars
    BY <1>2, <2>4, RateLimitsAssumption DEF SecondPasses, limitVars, LimitsTypeOK
  <2>. QED
    BY <1>2, <2>2, <2>3, <2>4 DEF LimitsNext
<1>. QED
  BY <1>1, <1>2, PTL DEF LimitsSpec

\* For any requests, any limit and window, and however long requests wait for the lock: no window
\* holds more than the limit (rate-limit.ts, auth/attempt-limit.ts). Messages keep it too when none
\* waits for the lock longer than its clock ticks: what they count ends at that clock.
THEOREM LimitsHold ==
    ASSUME "message" \notin Kinds \/ MaxWait = 0
    PROVE  LimitsSpec => []WithinLimit
<1>1. ASSUME LimitsInv, [LimitsNext]_limitVars PROVE LimitsInv'
  <2>1. ASSUME NEW u \in Uses, startUse(u) PROVE LimitsInv'
    <3>1. /\ UNCHANGED <<kind, log, second>>
          /\ using' \in [Uses -> [step: {"new", "waits", "done"}, now: 0..MaxSecond]]
          /\ \A v \in Uses : using'[v].now = using[v].now \/ using'[v].now = second
      BY <1>1, <2>1 DEF startUse, LimitsInv, ClocksBehind
    <3>2. second <= second
      BY <1>1 DEF LimitsInv, ClocksBehind
    <3>. QED
      BY <1>1, <3>1, <3>2 DEF LimitsInv, ClocksBehind, WithinLimit
  <2>2. ASSUME NEW u \in Uses, enforceRateLimit(u) PROVE LimitsInv'
    BY <1>1, <2>2, RowWithin DEF enforceRateLimit
  <2>3. ASSUME NEW u \in Uses, recordAttempt(u) PROVE LimitsInv'
    <3>1. using[u].now \in using[u].now..second
      BY <1>1 DEF LimitsInv, ClocksBehind
    <3>. QED
      BY <1>1, <2>3, <3>1, RowWithin DEF recordAttempt
  <2>4. ASSUME NEW u \in Uses, sendMessage(u) PROVE LimitsInv'
    <3>1. MaxWait = 0 /\ Settle(u, CountedUpTo(using[u].now), using[u].now)
          /\ second - using[u].now <= MaxWait
      BY <1>1, <2>4 DEF sendMessage, LimitsInv, ClocksBehind
    <3>2. using[u].now = second /\ second \in Int
      BY <1>1, <3>1, RateLimitsAssumption DEF LimitsInv, ClocksBehind
    <3>3. CountedUpTo(using[u].now) = Counted(using[u].now)
      BY <1>1, <3>2 DEF CountedUpTo, Counted, LimitsInv, ClocksBehind
    <3>4. using[u].now \in using[u].now..second
      BY <3>2
    <3>. QED
      BY <1>1, <3>1, <3>3, <3>4, RowWithin
  <2>5. CASE SecondPasses
    BY <1>1, <2>5, RateLimitsAssumption DEF SecondPasses, LimitsInv, ClocksBehind, WithinLimit
  <2>6. CASE UNCHANGED limitVars
    BY <1>1, <2>6 DEF limitVars, LimitsInv, ClocksBehind, WithinLimit
  <2>. QED
    BY <1>1, <2>1, <2>2, <2>3, <2>4, <2>5, <2>6 DEF LimitsNext
<1>2. LimitsInv => WithinLimit
  BY DEF LimitsInv
<1>. QED
  BY <1>1, <1>2, LimitsInitHolds, PTL DEF LimitsSpec

-----------------------------------------------------------------------------
(* The score that is served is worked out from all the ratings. *)

\* While the account is there: no row means no ratings; a row's version is never behind the one it
\* was worked out at, and at that version the score is of all the ratings.
RowTells ==
    ~closed =>
        /\ ~score.kept => score.version = 0 /\ given = {}
        /\ score.computed <= score.version
        /\ score.kept /\ score.computed = score.version => score.of = given

\* A page that works has a version no newer than the row's, and what it read at the row's own
\* version is all the ratings: with this RowTells is inductive.
PagesTell ==
    \A p \in Pages :
        /\ page[p].step = "none" => page[p] = NoPage
        /\ ~closed /\ page[p].step # "none" => page[p].version <= score.version
        /\ ~closed /\ page[p].step = "ratings" /\ page[p].version = score.version =>
               page[p].of = given

ScoresInv == ScoresTypeOK /\ RowTells /\ PagesTell

USE GmScoresAssumption

Rows == [kept: BOOLEAN, version: Nat, computed: Nat, month: Nat, of: SUBSET Ratings]
PageRows == [step: {"none", "row", "ratings"}, version: Nat, month: Nat, of: SUBSET Ratings]

LEMMA ScoresInitHolds == ScoresInit => ScoresInv
<1> SUFFICES ASSUME ScoresInit PROVE ScoresInv
  OBVIOUS
<1>1. NoPage \in PageRows /\ NoPage.step = "none" /\ NoScore \in Rows
  BY DEF NoPage, NoScore, PageRows, Rows
<1>2. \A p \in Pages : page[p] = NoPage
  BY DEF ScoresInit
<1>3. page \in [Pages -> PageRows] /\ month \in 0..MaxMonth
  BY <1>1 DEF ScoresInit
<1>4. ScoresTypeOK
  BY <1>1, <1>3 DEF ScoresInit, ScoresTypeOK, PageRows, Rows
<1>5. RowTells
  BY DEF ScoresInit, RowTells, NoScore
<1>6. PagesTell
  BY <1>1, <1>2 DEF PagesTell
<1>. QED
  BY <1>4, <1>5, <1>6 DEF ScoresInv

-----------------------------------------------------------------------------
(* One lemma per step. *)

LEMMA RatingHolds ==
    ASSUME ScoresInv, NEW r \in Ratings, submitRating(r)
    PROVE  ScoresInv'
<1> USE DEF ScoresInv
<1>1. score \in Rows
  BY DEF ScoresTypeOK, Rows
<1>2. /\ score' \in Rows /\ score'.kept
      /\ score'.version = (IF score.kept THEN score.version + 1 ELSE 1)
      /\ score'.computed = (IF score.kept THEN score.computed ELSE 0)
  BY <1>1 DEF submitRating, touch, Rows
<1>3. UNCHANGED <<page, closed, month>> /\ given' \subseteq Ratings
  BY DEF submitRating, ScoresTypeOK
<1>4. ScoresTypeOK'
  BY <1>2, <1>3 DEF ScoresTypeOK, Rows
<1>5. ~closed => score'.version > score.version /\ score'.version > score'.computed
  BY <1>1, <1>2 DEF RowTells, Rows
<1>6. RowTells'
  BY <1>1, <1>2, <1>3, <1>5 DEF RowTells, Rows
<1>7. \A p \in Pages : page[p].version \in Nat
  BY DEF ScoresTypeOK
<1>8. PagesTell'
  BY <1>1, <1>2, <1>3, <1>5, <1>7 DEF PagesTell, Rows
<1>. QED
  BY <1>4, <1>6, <1>8

LEMMA CloseHolds ==
    ASSUME ScoresInv, closeGm
    PROVE  ScoresInv'
<1>1. /\ closed' = TRUE /\ given' = {} /\ score' = NoScore
      /\ page' = page /\ month' = month
  BY DEF closeGm
<1>2. ScoresTypeOK'
  BY <1>1 DEF ScoresInv, ScoresTypeOK, NoScore
<1>3. RowTells'
  BY <1>1 DEF RowTells
<1>4. PagesTell'
  BY <1>1 DEF ScoresInv, PagesTell
<1>. QED
  BY <1>2, <1>3, <1>4 DEF ScoresInv

\* What a step of one page leaves of the others.
LEMMA PageMoved ==
    ASSUME ScoresTypeOK, NEW p \in Pages, NEW next \in PageRows, page' = [page EXCEPT ![p] = next]
    PROVE  /\ page' \in [Pages -> PageRows] /\ page'[p] = next
           /\ \A q \in Pages \ {p} : page'[q] = page[q]
  BY DEF ScoresTypeOK, PageRows

LEMMA ReadHolds ==
    ASSUME ScoresInv, NEW p \in Pages, readRow(p) \/ readRatings(p) \/ dropScore(p)
    PROVE  ScoresInv'
<1> USE DEF ScoresInv
<1>1. UNCHANGED <<given, score, closed, month>>
  BY DEF readRow, readRatings, dropScore
<1>2. RowTells'
  BY <1>1 DEF RowTells
<1>3. page[p] \in PageRows /\ score \in Rows /\ month \in Nat /\ given \in SUBSET Ratings
  BY DEF ScoresTypeOK, PageRows, Rows
<1>4. PICK next \in PageRows :
        /\ page' = [page EXCEPT ![p] = next]
        /\ next.step = "none" => next = NoPage
        /\ ~closed /\ next.step # "none" => next.version <= score.version
        /\ ~closed /\ next.step = "ratings" /\ next.version = score.version => next.of = given
  <2>1. CASE readRow(p)
    <3> DEFINE next == [NoPage EXCEPT !.step = "row", !.version = score.version, !.month = month]
    <3>1. next \in PageRows /\ next.step = "row" /\ next.version = score.version
      BY <1>3 DEF NoPage, PageRows, Rows
    <3>2. page' = [page EXCEPT ![p] = next]
      BY <2>1 DEF readRow
    <3>3. next.version <= score.version
      BY <1>3, <3>1 DEF Rows
    <3> HIDE DEF next
    <3>. QED
      BY <3>1, <3>2, <3>3
  <2>2. CASE readRatings(p)
    <3> DEFINE next == [page[p] EXCEPT !.step = "ratings", !.of = given]
    <3>1. next \in PageRows /\ next.step = "ratings" /\ next.version = page[p].version /\ next.of = given
      BY <1>3 DEF PageRows
    <3>2. page' = [page EXCEPT ![p] = next]
      BY <2>2 DEF readRatings
    <3>3. ~closed => page[p].version <= score.version
      BY <2>2 DEF readRatings, PagesTell
    <3> HIDE DEF next
    <3>. QED
      BY <3>1, <3>2, <3>3
  <2>3. CASE dropScore(p)
    <3>1. NoPage \in PageRows /\ NoPage.step = "none"
      BY DEF NoPage, PageRows
    <3>. QED
      BY <2>3, <3>1 DEF dropScore
  <2>. QED
    BY <2>1, <2>2, <2>3
<1>5. /\ page' \in [Pages -> PageRows] /\ page'[p] = next
      /\ \A q \in Pages \ {p} : page'[q] = page[q]
  BY <1>4, PageMoved
<1>6. ScoresTypeOK'
  BY <1>1, <1>5 DEF ScoresTypeOK, PageRows
<1>7. PagesTell'
  BY <1>1, <1>4, <1>5 DEF PagesTell
<1>. QED
  BY <1>2, <1>6, <1>7

LEMMA KeepHolds ==
    ASSUME ScoresInv, NEW p \in Pages, keepScore(p)
    PROVE  ScoresInv'
<1> USE DEF ScoresInv
<1>1. page[p].step = "ratings" /\ score' = Kept(page[p]) /\ UNCHANGED <<given, closed, month>>
  BY DEF keepScore
<1>2. NoPage \in PageRows /\ NoPage.step = "none" /\ page' = [page EXCEPT ![p] = NoPage]
  BY DEF NoPage, PageRows, keepScore
<1>3. /\ page' \in [Pages -> PageRows] /\ page'[p] = NoPage
      /\ \A q \in Pages \ {p} : page'[q] = page[q]
  BY <1>2, PageMoved
<1>4. page[p] \in PageRows /\ score \in Rows /\ \A q \in Pages : page[q].version \in Nat
  BY DEF ScoresTypeOK, PageRows, Rows
<1>5. CASE ~score.kept \/ score.version = page[p].version
  <2>1. /\ score'.kept /\ score'.version = page[p].version /\ score'.computed = page[p].version
        /\ score'.of = page[p].of /\ score' \in Rows
    BY <1>1, <1>4, <1>5 DEF Kept, Rows, PageRows
  <2>2. ~closed => page[p].version = score.version
    BY <1>1, <1>4, <1>5 DEF PagesTell, RowTells, Rows, PageRows
  <2>3. ~closed => page[p].of = given
    BY <1>1, <2>2 DEF PagesTell
  <2>4. RowTells'
    BY <1>1, <1>4, <2>1, <2>3 DEF RowTells, PageRows
  <2>5. PagesTell'
    BY <1>1, <1>2, <1>3, <2>1, <2>2 DEF PagesTell
  <2>. QED
    BY <1>1, <1>3, <2>1, <2>4, <2>5 DEF ScoresTypeOK, PageRows, Rows
<1>6. CASE ~(~score.kept \/ score.version = page[p].version)
  <2>1. score' = score
    BY <1>1, <1>6 DEF Kept
  <2>2. RowTells'
    BY <1>1, <2>1 DEF RowTells
  <2>3. PagesTell'
    BY <1>1, <1>2, <1>3, <2>1 DEF PagesTell
  <2>. QED
    BY <1>1, <1>3, <2>1, <2>2, <2>3 DEF ScoresTypeOK, PageRows
<1>. QED
  BY <1>5, <1>6

-----------------------------------------------------------------------------
LEMMA ScoresNextHolds == ScoresInv /\ [ScoresNext]_scoreVars => ScoresInv'
<1> SUFFICES ASSUME ScoresInv, [ScoresNext]_scoreVars PROVE ScoresInv'
  OBVIOUS
<1>1. CASE MonthTurns
  BY <1>1 DEF MonthTurns, ScoresInv, ScoresTypeOK, RowTells, PagesTell
<1>2. CASE UNCHANGED scoreVars
  BY <1>2 DEF scoreVars, ScoresInv, ScoresTypeOK, RowTells, PagesTell
<1>. QED
  BY <1>1, <1>2, RatingHolds, CloseHolds, ReadHolds, KeepHolds DEF ScoresNext

\* Every reachable state of a GM's score and of the pages that write it is well typed.
THEOREM ScoresAreTyped == ScoresSpec => []ScoresTypeOK
<1>1. ScoresInv => ScoresTypeOK
  BY DEF ScoresInv
<1>. QED
  BY <1>1, ScoresInitHolds, ScoresNextHolds, PTL DEF ScoresSpec

\* For any ratings and any pages at once: as long as the account is not closed, a score that is
\* served as it is kept was worked out from every rating the GM has (the version of gm_scores).
THEOREM ServedScoresAreCurrent == ScoresSpec => []ServedScoreIsCurrent
<1>1. ScoresInv => ServedScoreIsCurrent
  BY DEF ScoresInv, RowTells, ServedScoreIsCurrent
<1>. QED
  BY <1>1, ScoresInitHolds, ScoresNextHolds, PTL DEF ScoresSpec

-----------------------------------------------------------------------------
(* Bans. *)

AccountRows ==
    [status: {"active", "suspended"}, banned: BOOLEAN, until: {ForGood} \cup 0..MaxHour,
     empty: BOOLEAN]
VisitRows == [step: {"none", "lift", "in", "close", "empty", "authUser"}, now: 0..MaxHour]

\* No visit's clock is ahead of the time: what it finds expired has expired.
VisitsBehind == \A v \in Visits : visit[v].now <= hour

AccountsInv == AccountsTypeOK /\ VisitsBehind

LEMMA AccountsInitHolds == AccountsInit => AccountsInv
<1> SUFFICES ASSUME AccountsInit PROVE AccountsInv
  OBVIOUS
<1>1. NoVisit \in VisitRows /\ NoVisit.now = 0
  BY AccountsAssumption DEF NoVisit, VisitRows
<1>2. account \in AccountRows
  BY DEF AccountsInit, AccountRows
<1>3. visit \in [Visits -> VisitRows] /\ \A v \in Visits : visit[v].now = 0
  BY <1>1 DEF AccountsInit
<1>4. hour = 0 /\ hour \in 0..MaxHour /\ bansLeft \in 0..MaxBans /\ authUser \in BOOLEAN
  BY AccountsAssumption DEF AccountsInit
<1>. QED
  BY <1>2, <1>3, <1>4 DEF AccountsInv, AccountsTypeOK, VisitsBehind, AccountRows, VisitRows

\* What a step of one visit leaves of the others.
LEMMA VisitMoved ==
    ASSUME AccountsInv, NEW v \in Visits, NEW next \in VisitRows, next.now <= hour,
           visit' = [visit EXCEPT ![v] = next], hour' = hour
    PROVE  visit' \in [Visits -> VisitRows] /\ VisitsBehind'
  BY DEF AccountsInv, AccountsTypeOK, VisitRows, VisitsBehind

LEMMA AccountsNextHolds == AccountsInv /\ [AccountsNext]_accountVars => AccountsInv'
<1> SUFFICES ASSUME AccountsInv, [AccountsNext]_accountVars PROVE AccountsInv'
  OBVIOUS
<1>0. /\ account \in AccountRows /\ visit \in [Visits -> VisitRows] /\ hour \in 0..MaxHour
      /\ bansLeft \in 0..MaxBans /\ authUser \in BOOLEAN /\ VisitsBehind
      /\ MaxHour \in Nat /\ MaxBans \in Nat
  BY AccountsAssumption DEF AccountsInv, AccountsTypeOK, AccountRows, VisitRows
<1>a. Reinstated \in AccountRows
  BY <1>0 DEF Reinstated, AccountRows
<1>b. NoVisit \in VisitRows /\ NoVisit.now <= hour
  BY <1>0 DEF NoVisit, VisitRows
<1>1. ASSUME NEW until \in {ForGood} \cup (hour + 1)..MaxHour, banAccount(until)
      PROVE  AccountsInv'
  <2>1. account' \in AccountRows
    <3>1. until \in {ForGood} \cup 0..MaxHour
      BY <1>0
    <3>. QED
      BY <1>0, <1>1, <3>1 DEF banAccount, AccountRows
  <2>2. bansLeft' \in 0..MaxBans /\ UNCHANGED <<authUser, visit, hour>>
    BY <1>0, <1>1 DEF banAccount
  <2>. QED
    BY <1>0, <2>1, <2>2 DEF AccountsInv, AccountsTypeOK, AccountRows, VisitRows, VisitsBehind
<1>2. CASE revokeBan \/ liftExpiredBans
  <2>1. account' \in AccountRows /\ UNCHANGED <<authUser, visit, hour, bansLeft>>
    BY <1>0, <1>a, <1>2 DEF revokeBan, liftExpiredBans, LiftExpired
  <2>. QED
    BY <1>0, <2>1 DEF AccountsInv, AccountsTypeOK, AccountRows, VisitRows, VisitsBehind
<1>3. CASE HourPasses
  <2>1. hour' \in 0..MaxHour /\ hour <= hour' /\ UNCHANGED <<account, authUser, visit, bansLeft>>
    BY <1>0, <1>3 DEF HourPasses
  <2>2. VisitsBehind'
    BY <1>0, <2>1 DEF VisitsBehind, VisitRows
  <2>. QED
    BY <1>0, <2>1, <2>2 DEF AccountsInv, AccountsTypeOK, AccountRows, VisitRows
<1>4. ASSUME NEW v \in Visits,
             \/ stillBanned(v) \/ LiftOnVisit(v) \/ deleteAccount(v) \/ closeAccount(v)
             \/ anonymiseProfile(v) \/ deleteAuthUser(v) \/ visitDies(v)
      PROVE  AccountsInv'
  <2>1. visit[v] \in VisitRows /\ visit[v].now <= hour
    BY <1>0 DEF VisitsBehind
  <2>2. PICK next \in VisitRows : next.now <= hour /\ visit' = [visit EXCEPT ![v] = next]
    <3>1. CASE stillBanned(v) \/ deleteAccount(v)
      <4>1. hour <= hour
        BY <1>0
      <4>. QED
        BY <1>0, <3>1, <4>1 DEF stillBanned, deleteAccount, VisitRows
    <3>2. CASE deleteAuthUser(v) \/ visitDies(v)
      BY <1>b, <3>2 DEF deleteAuthUser, visitDies
    <3>5. CASE LiftOnVisit(v)
      <4> DEFINE next == [visit[v] EXCEPT !.step = "in"]
      <4>1. next \in VisitRows /\ next.now = visit[v].now
        BY <2>1 DEF VisitRows
      <4>2. visit' = [visit EXCEPT ![v] = next]
        BY <3>5 DEF LiftOnVisit
      <4> HIDE DEF next
      <4>. QED
        BY <2>1, <4>1, <4>2
    <3>3. CASE closeAccount(v)
      <4> DEFINE next == [visit[v] EXCEPT !.step = "empty"]
      <4>1. next \in VisitRows /\ next.now = visit[v].now
        BY <2>1 DEF VisitRows
      <4>2. visit' = [visit EXCEPT ![v] = next]
        BY <3>3 DEF closeAccount
      <4> HIDE DEF next
      <4>. QED
        BY <2>1, <4>1, <4>2
    <3>4. CASE anonymiseProfile(v)
      <4> DEFINE next == [visit[v] EXCEPT !.step = "authUser"]
      <4>1. next \in VisitRows /\ next.now = visit[v].now
        BY <2>1 DEF VisitRows
      <4>2. visit' = [visit EXCEPT ![v] = next]
        BY <3>4 DEF anonymiseProfile
      <4> HIDE DEF next
      <4>. QED
        BY <2>1, <4>1, <4>2
    <3>. QED
      BY <1>4, <3>1, <3>2, <3>3, <3>4, <3>5
  <2>3. /\ account' \in AccountRows /\ authUser' \in BOOLEAN
        /\ hour' = hour /\ bansLeft' = bansLeft
    BY <1>0, <1>a, <1>4 DEF stillBanned, LiftOnVisit, LiftExpired, deleteAccount, closeAccount,
        anonymiseProfile, deleteAuthUser, visitDies, AccountRows
  <2>4. visit' \in [Visits -> VisitRows] /\ VisitsBehind'
    BY <2>2, <2>3, VisitMoved
  <2>. QED
    BY <1>0, <2>3, <2>4 DEF AccountsInv, AccountsTypeOK, AccountRows, VisitRows
<1>5. CASE UNCHANGED accountVars
  BY <1>5 DEF accountVars, AccountsInv, AccountsTypeOK, VisitsBehind
<1>. QED
  BY <1>1, <1>2, <1>3, <1>4, <1>5 DEF AccountsNext

LEMMA AccountsAlways == AccountsSpec => []AccountsInv
BY AccountsInitHolds, AccountsNextHolds, PTL DEF AccountsSpec

\* What brings a suspended account back: an admin, for a ban, or the end of the ban it has now.
LEMMA BroughtBack ==
    ASSUME AccountsInv, [AccountsNext]_accountVars, Suspended, ~Suspended'
    PROVE  account.banned /\ (revokeBan \/ (Temporary /\ account.until <= hour))
<1>0. /\ account \in AccountRows /\ hour \in Int /\ VisitsBehind
      /\ \A v \in Visits : visit[v].now \in Int
  BY AccountsAssumption DEF AccountsInv, AccountsTypeOK, AccountRows
<1>1. account'.status # account.status
  BY DEF Suspended
<1>2. CASE revokeBan
  BY <1>2 DEF revokeBan
<1>3. CASE liftExpiredBans
  BY <1>3 DEF liftExpiredBans, BanOver, Temporary
<1>4. ASSUME NEW v \in Visits, LiftOnVisit(v) PROVE Temporary /\ account.until <= hour
  <2>1. BanOver(visit[v].now)
    BY <1>1, <1>4 DEF LiftOnVisit, LiftExpired
  <2>2. visit[v].now <= hour
    BY <1>0 DEF VisitsBehind
  <2>3. account.until \in Int
    BY <1>0, AccountsAssumption DEF AccountRows, ForGood
  <2>. QED
    BY <1>0, <2>1, <2>2, <2>3 DEF BanOver
<1>5. ASSUME NEW v \in Visits, anonymiseProfile(v) PROVE FALSE
  BY <1>0, <1>1, <1>5 DEF anonymiseProfile, Suspended, AccountRows
<1>6. ASSUME NEW until, banAccount(until) PROVE FALSE
  BY <1>6 DEF banAccount
<1>. QED
  BY <1>1, <1>2, <1>3, <1>4, <1>5, <1>6 DEF AccountsNext, accountVars, Temporary, stillBanned,
      deleteAccount, closeAccount, deleteAuthUser, visitDies, HourPasses

\* Every reachable state of an account, its Auth user and the person's requests is well typed.
THEOREM AccountsAreTyped == AccountsSpec => []AccountsTypeOK
<1>1. AccountsInv => AccountsTypeOK
  BY DEF AccountsInv
<1>. QED
  BY <1>1, AccountsAlways, PTL

\* Whatever bans are put on and taken off, and however long a visit that read an older one waits:
\* unless an admin revokes it, an account is let in again only when the ban on it now is over
\* (the condition of the update in bans.ts).
THEOREM BansAreServed == AccountsSpec => BanIsServed
<1>1. AccountsInv /\ [AccountsNext]_accountVars =>
          [Suspended /\ ~Suspended' => revokeBan \/ (Temporary /\ account.until <= hour)]_accountVars
  BY BroughtBack
<1>. QED
  BY <1>1, AccountsAlways, PTL DEF AccountsSpec, BanIsServed

\* An account that is suspended with no ban on it, which is a closed one, is never brought back.
THEOREM ClosedAccountsStayBarred == AccountsSpec => ClosedStaysBarred
<1>1. AccountsInv /\ [AccountsNext]_accountVars =>
          [Suspended /\ ~account.banned => Suspended']_accountVars
  BY BroughtBack
<1>. QED
  BY <1>1, AccountsAlways, PTL DEF AccountsSpec, ClosedStaysBarred

-----------------------------------------------------------------------------
(* Mails. *)

Working(r) == run[r] \in {"looked", "sent"}

\* Nothing is behind or ahead of the clock: a key that a run at work did not find when it looked, and
\* that is there, was kept in this very tick; no kept key is older than the last sending.
KeptNow == noted # NotYet => noted >= tookAt /\ \A r \in Runs : Working(r) => noted = timer

\* A run that has just sent the mail: the provider still remembers it.
SentNow == \A r \in Runs : run[r] = "sent" => tookAt # NotYet /\ timer - tookAt < ProviderWindow

\* The key's whole retention has gone by since the mail was taken.
Outlived == timer - tookAt > Retention

\* While no run was lost in between: what the provider took has its key kept, or about to be kept by
\* the run that sent it, or has outlived it.
TakenIsKept ==
    ~uncertain /\ tookAt # NotYet =>
        noted # NotYet \/ Outlived \/ \E r \in Runs : run[r] = "sent"

\* ...and a run at work that did not find the key is one the provider still stops, or has outlived it.
TakenNow ==
    ~uncertain /\ tookAt # NotYet =>
        \A r \in Runs : Working(r) => timer - tookAt < ProviderWindow \/ Outlived

\* What was delivered is what the provider took.
TookWhatItDelivered == (delivered > 0 => tookAt # NotYet) /\ tookAt <= timer

MailInv ==
    MailTypeOK /\ KeptNow /\ SentNow /\ TakenIsKept /\ TakenNow /\ TookWhatItDelivered

LEMMA MailTyped ==
    ASSUME MailTypeOK
    PROVE  /\ tookAt \in Int /\ noted \in Int /\ timer \in Nat /\ delivered \in Nat
           /\ (tookAt # NotYet => tookAt \in Nat) /\ (noted # NotYet => noted \in Nat)
           /\ ProviderWindow \in Nat \ {0} /\ MaxTimer \in Nat /\ Retention \in Nat
  BY MailOnceAssumption DEF MailTypeOK, NotYet

LEMMA LookHolds ==
    ASSUME MailInv, NEW r \in Runs, lookForKey(r)
    PROVE  MailInv'
<1> USE DEF MailInv
<1>0. UNCHANGED <<tookAt, noted, delivered, uncertain, timer>>
  BY DEF lookForKey
<1>1. /\ run[r] = "new" /\ run' \in [Runs -> {"new", "looked", "sent", "done"}]
      /\ run'[r] = (IF noted = NotYet THEN "looked" ELSE "done")
      /\ \A q \in Runs \ {r} : run'[q] = run[q]
  BY DEF lookForKey, NotSent, MailTypeOK
<1>2. MailTypeOK' /\ TookWhatItDelivered'
  BY <1>0, <1>1 DEF MailTypeOK, TookWhatItDelivered
<1>3. KeptNow' /\ SentNow'
  BY <1>0, <1>1 DEF KeptNow, SentNow, Working
<1>4. TakenIsKept'
  BY <1>0, <1>1 DEF TakenIsKept, Outlived
<1>5. TakenNow'
  <2> SUFFICES ASSUME ~uncertain, tookAt # NotYet, NEW q \in Runs, Working(q)'
               PROVE  timer - tookAt < ProviderWindow \/ Outlived
    BY <1>0 DEF TakenNow, Outlived
  <2>1. CASE Working(q)
    BY <2>1 DEF TakenNow
  <2>2. CASE ~Working(q)
    <3>1. noted = NotYet
      BY <1>1, <2>2 DEF Working
    <3>2. Outlived \/ \E s \in Runs : run[s] = "sent"
      BY <3>1 DEF TakenIsKept
    <3>. QED
      BY <3>2 DEF SentNow
  <2>. QED
    BY <2>1, <2>2
<1>. QED
  BY <1>2, <1>3, <1>4, <1>5

LEMMA SendHolds ==
    ASSUME MailInv, NEW r \in Runs, sendMail(r)
    PROVE  MailInv'
<1> USE DEF MailInv
<1> DEFINE repeated == tookAt # NotYet /\ timer - tookAt < ProviderWindow
<1>0. UNCHANGED <<noted, uncertain, timer>>
  BY DEF sendMail
<1>1. /\ run[r] = "looked" /\ run' \in [Runs -> {"new", "looked", "sent", "done"}]
      /\ run'[r] = "sent" /\ \A q \in Runs \ {r} : run'[q] = run[q]
  BY DEF sendMail, MailTypeOK
<1>2. TakenIsKept'
  BY <1>1 DEF TakenIsKept
<1>3. tookAt' # NotYet /\ timer' - tookAt' < ProviderWindow /\ tookAt' <= timer'
  <2>1. CASE repeated
    BY <1>0, <2>1 DEF sendMail, TookWhatItDelivered
  <2>2. CASE ~repeated
    <3>1. tookAt' = timer
      BY <2>2 DEF sendMail
    <3>. QED
      BY <1>0, <3>1, MailTyped DEF NotYet
  <2>. QED
    BY <2>1, <2>2
<1>4. MailTypeOK'
  <2>1. tookAt' \in {tookAt, timer} /\ delivered' \in {delivered, delivered + 1}
    BY DEF sendMail
  <2>. QED
    BY <1>0, <1>1, <2>1, MailTyped DEF MailTypeOK
<1>5. TakenNow' /\ SentNow' /\ TookWhatItDelivered'
  BY <1>3 DEF TakenNow, SentNow, TookWhatItDelivered
<1>6. KeptNow'
  <2> SUFFICES ASSUME noted # NotYet
               PROVE  noted >= tookAt' /\ \A q \in Runs : Working(q)' => noted = timer
    BY <1>0 DEF KeptNow
  <2>1. noted = timer
    BY <1>1 DEF KeptNow, Working
  <2>. QED
    BY <1>0, <1>3, <2>1, <1>4, MailTyped
<1>. QED
  BY <1>2, <1>4, <1>5, <1>6

LEMMA KeyHolds ==
    ASSUME MailInv, NEW r \in Runs, keepKey(r)
    PROVE  MailInv'
<1> USE DEF MailInv
<1>0. UNCHANGED <<tookAt, delivered, timer>> /\ uncertain' = FALSE
  BY DEF keepKey
<1>1. /\ run[r] = "sent" /\ run' \in [Runs -> {"new", "looked", "sent", "done"}]
      /\ run'[r] = "done" /\ \A q \in Runs \ {r} : run'[q] = run[q]
  BY DEF keepKey, MailTypeOK
<1>2. tookAt # NotYet /\ timer - tookAt < ProviderWindow
  BY <1>1 DEF SentNow
<1>3. noted' = timer
  <2>1. CASE noted = NotYet
    BY <2>1 DEF keepKey
  <2>2. CASE noted # NotYet
    BY <1>1, <2>2 DEF keepKey, KeptNow, Working
  <2>. QED
    BY <2>1, <2>2
<1>4. MailTypeOK' /\ TookWhatItDelivered'
  BY <1>0, <1>1, <1>3 DEF MailTypeOK, TookWhatItDelivered
<1>5. KeptNow' /\ TakenIsKept'
  BY <1>0, <1>3, MailTyped DEF KeptNow, TakenIsKept, TookWhatItDelivered, NotYet
<1>6. TakenNow' /\ SentNow'
  BY <1>0, <1>1, <1>2 DEF TakenNow, SentNow, Working
<1>. QED
  BY <1>4, <1>5, <1>6

LEMMA DeathHolds ==
    ASSUME MailInv, NEW r \in Runs, runDies(r)
    PROVE  MailInv'
<1> USE DEF MailInv
<1>0. UNCHANGED <<tookAt, noted, delivered, timer>> /\ uncertain' \in BOOLEAN
  BY DEF runDies
<1>1. /\ run' \in [Runs -> {"new", "looked", "sent", "done"}] /\ run'[r] = "done"
      /\ \A q \in Runs \ {r} : run'[q] = run[q]
  BY DEF runDies, MailTypeOK
<1>2. ~uncertain' => ~uncertain /\ (run[r] = "sent" => noted # NotYet)
  <2>1. uncertain' = (uncertain \/ (run[r] = "sent" /\ noted = NotYet))
    BY DEF runDies
  <2>. QED
    BY <2>1, Zenon
<1>3. MailTypeOK' /\ TookWhatItDelivered'
  BY <1>0, <1>1 DEF MailTypeOK, TookWhatItDelivered
<1>4. KeptNow' /\ SentNow'
  BY <1>0, <1>1 DEF KeptNow, SentNow, Working
<1>5. TakenNow'
  <2> SUFFICES ASSUME ~uncertain', tookAt # NotYet, NEW q \in Runs, Working(q)'
               PROVE  timer - tookAt < ProviderWindow \/ Outlived
    BY <1>0 DEF TakenNow, Outlived
  <2>. QED
    BY <1>1, <1>2 DEF TakenNow, Working
<1>6. TakenIsKept'
  <2> SUFFICES ASSUME ~uncertain', tookAt # NotYet, noted = NotYet, ~Outlived
               PROVE  \E q \in Runs : run'[q] = "sent"
    BY <1>0 DEF TakenIsKept, Outlived
  <2>1. PICK q \in Runs : run[q] = "sent"
    BY <1>2 DEF TakenIsKept
  <2>. QED
    BY <1>1, <1>2, <2>1
<1>. QED
  BY <1>3, <1>4, <1>5, <1>6

LEMMA MailTimeHolds ==
    ASSUME MailInv, pruneMailDeliveries \/ TimerTicks
    PROVE  MailInv'
<1> USE DEF MailInv
<1>0. UNCHANGED <<run, tookAt, delivered, uncertain>>
  BY DEF pruneMailDeliveries, TimerTicks
<1>1. CASE pruneMailDeliveries
  <2>1. Outlived /\ noted' = NotYet /\ timer' = timer
    BY <1>1, MailTyped DEF pruneMailDeliveries, KeptNow, Outlived
  <2>2. MailTypeOK' /\ TookWhatItDelivered' /\ KeptNow' /\ SentNow'
    BY <1>0, <2>1 DEF MailTypeOK, TookWhatItDelivered, KeptNow, SentNow
  <2>3. TakenIsKept' /\ TakenNow'
    BY <1>0, <2>1 DEF TakenIsKept, TakenNow, Outlived
  <2>. QED
    BY <2>2, <2>3
<1>2. CASE TimerTicks
  <2>1. /\ timer' \in 0..MaxTimer /\ timer <= timer' /\ noted' = noted
        /\ \A r \in Runs : ~Working(r)
    BY <1>2, MailTyped DEF TimerTicks, Working
  <2>2. TakenNow' /\ KeptNow' /\ SentNow'
    BY <1>0, <2>1 DEF TakenNow, KeptNow, SentNow, Working
  <2>3. TakenIsKept' /\ TookWhatItDelivered'
    BY <1>0, <2>1, MailTyped DEF TakenIsKept, TookWhatItDelivered, Working, Outlived
  <2>. QED
    BY <1>0, <2>1, <2>2, <2>3 DEF MailTypeOK
<1>. QED
  BY <1>1, <1>2

LEMMA MailInitHolds == MailInit => MailInv
<1> SUFFICES ASSUME MailInit PROVE MailInv
  OBVIOUS
<1>1. MailTypeOK
  <2>1. 0 \in 0..MaxTimer /\ 0 \in Nat
    BY MailOnceAssumption
  <2>2. run \in [Runs -> {"new", "looked", "sent", "done"}] /\ uncertain \in BOOLEAN
    BY DEF MailInit
  <2>. QED
    BY <2>1, <2>2 DEF MailInit, MailTypeOK
<1>2. /\ tookAt = NotYet /\ tookAt <= timer /\ noted = NotYet /\ delivered = 0
      /\ \A r \in Runs : run[r] = "new"
  BY DEF MailInit, NotYet
<1>. QED
  BY <1>1, <1>2 DEF MailInv, KeptNow, SentNow, TakenIsKept, TakenNow, TookWhatItDelivered, Working

LEMMA MailNextHolds == MailInv /\ [MailNext]_mailVars => MailInv'
<1> SUFFICES ASSUME MailInv, [MailNext]_mailVars PROVE MailInv'
  OBVIOUS
<1>1. CASE UNCHANGED mailVars
  BY <1>1 DEF mailVars, MailInv, MailTypeOK, KeptNow, SentNow, TakenIsKept, TakenNow, Outlived,
      TookWhatItDelivered, Working
<1>. QED
  BY <1>1, LookHolds, SendHolds, KeyHolds, DeathHolds, MailTimeHolds DEF MailNext

\* Every reachable state of a mail, its keys and its runs is well typed.
THEOREM MailsAreTyped == MailSpec => []MailTypeOK
<1>1. MailInv => MailTypeOK
  BY DEF MailInv
<1>. QED
  BY <1>1, MailInitHolds, MailNextHolds, PTL DEF MailSpec

\* For any number of runs at once, as late as they come, any retention and a provider that remembers
\* at all: a mail goes out again only when the run that sent it was lost before its key was kept, or
\* after the key's whole retention (sendOnce and pruneMailDeliveries).
THEOREM MailsComeAgainLate == MailSpec => MailedAgainLate
<1>1. ASSUME MailInv, [MailNext]_mailVars, delivered > 0, delivered' > delivered
      PROVE  uncertain \/ timer - tookAt > Retention
  <2> USE DEF MailInv
  <2>1. PICK r \in Runs : sendMail(r)
    <3>1. delivered' # delivered
      BY <1>1, MailTyped
    <3>. QED
      BY <1>1, <3>1 DEF MailNext, mailVars, lookForKey, keepKey, runDies, pruneMailDeliveries,
          TimerTicks
  <2>2. run[r] = "looked" /\ tookAt # NotYet
    BY <1>1, <2>1 DEF sendMail, TookWhatItDelivered
  <2>3. ~(timer - tookAt < ProviderWindow)
    <3>1. delivered' # delivered
      BY <1>1, MailTyped
    <3>. QED
      BY <2>1, <2>2, <3>1 DEF sendMail
  <2>. QED
    BY <1>1, <2>2, <2>3 DEF TakenNow, Working, Outlived
<1>2. MailInv /\ [MailNext]_mailVars =>
          [delivered > 0 /\ delivered' > delivered
               => uncertain \/ timer - tookAt > Retention]_mailVars
  BY <1>1
<1>. QED
  BY <1>2, MailInitHolds, MailNextHolds, PTL DEF MailSpec, MailedAgainLate

-----------------------------------------------------------------------------
(* The run: what it does to each part is what the part's module allows. *)

LEMMA RunsPlaces == Spec => PlacesSpec
<1>1. Init => PlacesInit
  BY DEF Init
<1>2. [Next]_<<focus, placeVars, scoreVars, accountVars, mailVars, limitVars, importVars, seats>>
        => [PlacesNext]_placeVars
  BY DEF Next
<1>. QED
  BY <1>1, <1>2, PTL DEF Spec, PlacesSpec

LEMMA RunsScores == Spec => ScoresSpec
<1>1. Init => ScoresInit
  BY DEF Init
<1>2. [Next]_<<focus, placeVars, scoreVars, accountVars, mailVars, limitVars, importVars, seats>>
        => [ScoresNext]_scoreVars
  BY DEF Next
<1>. QED
  BY <1>1, <1>2, PTL DEF Spec, ScoresSpec

LEMMA RunsAccounts == Spec => AccountsSpec
<1>1. Init => AccountsInit
  BY DEF Init
<1>2. [Next]_<<focus, placeVars, scoreVars, accountVars, mailVars, limitVars, importVars, seats>>
        => [AccountsNext]_accountVars
  BY DEF Next
<1>. QED
  BY <1>1, <1>2, PTL DEF Spec, AccountsSpec

LEMMA RunsMail == Spec => MailSpec
<1>1. Init => MailInit
  BY DEF Init
<1>2. [Next]_<<focus, placeVars, scoreVars, accountVars, mailVars, limitVars, importVars, seats>>
        => [MailNext]_mailVars
  BY DEF Next
<1>. QED
  BY <1>1, <1>2, PTL DEF Spec, MailSpec

LEMMA RunsLimits == Spec => LimitsSpec
<1>1. Init => LimitsInit
  BY DEF Init
<1>2. [Next]_<<focus, placeVars, scoreVars, accountVars, mailVars, limitVars, importVars, seats>>
        => [LimitsNext]_limitVars
  BY DEF Next
<1>. QED
  BY <1>1, <1>2, PTL DEF Spec, LimitsSpec

LEMMA RunsImports == Spec => ImportsSpec
<1>1. Init => ImportsInit
  BY DEF Init
<1>2. [Next]_<<focus, placeVars, scoreVars, accountVars, mailVars, limitVars, importVars, seats>>
        => [ImportsNext]_importVars
  BY DEF Next
<1>. QED
  BY <1>1, <1>2, PTL DEF Spec, ImportsSpec

\* The parts keep their types together.
THEOREM ServicesAreTyped == Spec => []ServicesTypeOK
BY RunsPlaces, RunsScores, RunsAccounts, RunsMail, RunsLimits, RunsImports,
   PlacesAreTyped, ScoresAreTyped, AccountsAreTyped, MailsAreTyped, LimitsAreTyped, ImportsAreTyped,
   PTL DEF ServicesTypeOK
=============================================================================
