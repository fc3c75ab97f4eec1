--------------------------------- MODULE Places ---------------------------------
(***************************************************************************)
(* One place: who claims it, who reports it, and what the admins decide      *)
(* (places/claims.ts, places/service.ts, places/admin.ts; the decisions on   *)
(* its reports in moderation/admin.ts).                                      *)
(*                                                                         *)
(* A member's request and the admin actions that only take the place's row   *)
(* are one step each, taken while nobody else holds that row.  A decision on *)
(* a claim locks the claim, then the place, then the claims it rejects: one   *)
(* step per lock.  A decision on a report reads it without a lock and writes *)
(* it by its id: one step for each.                                          *)
(***************************************************************************)
EXTENDS Integers, FiniteSets

CONSTANTS
    Members,    \* profiles that claim and report
    Admins,     \* admins, one request each
    Submitter,  \* who sent the place in
    Nobody,
    ReportsToHide,  \* PLACE_REPORTS_TO_HIDE
    MaxRequests \* bound of the requests

ASSUME PlacesAssumption ==
    /\ IsFiniteSet(Members) /\ Submitter \in Members /\ Nobody \notin Members
    /\ ReportsToHide \in Nat \ {0} /\ MaxRequests \in Nat

VARIABLES
    place,    \* the places row
    claims,   \* Members -> the last claim of each
    reports,  \* Members -> the last report of each
    desk,     \* Admins -> the transaction each runs
    requests  \* what is left of MaxRequests

placeVars == <<place, claims, reports, desk, requests>>

Waiting == {"open", "reviewing"}
Closed == {"resolved", "dismissed"}
NoTask == [task |-> "none", step |-> "none", on |-> Nobody]
Tasks == {"approveClaim", "rejectClaim", "startReview", "resolve", "dismiss"}

PlacesTypeOK ==
    /\ place \in [approved: BOOLEAN, hidden: BOOLEAN, removed: BOOLEAN, owner: Members \cup {Nobody}]
    /\ claims \in [Members -> {"none", "pending", "approved", "rejected"}]
    /\ reports \in [Members -> {"none"} \cup Waiting \cup Closed]
    /\ desk \in [Admins -> [task: Tasks \cup {"none"}, step: {"none", "claim", "place", "read"},
                            on: Members \cup {Nobody}]]
    /\ requests \in 0..MaxRequests

-----------------------------------------------------------------------------
(* Rows and locks. *)

OnTheList == place.approved /\ ~place.hidden /\ ~place.removed
PlaceFree == \A a \in Admins : desk[a].step # "place"
ClaimHeld(a, m) == desk[a].on = m /\ desk[a].step \in {"claim", "place"}
ClaimFree(a, m) == \A b \in Admins \ {a} : ~ClaimHeld(b, m)

Request == requests > 0 /\ requests' = requests - 1
Reporters == {m \in Members : reports[m] \in Waiting}

-----------------------------------------------------------------------------
(* Members. *)

\* One waiting claim per member and place (place_claims_one_pending).
fileClaim(m) ==
    /\ PlaceFree /\ OnTheList /\ place.owner = Nobody /\ claims[m] # "pending" /\ Request
    /\ claims' = [claims EXCEPT ![m] = "pending"]
    /\ UNCHANGED <<place, reports, desk>>

\* One waiting report per member (reports_open_unique); the last one that is due hides the place.
filePlaceReport(m) ==
    /\ PlaceFree /\ OnTheList /\ m \notin {Submitter, place.owner} /\ m \notin Reporters /\ Request
    /\ reports' = [reports EXCEPT ![m] = "open"]
    /\ place' = [place EXCEPT !.hidden = Cardinality(Reporters \cup {m}) >= ReportsToHide]
    /\ UNCHANGED <<claims, desk>>

\* The edit of someone the place does not vouch for sends it back to review.
updatePlace(m) ==
    /\ PlaceFree /\ ~place.removed /\ m \in {Submitter, place.owner} /\ Request
    /\ place' = [place EXCEPT !.approved = @ /\ m = place.owner]
    /\ UNCHANGED <<claims, reports, desk>>

withdrawPlace(m) ==
    /\ PlaceFree /\ ~place.removed /\ m \in {Submitter, place.owner} /\ Request
    /\ place' = [place EXCEPT !.removed = TRUE]
    /\ UNCHANGED <<claims, reports, desk>>

\* The owner hands the place back, or an admin takes them off.
removePlaceOwner ==
    /\ PlaceFree /\ ~place.removed /\ place.owner # Nobody /\ Request
    /\ place' = [place EXCEPT !.owner = Nobody]
    /\ UNCHANGED <<claims, reports, desk>>

-----------------------------------------------------------------------------
(* Admins on the place. *)

approvePlace ==
    /\ PlaceFree /\ ~place.removed /\ ~place.approved /\ Request
    /\ place' = [place EXCEPT !.approved = TRUE]
    /\ UNCHANGED <<claims, reports, desk>>

Outcome(outcome) == [m \in Members |-> IF m \in Reporters THEN outcome ELSE reports[m]]

removePlace ==
    /\ PlaceFree /\ ~place.removed /\ Request
    /\ place' = [place EXCEPT !.removed = TRUE]
    /\ reports' = Outcome("resolved")
    /\ UNCHANGED <<claims, desk>>

\* Mistake: a report that an admin has under review stays.
restoreListed ==
    /\ PlaceFree /\ ~place.removed /\ place.hidden /\ Request
    /\ place' = [place EXCEPT !.hidden = FALSE]
    /\ reports' = [m \in Members |-> IF reports[m] = "open" THEN "dismissed" ELSE reports[m]]
    /\ UNCHANGED <<claims, desk>>

restorePlace ==
    /\ PlaceFree /\ ~place.removed /\ place.hidden /\ Request
    /\ place' = [place EXCEPT !.hidden = FALSE]
    /\ reports' = Outcome("dismissed")
    /\ UNCHANGED <<claims, desk>>

-----------------------------------------------------------------------------
(* Admins on a claim. *)

Take(a, task, step, m) == desk' = [desk EXCEPT ![a] = [task |-> task, step |-> step, on |-> m]]
Done(a) == desk' = [desk EXCEPT ![a] = NoTask]

\* waitingClaim: the claim's row, still pending once it is locked.
lockClaim(a, task, m) ==
    /\ desk[a] = NoTask /\ task \in {"approveClaim", "rejectClaim"}
    /\ ClaimFree(a, m) /\ claims[m] = "pending" /\ Request
    /\ Take(a, task, "claim", m)
    /\ UNCHANGED <<place, claims, reports>>

\* Mistake: an approval that finds the place owned or gone goes on asking instead of being refused.
lockPlaceAgain(a) ==
    /\ desk[a].step = "claim" /\ PlaceFree
    /\ desk[a].task = "approveClaim" => ~place.removed /\ place.owner = Nobody
    /\ Take(a, desk[a].task, "place", desk[a].on)
    /\ UNCHANGED <<place, claims, reports, requests>>

\* Then the place's: a place that is gone or owned refuses the approval.
lockPlace(a) ==
    /\ desk[a].step = "claim" /\ PlaceFree
    /\ IF desk[a].task = "approveClaim" /\ (place.removed \/ place.owner # Nobody)
       THEN Done(a) ELSE Take(a, desk[a].task, "place", desk[a].on)
    /\ UNCHANGED <<place, claims, reports, requests>>

\* Mistake: the other claims are left to wait.
approveOnly(a) ==
    /\ desk[a].task = "approveClaim" /\ desk[a].step = "place"
    /\ place' = [place EXCEPT !.owner = desk[a].on]
    /\ claims' = [claims EXCEPT ![desk[a].on] = "approved"]
    /\ Done(a)
    /\ UNCHANGED <<reports, requests>>

\* Then those of the other claims that wait: each is rejected.
approveClaim(a) ==
    LET m == desk[a].on IN
    /\ desk[a].task = "approveClaim" /\ desk[a].step = "place"
    /\ \A q \in Members : claims[q] = "pending" => ClaimFree(a, q)
    /\ place' = [place EXCEPT !.owner = m]
    /\ claims' = [q \in Members |-> IF q = m THEN "approved"
                                    ELSE IF claims[q] = "pending" THEN "rejected" ELSE claims[q]]
    /\ Done(a)
    /\ UNCHANGED <<reports, requests>>

rejectClaim(a) ==
    /\ desk[a].task = "rejectClaim" /\ desk[a].step = "place"
    /\ claims' = [claims EXCEPT ![desk[a].on] = "rejected"]
    /\ Done(a)
    /\ UNCHANGED <<place, reports, requests>>

\* Two admins that wait for each other: the database ends one of them, and nothing it wrote stays.
WaitsFor(a, b) ==
    \/ desk[a].step = "claim" /\ desk[b].step = "place"
    \/ /\ desk[a].task = "approveClaim" /\ desk[a].step = "place"
       /\ claims[desk[b].on] = "pending" /\ ClaimHeld(b, desk[b].on)

abort(a) ==
    /\ \E b \in Admins \ {a} :
          /\ desk[a].on # Nobody /\ desk[b].on # Nobody
          /\ WaitsFor(a, b) /\ WaitsFor(b, a)
    /\ Done(a)
    /\ UNCHANGED <<place, claims, reports, requests>>

-----------------------------------------------------------------------------
(* Admins on a report. *)

\* reportForDecision: read, with no lock, and refused when it is closed already.
readReport(a, task, m) ==
    /\ desk[a] = NoTask /\ task \in {"startReview", "resolve", "dismiss"} /\ Request
    /\ reports[m] \in (IF task = "startReview" THEN {"open"} ELSE Waiting)
    /\ Take(a, task, "read", m)
    /\ UNCHANGED <<place, claims, reports>>

\* startReview and settle write by the report's id, whatever it says by now.
writeReport(a) ==
    LET outcome == CASE desk[a].task = "startReview" -> "reviewing"
                     [] desk[a].task = "resolve" -> "resolved"
                     [] OTHER -> "dismissed" IN
    /\ desk[a].step = "read"
    /\ reports' = [reports EXCEPT ![desk[a].on] = outcome]
    /\ Done(a)
    /\ UNCHANGED <<place, claims, requests>>

-----------------------------------------------------------------------------
PlacesInit ==
    /\ place \in [approved: BOOLEAN, hidden: {FALSE}, removed: {FALSE}, owner: {Nobody}]
    /\ claims = [m \in Members |-> "none"] /\ reports = [m \in Members |-> "none"]
    /\ desk = [a \in Admins |-> NoTask] /\ requests = MaxRequests

Finish(a) == lockPlace(a) \/ approveClaim(a) \/ rejectClaim(a) \/ abort(a) \/ writeReport(a)

MemberStep ==
    \/ removePlaceOwner
    \/ \E m \in Members : fileClaim(m) \/ filePlaceReport(m) \/ updatePlace(m) \/ withdrawPlace(m)

AdminStep ==
    \/ approvePlace \/ removePlace \/ restorePlace
    \/ \E a \in Admins :
        \/ Finish(a)
        \/ \E m \in Members, task \in Tasks : lockClaim(a, task, m) \/ readReport(a, task, m)

PlacesNext == MemberStep \/ AdminStep

PlacesSpec == PlacesInit /\ [][PlacesNext]_placeVars

\* A request that holds or waits for a lock goes on as soon as it may.
PlacesFairness == \A a \in Admins : WF_placeVars(Finish(a))

-----------------------------------------------------------------------------
(* Properties. *)

\* A place with an owner has no claim left waiting, and its owner is the member whose claim was
\* approved, whatever other admins decide meanwhile (schema.ts: the other claims are rejected).
OwnerEndsClaims ==
    place.owner # Nobody =>
        claims[place.owner] = "approved" /\ \A m \in Members : claims[m] # "pending"

\* A place that reports hid is listed again only by the admin who restores it, and then every report
\* on it is closed: an edit, an approval or a new owner leaves it hidden.
HiddenUntilRestored ==
    [][place.hidden /\ ~place'.hidden => \A m \in Members : reports'[m] \notin Waiting]_placeVars

\* Every decision of an admin ends, whatever the other admins and the members did to the place while it
\* waited for the place's lock, and although two approvals of one place wait for each other.
DecisionsEnd == \A a \in Admins : desk[a] # NoTask ~> desk[a] = NoTask

=============================================================================
