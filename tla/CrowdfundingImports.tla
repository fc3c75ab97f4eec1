-------------------------- MODULE CrowdfundingImports --------------------------
(***************************************************************************)
(* The daily import of one source's campaigns (crowdfunding/import/runner.ts *)
(* and store.ts), next to the members who add campaigns and the admins who   *)
(* take them down.  A run is claimed for a day with a lease, goes through    *)
(* the source's list item by item, keeps its place in the run's row and may  *)
(* stop, fail, crash or outlive its lease anywhere; the next run goes on     *)
(* from there.  The pages of the list are one list of items here, the        *)
(* cursor is the number of items behind it, and a null cursor is 0: both     *)
(* start at the first.                                                       *)
(***************************************************************************)
EXTENDS Integers, FiniteSets

CONSTANTS
    Workers,  \* invocations of the cron, one run each; also the tokens of their claims
    NoWorker,
    Length,   \* items on the source's list
    Urls,     \* addresses of campaigns
    UrlOf,    \* 1..Length -> the address of an item; two may have the same
    LastDay   \* bound of the calendar

ASSUME ImportsAssumption ==
    /\ NoWorker \notin Workers
    /\ Length \in Nat /\ LastDay \in Nat
    /\ UrlOf \in [1..Length -> Urls]

VARIABLES
    runs,      \* 0..LastDay -> the crowdfunding_import_runs row of the day
    worker,    \* Workers -> the invocation
    mapped,    \* 1..Length -> which campaign crowdfunding_imports says an item is
    listed,    \* Urls -> who added the campaign that is up
    takenDown, \* addresses of the campaigns admins removed
    passedBy,  \* items whose page was gone or no campaign
    today

importVars == <<runs, worker, mapped, listed, takenDown, passedBy, today>>
campaigns == <<mapped, listed, takenDown, passedBy>>

Days == 0..LastDay
Cursors == 0..Length

NoRun == [status |-> "none", token |-> NoWorker, cursor |-> 0, leased |-> FALSE]

RunRows == [status: {"none", "running", "complete", "partial", "failed"},
            token: Workers \cup {NoWorker}, cursor: Cursors, leased: BOOLEAN]
Invocations == [step: {"new", "called", "items", "stored", "done"}, day: Days, at: Cursors]

ImportsTypeOK ==
    /\ runs \in [Days -> RunRows]
    /\ worker \in [Workers -> Invocations]
    /\ mapped \in [1..Length -> {"none", "up", "removed"}]
    /\ listed \in [Urls -> {"none", "import", "member"}]
    /\ takenDown \subseteq Urls /\ passedBy \subseteq 1..Length
    /\ today \in Days

-----------------------------------------------------------------------------
(* A run: claimed, checkpointed, finished. *)

\* The Cron Trigger fires; runDate is the day it fired, whenever the source's turn comes.
runDailyImports(w) ==
    /\ worker[w].step = "new"
    /\ worker' = [worker EXCEPT ![w] = [@ EXCEPT !.step = "called", !.day = today]]
    /\ UNCHANGED <<runs, campaigns, today>>

Latest == {d \in Days : runs[d].status # "none" /\ \A e \in Days : runs[e].status # "none" => e <= d}

Refused(day) ==
    \E d \in Latest :
        \/ d > day
        \/ runs[d].status = "running" /\ runs[d].leased
        \/ d = day /\ runs[d].status # "running"

\* Where the last run stopped, unless it got to the end.
Resume ==
    IF \E d \in Latest : runs[d].status # "complete" THEN runs[CHOOSE d \in Latest : TRUE].cursor ELSE 0

claimRun(w) ==
    LET day == worker[w].day IN
    /\ worker[w].step = "called" /\ ~Refused(day)
    /\ runs' = [runs EXCEPT ![day] =
            [status |-> "running", token |-> w, cursor |-> Resume, leased |-> TRUE]]
    /\ worker' = [worker EXCEPT ![w] = [@ EXCEPT !.step = "items", !.at = Resume]]
    /\ UNCHANGED <<campaigns, today>>

\* claimRun answers null.
Refuse(w) ==
    /\ worker[w].step = "called" /\ Refused(worker[w].day)
    /\ worker' = [worker EXCEPT ![w].step = "done"]
    /\ UNCHANGED <<runs, campaigns, today>>

\* Mistake: any run that is going may be finished, whoever claimed it.
HoldsAny(w) == runs[worker[w].day].status = "running"

\* The WHERE of every later write to the run.
Holds(w) == runs[worker[w].day].token = w /\ runs[worker[w].day].status = "running"

\* checkpointRun after an item; the run stops if it lost its claim.
checkpointRun(w) ==
    /\ worker[w].step = "stored"
    /\ IF Holds(w)
       THEN /\ runs' = [runs EXCEPT ![worker[w].day].cursor = worker[w].at]
            /\ worker' = [worker EXCEPT ![w].step = "items"]
       ELSE /\ worker' = [worker EXCEPT ![w].step = "done"]
            /\ UNCHANGED runs
    /\ UNCHANGED <<campaigns, today>>

\* finishRun: at the end of the list, out of time or pages, or after an error.
finishRun(w, outcome) ==
    /\ \/ worker[w].step = "items" /\ (outcome = "complete" => worker[w].at = Length)
       \/ worker[w].step = "stored" /\ outcome = "failed"
    /\ runs' = IF Holds(w)
               THEN [runs EXCEPT ![worker[w].day] =
                        [@ EXCEPT !.status = outcome, !.leased = FALSE,
                                  !.cursor = IF outcome = "complete" THEN 0 ELSE worker[w].at]]
               ELSE runs
    /\ worker' = [worker EXCEPT ![w].step = "done"]
    /\ UNCHANGED <<campaigns, today>>

\* The Worker is gone.
WorkerDies(w) ==
    /\ worker[w].step \in {"called", "items", "stored"}
    /\ worker' = [worker EXCEPT ![w].step = "done"]
    /\ UNCHANGED <<runs, campaigns, today>>

LeaseRunsOut(d) ==
    /\ runs[d].leased
    /\ runs' = [runs EXCEPT ![d].leased = FALSE]
    /\ UNCHANGED <<worker, campaigns, today>>

-----------------------------------------------------------------------------
(* An item. *)

NextItem(w) == worker[w].at + 1

Handled(w) == worker' = [worker EXCEPT ![w] = [@ EXCEPT !.step = "stored", !.at = NextItem(w)]]

\* Mistake: one more item is asked for at the end of the list.
SkipPastEnd(w) ==
    /\ worker[w].step = "items" /\ worker[w].at <= Length
    /\ passedBy' = passedBy \cup {NextItem(w)}
    /\ Handled(w)
    /\ UNCHANGED <<runs, mapped, listed, takenDown, today>>

\* The page is gone (404, 410) or is no campaign.
SkipItem(w) ==
    /\ worker[w].step = "items" /\ worker[w].at < Length
    /\ passedBy' = passedBy \cup {NextItem(w)}
    /\ Handled(w)
    /\ UNCHANGED <<runs, mapped, listed, takenDown, today>>

\* Mistake: a campaign that was taken down does not count as existing.
importCandidateAgain(w) ==
    LET i == NextItem(w) url == UrlOf[i] IN
    /\ worker[w].step = "items" /\ worker[w].at < Length
    /\ IF mapped[i] # "none" THEN UNCHANGED <<mapped, listed>>
       ELSE /\ mapped' = [mapped EXCEPT ![i] = "up"]
            /\ listed' = IF listed[url] = "none" THEN [listed EXCEPT ![url] = "import"] ELSE listed
    /\ Handled(w)
    /\ UNCHANGED <<runs, takenDown, passedBy, today>>

\* Mistake: the cursor is written before the item is.
importCandidateLater(w) ==
    /\ worker[w].step = "items" /\ worker[w].at < Length
    /\ UNCHANGED <<mapped, listed>>
    /\ Handled(w)
    /\ UNCHANGED <<runs, takenDown, passedBy, today>>

\* importCandidate, under the lock of the address: a known item changes nothing; a campaign at that
\* address, the one that is up before one that was removed, is only mapped; else it is added.
importCandidate(w) ==
    LET i == NextItem(w) url == UrlOf[i]
        removed == listed[url] = "none" /\ url \in takenDown IN
    /\ worker[w].step = "items" /\ worker[w].at < Length
    /\ IF mapped[i] # "none" THEN UNCHANGED <<mapped, listed>>
       ELSE /\ mapped' = [mapped EXCEPT ![i] = IF removed THEN "removed" ELSE "up"]
            /\ listed' = IF listed[url] = "none" /\ ~removed
                         THEN [listed EXCEPT ![url] = "import"] ELSE listed
    /\ Handled(w)
    /\ UNCHANGED <<runs, takenDown, passedBy, today>>

-----------------------------------------------------------------------------
(* Members, admins and the calendar. *)

addCrowdfunding(url) ==
    /\ listed[url] = "none"
    /\ listed' = [listed EXCEPT ![url] = "member"]
    /\ UNCHANGED <<runs, worker, mapped, takenDown, passedBy, today>>

removeCrowdfunding(url) ==
    /\ listed[url] # "none"
    /\ listed' = [listed EXCEPT ![url] = "none"]
    /\ takenDown' = takenDown \cup {url}
    /\ mapped' = [i \in 1..Length |->
            IF UrlOf[i] = url /\ mapped[i] = "up" THEN "removed" ELSE mapped[i]]
    /\ UNCHANGED <<runs, worker, passedBy, today>>

DayTurns ==
    /\ today < LastDay /\ today' = today + 1
    /\ UNCHANGED <<runs, worker, campaigns>>

ImportsInit ==
    /\ runs = [d \in Days |-> NoRun]
    /\ worker = [w \in Workers |-> [step |-> "new", day |-> 0, at |-> 0]]
    /\ mapped = [i \in 1..Length |-> "none"]
    /\ listed = [u \in Urls |-> "none"] /\ takenDown = {} /\ passedBy = {}
    /\ today = 0

ImportsNext ==
    \/ \E w \in Workers :
        \/ runDailyImports(w) \/ claimRun(w) \/ Refuse(w) \/ checkpointRun(w) \/ WorkerDies(w)
        \/ \E outcome \in {"complete", "partial", "failed"} : finishRun(w, outcome)
        \/ SkipItem(w) \/ importCandidate(w)
    \/ \E d \in Days : LeaseRunsOut(d)
    \/ \E url \in Urls : addCrowdfunding(url) \/ removeCrowdfunding(url)
    \/ DayTurns

ImportsSpec == ImportsInit /\ [][ImportsNext]_importVars

-----------------------------------------------------------------------------
(* Properties. *)

Known(i) == mapped[i] # "none" \/ i \in passedBy

\* No item of the list is passed over: whatever a run left as its place, each item behind it was
\* mapped to a campaign or skipped for a reason, and a complete run has been through them all, in
\* whatever way earlier runs failed, died or were taken over (runner.ts, the cursor).
NothingPassedOver ==
    \A d \in Days :
        /\ \A i \in 1..runs[d].cursor : Known(i)
        /\ runs[d].status = "complete" => \A i \in 1..Length : Known(i)

\* A campaign an admin took down is never put back up by an import, whoever had added it and
\* whichever item of the list leads to it; only a member can add it again.
TakenDownStaysDown ==
    [][\A url \in takenDown : listed[url] = "none" => listed'[url] # "import"]_importVars

\* The place a day's run got to is never lost to one that came before it: a run that stalled past
\* its lease and goes on beside the one that took over cannot move the cursor back; only reaching
\* the end of the list clears it.
PlaceIsKept ==
    [][\A d \in Days : runs'[d].cursor < runs[d].cursor => runs'[d].status = "complete"]_importVars

=============================================================================
