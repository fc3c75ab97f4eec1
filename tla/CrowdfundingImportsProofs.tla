----------------------- MODULE CrowdfundingImportsProofs -----------------------
(***************************************************************************)
(* Proofs about CrowdfundingImports, for any list, any addresses and any     *)
(* number of runs: no item is passed over, and what an admin took down stays *)
(* down.                                                                     *)
(***************************************************************************)
EXTENDS CrowdfundingImports, WellFoundedInduction, TLAPS

Walked(n) == \A i \in 1..n : Known(i)

\* What a run has gone through, kept in its row or only in its memory: with this NothingPassedOver
\* is inductive.
RunsWalked ==
    \A w \in Workers : worker[w].step \in {"items", "stored"} => Walked(worker[w].at)

ImportsInv == ImportsTypeOK /\ NothingPassedOver /\ RunsWalked

USE ImportsAssumption

-----------------------------------------------------------------------------
(* Where a run starts. *)

LEMMA LatestIsADay == Latest \subseteq Days
  BY DEF Latest

\* A run resumes at a place of the list, and everything behind it is known.
LEMMA ResumeIsWalked ==
    ASSUME ImportsTypeOK, NothingPassedOver
    PROVE  Resume \in Cursors /\ Walked(Resume)
<1>1. CASE \E d \in Latest : runs[d].status # "complete"
  <2> DEFINE d == CHOOSE e \in Latest : TRUE
  <2>1. d \in Days
    BY <1>1, LatestIsADay
  <2>2. Resume = runs[d].cursor
    BY <1>1 DEF Resume
  <2> HIDE DEF d
  <2>3. runs[d].cursor \in Cursors
    BY <2>1 DEF ImportsTypeOK, RunRows
  <2>. QED
    BY <2>1, <2>2, <2>3 DEF NothingPassedOver, Walked
<1>2. CASE ~\E d \in Latest : runs[d].status # "complete"
  BY <1>2 DEF Resume, Cursors, Walked
<1>. QED
  BY <1>1, <1>2

-----------------------------------------------------------------------------
(* Types. *)

LEMMA InitTypes == ImportsInit => ImportsTypeOK
  BY DEF ImportsInit, ImportsTypeOK, RunRows, Invocations, NoRun, Days, Cursors

\* What a write of one run's row does.
LEMMA RowWritten ==
    ASSUME ImportsTypeOK, NEW d \in Days, NEW row \in RunRows, runs' = [runs EXCEPT ![d] = row]
    PROVE  /\ runs' \in [Days -> RunRows] /\ runs'[d] = row
           /\ \A e \in Days \ {d} : runs'[e] = runs[e]
  BY DEF ImportsTypeOK

\* What a step of one invocation does.
LEMMA WorkerMoved ==
    ASSUME ImportsTypeOK, NEW w \in Workers, NEW next \in Invocations,
           worker' = [worker EXCEPT ![w] = next]
    PROVE  /\ worker' \in [Workers -> Invocations] /\ worker'[w] = next
           /\ \A v \in Workers \ {w} : worker'[v] = worker[v]
  BY DEF ImportsTypeOK

\* An item that was looked at: the invocation is one further, whatever became of the item.
LEMMA ItemHandled ==
    ASSUME ImportsTypeOK, NEW w \in Workers, worker[w].at < Length, Handled(w)
    PROVE  /\ worker' \in [Workers -> Invocations]
           /\ worker[w].at \in Nat /\ NextItem(w) = worker[w].at + 1 /\ NextItem(w) \in 1..Length
           /\ worker'[w].at = NextItem(w) /\ worker'[w].day = worker[w].day
           /\ \A v \in Workers \ {w} : worker'[v] = worker[v]
<1> DEFINE next == [worker[w] EXCEPT !.step = "stored", !.at = NextItem(w)]
<1>1. worker[w] \in Invocations /\ worker[w].at \in 0..Length
  BY DEF ImportsTypeOK, Invocations, Cursors
<1>2. NextItem(w) = worker[w].at + 1 /\ NextItem(w) \in 1..Length /\ NextItem(w) \in Cursors
  BY <1>1 DEF NextItem, Cursors
<1>3. next \in Invocations /\ next.at = NextItem(w) /\ next.day = worker[w].day
  BY <1>1, <1>2 DEF Invocations
<1>4. worker' = [worker EXCEPT ![w] = next]
  BY DEF Handled
<1> HIDE DEF next
<1>5. /\ worker' \in [Workers -> Invocations] /\ worker'[w] = next
      /\ \A v \in Workers \ {w} : worker'[v] = worker[v]
  BY <1>3, <1>4, WorkerMoved
<1>6. worker[w].at \in Nat
  BY <1>1
<1>. QED
  BY <1>2, <1>3, <1>5, <1>6

\* A run that ends, in its row and in its invocation.
LEMMA RunFinished ==
    ASSUME ImportsTypeOK, NEW w \in Workers, NEW outcome \in {"complete", "partial", "failed"},
           finishRun(w, outcome)
    PROVE  /\ worker' \in [Workers -> Invocations] /\ worker'[w].step = "done"
           /\ \A v \in Workers \ {w} : worker'[v] = worker[v]
           /\ runs' \in [Days -> RunRows]
           /\ \A d \in Days : runs'[d] # runs[d] =>
                /\ d = worker[w].day /\ Holds(w) /\ runs'[d].status = outcome
                /\ runs'[d].cursor = IF outcome = "complete" THEN 0 ELSE worker[w].at
<1> DEFINE next == [worker[w] EXCEPT !.step = "done"]
           day == worker[w].day
           cursor == IF outcome = "complete" THEN 0 ELSE worker[w].at
           row == [runs[day] EXCEPT !.status = outcome, !.leased = FALSE, !.cursor = cursor]
<1>1. worker[w] \in Invocations /\ day \in Days /\ worker[w].at \in Cursors
  BY DEF ImportsTypeOK, Invocations
<1>2. next \in Invocations /\ next.step = "done"
  BY <1>1 DEF Invocations
<1>3. runs[day] \in RunRows /\ cursor \in Cursors
  BY <1>1 DEF ImportsTypeOK, Cursors
<1>4. row \in RunRows /\ row.status = outcome /\ row.cursor = cursor
  BY <1>3 DEF RunRows
<1>5. worker' = [worker EXCEPT ![w] = next]
  BY DEF finishRun
<1>6. runs' = IF Holds(w) THEN [runs EXCEPT ![day] = row] ELSE runs
  BY DEF finishRun
<1> HIDE DEF next, row
<1>7. runs' \in [Days -> RunRows]
  BY <1>1, <1>4, <1>6, RowWritten DEF ImportsTypeOK
<1>8. ASSUME NEW d \in Days, runs'[d] # runs[d]
      PROVE  Holds(w) /\ d = day /\ runs'[d] = row
  BY <1>1, <1>4, <1>6, <1>8, RowWritten
<1>. QED
  BY <1>2, <1>4, <1>5, <1>7, <1>8, WorkerMoved

\* A checkpoint, in the row of the run that still holds it.
LEMMA RunCheckpointed ==
    ASSUME ImportsTypeOK, NEW w \in Workers, checkpointRun(w)
    PROVE  /\ worker' \in [Workers -> Invocations] /\ worker'[w].at = worker[w].at
           /\ worker'[w].day = worker[w].day
           /\ \A v \in Workers \ {w} : worker'[v] = worker[v]
           /\ runs' \in [Days -> RunRows]
           /\ \A d \in Days : runs'[d] # runs[d] =>
                /\ d = worker[w].day /\ Holds(w)
                /\ runs'[d].status = runs[d].status /\ runs'[d].token = w
                /\ runs'[d].cursor = worker[w].at
<1> DEFINE step == IF Holds(w) THEN "items" ELSE "done"
           next == [worker[w] EXCEPT !.step = step]
           day == worker[w].day
           row == [runs[day] EXCEPT !.cursor = worker[w].at]
<1>1. worker[w] \in Invocations /\ day \in Days /\ worker[w].at \in Cursors
  BY DEF ImportsTypeOK, Invocations
<1>2. next \in Invocations /\ next.at = worker[w].at /\ next.day = day
  BY <1>1 DEF Invocations
<1>3. runs[day] \in RunRows
  BY <1>1 DEF ImportsTypeOK
<1>4. /\ row \in RunRows /\ row.status = runs[day].status /\ row.token = runs[day].token
      /\ row.cursor = worker[w].at
  BY <1>1, <1>3 DEF RunRows
<1>5. worker' = [worker EXCEPT ![w] = next]
  BY DEF checkpointRun
<1>6. runs' = IF Holds(w) THEN [runs EXCEPT ![day] = row] ELSE runs
  BY DEF checkpointRun
<1> HIDE DEF next, row
<1>7. runs' \in [Days -> RunRows]
  BY <1>1, <1>4, <1>6, RowWritten DEF ImportsTypeOK
<1>8. ASSUME NEW d \in Days, runs'[d] # runs[d]
      PROVE  Holds(w) /\ d = day /\ runs'[d] = row
  BY <1>1, <1>4, <1>6, <1>8, RowWritten
<1>9. Holds(w) => runs[day].token = w
  BY DEF Holds
<1>. QED
  BY <1>2, <1>4, <1>5, <1>7, <1>8, <1>9, WorkerMoved

\* A claim: the row of the day starts over at Resume, and so does the invocation.
LEMMA RunClaimed ==
    ASSUME ImportsTypeOK, NothingPassedOver, NEW w \in Workers, claimRun(w)
    PROVE  LET day == worker[w].day IN
           /\ day \in Days /\ ~Refused(day)
           /\ worker' \in [Workers -> Invocations]
           /\ worker'[w].day = day /\ worker'[w].at = Resume
           /\ \A v \in Workers \ {w} : worker'[v] = worker[v]
           /\ runs' \in [Days -> RunRows]
           /\ runs'[day].status = "running" /\ runs'[day].token = w /\ runs'[day].cursor = Resume
           /\ \A d \in Days \ {day} : runs'[d] = runs[d]
<1> DEFINE next == [worker[w] EXCEPT !.step = "items", !.at = Resume]
           day == worker[w].day
           row == [status |-> "running", token |-> w, cursor |-> Resume, leased |-> TRUE]
<1>1. worker[w] \in Invocations /\ day \in Days /\ Resume \in Cursors
  BY ResumeIsWalked DEF ImportsTypeOK, Invocations
<1>2. next \in Invocations /\ next.day = day /\ next.at = Resume
  BY <1>1 DEF Invocations
<1>3. row \in RunRows /\ row.status = "running" /\ row.token = w /\ row.cursor = Resume
  BY <1>1 DEF RunRows
<1>4. worker' = [worker EXCEPT ![w] = next] /\ runs' = [runs EXCEPT ![day] = row] /\ ~Refused(day)
  BY DEF claimRun
<1> HIDE DEF next, row
<1>5. /\ worker' \in [Workers -> Invocations] /\ worker'[w] = next
      /\ \A v \in Workers \ {w} : worker'[v] = worker[v]
  BY <1>2, <1>4, WorkerMoved
<1>6. /\ runs' \in [Days -> RunRows] /\ runs'[day] = row
      /\ \A d \in Days \ {day} : runs'[d] = runs[d]
  BY <1>1, <1>3, <1>4, RowWritten
<1>. QED
  BY <1>1, <1>2, <1>3, <1>4, <1>5, <1>6

\* The other steps of an invocation: it stays where it is on the list.
LEMMA StepTaken ==
    ASSUME ImportsTypeOK, NEW w \in Workers, runDailyImports(w) \/ Refuse(w) \/ WorkerDies(w)
    PROVE  /\ worker' \in [Workers -> Invocations] /\ worker'[w].step \in {"called", "done"}
           /\ \A v \in Workers \ {w} : worker'[v] = worker[v]
           /\ UNCHANGED <<runs, campaigns, today>>
<1>1. worker[w] \in Invocations /\ today \in Days
  BY DEF ImportsTypeOK
<1>2. CASE runDailyImports(w)
  <2> DEFINE next == [worker[w] EXCEPT !.step = "called", !.day = today]
  <2>1. next \in Invocations /\ next.step = "called"
    BY <1>1 DEF Invocations
  <2>2. worker' = [worker EXCEPT ![w] = next]
    BY <1>2 DEF runDailyImports
  <2> HIDE DEF next
  <2>. QED
    BY <1>2, <2>1, <2>2, WorkerMoved DEF runDailyImports
<1>3. CASE Refuse(w) \/ WorkerDies(w)
  <2> DEFINE next == [worker[w] EXCEPT !.step = "done"]
  <2>1. next \in Invocations /\ next.step = "done"
    BY <1>1 DEF Invocations
  <2>2. worker' = [worker EXCEPT ![w] = next] /\ UNCHANGED <<runs, campaigns, today>>
    BY <1>3 DEF Refuse, WorkerDies
  <2> HIDE DEF next
  <2>. QED
    BY <2>1, <2>2, WorkerMoved
<1>. QED
  BY <1>2, <1>3

LEMMA LeaseEnded ==
    ASSUME ImportsTypeOK, NEW d \in Days, LeaseRunsOut(d)
    PROVE  /\ runs' \in [Days -> RunRows]
           /\ \A e \in Days :
                /\ runs'[e].status = runs[e].status /\ runs'[e].token = runs[e].token
                /\ runs'[e].cursor = runs[e].cursor
<1> DEFINE row == [runs[d] EXCEPT !.leased = FALSE]
<1>1. runs[d] \in RunRows
  BY DEF ImportsTypeOK
<1>2. /\ row \in RunRows /\ row.status = runs[d].status /\ row.token = runs[d].token
      /\ row.cursor = runs[d].cursor
  BY <1>1 DEF RunRows
<1>3. runs' = [runs EXCEPT ![d] = row]
  BY DEF LeaseRunsOut
<1> HIDE DEF row
<1>4. /\ runs' \in [Days -> RunRows] /\ runs'[d] = row
      /\ \A e \in Days \ {d} : runs'[e] = runs[e]
  BY <1>2, <1>3, RowWritten
<1>. QED
  BY <1>2, <1>4

-----------------------------------------------------------------------------
(* The campaigns. *)

\* What no step does to the campaigns: lose what is known of an item, or put up what was taken down.
CampaignsHold ==
    /\ mapped' \in [1..Length -> {"none", "up", "removed"}]
    /\ listed' \in [Urls -> {"none", "import", "member"}]
    /\ takenDown' \subseteq Urls /\ passedBy' \subseteq 1..Length
    /\ \A i \in 1..Length : Known(i) => Known(i)'
    /\ \A url \in takenDown : listed[url] = "none" => listed'[url] # "import"

LEMMA CampaignsLeft ==
    ASSUME ImportsTypeOK, UNCHANGED campaigns
    PROVE  CampaignsHold
  BY DEF ImportsTypeOK, campaigns, CampaignsHold, Known

\* An item that was looked at is known from then on.
LEMMA ItemSkipped ==
    ASSUME ImportsTypeOK, NEW w \in Workers, SkipItem(w), NEW i \in 1..Length, i = NextItem(w)
    PROVE  CampaignsHold /\ Known(i)'
<1>1. passedBy' = passedBy \cup {i} /\ UNCHANGED <<mapped, listed, takenDown>>
  BY DEF SkipItem
<1>. QED
  BY <1>1 DEF ImportsTypeOK, CampaignsHold, Known

LEMMA ItemImported ==
    ASSUME ImportsTypeOK, NEW w \in Workers, importCandidate(w), NEW i \in 1..Length, i = NextItem(w)
    PROVE  CampaignsHold /\ Known(i)'
<1> DEFINE url == UrlOf[i]
           removed == listed[url] = "none" /\ url \in takenDown
           outcome == IF removed THEN "removed" ELSE "up"
<1>1. url \in Urls /\ UNCHANGED <<takenDown, passedBy>>
  BY DEF importCandidate
<1>2. CASE mapped[i] # "none"
  <2>1. UNCHANGED <<mapped, listed>>
    BY <1>2 DEF importCandidate
  <2>. QED
    BY <1>1, <1>2, <2>1 DEF ImportsTypeOK, CampaignsHold, Known
<1>3. CASE mapped[i] = "none"
  <2>1. mapped' = [mapped EXCEPT ![i] = outcome]
    BY <1>3 DEF importCandidate
  <2>2. listed' = IF listed[url] = "none" /\ ~removed THEN [listed EXCEPT ![url] = "import"] ELSE listed
    BY <1>3 DEF importCandidate
  <2>3. /\ mapped' \in [1..Length -> {"none", "up", "removed"}] /\ mapped'[i] # "none"
        /\ \A j \in 1..Length : mapped[j] # "none" => mapped'[j] # "none"
    BY <2>1 DEF ImportsTypeOK
  <2>4. /\ listed' \in [Urls -> {"none", "import", "member"}]
        /\ \A u \in takenDown : listed[u] = "none" => listed'[u] # "import"
    BY <1>1, <2>2 DEF ImportsTypeOK
  <2>. QED
    BY <1>1, <2>3, <2>4 DEF ImportsTypeOK, CampaignsHold, Known
<1>. QED
  BY <1>2, <1>3

LEMMA CampaignAdded ==
    ASSUME ImportsTypeOK, NEW url \in Urls, addCrowdfunding(url) \/ removeCrowdfunding(url)
    PROVE  CampaignsHold /\ UNCHANGED <<runs, worker, today>>
<1>1. CASE addCrowdfunding(url)
  BY <1>1 DEF addCrowdfunding, ImportsTypeOK, CampaignsHold, Known
<1>2. CASE removeCrowdfunding(url)
  BY <1>2 DEF removeCrowdfunding, ImportsTypeOK, CampaignsHold, Known
<1>. QED
  BY <1>1, <1>2

-----------------------------------------------------------------------------
(* One fact about every step, from which the invariants follow: the types, what becomes of the    *)
(* campaigns, and what is behind the place of each row and of each invocation.                    *)

\* What a step writes as its place is known, and completes a row only at the end of the list.
PlacesHold ==
    /\ \A d \in Days : runs'[d].cursor # runs[d].cursor \/ runs'[d].status # runs[d].status =>
        /\ \A i \in 1..runs'[d].cursor : Known(i)'
        /\ runs'[d].status = "complete" => \A i \in 1..Length : Known(i)'
    /\ \A w \in Workers : worker'[w] # worker[w] /\ worker'[w].step \in {"items", "stored"} =>
        \A i \in 1..worker'[w].at : Known(i)'

\* The types of what a step writes, and the two facts above.
StepHolds ==
    /\ runs' \in [Days -> RunRows] /\ worker' \in [Workers -> Invocations] /\ today' \in Days
    /\ CampaignsHold /\ PlacesHold

\* An item: the invocation goes one further, past an item that is known by then.
LEMMA ItemHolds ==
    ASSUME ImportsInv, NEW w \in Workers, SkipItem(w) \/ importCandidate(w)
    PROVE  StepHolds
<1> USE DEF ImportsInv
<1>1. worker[w].step = "items" /\ worker[w].at < Length /\ Handled(w) /\ UNCHANGED <<runs, today>>
  BY DEF SkipItem, importCandidate
<1>2. /\ worker' \in [Workers -> Invocations]
      /\ worker[w].at \in Nat /\ NextItem(w) = worker[w].at + 1 /\ NextItem(w) \in 1..Length
      /\ worker'[w].at = NextItem(w)
      /\ \A v \in Workers \ {w} : worker'[v] = worker[v]
  BY <1>1, ItemHandled
<1>3. PICK n \in 1..Length : n = NextItem(w)
  BY <1>2
<1>4. CampaignsHold /\ Known(n)'
  BY <1>3, ItemSkipped, ItemImported
<1>5. \A i \in 1..worker[w].at : Known(i)
  BY <1>1 DEF RunsWalked, Walked
<1>6. ASSUME NEW i \in 1..worker'[w].at PROVE Known(i)'
  <2>1. i = n \/ i \in 1..worker[w].at
    BY <1>2, <1>3
  <2>2. i \in 1..Length
    BY <1>2
  <2>. QED
    BY <1>4, <1>5, <2>1, <2>2 DEF CampaignsHold
<1>7. PlacesHold
  BY <1>1, <1>2, <1>6 DEF PlacesHold
<1>. QED
  BY <1>1, <1>2, <1>4, <1>7 DEF StepHolds, ImportsTypeOK

\* A step that leaves the campaigns alone.
LEMMA RunHolds ==
    ASSUME ImportsInv, NEW w \in Workers,
           \/ runDailyImports(w) \/ claimRun(w) \/ Refuse(w) \/ checkpointRun(w) \/ WorkerDies(w)
           \/ \E outcome \in {"complete", "partial", "failed"} : finishRun(w, outcome)
    PROVE  StepHolds
<1> USE DEF ImportsInv
<1>1. UNCHANGED campaigns /\ today' = today
  BY DEF runDailyImports, claimRun, Refuse, checkpointRun, WorkerDies, finishRun
<1>2. CampaignsHold /\ today' \in Days /\ \A i \in 1..Length : Known(i)' <=> Known(i)
  BY <1>1, CampaignsLeft DEF campaigns, Known, ImportsTypeOK
<1>3. worker[w] \in Invocations /\ worker[w].at \in 0..Length
  BY DEF ImportsTypeOK, Invocations, Cursors
<1>4. CASE runDailyImports(w) \/ Refuse(w) \/ WorkerDies(w)
  <2>1. PlacesHold
    BY <1>4, StepTaken DEF PlacesHold
  <2>. QED
    BY <1>2, <1>4, <2>1, StepTaken DEF StepHolds, ImportsTypeOK
<1>5. CASE claimRun(w)
  <2>1. Resume \in 0..Length /\ \A i \in 1..Resume : Known(i)'
    BY <1>2, ResumeIsWalked DEF Walked, Cursors
  <2>2. PlacesHold
    BY <1>5, <2>1, RunClaimed DEF PlacesHold
  <2>. QED
    BY <1>2, <1>5, <2>2, RunClaimed DEF StepHolds
<1>6. CASE checkpointRun(w)
  <2>1. worker[w].step = "stored" /\ \A i \in 1..worker[w].at : Known(i)'
    BY <1>2, <1>3, <1>6 DEF checkpointRun, RunsWalked, Walked
  <2>2. ASSUME NEW d \in Days, runs'[d] # runs[d]
        PROVE  runs'[d].status # "complete" /\ runs'[d].cursor = worker[w].at
    BY <1>6, <2>2, RunCheckpointed DEF Holds
  <2>3. PlacesHold
    BY <1>6, <2>1, <2>2, RunCheckpointed DEF PlacesHold
  <2>. QED
    BY <1>2, <1>6, <2>3, RunCheckpointed DEF StepHolds
<1>7. ASSUME NEW outcome \in {"complete", "partial", "failed"}, finishRun(w, outcome)
      PROVE  StepHolds
  <2>1. worker[w].step \in {"items", "stored"} /\ (outcome = "complete" => worker[w].at = Length)
    BY <1>7 DEF finishRun
  <2>2. \A i \in 1..worker[w].at : Known(i)'
    BY <1>2, <1>3, <2>1 DEF RunsWalked, Walked
  <2>3. ASSUME NEW d \in Days, runs'[d] # runs[d]
        PROVE  /\ runs'[d].status = outcome
               /\ runs'[d].cursor = IF outcome = "complete" THEN 0 ELSE worker[w].at
    BY <1>7, <2>3, RunFinished
  <2>4. PlacesHold
    BY <1>3, <1>7, <2>1, <2>2, <2>3, RunFinished DEF PlacesHold
  <2>. QED
    BY <1>2, <1>7, <2>4, RunFinished DEF StepHolds
<1>. QED
  BY <1>4, <1>5, <1>6, <1>7

LEMMA EveryStepHolds ==
    ASSUME ImportsInv, [ImportsNext]_importVars
    PROVE  StepHolds
<1> USE DEF ImportsInv
<1>1. CASE \E w \in Workers : SkipItem(w) \/ importCandidate(w)
  BY <1>1, ItemHolds
<1>2. CASE \E w \in Workers :
        \/ runDailyImports(w) \/ claimRun(w) \/ Refuse(w) \/ checkpointRun(w) \/ WorkerDies(w)
        \/ \E outcome \in {"complete", "partial", "failed"} : finishRun(w, outcome)
  BY <1>2, RunHolds
<1>3. CASE \E url \in Urls : addCrowdfunding(url) \/ removeCrowdfunding(url)
  BY <1>3, CampaignAdded DEF StepHolds, PlacesHold, ImportsTypeOK
<1>4. CASE DayTurns \/ UNCHANGED importVars
  <2>1. UNCHANGED <<runs, worker, campaigns>> /\ today' \in Days
    BY <1>4 DEF DayTurns, importVars, campaigns, ImportsTypeOK, Days
  <2>. QED
    BY <2>1, CampaignsLeft DEF StepHolds, PlacesHold, ImportsTypeOK
<1>5. ASSUME NEW d \in Days, LeaseRunsOut(d) PROVE StepHolds
  <2>1. UNCHANGED <<worker, campaigns, today>>
    BY <1>5 DEF LeaseRunsOut
  <2>2. PlacesHold
    BY <1>5, <2>1, LeaseEnded DEF PlacesHold
  <2>. QED
    BY <1>5, <2>1, <2>2, LeaseEnded, CampaignsLeft DEF StepHolds, ImportsTypeOK
<1>. QED
  BY <1>1, <1>2, <1>3, <1>4, <1>5 DEF ImportsNext

-----------------------------------------------------------------------------
(* No item is passed over. *)

LEMMA InitHolds == ImportsInit => ImportsInv
<1> SUFFICES ASSUME ImportsInit PROVE ImportsInv
  OBVIOUS
<1>1. NothingPassedOver /\ RunsWalked
  BY DEF ImportsInit, NothingPassedOver, RunsWalked, NoRun
<1>. QED
  BY <1>1, InitTypes DEF ImportsInv

LEMMA NextHolds == ImportsInv /\ [ImportsNext]_importVars => ImportsInv'
<1> SUFFICES ASSUME ImportsInv, [ImportsNext]_importVars PROVE ImportsInv'
  OBVIOUS
<1>1. StepHolds
  BY EveryStepHolds
<1>2. ImportsTypeOK'
  BY <1>1 DEF StepHolds, CampaignsHold, ImportsTypeOK
<1>3. \A i \in 1..Length : Known(i) => Known(i)'
  BY <1>1 DEF StepHolds, CampaignsHold
<1>4. NothingPassedOver'
  <2> SUFFICES ASSUME NEW d \in Days
               PROVE  /\ \A i \in 1..runs'[d].cursor : Known(i)'
                      /\ runs'[d].status = "complete" => \A i \in 1..Length : Known(i)'
    BY DEF NothingPassedOver
  <2>1. CASE runs'[d].cursor # runs[d].cursor \/ runs'[d].status # runs[d].status
    BY <1>1, <2>1 DEF StepHolds, PlacesHold
  <2>2. CASE runs'[d].cursor = runs[d].cursor /\ runs'[d].status = runs[d].status
    <3>1. runs[d].cursor \in 0..Length
      BY DEF ImportsInv, ImportsTypeOK, RunRows, Cursors
    <3>. QED
      BY <1>3, <2>2, <3>1 DEF ImportsInv, NothingPassedOver
  <2>. QED
    BY <2>1, <2>2
<1>5. RunsWalked'
  <2> SUFFICES ASSUME NEW w \in Workers, worker'[w].step \in {"items", "stored"}
               PROVE  \A i \in 1..worker'[w].at : Known(i)'
    BY DEF RunsWalked, Walked
  <2>1. CASE worker'[w] # worker[w]
    BY <1>1, <2>1 DEF StepHolds, PlacesHold
  <2>2. CASE worker'[w] = worker[w]
    <3>1. worker[w].at \in 0..Length
      BY DEF ImportsInv, ImportsTypeOK, Invocations, Cursors
    <3>. QED
      BY <1>3, <2>2, <3>1 DEF ImportsInv, RunsWalked, Walked
  <2>. QED
    BY <2>1, <2>2
<1>. QED
  BY <1>2, <1>4, <1>5 DEF ImportsInv

\* Every reachable state of the imports is well typed.
THEOREM ImportsAreTyped == ImportsSpec => []ImportsTypeOK
<1>1. ImportsInv => ImportsTypeOK
  BY DEF ImportsInv
<1>. QED
  BY <1>1, InitHolds, NextHolds, PTL DEF ImportsSpec

\* For any list, any number of runs and any of them failing, dying or being taken over: every item
\* behind the place a run left is known, and a complete run has been through all of them.
THEOREM NothingIsPassedOver == ImportsSpec => []NothingPassedOver
<1>1. ImportsInv => NothingPassedOver
  BY DEF ImportsInv
<1>. QED
  BY <1>1, InitHolds, NextHolds, PTL DEF ImportsSpec

\* For any list and any addresses: an import never puts up a campaign an admin took down.
THEOREM TakenDownCampaignsStayDown == ImportsSpec => TakenDownStaysDown
<1>1. ImportsInv /\ [ImportsNext]_importVars =>
        [\A url \in takenDown : listed[url] = "none" => listed'[url] # "import"]_importVars
  BY EveryStepHolds DEF StepHolds, CampaignsHold
<1>. QED
  BY <1>1, InitHolds, NextHolds, PTL DEF ImportsSpec, TakenDownStaysDown

-----------------------------------------------------------------------------
(* A run's place is never lost. *)

\* The run that holds a row is never behind the place the row says, and a day with no run has none.
HolderAhead ==
    /\ \A w \in Workers : worker[w].step \in {"items", "stored"} /\ Holds(w) =>
            worker[w].at >= runs[worker[w].day].cursor
    /\ \A d \in Days : runs[d].status = "none" => runs[d].cursor = 0

\* The latest of the days that have a run: it exists, as the days are bounded.
LEMMA SmallestOf ==
    ASSUME NEW T, T \subseteq Nat, T # {}
    PROVE  \E x \in T : \A y \in T : x <= y
<1> DEFINE R == OpToRel(<, Nat)
<1>1. IsWellFoundedOn(R, Nat)
  BY NatLessThanWellFounded
<1>2. \A x, y \in Nat : <<y, x>> \in R <=> y < x
  BY DEF OpToRel
<1> HIDE DEF R
<1>3. PICK x \in T : \A y \in T : ~(<<y, x>> \in R)
  BY <1>1, WFMin
<1>4. ASSUME NEW y \in T PROVE x <= y
  <2>1. x \in Nat /\ y \in Nat
    OBVIOUS
  <2>2. ~(<<y, x>> \in R)
    BY <1>3
  <2>3. ~(y < x)
    BY <1>2, <2>1, <2>2, Zenon
  <2>. QED
    BY <2>1, <2>3
<1>. QED
  BY <1>4

LEMMA LatestExists ==
    ASSUME NEW day \in Days, runs[day].status # "none"
    PROVE  \E d \in Latest : d >= day
<1> DEFINE ran == {d \in Days : runs[d].status # "none"}
           left == {LastDay - d : d \in ran}
<1>1. ran \subseteq 0..LastDay /\ day \in ran
  BY DEF Days
<1>2. left \subseteq Nat /\ left # {}
  BY <1>1
<1>3. PICK x \in left : \A y \in left : x <= y
  BY <1>2, SmallestOf
<1>4. PICK d \in ran : x = LastDay - d
  BY <1>3
<1>5. ASSUME NEW e \in ran PROVE e <= d
  <2>1. LastDay - d <= LastDay - e
    BY <1>3, <1>4
  <2>. QED
    BY <1>1, <2>1
<1>6. d \in Latest
  BY <1>5 DEF Latest
<1>. QED
  BY <1>1, <1>5, <1>6

\* A claim takes the day's own row up only where it stopped.
LEMMA ClaimKeepsThePlace ==
    ASSUME ImportsTypeOK, HolderAhead, NEW day \in Days, ~Refused(day)
    PROVE  (runs[day].status = "none" /\ runs[day].cursor = 0) \/ Resume = runs[day].cursor
<1>1. CASE runs[day].status = "none"
  BY <1>1 DEF HolderAhead
<1>2. CASE runs[day].status # "none"
  <2>1. Days \subseteq Int
    BY DEF Days
  <2>2. PICK d \in Latest : d >= day
    BY <1>2, LatestExists
  <2>3. d = day
    BY <2>1, <2>2, LatestIsADay DEF Refused
  <2>4. \A e \in Latest : e = day
    BY <2>1, <2>2, <2>3, LatestIsADay, <1>2 DEF Latest
  <2>5. runs[day].status = "running"
    BY <2>2, <2>3 DEF Refused
  <2>6. (CHOOSE e \in Latest : TRUE) = day
    BY <2>2, <2>4
  <2>. QED
    BY <2>2, <2>3, <2>5, <2>6 DEF Resume
<1>. QED
  BY <1>1, <1>2

\* What a step may do to the place of a row.
PlaceHolds ==
    \A d \in Days : runs'[d].cursor < runs[d].cursor => runs'[d].status = "complete"

LEMMA InitAhead == ImportsInit => HolderAhead
  BY DEF ImportsInit, HolderAhead, NoRun

\* A step of one invocation that writes no row.
LEMMA AheadAlone ==
    ASSUME ImportsTypeOK, HolderAhead, NEW w \in Workers, UNCHANGED runs,
           worker'[w].step \in {"items", "stored"} =>
               /\ worker[w].step \in {"items", "stored"} /\ worker'[w].day = worker[w].day
               /\ worker'[w].at >= worker[w].at,
           worker'[w].at \in Int,
           \A v \in Workers \ {w} : worker'[v] = worker[v]
    PROVE  HolderAhead' /\ PlaceHolds
<1>1. worker[w].day \in Days /\ worker[w].at \in Int
  BY DEF ImportsTypeOK, Invocations, Cursors
<1>2. \A d \in Days : runs[d].cursor \in Int
  BY DEF ImportsTypeOK, RunRows, Cursors
<1>3. ASSUME NEW v \in Workers, worker'[v].step \in {"items", "stored"}, Holds(v)'
      PROVE  worker'[v].at >= runs'[worker'[v].day].cursor
  BY <1>1, <1>2, <1>3 DEF HolderAhead, Holds
<1>4. HolderAhead'
  BY <1>3 DEF HolderAhead
<1>. QED
  BY <1>2, <1>4 DEF PlaceHolds

LEMMA ClaimAhead ==
    ASSUME ImportsTypeOK, NothingPassedOver, HolderAhead, NEW w \in Workers, claimRun(w)
    PROVE  HolderAhead' /\ PlaceHolds
<1> DEFINE day == worker[w].day
<1>1. /\ day \in Days /\ ~Refused(day)
      /\ worker'[w].day = day /\ worker'[w].at = Resume
      /\ \A v \in Workers \ {w} : worker'[v] = worker[v]
      /\ runs'[day].status = "running" /\ runs'[day].token = w /\ runs'[day].cursor = Resume
      /\ \A d \in Days \ {day} : runs'[d] = runs[d]
  BY RunClaimed
<1>2. Resume \in Int /\ Resume >= 0 /\ \A d \in Days : runs[d].cursor \in Int
  BY ResumeIsWalked DEF Cursors, ImportsTypeOK, RunRows
<1>3. \A v \in Workers : worker[v].day \in Days
  BY DEF ImportsTypeOK, Invocations
<1>4. ASSUME NEW v \in Workers, worker'[v].step \in {"items", "stored"}, Holds(v)'
      PROVE  worker'[v].at >= runs'[worker'[v].day].cursor
  <2>1. CASE v = w
    BY <1>1, <1>2, <2>1
  <2>2. CASE v # w
    <3>1. worker[v].day # day
      BY <1>1, <1>4, <2>2 DEF Holds
    <3>. QED
      BY <1>1, <1>3, <1>4, <2>2, <3>1 DEF Holds, HolderAhead
  <2>. QED
    BY <2>1, <2>2
<1>5. HolderAhead'
  BY <1>1, <1>4 DEF HolderAhead
<1>6. PlaceHolds
  BY <1>1, <1>2, ClaimKeepsThePlace DEF PlaceHolds
<1>. QED
  BY <1>5, <1>6

LEMMA CheckpointAhead ==
    ASSUME ImportsTypeOK, HolderAhead, NEW w \in Workers, checkpointRun(w)
    PROVE  HolderAhead' /\ PlaceHolds
<1>1. /\ worker'[w].at = worker[w].at /\ worker'[w].day = worker[w].day
      /\ \A v \in Workers \ {w} : worker'[v] = worker[v]
      /\ \A d \in Days : runs'[d] # runs[d] =>
            /\ d = worker[w].day /\ Holds(w)
            /\ runs'[d].status = runs[d].status /\ runs'[d].token = w
            /\ runs'[d].cursor = worker[w].at
  BY RunCheckpointed
<1>2. worker[w].step = "stored"
  BY DEF checkpointRun
<1>3. /\ \A v \in Workers : worker[v].day \in Days /\ worker[v].at \in Int
      /\ \A d \in Days : runs[d].cursor \in Int
  BY DEF ImportsTypeOK, Invocations, RunRows, Cursors
<1>4. ASSUME NEW v \in Workers, worker'[v].step \in {"items", "stored"}, Holds(v)'
      PROVE  worker'[v].at >= runs'[worker'[v].day].cursor
  <2>1. CASE v = w
    BY <1>1, <1>2, <1>3, <1>4, <2>1 DEF Holds, HolderAhead
  <2>2. CASE v # w
    <3>1. worker'[v] = worker[v] /\ runs'[worker[v].day] = runs[worker[v].day]
      BY <1>1, <1>3, <1>4, <2>2 DEF Holds
    <3>. QED
      BY <1>4, <3>1 DEF Holds, HolderAhead
  <2>. QED
    BY <2>1, <2>2
<1>5. \A d \in Days : runs'[d] # runs[d] => runs'[d].status = "running"
  BY <1>1 DEF Holds
<1>6. HolderAhead'
  BY <1>4, <1>5 DEF HolderAhead
<1>7. PlaceHolds
  BY <1>1, <1>2, <1>3 DEF PlaceHolds, HolderAhead
<1>. QED
  BY <1>6, <1>7

LEMMA FinishAhead ==
    ASSUME ImportsTypeOK, HolderAhead, NEW w \in Workers,
           NEW outcome \in {"complete", "partial", "failed"}, finishRun(w, outcome)
    PROVE  HolderAhead' /\ PlaceHolds
<1>1. /\ worker'[w].step = "done"
      /\ \A v \in Workers \ {w} : worker'[v] = worker[v]
      /\ \A d \in Days : runs'[d] # runs[d] =>
            /\ d = worker[w].day /\ Holds(w) /\ runs'[d].status = outcome
            /\ runs'[d].cursor = IF outcome = "complete" THEN 0 ELSE worker[w].at
  BY RunFinished
<1>2. worker[w].step \in {"items", "stored"}
  BY DEF finishRun
<1>3. /\ \A v \in Workers : worker[v].day \in Days /\ worker[v].at \in Int
      /\ \A d \in Days : runs[d].cursor \in Int
  BY DEF ImportsTypeOK, Invocations, RunRows, Cursors
<1>4. ASSUME NEW v \in Workers, worker'[v].step \in {"items", "stored"}, Holds(v)'
      PROVE  worker'[v].at >= runs'[worker'[v].day].cursor
  <2>1. worker'[v] = worker[v] /\ runs'[worker[v].day] = runs[worker[v].day]
    BY <1>1, <1>3, <1>4 DEF Holds
  <2>. QED
    BY <1>4, <2>1 DEF Holds, HolderAhead
<1>5. HolderAhead'
  BY <1>1, <1>4 DEF HolderAhead
<1>6. PlaceHolds
  BY <1>1, <1>2, <1>3 DEF PlaceHolds, HolderAhead
<1>. QED
  BY <1>5, <1>6

LEMMA NextAhead ==
    ASSUME ImportsInv, HolderAhead, [ImportsNext]_importVars
    PROVE  HolderAhead' /\ PlaceHolds
<1> USE DEF ImportsInv
<1>1. \A w \in Workers : worker[w].at \in Int /\ \A d \in Days : runs[d].cursor \in Int
  BY DEF ImportsTypeOK, Invocations, RunRows, Cursors
<1>2. ASSUME NEW w \in Workers, SkipItem(w) \/ importCandidate(w)
      PROVE  HolderAhead' /\ PlaceHolds
  <2>1. worker[w].step = "items" /\ worker[w].at < Length /\ Handled(w) /\ UNCHANGED runs
    BY <1>2 DEF SkipItem, importCandidate
  <2>2. /\ worker'[w].at = worker[w].at + 1 /\ worker'[w].day = worker[w].day
        /\ \A v \in Workers \ {w} : worker'[v] = worker[v]
    BY <2>1, ItemHandled
  <2>. QED
    BY <1>1, <2>1, <2>2, AheadAlone
<1>3. ASSUME NEW w \in Workers, runDailyImports(w) \/ Refuse(w) \/ WorkerDies(w)
      PROVE  HolderAhead' /\ PlaceHolds
  <2>1. /\ worker' \in [Workers -> Invocations] /\ worker'[w].step \in {"called", "done"}
        /\ \A v \in Workers \ {w} : worker'[v] = worker[v]
        /\ UNCHANGED runs
    BY <1>3, StepTaken
  <2>2. worker'[w].at \in Int
    BY <2>1 DEF Invocations, Cursors
  <2>. QED
    BY <2>1, <2>2, AheadAlone
<1>4. ASSUME NEW d \in Days, LeaseRunsOut(d)
      PROVE  HolderAhead' /\ PlaceHolds
  <2>1. UNCHANGED worker /\ \A w \in Workers : worker[w].day \in Days
    BY <1>4 DEF LeaseRunsOut, ImportsTypeOK, Invocations
  <2>2. \A e \in Days :
            /\ runs'[e].status = runs[e].status /\ runs'[e].token = runs[e].token
            /\ runs'[e].cursor = runs[e].cursor /\ runs[e].cursor \in Int
    BY <1>4, LeaseEnded DEF ImportsTypeOK, RunRows, Cursors
  <2>3. \A w \in Workers : Holds(w)' <=> Holds(w)
    BY <2>1, <2>2 DEF Holds
  <2>4. HolderAhead'
    BY <2>1, <2>2, <2>3 DEF HolderAhead
  <2>. QED
    BY <2>2, <2>4 DEF PlaceHolds
<1>5. CASE UNCHANGED <<runs, worker>>
  <2>1. \A d \in Days : runs[d].cursor \in Int
    BY DEF ImportsTypeOK, RunRows, Cursors
  <2>. QED
    BY <1>5, <2>1 DEF HolderAhead, PlaceHolds, Holds
<1>6. (\E url \in Urls : addCrowdfunding(url) \/ removeCrowdfunding(url)) \/ DayTurns
        \/ UNCHANGED importVars => UNCHANGED <<runs, worker>>
  BY DEF addCrowdfunding, removeCrowdfunding, DayTurns, importVars
<1>. QED
  BY <1>2, <1>3, <1>4, <1>5, <1>6, ClaimAhead, CheckpointAhead, FinishAhead DEF ImportsNext

\* For any list and any number of runs, past their lease or not: a row's place goes back only when
\* the end of the list clears it.
THEOREM PlacesAreKept == ImportsSpec => PlaceIsKept
<1>1. ImportsInit => ImportsInv /\ HolderAhead
  BY InitHolds, InitAhead
<1>2. ImportsInv /\ HolderAhead /\ [ImportsNext]_importVars => (ImportsInv /\ HolderAhead)'
  BY NextHolds, NextAhead
<1>3. ImportsInv /\ HolderAhead /\ [ImportsNext]_importVars =>
        [\A d \in Days : runs'[d].cursor < runs[d].cursor => runs'[d].status = "complete"]_importVars
  BY NextAhead DEF PlaceHolds
<1>. QED
  BY <1>1, <1>2, <1>3, PTL DEF ImportsSpec, PlaceIsKept
=============================================================================
