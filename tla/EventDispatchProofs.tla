------------------------- MODULE EventDispatchProofs -------------------------
(***************************************************************************)
(* Theorems about EventDispatch, for any dispatchers, handlers, leases,    *)
(* backoffs and attempt caps, however long dispatches take.                *)
(***************************************************************************)
EXTENDS EventDispatch, WellFoundedInduction, TLAPS

\* A dispatch claimed the row under the cap, and has what it handled still on its list.
WellMade(s) == s.saw < MaxAttempts /\ (s.step = "handled" => s.todo # {})

\* Attempts stay under the cap until the row is given up.
Capped ==
    /\ row.attempts = MaxAttempts => row.failed
    /\ \A d \in Dispatchers : WellMade(disp[d])

Typed == TypeOK /\ Capped

\* A token on the row is that of the last claim.
TokenIsLast == row.token # NoOne => owner = row.token

\* What a dispatch has left, with what was done, is everything, unless it knows better.
Covers(d) ==
    /\ disp[d].step = "handled" => First(disp[d].todo) \in done
    /\ disp[d].step \in {"running", "handled"} /\ ~disp[d].failed /\ ~disp[d].left =>
           Handlers \subseteq done \cup disp[d].todo

AllCovered == \A d \in Dispatchers : Covers(d)

-----------------------------------------------------------------------------
(* The first handler is one of them. *)

Less == {r \in Nat \X Nat : r[1] < r[2]}

LEMMA LessIsWellFounded == IsWellFoundedOn(Less, Nat)
<1>1. OpToRel(<, Nat) = Less
  BY DEF OpToRel, Less
<1>2. QED
  BY <1>1, NatLessThanWellFounded

LEMMA FirstIsOne ==
    ASSUME NEW T, T \subseteq Nat, T # {}
    PROVE  First(T) \in T
<1>1. PICK h \in T : \A k \in T : ~(<<k, h>> \in Less)
  BY LessIsWellFounded, WFMin
<1>2. ASSUME NEW k \in T PROVE h <= k
  <2>1. k \in Nat /\ h \in Nat /\ ~(<<k, h>> \in Less)
    BY <1>1
  <2>2. <<k, h>> \in Nat \X Nat /\ ~(k < h)
    BY <2>1 DEF Less
  <2>3. QED
    BY <2>1, <2>2
<1>3. QED
  BY <1>2 DEF First

-----------------------------------------------------------------------------
(* The types. *)

LEMMA IdleTyped == Idle \in DispatchStates /\ WellMade(Idle)
BY TimesAssumption DEF Idle, DispatchStates, WellMade

LEMMA MoreTyped == ASSUME TypeOK PROVE More(1) \in 0..MaxMessages
BY TimesAssumption DEF TypeOK, More

\* A step that gives one dispatcher a state of the right type keeps all of them.
LEMMA OneTyped ==
    ASSUME Typed, NEW d \in Dispatchers, NEW s \in DispatchStates, WellMade(s),
           disp' = [disp EXCEPT ![d] = s]
    PROVE  /\ disp' \in [Dispatchers -> DispatchStates]
           /\ \A e \in Dispatchers : WellMade(disp'[e])
BY DEF Typed, TypeOK, Capped

LEMMA EndTyped ==
    ASSUME Typed, NEW d \in Dispatchers, NEW again, End(d, again)
    PROVE  /\ disp' \in [Dispatchers -> DispatchStates]
           /\ \A e \in Dispatchers : WellMade(disp'[e])
           /\ queue' \in 0..MaxMessages
<1>1. queue' \in 0..MaxMessages
  BY MoreTyped DEF Typed, TypeOK, End
<1>2. QED
  BY <1>1, IdleTyped, OneTyped DEF End

LEMMA StartTyped ==
    ASSUME Typed, NEW d \in Dispatchers, NEW kind \in {"request", "sweep", "consumer", "admin"},
           NEW fenced \in BOOLEAN, NEW routed \in BOOLEAN, Start(d, kind, fenced, routed)
    PROVE  /\ disp' \in [Dispatchers -> DispatchStates]
           /\ \A e \in Dispatchers : WellMade(disp'[e])
<1> DEFINE s == [Idle EXCEPT !.kind = kind, !.step = "called", !.fenced = fenced, !.routed = routed]
<1>1. s \in DispatchStates /\ WellMade(s)
  BY IdleTyped DEF DispatchStates, WellMade
<1>2. QED
  BY <1>1, OneTyped DEF Start

LEMMA FreeTyped == Free \in Leases
BY TimesAssumption DEF Free, Leases

LEMMA SpendTyped == ASSUME TypeOK, Spend PROVE calls' \in 0..MaxCalls
BY TimesAssumption DEF TypeOK, Spend

\* The state of the next step, from its parts.
LEMMA Assembled ==
    ASSUME row' \in RowStates, row'.attempts = MaxAttempts => row'.failed,
           disp' \in [Dispatchers -> DispatchStates],
           \A e \in Dispatchers : WellMade(disp'[e]),
           queue' \in 0..MaxMessages, done' \subseteq Handlers,
           owner' \in Dispatchers \cup {NoOne}, calls' \in 0..MaxCalls
    PROVE  Typed'
BY DEF Typed, TypeOK, Capped

LEMMA InitTyped == Init => Typed
BY IdleTyped, FreeTyped, TimesAssumption DEF Init, Typed, TypeOK, Capped, RowStates, Waits

\* A running dispatch keeps to its handlers, and moves on to another step.
LEMMA ProceedTyped ==
    ASSUME Typed, NEW d \in Dispatchers, Proceed(d)
    PROVE  Typed'
<1> DEFINE this == disp[d]
<1>1. this \in DispatchStates /\ WellMade(this) /\ row \in RowStates
  BY DEF Typed, TypeOK, Capped
<1>2. this.todo # {} => First(this.todo) \in this.todo
  BY <1>1, FirstIsOne, HandlersAssumption DEF DispatchStates, WellMade
<1>3. Behind(d) \in 0..MaxRun
  BY <1>1, TimesAssumption DEF Behind, DispatchStates
<1>4. CASE Claim(d)
  <2> DEFINE todo == (Handlers \ row.handledBy) \cap Mine(d)
             s == [this EXCEPT !.step = "running", !.todo = todo,
                               !.left = (todo # Handlers \ row.handledBy), !.saw = row.attempts]
  <2>1. row.attempts \in 0..MaxAttempts /\ row.attempts # MaxAttempts
    BY <1>1, <1>4 DEF Claim, Claimable, Unsettled, RowStates, Typed, Capped
  <2>2. s \in DispatchStates /\ WellMade(s)
    <3>1. todo \in SUBSET Handlers
      OBVIOUS
    <3>2. row.attempts < MaxAttempts
      BY <2>1, TimesAssumption
    <3>3. (todo # Handlers \ row.handledBy) \in BOOLEAN
      OBVIOUS
    <3> HIDE DEF todo
    <3>4. QED
      BY <1>1, <2>1, <3>1, <3>2, <3>3 DEF DispatchStates, WellMade
  <2>3. disp' = [disp EXCEPT ![d] = s]
    BY <1>4 DEF Claim
  <2>4. disp' \in [Dispatchers -> DispatchStates] /\ \A e \in Dispatchers : WellMade(disp'[e])
    BY <2>2, <2>3, OneTyped
  <2>5. Lease - Behind(d) \in Leases
    BY <1>3, TimesAssumption DEF Leases
  <2>6. row' \in RowStates /\ row'.attempts = row.attempts /\ row'.failed = row.failed
    BY <1>1, <1>4, <2>5 DEF Claim, RowStates
  <2>7. queue' \in 0..MaxMessages /\ done' = done /\ owner' = d /\ calls' = calls
    BY <1>4, MoreTyped DEF Claim, Typed, TypeOK
  <2>8. QED
    BY <2>4, <2>6, <2>7 DEF Typed, TypeOK, Capped
<1>5. CASE Skip(d)
  BY <1>5, EndTyped DEF Skip, Typed, TypeOK, Capped
<1>6. CASE HandlerSucceeds(d)
  <2> DEFINE s == [this EXCEPT !.step = "handled"]
  <2>1. s \in DispatchStates /\ WellMade(s) /\ disp' = [disp EXCEPT ![d] = s]
    BY <1>1, <1>6 DEF HandlerSucceeds, DispatchStates, WellMade
  <2>2. First(this.todo) \in Handlers
    BY <1>1, <1>2, <1>6 DEF HandlerSucceeds, DispatchStates, WellMade
  <2>3. QED
    BY <1>6, <2>1, <2>2, OneTyped DEF HandlerSucceeds, Typed, TypeOK, Capped
<1>7. CASE HandlerFails(d)
  <2> DEFINE s == [this EXCEPT !.step = "running", !.failed = TRUE,
                               !.todo = this.todo \ {First(this.todo)}]
  <2>1. s \in DispatchStates /\ WellMade(s) /\ disp' = [disp EXCEPT ![d] = s]
    BY <1>1, <1>7 DEF HandlerFails, DispatchStates, WellMade
  <2>2. QED
    BY <1>7, <2>1, OneTyped DEF HandlerFails, Typed, TypeOK, Capped
<1>8. CASE Mark(d)
  <2> DEFINE s == [this EXCEPT !.step = "running", !.todo = this.todo \ {First(this.todo)}]
  <2>1. s \in DispatchStates /\ WellMade(s) /\ disp' = [disp EXCEPT ![d] = s]
    BY <1>1, <1>8 DEF Mark, DispatchStates, WellMade
  <2>2. row' \in RowStates /\ row'.attempts = row.attempts /\ row'.failed = row.failed
    <3> DEFINE recorded == row.handledBy \cup {First(this.todo)}
    <3>1. First(this.todo) \in Handlers
      BY <1>1, <1>2, <1>8 DEF Mark, DispatchStates, WellMade
    <3>2. recorded \in SUBSET Handlers /\ row' = [row EXCEPT !.handledBy = recorded]
      BY <1>1, <1>8, <3>1 DEF Mark, RowStates
    <3> HIDE DEF recorded
    <3>3. QED
      BY <1>1, <3>2 DEF RowStates
  <2>3. QED
    BY <1>8, <2>1, <2>2, OneTyped DEF Mark, Typed, TypeOK, Capped
<1>9. CASE Lost(d)
  BY <1>9, EndTyped DEF Lost, Typed, TypeOK, Capped
<1>10. CASE Release(d)
  <2>1. row' \in RowStates /\ row'.attempts = row.attempts /\ row'.failed = row.failed
    BY <1>1, <1>10, FreeTyped DEF Release, RowStates
  <2>2. QED
    BY <1>10, <2>1, IdleTyped, OneTyped, MoreTyped DEF Release, Typed, TypeOK, Capped
<1>11. CASE Done(d)
  <2>1. row' \in RowStates /\ row'.attempts = row.attempts /\ row'.failed = row.failed
    BY <1>1, <1>11, FreeTyped DEF Done, RowStates
  <2>2. QED
    BY <1>11, <2>1, EndTyped DEF Done, Typed, TypeOK, Capped
<1>12. CASE Fail(d)
  <2> DEFINE attempts == this.saw + 1
             exhausted == attempts >= MaxAttempts
  <2>1. attempts \in 1..MaxAttempts /\ (attempts = MaxAttempts => exhausted)
    BY <1>1, TimesAssumption DEF DispatchStates, WellMade
  <2>2. backoffSeconds(attempts) - Behind(d) \in Waits
    BY <1>3, <2>1, BackoffAssumption, TimesAssumption DEF Waits
  <2>3. row' \in RowStates /\ (row'.attempts = MaxAttempts => row'.failed)
    <3> DEFINE failed == exhausted \/ row.failed
               wait == IF exhausted THEN row.wait ELSE backoffSeconds(attempts) - Behind(d)
    <3>1. failed \in BOOLEAN /\ wait \in Waits
      BY <1>1, <2>2 DEF RowStates
    <3>2. row' = [row EXCEPT !.attempts = attempts, !.lease = Free, !.token = NoOne,
                             !.failed = failed, !.wait = wait]
      BY <1>12 DEF Fail
    <3>3. attempts \in 0..MaxAttempts /\ (attempts = MaxAttempts => failed)
      BY <2>1
    <3> HIDE DEF attempts, exhausted, failed, wait
    <3>4. QED
      BY <1>1, <3>1, <3>2, <3>3, FreeTyped DEF RowStates
  <2>4. QED
    BY <1>12, <2>3, EndTyped DEF Fail, Typed, TypeOK, Capped
<1>13. QED
  BY <1>4, <1>5, <1>6, <1>7, <1>8, <1>9, <1>10, <1>11, <1>12 DEF Proceed

LEMMA NextTyped == Typed /\ [Next]_vars => Typed'
<1> SUFFICES ASSUME Typed, [Next]_vars PROVE Typed'
  OBVIOUS
<1>1. CASE Tick
  <2>1. row' \in RowStates /\ row'.attempts = row.attempts /\ row'.failed = row.failed
    <3> DEFINE later(t) == IF t > -MaxRun THEN t - 1 ELSE t
    <3>1. row \in RowStates /\ row.wait \in Waits /\ row.lease \in Leases
      BY DEF Typed, TypeOK, RowStates
    <3>2. later(row.wait) \in Waits /\ later(row.lease) \in Leases
      BY <3>1, TimesAssumption DEF Waits, Leases
    <3>3. row' = [row EXCEPT !.wait = later(row.wait), !.lease = later(row.lease)]
      BY <1>1 DEF Tick
    <3> HIDE DEF later
    <3>4. QED
      BY <3>1, <3>2, <3>3 DEF RowStates
  <2>2. ASSUME NEW d \in Dispatchers
        PROVE  disp'[d] \in DispatchStates /\ WellMade(disp'[d])
    <3>1. disp[d] \in DispatchStates /\ WellMade(disp[d])
      BY DEF Typed, TypeOK, Capped
    <3>2. CASE disp[d] = Idle
      BY <1>1, <3>1, <3>2 DEF Tick
    <3>3. CASE disp[d] # Idle
      BY <1>1, <3>1, <3>3, TimesAssumption DEF Tick, DispatchStates, WellMade
    <3>4. QED
      BY <3>2, <3>3
  <2>3. disp' \in [Dispatchers -> DispatchStates]
    BY <1>1, <2>2 DEF Tick
  <2>4. QED
    BY <1>1, <2>1, <2>2, <2>3 DEF Tick, Typed, TypeOK, Capped
<1>2. ASSUME NEW d \in Dispatchers, Request(d) PROVE Typed'
  <2>1. PICK fenced \in BOOLEAN, routed \in BOOLEAN : Start(d, "request", fenced, routed)
    BY <1>2 DEF Request
  <2>2. calls' \in 0..MaxCalls
    BY <1>2, SpendTyped DEF Request, Typed
  <2>3. QED
    BY <1>2, <2>1, <2>2, StartTyped DEF Request, Typed, TypeOK, Capped
<1>3. ASSUME NEW d \in Dispatchers, Sweep(d) PROVE Typed'
  BY <1>3, StartTyped DEF Sweep, Typed, TypeOK, Capped
<1>4. ASSUME NEW d \in Dispatchers, Deliver(d) PROVE Typed'
  <2>1. calls' \in 0..MaxCalls
    BY <1>4, SpendTyped DEF Deliver, Typed, TypeOK
  <2>2. queue' \in 0..MaxMessages
    BY <1>4, TimesAssumption DEF Deliver, Typed, TypeOK
  <2>3. QED
    BY <1>4, <2>1, <2>2, StartTyped DEF Deliver, Typed, TypeOK, Capped
<1>5. ASSUME NEW d \in Dispatchers, forceEvent(d) PROVE Typed'
  <2>1. row' \in RowStates /\ row'.attempts # MaxAttempts
    <3>1. 0 \in Waits /\ 0 \in 0..MaxAttempts /\ 0 # MaxAttempts
      BY TimesAssumption DEF Waits
    <3>2. QED
      BY <1>5, <3>1 DEF forceEvent, Typed, TypeOK, Capped, RowStates
  <2>2. calls' \in 0..MaxCalls
    BY <1>5, SpendTyped DEF forceEvent, Typed
  <2>3. QED
    BY <1>5, <2>1, <2>2, StartTyped DEF forceEvent, Typed, TypeOK, Capped
<1>6. ASSUME NEW d \in Dispatchers, Crash(d) PROVE Typed'
  <2>1. calls' \in 0..MaxCalls
    BY <1>6, SpendTyped DEF Crash, Typed
  <2>2. QED
    BY <1>6, <2>1, EndTyped DEF Crash, Typed, TypeOK, Capped
<1>7. CASE UNCHANGED vars
  BY <1>7 DEF vars, Typed, TypeOK, Capped
<1>8. QED
  BY <1>1, <1>2, <1>3, <1>4, <1>5, <1>6, <1>7, ProceedTyped DEF Next

LEMMA TypedAlways == Spec => []Typed
BY InitTyped, NextTyped, PTL DEF Spec

\* Every reachable state is well typed: the attempts of a row never pass the cap, however forced
\* runs and dispatches that outlive their leases interleave (Fail, forceEvent).
THEOREM TypesHold == Spec => []TypeOK
<1>1. Typed => TypeOK
  BY DEF Typed
<1>2. QED
  BY <1>1, TypedAlways, PTL
-----------------------------------------------------------------------------
(* A claim taken over. *)

LEMMA TokenStep == TypeOK /\ TokenIsLast /\ [Next]_vars => TokenIsLast'
<1> SUFFICES ASSUME TypeOK, TokenIsLast, [Next]_vars PROVE TokenIsLast'
  OBVIOUS
<1> USE DEF TokenIsLast
<1>1. row \in RowStates
  BY DEF TypeOK
<1>2. ASSUME NEW d \in Dispatchers, Claim(d) PROVE TokenIsLast'
  <2>1. row'.token \in {d, NoOne} /\ owner' = d
    BY <1>1, <1>2 DEF Claim, RowStates
  <2>2. QED
    BY <2>1
\* Whoever else writes the row keeps the token or clears it.
<1>3. ASSUME owner' = owner, row'.token \in {row.token, NoOne} PROVE TokenIsLast'
  BY <1>3
<1>4. ASSUME NEW d \in Dispatchers, Proceed(d), ~Claim(d)
      PROVE  owner' = owner /\ row'.token \in {row.token, NoOne}
  BY <1>1, <1>4 DEF Proceed, Skip, HandlerSucceeds, HandlerFails, Mark, Lost, Release, Done, Fail,
                    RowStates
<1>5. ASSUME Tick PROVE owner' = owner /\ row'.token = row.token
  BY <1>1, <1>5 DEF Tick, RowStates
<1>6. ASSUME NEW d \in Dispatchers, Request(d) \/ Sweep(d) \/ Deliver(d) \/ forceEvent(d) \/ Crash(d)
      PROVE  owner' = owner /\ row'.token = row.token
  BY <1>1, <1>6 DEF Request, Sweep, Deliver, forceEvent, Crash, RowStates
<1>7. CASE UNCHANGED vars
  BY <1>7 DEF vars
<1>8. QED
  BY <1>2, <1>3, <1>4, <1>5, <1>6, <1>7 DEF Next

\* A fenced dispatch that wrote the row had its token, and the token is the last claim's.
LEMMA FencedWrites ==
    ASSUME TokenIsLast, NEW d \in Dispatchers, disp[d].fenced, Writes(d)
    PROVE  owner = d
<1>1. row.token = d
  BY DEF Writes, Mark, Release, Done, Fail, Owns
<1>2. QED
  BY <1>1, DispatchersAssumption DEF TokenIsLast

\* No step of a fenced dispatch writes the row after its claim was taken over: every update after
\* the claim asks for its token, and every claim replaces it (dispatchEvent).
THEOREM FencedDispatchesLeave == Spec => FencedLeavesAlone
<1>1. Init => TokenIsLast
  BY DEF Init, TokenIsLast
<1>2. TokenIsLast /\ [Next]_vars => [\A d \in Dispatchers : disp[d].fenced /\ Writes(d) => owner = d]_vars
  BY FencedWrites
<1>3. QED
  BY <1>1, <1>2, TokenStep, TypesHold, PTL DEF Spec, FencedLeavesAlone
-----------------------------------------------------------------------------
(* Nothing is skipped. *)

Work == NothingSkipped /\ AllCovered

\* The dispatches that did not move still cover what they did.
LEMMA OthersCover ==
    ASSUME AllCovered, NEW d \in Dispatchers, NEW s, Typed, disp' = [disp EXCEPT ![d] = s],
           done \subseteq done',
           s.step = "handled" => First(s.todo) \in done',
           s.step \in {"running", "handled"} /\ ~s.failed /\ ~s.left => Handlers \subseteq done' \cup s.todo
    PROVE  AllCovered'
<1>1. ASSUME NEW e \in Dispatchers PROVE Covers(e)'
  <2>1. disp'[e] = IF e = d THEN s ELSE disp[e]
    BY DEF Typed, TypeOK
  <2>2. Covers(e)
    BY DEF AllCovered
  <2>3. QED
    BY <2>1, <2>2 DEF Covers
<1>2. QED
  BY <1>1 DEF AllCovered

LEMMA IdleCovers ==
    ASSUME AllCovered, Typed, NEW d \in Dispatchers, disp' = [disp EXCEPT ![d] = Idle], done' = done
    PROVE  AllCovered'
<1>1. Idle.step = "idle"
  BY DEF Idle
<1>2. QED
  BY <1>1, OthersCover

LEMMA StartCovers ==
    ASSUME AllCovered, Typed, NEW d \in Dispatchers, NEW kind, NEW fenced, NEW routed,
           Start(d, kind, fenced, routed), done' = done
    PROVE  AllCovered'
<1> DEFINE s == [Idle EXCEPT !.kind = kind, !.step = "called", !.fenced = fenced, !.routed = routed]
<1>1. s.step = "called" /\ disp' = [disp EXCEPT ![d] = s]
  BY DEF Start, Idle
<1> HIDE DEF s
<1>2. QED
  BY <1>1, OthersCover

LEMMA ProceedWorks ==
    ASSUME Typed, Work, NEW d \in Dispatchers, Proceed(d)
    PROVE  Work'
<1> DEFINE this == disp[d]
<1>1. /\ this \in DispatchStates /\ WellMade(this)
      /\ row \in RowStates /\ Covers(d) /\ AllCovered /\ done \subseteq Handlers
  BY DEF Typed, TypeOK, Capped, Work, AllCovered
<1>2. this.todo # {} => First(this.todo) \in this.todo
  BY <1>1, FirstIsOne, HandlersAssumption DEF DispatchStates
<1>3. ASSUME done' = done, row'.handledBy = row.handledBy, row'.processed = row.processed
      PROVE  NothingSkipped'
  BY <1>3 DEF Work, NothingSkipped
<1>4. CASE Claim(d)
  <2> DEFINE todo == (Handlers \ row.handledBy) \cap Mine(d)
             s == [this EXCEPT !.step = "running", !.todo = todo,
                               !.left = (todo # Handlers \ row.handledBy), !.saw = row.attempts]
  <2>1. s.step = "running" /\ s.todo = todo /\ (s.left <=> todo # Handlers \ row.handledBy)
    BY <1>1 DEF DispatchStates
  <2>2. row.handledBy \subseteq done
    BY DEF Work, NothingSkipped
  <2>3. ~s.left => Handlers \subseteq done \cup s.todo
    BY <2>1, <2>2
  <2>4. disp' = [disp EXCEPT ![d] = s] /\ done' = done
    BY <1>4 DEF Claim
  <2> HIDE DEF s
  <2>5. AllCovered'
    BY <1>1, <2>1, <2>3, <2>4, OthersCover
  <2>6. row'.handledBy = row.handledBy /\ row'.processed = row.processed
    BY <1>1, <1>4 DEF Claim, RowStates
  <2>7. QED
    BY <1>3, <2>4, <2>5, <2>6 DEF Work
<1>5. CASE Skip(d) \/ Lost(d)
  BY <1>1, <1>3, <1>5, IdleCovers DEF Skip, Lost, End, Work
<1>6. CASE HandlerSucceeds(d)
  <2> DEFINE s == [this EXCEPT !.step = "handled"]
  <2>1. s.step = "handled" /\ s.todo = this.todo /\ s.failed = this.failed /\ s.left = this.left
    BY <1>1 DEF DispatchStates
  <2>2. disp' = [disp EXCEPT ![d] = s] /\ done' = done \cup {First(this.todo)} /\ row' = row
    BY <1>6 DEF HandlerSucceeds
  <2>3. ~this.failed /\ ~this.left => Handlers \subseteq done \cup this.todo
    BY <1>1, <1>6 DEF HandlerSucceeds, Covers
  <2> HIDE DEF s
  <2>4. AllCovered'
    BY <1>1, <2>1, <2>2, <2>3, OthersCover
  <2>5. First(this.todo) \in Handlers
    BY <1>1, <1>2, <1>6 DEF HandlerSucceeds, DispatchStates
  <2>6. NothingSkipped'
    BY <2>2, <2>5 DEF Work, NothingSkipped
  <2>7. QED
    BY <2>4, <2>6 DEF Work
<1>7. CASE HandlerFails(d)
  <2> DEFINE s == [this EXCEPT !.step = "running", !.failed = TRUE,
                               !.todo = this.todo \ {First(this.todo)}]
  <2>1. s.step = "running" /\ s.failed
    BY <1>1 DEF DispatchStates
  <2>2. disp' = [disp EXCEPT ![d] = s] /\ done' = done /\ row' = row
    BY <1>7 DEF HandlerFails
  <2> HIDE DEF s
  <2>3. AllCovered'
    BY <1>1, <2>1, <2>2, OthersCover
  <2>4. QED
    BY <1>3, <2>2, <2>3 DEF Work
<1>8. CASE Mark(d)
  <2> DEFINE s == [this EXCEPT !.step = "running", !.todo = this.todo \ {First(this.todo)}]
  <2>1. /\ s.step = "running" /\ s.todo = this.todo \ {First(this.todo)}
        /\ s.failed = this.failed /\ s.left = this.left
    BY <1>1 DEF DispatchStates
  <2>2. disp' = [disp EXCEPT ![d] = s] /\ done' = done
    BY <1>8 DEF Mark
  <2>3. /\ First(this.todo) \in done
        /\ ~this.failed /\ ~this.left => Handlers \subseteq done \cup this.todo
    BY <1>1, <1>8 DEF Mark, Covers
  <2> HIDE DEF s
  <2>4. AllCovered'
    BY <1>1, <2>1, <2>2, <2>3, OthersCover
  <2>5. row'.handledBy = row.handledBy \cup {First(this.todo)} /\ row'.processed = row.processed
    BY <1>1, <1>8 DEF Mark, RowStates
  <2>6. NothingSkipped'
    BY <2>2, <2>3, <2>5 DEF Work, NothingSkipped
  <2>7. QED
    BY <2>4, <2>6 DEF Work
<1>9. CASE Release(d) \/ Fail(d)
  <2>1. row'.handledBy = row.handledBy /\ row'.processed = row.processed
    BY <1>1, <1>9 DEF Release, Fail, RowStates
  <2>2. QED
    BY <1>1, <1>3, <1>9, <2>1, IdleCovers DEF Release, Fail, End, Work
<1>10. CASE Done(d)
  <2>1. Handlers \subseteq done
    BY <1>1, <1>10 DEF Done, Finished, Covers
  <2>2. row'.handledBy = row.handledBy /\ done' = done
    BY <1>1, <1>10 DEF Done, RowStates
  <2>3. NothingSkipped'
    BY <1>1, <2>1, <2>2 DEF Work, NothingSkipped
  <2>4. QED
    BY <1>1, <1>10, <2>2, <2>3, IdleCovers DEF Done, End, Work
<1>11. QED
  BY <1>4, <1>5, <1>6, <1>7, <1>8, <1>9, <1>10 DEF Proceed

LEMMA WorkStep == Typed /\ Work /\ [Next]_vars => Work'
<1> SUFFICES ASSUME Typed, Work, [Next]_vars PROVE Work'
  OBVIOUS
<1>1. row \in RowStates /\ AllCovered
  BY DEF Typed, TypeOK, Work
<1>2. ASSUME done' = done, row'.handledBy = row.handledBy, row'.processed = row.processed
      PROVE  NothingSkipped'
  BY <1>2 DEF Work, NothingSkipped
<1>3. CASE Tick
  <2>1. done' = done /\ row'.handledBy = row.handledBy /\ row'.processed = row.processed
    BY <1>1, <1>3 DEF Tick, RowStates
  <2>2. ASSUME NEW e \in Dispatchers PROVE Covers(e)'
    <3>1. Covers(e) /\ disp[e] \in DispatchStates
      BY <1>1 DEF AllCovered, Typed, TypeOK
    <3>2. /\ disp'[e].step = disp[e].step /\ disp'[e].todo = disp[e].todo
          /\ disp'[e].failed = disp[e].failed /\ disp'[e].left = disp[e].left
      BY <1>3, <3>1 DEF Tick, DispatchStates
    <3>3. QED
      BY <2>1, <3>1, <3>2 DEF Covers
  <2>3. QED
    BY <1>2, <2>1, <2>2 DEF Work, AllCovered
<1>4. ASSUME NEW d \in Dispatchers, Request(d) PROVE Work'
  BY <1>1, <1>2, <1>4, StartCovers DEF Request, Work
<1>5. ASSUME NEW d \in Dispatchers, Sweep(d) PROVE Work'
  BY <1>1, <1>2, <1>5, StartCovers DEF Sweep, Work
<1>6. ASSUME NEW d \in Dispatchers, Deliver(d) PROVE Work'
  BY <1>1, <1>2, <1>6, StartCovers DEF Deliver, Work
<1>7. ASSUME NEW d \in Dispatchers, forceEvent(d) PROVE Work'
  <2>1. row'.handledBy = row.handledBy /\ row'.processed = row.processed
    BY <1>1, <1>7 DEF forceEvent, RowStates
  <2>2. QED
    BY <1>1, <1>2, <1>7, <2>1, StartCovers DEF forceEvent, Work
<1>8. ASSUME NEW d \in Dispatchers, Crash(d) PROVE Work'
  BY <1>1, <1>2, <1>8, IdleCovers DEF Crash, End, Work
<1>9. CASE UNCHANGED vars
  BY <1>9 DEF vars, Work, NothingSkipped, AllCovered, Covers
<1>10. QED
  BY <1>3, <1>4, <1>5, <1>6, <1>7, <1>8, <1>9, ProceedWorks DEF Next

\* In any instance, an event is processed only when every handler has succeeded, and a handler is
\* on the record only after it has: no overlap of dispatches loses one (dispatchEvent).
THEOREM NothingIsSkipped == Spec => []NothingSkipped
<1>1. Init => Work
  BY DEF Init, Work, NothingSkipped, AllCovered, Covers, Idle
<1>2. Work => NothingSkipped
  BY DEF Work
<1>3. QED
  BY <1>1, <1>2, WorkStep, TypedAlways, PTL DEF Spec
-----------------------------------------------------------------------------
(* While leases are kept: no dispatch outlives its lease. *)

\* The lease a claim takes is longer than a dispatch may run (LEASE_MS).
LeaseOutlasts == Lease > MaxRun

Holds(s) == s.step \in {"running", "handled"}

\* A dispatch that runs still has its lease, and what it read of the row is what the row says.
KeepsLease(d) ==
    Holds(disp[d]) =>
        /\ row.lease + disp[d].age >= Lease
        /\ Unsettled
        /\ disp[d].saw = row.attempts
        /\ disp[d].todo \cap row.handledBy = {}

OneHolds == \A d, e \in Dispatchers : Holds(disp[d]) /\ Holds(disp[e]) => d = e

LeasesKept == OneHolds /\ (\A d \in Dispatchers : KeepsLease(d)) /\ GivenUpAtTheCap

\* The lease of a dispatch that runs has not run out.
LEMMA HolderIsLeased ==
    ASSUME LeaseOutlasts, Typed, NEW d \in Dispatchers, KeepsLease(d), Holds(disp[d])
    PROVE  row.lease > 0
<1>1. disp[d].age \in 0..MaxRun /\ row.lease \in -MaxRun..Lease
  BY DEF Typed, TypeOK, DispatchStates, RowStates, Leases
<1>2. QED
  BY <1>1, TimesAssumption DEF KeepsLease, LeaseOutlasts

\* Whoever finds the row without a lease finds nobody running.
LEMMA NobodyHolds ==
    ASSUME LeaseOutlasts, Typed, LeasesKept, row.lease <= 0
    PROVE  \A d \in Dispatchers : ~Holds(disp[d])
<1>1. row.lease \in -MaxRun..Lease
  BY DEF Typed, TypeOK, RowStates, Leases
<1>2. QED
  BY <1>1, HolderIsLeased, TimesAssumption DEF LeasesKept

\* Only d moved, and whoever runs besides it saw the row it still sees.
LEMMA OneMoves ==
    ASSUME Typed, LeasesKept, NEW d \in Dispatchers, NEW s, disp' = [disp EXCEPT ![d] = s],
           GivenUpAtTheCap',
           Holds(s) => \A e \in Dispatchers \ {d} : ~Holds(disp[e]),
           KeepsLease(d)',
           row' = row \/ \A e \in Dispatchers \ {d} : ~Holds(disp[e])
    PROVE  LeasesKept'
<1>1. \A e \in Dispatchers : disp'[e] = IF e = d THEN s ELSE disp[e]
  BY DEF Typed, TypeOK
<1>2. OneHolds'
  BY <1>1 DEF LeasesKept, OneHolds
<1>3. ASSUME NEW e \in Dispatchers PROVE KeepsLease(e)'
  BY <1>1 DEF LeasesKept, KeepsLease, Unsettled
<1>4. QED
  BY <1>2, <1>3 DEF LeasesKept

\* d stops, or has not claimed yet.
LEMMA WithoutIt ==
    ASSUME Typed, LeasesKept, NEW d \in Dispatchers, NEW s, disp' = [disp EXCEPT ![d] = s], ~Holds(s),
           GivenUpAtTheCap', row' = row \/ \A e \in Dispatchers \ {d} : ~Holds(disp[e])
    PROVE  LeasesKept'
<1>1. disp'[d] = s
  BY DEF Typed, TypeOK
<1>2. KeepsLease(d)'
  BY <1>1 DEF KeepsLease
<1>3. QED
  BY <1>2, OneMoves

LEMMA IdleHoldsNothing == ~Holds(Idle)
BY DEF Idle, Holds

\* A dispatch that runs is alone.
LEMMA Alone ==
    ASSUME LeasesKept, NEW d \in Dispatchers, Holds(disp[d])
    PROVE  \A e \in Dispatchers \ {d} : ~Holds(disp[e])
BY DEF LeasesKept, OneHolds

LEMMA ProceedKeeps ==
    ASSUME LeaseOutlasts, Typed, LeasesKept, NEW d \in Dispatchers, Proceed(d)
    PROVE  LeasesKept'
<1> DEFINE this == disp[d]
<1>1. /\ this \in DispatchStates /\ WellMade(this) /\ row \in RowStates
      /\ KeepsLease(d) /\ GivenUpAtTheCap
  BY DEF Typed, TypeOK, Capped, LeasesKept
<1>2. row' = row => GivenUpAtTheCap'
  BY <1>1 DEF GivenUpAtTheCap
<1>3. CASE Claim(d)
  <2> DEFINE todo == (Handlers \ row.handledBy) \cap Mine(d)
             s == [this EXCEPT !.step = "running", !.todo = todo,
                               !.left = (todo # Handlers \ row.handledBy), !.saw = row.attempts]
  <2>1. /\ Behind(d) \in 0..MaxRun /\ Behind(d) \in {0, this.age} /\ this.age \in 0..MaxRun
    BY <1>1, TimesAssumption DEF Behind, DispatchStates
  <2>2. row.lease <= 0 /\ Unsettled
    <3>1. row.lease \in -MaxRun..Lease
      BY <1>1 DEF RowStates, Leases
    <3>2. row.lease <= -Behind(d) /\ Unsettled
      BY <1>3 DEF Claim, Claimable
    <3>3. QED
      BY <2>1, <3>1, <3>2, TimesAssumption
  <2>3. \A e \in Dispatchers : ~Holds(disp[e])
    BY <2>2, NobodyHolds
  <2>4. disp' = [disp EXCEPT ![d] = s] /\ disp'[d] = s
    BY <1>3 DEF Claim, Typed, TypeOK
  <2>5. s.age = this.age /\ s.saw = row.attempts /\ s.todo = todo
    BY <1>1 DEF DispatchStates
  <2>6. /\ row'.lease = Lease - Behind(d) /\ row'.processed = row.processed /\ row'.failed = row.failed
        /\ row'.attempts = row.attempts /\ row'.handledBy = row.handledBy
    BY <1>1, <1>3 DEF Claim, RowStates
  <2>7. GivenUpAtTheCap'
    BY <1>1, <2>6 DEF GivenUpAtTheCap
  <2> HIDE DEF s
  <2>8. row'.lease + disp'[d].age >= Lease
    BY <2>1, <2>4, <2>5, <2>6, TimesAssumption
  <2>9. KeepsLease(d)'
    BY <2>2, <2>4, <2>5, <2>6, <2>8 DEF KeepsLease, Unsettled
  <2>10. QED
    BY <2>3, <2>4, <2>7, <2>9, OneMoves
<1>4. CASE Skip(d) \/ Lost(d)
  BY <1>2, <1>4, IdleHoldsNothing, WithoutIt DEF Skip, Lost, End
<1>5. CASE HandlerSucceeds(d)
  <2> DEFINE s == [this EXCEPT !.step = "handled"]
  <2>1. Holds(this) /\ disp' = [disp EXCEPT ![d] = s] /\ disp'[d] = s /\ row' = row
    BY <1>5 DEF HandlerSucceeds, Holds, Typed, TypeOK
  <2>2. s.age = this.age /\ s.saw = this.saw /\ s.todo = this.todo
    BY <1>1 DEF DispatchStates
  <2> HIDE DEF s
  <2>3. KeepsLease(d)'
    BY <1>1, <2>1, <2>2 DEF KeepsLease, Unsettled
  <2>4. QED
    BY <1>2, <2>1, <2>3, Alone, OneMoves
<1>6. CASE HandlerFails(d)
  <2> DEFINE s == [this EXCEPT !.step = "running", !.failed = TRUE,
                               !.todo = this.todo \ {First(this.todo)}]
  <2>1. Holds(this) /\ disp' = [disp EXCEPT ![d] = s] /\ disp'[d] = s /\ row' = row
    BY <1>6 DEF HandlerFails, Holds, Typed, TypeOK
  <2>2. s.age = this.age /\ s.saw = this.saw /\ s.todo \subseteq this.todo
    BY <1>1 DEF DispatchStates
  <2> HIDE DEF s
  <2>3. KeepsLease(d)'
    BY <1>1, <2>1, <2>2 DEF KeepsLease, Unsettled
  <2>4. QED
    BY <1>2, <2>1, <2>3, Alone, OneMoves
<1>7. CASE Mark(d)
  <2> DEFINE s == [this EXCEPT !.step = "running", !.todo = this.todo \ {First(this.todo)}]
  <2>1. Holds(this) /\ disp' = [disp EXCEPT ![d] = s] /\ disp'[d] = s
    BY <1>7 DEF Mark, Holds, Typed, TypeOK
  <2>2. s.age = this.age /\ s.saw = this.saw /\ s.todo = this.todo \ {First(this.todo)}
    BY <1>1 DEF DispatchStates
  <2>3. /\ row'.lease = row.lease /\ row'.processed = row.processed /\ row'.failed = row.failed
        /\ row'.attempts = row.attempts /\ row'.handledBy = row.handledBy \cup {First(this.todo)}
    BY <1>1, <1>7 DEF Mark, RowStates
  <2> HIDE DEF s
  <2>4. KeepsLease(d)'
    BY <1>1, <2>1, <2>2, <2>3 DEF KeepsLease, Unsettled
  <2>5. GivenUpAtTheCap'
    BY <1>1, <2>3 DEF GivenUpAtTheCap
  <2>6. QED
    BY <2>1, <2>4, <2>5, Alone, OneMoves
<1>8. CASE Release(d) \/ Done(d) \/ Fail(d)
  <2>1. Holds(this) /\ Unsettled /\ this.saw = row.attempts
    BY <1>1, <1>8 DEF Release, Done, Fail, Finished, Holds, KeepsLease
  <2>2. disp' = [disp EXCEPT ![d] = Idle]
    BY <1>8 DEF Release, Done, Fail, End
  <2>3. GivenUpAtTheCap'
    <3>1. CASE Release(d)
      <4>1. /\ row'.processed = row.processed /\ row'.failed = row.failed
            /\ row'.attempts = row.attempts
        BY <1>1, <3>1 DEF Release, RowStates
      <4>2. QED
        BY <1>1, <4>1 DEF GivenUpAtTheCap
    <3>2. CASE Done(d)
      <4>1. row'.failed = row.failed /\ row'.attempts = row.attempts
        BY <1>1, <3>2 DEF Done, RowStates
      <4>2. QED
        BY <1>1, <2>1, <4>1 DEF GivenUpAtTheCap, Unsettled
    <3>3. CASE Fail(d)
      <4>1. /\ row'.processed = row.processed /\ row'.attempts = this.saw + 1
            /\ row'.failed <=> (this.saw + 1 >= MaxAttempts) \/ row.failed
        BY <1>1, <3>3 DEF Fail, RowStates
      <4>2. QED
        BY <2>1, <4>1 DEF GivenUpAtTheCap, Unsettled
    <3>4. QED
      BY <1>8, <3>1, <3>2, <3>3
  <2>4. QED
    BY <2>1, <2>2, <2>3, Alone, IdleHoldsNothing, WithoutIt
<1>9. QED
  BY <1>3, <1>4, <1>5, <1>6, <1>7, <1>8 DEF Proceed

\* The lease runs down as fast as the dispatch grows old.
LEMMA TickKeeps ==
    ASSUME LeaseOutlasts, Typed, LeasesKept, Tick
    PROVE  LeasesKept'
<1>1. row \in RowStates /\ disp \in [Dispatchers -> DispatchStates]
  BY DEF Typed, TypeOK
<1>2. /\ row'.processed = row.processed /\ row'.failed = row.failed
      /\ row'.attempts = row.attempts /\ row'.handledBy = row.handledBy
      /\ row.lease > -MaxRun => row'.lease = row.lease - 1
  BY <1>1 DEF Tick, RowStates
<1>3. ASSUME NEW d \in Dispatchers
      PROVE  /\ disp'[d].step = disp[d].step /\ disp'[d].saw = disp[d].saw
             /\ disp'[d].todo = disp[d].todo
             /\ disp[d].step # "idle" => disp'[d].age = disp[d].age + 1
  <2>1. CASE disp[d] = Idle
    BY <2>1 DEF Tick, Idle
  <2>2. CASE disp[d] # Idle
    BY <1>1, <2>2 DEF Tick, DispatchStates
  <2>3. QED
    BY <2>1, <2>2
<1>4. ASSUME NEW d \in Dispatchers PROVE KeepsLease(d)'
  <2>1. KeepsLease(d)
    BY DEF LeasesKept
  <2>2. Holds(disp[d]) => row'.lease + disp'[d].age >= Lease
    <3>1. SUFFICES ASSUME Holds(disp[d]) PROVE row'.lease + disp'[d].age >= Lease
      OBVIOUS
    <3>2. row.lease > 0 /\ row.lease \in -MaxRun..Lease /\ disp[d].age \in 0..MaxRun
      BY <1>1, <2>1, <3>1, HolderIsLeased DEF RowStates, Leases, DispatchStates
    <3>3. row'.lease = row.lease - 1 /\ disp'[d].age = disp[d].age + 1
      BY <1>2, <1>3, <3>1, <3>2, TimesAssumption DEF Holds
    <3>4. row.lease + disp[d].age >= Lease
      BY <2>1, <3>1 DEF KeepsLease
    <3>5. QED
      BY <3>2, <3>3, <3>4, TimesAssumption
  <2>3. QED
    BY <1>2, <1>3, <2>1, <2>2 DEF KeepsLease, Holds, Unsettled
<1>5. GivenUpAtTheCap'
  BY <1>2 DEF LeasesKept, GivenUpAtTheCap
<1>6. OneHolds'
  BY <1>3 DEF LeasesKept, OneHolds, Holds
<1>7. QED
  BY <1>4, <1>5, <1>6 DEF LeasesKept

LEMMA LeasesStep == ASSUME LeaseOutlasts PROVE Typed /\ LeasesKept /\ [Next]_vars => LeasesKept'
<1> SUFFICES ASSUME Typed, LeasesKept, [Next]_vars PROVE LeasesKept'
  OBVIOUS
<1>1. row' = row => GivenUpAtTheCap'
  BY DEF LeasesKept, GivenUpAtTheCap
<1>2. ASSUME NEW d \in Dispatchers, NEW kind, NEW fenced, NEW routed, Start(d, kind, fenced, routed)
      PROVE  \E s : ~Holds(s) /\ disp' = [disp EXCEPT ![d] = s]
  <2> DEFINE s == [Idle EXCEPT !.kind = kind, !.step = "called", !.fenced = fenced, !.routed = routed]
  <2>1. ~Holds(s) /\ disp' = [disp EXCEPT ![d] = s]
    BY <1>2 DEF Start, Holds, Idle
  <2> HIDE DEF s
  <2>2. QED
    BY <2>1
<1>3. ASSUME NEW d \in Dispatchers, Request(d) \/ Sweep(d) \/ Deliver(d) PROVE LeasesKept'
  <2>1. row' = row /\ \E s : ~Holds(s) /\ disp' = [disp EXCEPT ![d] = s]
    BY <1>2, <1>3 DEF Request, Sweep, Deliver
  <2>2. QED
    BY <1>1, <2>1, WithoutIt
<1>4. ASSUME NEW d \in Dispatchers, forceEvent(d) PROVE LeasesKept'
  <2>1. row.lease <= 0 /\ \E s : ~Holds(s) /\ disp' = [disp EXCEPT ![d] = s]
    BY <1>2, <1>4 DEF forceEvent
  <2>2. \A e \in Dispatchers : ~Holds(disp[e])
    BY <2>1, NobodyHolds
  <2>3. GivenUpAtTheCap'
    <3>1. /\ ~row.processed /\ row'.processed = row.processed /\ row'.failed = FALSE
          /\ row'.attempts = IF row.failed THEN 0 ELSE row.attempts
      BY <1>4 DEF forceEvent, Typed, TypeOK, RowStates
    <3>2. QED
      BY <3>1, TimesAssumption DEF LeasesKept, GivenUpAtTheCap
  <2>4. QED
    BY <2>1, <2>2, <2>3, WithoutIt
<1>5. ASSUME NEW d \in Dispatchers, Crash(d) PROVE LeasesKept'
  BY <1>1, <1>5, IdleHoldsNothing, WithoutIt DEF Crash, End
<1>6. CASE UNCHANGED vars
  BY <1>6 DEF vars, LeasesKept, OneHolds, KeepsLease, Unsettled, GivenUpAtTheCap
<1>7. QED
  BY <1>3, <1>4, <1>5, <1>6, ProceedKeeps, TickKeeps DEF Next

LEMMA LeasesInit == Init => LeasesKept
<1>1. ASSUME Init PROVE \A d \in Dispatchers : ~Holds(disp[d])
  BY <1>1, IdleHoldsNothing DEF Init
<1>2. Init => GivenUpAtTheCap
  BY TimesAssumption DEF Init, GivenUpAtTheCap
<1>3. QED
  BY <1>1, <1>2 DEF LeasesKept, OneHolds, KeepsLease

\* While no dispatch outlives its lease, an event is given up exactly when its attempts reach the
\* cap, and is never also processed (dispatchEvent, forceEvent).
THEOREM GivenUpExactlyAtTheCap == ASSUME LeaseOutlasts PROVE Spec => []GivenUpAtTheCap
<1>1. LeasesKept => GivenUpAtTheCap
  BY DEF LeasesKept
<1>2. QED
  BY <1>1, LeasesInit, LeasesStep, TypedAlways, PTL DEF Spec

\* While no dispatch outlives its lease, a handler the row records is not run again, whatever
\* fails, crashes or is delivered twice.
THEOREM RecordedHandlersRest == ASSUME LeaseOutlasts PROVE Spec => RunsRecordedOnce
<1>1. ASSUME Typed, LeasesKept, NEW d \in Dispatchers, HandlerSucceeds(d)
      PROVE  First(disp[d].todo) \notin row.handledBy
  <2>1. disp[d].todo \cap row.handledBy = {} /\ disp[d].todo # {}
    BY <1>1 DEF HandlerSucceeds, LeasesKept, KeepsLease, Holds
  <2>2. disp[d].todo \subseteq Nat
    BY <1>1, HandlersAssumption DEF Typed, TypeOK, DispatchStates
  <2>3. QED
    BY <2>1, <2>2, FirstIsOne
<1>2. Typed /\ LeasesKept /\ [Next]_vars =>
        [\A d \in Dispatchers : HandlerSucceeds(d) => First(disp[d].todo) \notin row.handledBy]_vars
  BY <1>1
<1>3. QED
  BY <1>2, LeasesInit, LeasesStep, TypedAlways, PTL DEF Spec, RunsRecordedOnce

\* Whoever runs is the one that claimed the row last.
HolderOwns == \A d \in Dispatchers : Holds(disp[d]) => owner = d

LEMMA HolderOwnsStep ==
    ASSUME LeaseOutlasts
    PROVE  Typed /\ LeasesKept /\ HolderOwns /\ [Next]_vars => HolderOwns'
<1> SUFFICES ASSUME Typed, LeasesKept, HolderOwns, [Next]_vars, NEW d \in Dispatchers,
                    Holds(disp'[d])
             PROVE  owner' = d
  BY DEF HolderOwns
<1>1. disp \in [Dispatchers -> DispatchStates]
  BY DEF Typed, TypeOK
<1>2. CASE \E e \in Dispatchers : Claim(e)
  <2>1. PICK e \in Dispatchers : Claim(e)
    BY <1>2
  <2>2. owner' = e /\ Holds(disp'[e])
    BY <1>1, <2>1 DEF Claim, Holds, DispatchStates
  <2>3. OneHolds'
    BY LeasesStep DEF LeasesKept
  <2>. QED
    BY <2>2, <2>3 DEF OneHolds
<1>3. CASE \A e \in Dispatchers : ~Claim(e)
  <2>1. owner' = owner
    BY <1>3 DEF Next, Tick, Request, Sweep, Deliver, forceEvent, Proceed, Skip, HandlerSucceeds,
                HandlerFails, Mark, Lost, Release, Done, Fail, Crash, vars
  <2>2. Holds(disp[d])
    <3>1. ~Holds(Idle) /\ Idle.step = "idle"
      BY DEF Holds, Idle
    <3>2. CASE Tick
      BY <1>1, <3>1, <3>2 DEF Tick, Holds, DispatchStates
    <3>3. ASSUME NEW e \in Dispatchers, Request(e) \/ Sweep(e) \/ Deliver(e) \/ forceEvent(e)
          PROVE  Holds(disp[d])
      <4>1. PICK kind, fenced, routed : Start(e, kind, fenced, routed)
        BY <3>3 DEF Request, Sweep, Deliver, forceEvent
      <4>2. [Idle EXCEPT !.kind = kind, !.step = "called", !.fenced = fenced, !.routed = routed].step
              = "called"
        BY DEF Idle
      <4>3. d # e
        BY <1>1, <4>1, <4>2 DEF Start, Holds
      <4>. QED
        BY <1>1, <4>1, <4>3 DEF Start, Holds
    <3>4. ASSUME NEW e \in Dispatchers, Skip(e) \/ Lost(e) \/ Release(e) \/ Done(e) \/ Fail(e)
                                        \/ Crash(e)
          PROVE  Holds(disp[d])
      BY <1>1, <3>1, <3>4 DEF Skip, Lost, Release, Done, Fail, Crash, End
    <3>5. ASSUME NEW e \in Dispatchers, HandlerSucceeds(e) \/ HandlerFails(e) \/ Mark(e)
          PROVE  Holds(disp[d])
      BY <1>1, <3>5 DEF HandlerSucceeds, HandlerFails, Mark, Holds
    <3>6. CASE UNCHANGED vars
      BY <3>6 DEF vars
    <3>. QED
      BY <1>3, <3>2, <3>3, <3>4, <3>5, <3>6 DEF Next, Proceed
  <2>. QED
    BY <2>1, <2>2 DEF HolderOwns
<1>. QED
  BY <1>2, <1>3

\* While no dispatch outlives its lease, only the dispatch that claimed the row last writes on it,
\* fenced or not: what the run `event_takeover` refutes is a matter of leases that run out.
THEOREM NobodyIsTakenOver == ASSUME LeaseOutlasts PROVE Spec => TakenOverCannotFinish
<1>1. Init => HolderOwns
  BY IdleHoldsNothing DEF Init, HolderOwns
<1>2. HolderOwns => \A d \in Dispatchers : Writes(d) => owner = d
  BY DEF HolderOwns, Holds, Writes, Mark, Release, Done, Fail, Finished
<1>3. HolderOwns /\ [Next]_vars => [\A d \in Dispatchers : Writes(d) => owner = d]_vars
  BY <1>2
<1>. QED
  BY <1>1, <1>3, HolderOwnsStep, LeasesInit, LeasesStep, TypedAlways, PTL DEF Spec, TakenOverCannotFinish

-----------------------------------------------------------------------------
(* While leases are kept, the row does what Outbox promises. *)

\* What the running dispatch has left, with what is on the record, is everything, unless a handler
\* of its failed or is left to others.
Accounts(d) ==
    Holds(disp[d]) /\ ~disp[d].failed /\ ~disp[d].left => Handlers \subseteq row.handledBy \cup disp[d].todo

OutboxInv == Typed /\ LeasesKept /\ \A d \in Dispatchers : Accounts(d)

\* Only d moved, and the record only grew.
LEMMA AccountsMoved ==
    ASSUME OutboxInv, NEW d \in Dispatchers, NEW s, disp' = [disp EXCEPT ![d] = s],
           row.handledBy \subseteq row'.handledBy,
           Holds(s) /\ ~s.failed /\ ~s.left => Handlers \subseteq row'.handledBy \cup s.todo
    PROVE  \A e \in Dispatchers : Accounts(e)'
<1>1. \A e \in Dispatchers : disp'[e] = IF e = d THEN s ELSE disp[e]
  BY DEF OutboxInv, Typed, TypeOK
<1>. QED
  BY <1>1 DEF OutboxInv, Accounts

LEMMA ProceedAccounts ==
    ASSUME OutboxInv, NEW d \in Dispatchers, Proceed(d)
    PROVE  \A e \in Dispatchers : Accounts(e)'
<1> DEFINE this == disp[d]
<1>1. this \in DispatchStates /\ row \in RowStates /\ Accounts(d)
  BY DEF OutboxInv, Typed, TypeOK
<1>2. CASE Claim(d)
  <2> DEFINE todo == (Handlers \ row.handledBy) \cap Mine(d)
             s == [this EXCEPT !.step = "running", !.todo = todo,
                               !.left = (todo # Handlers \ row.handledBy), !.saw = row.attempts]
  <2>1. disp' = [disp EXCEPT ![d] = s] /\ row'.handledBy = row.handledBy
    BY <1>1, <1>2 DEF Claim, RowStates, OutboxInv, Typed, TypeOK
  <2>2. s.todo = todo /\ (~s.left => todo = Handlers \ row.handledBy)
    BY <1>1 DEF DispatchStates
  <2>3. ~s.left => Handlers \subseteq row.handledBy \cup s.todo
    BY <2>2
  <2> HIDE DEF s
  <2>. QED
    BY <2>1, <2>3, AccountsMoved
<1>3. CASE Skip(d) \/ Lost(d) \/ Release(d) \/ Done(d) \/ Fail(d)
  <2>1. disp' = [disp EXCEPT ![d] = Idle] /\ row'.handledBy = row.handledBy
    BY <1>1, <1>3 DEF Skip, Lost, Release, Done, Fail, End, RowStates
  <2>. QED
    BY <2>1, IdleHoldsNothing, AccountsMoved
<1>4. CASE HandlerSucceeds(d)
  <2> DEFINE s == [this EXCEPT !.step = "handled"]
  <2>1. disp' = [disp EXCEPT ![d] = s] /\ row' = row /\ Holds(this)
    BY <1>4 DEF HandlerSucceeds, Holds, OutboxInv, Typed, TypeOK
  <2>2. s.todo = this.todo /\ s.failed = this.failed /\ s.left = this.left
    BY <1>1 DEF DispatchStates
  <2> HIDE DEF s
  <2>. QED
    BY <1>1, <2>1, <2>2, AccountsMoved DEF Accounts
<1>5. CASE HandlerFails(d)
  <2> DEFINE s == [this EXCEPT !.step = "running", !.failed = TRUE,
                               !.todo = this.todo \ {First(this.todo)}]
  <2>1. disp' = [disp EXCEPT ![d] = s] /\ row' = row
    BY <1>5 DEF HandlerFails, OutboxInv, Typed, TypeOK
  <2>2. s.failed
    BY <1>1 DEF DispatchStates
  <2> HIDE DEF s
  <2>. QED
    BY <2>1, <2>2, AccountsMoved
<1>6. CASE Mark(d)
  <2> DEFINE s == [this EXCEPT !.step = "running", !.todo = this.todo \ {First(this.todo)}]
  <2>1. disp' = [disp EXCEPT ![d] = s] /\ Holds(this)
    BY <1>6 DEF Mark, Holds, OutboxInv, Typed, TypeOK
  <2>2. row'.handledBy = row.handledBy \cup {First(this.todo)}
    BY <1>1, <1>6 DEF Mark, RowStates
  <2>3. s.todo = this.todo \ {First(this.todo)} /\ s.failed = this.failed /\ s.left = this.left
    BY <1>1 DEF DispatchStates
  <2> HIDE DEF s
  <2>. QED
    BY <1>1, <2>1, <2>2, <2>3, AccountsMoved DEF Accounts
<1>. QED
  BY <1>2, <1>3, <1>4, <1>5, <1>6 DEF Proceed

LEMMA OutboxStep == ASSUME LeaseOutlasts PROVE OutboxInv /\ [Next]_vars => OutboxInv'
<1> SUFFICES ASSUME OutboxInv, [Next]_vars PROVE OutboxInv'
  OBVIOUS
<1>1. row \in RowStates
  BY DEF OutboxInv, Typed, TypeOK
<1>2. ASSUME NEW d \in Dispatchers, Request(d) \/ Sweep(d) \/ Deliver(d) \/ forceEvent(d)
      PROVE  \A e \in Dispatchers : Accounts(e)'
  <2>1. PICK kind, fenced, routed : Start(d, kind, fenced, routed)
    BY <1>2 DEF Request, Sweep, Deliver, forceEvent
  <2> DEFINE s == [Idle EXCEPT !.kind = kind, !.step = "called", !.fenced = fenced, !.routed = routed]
  <2>2. disp' = [disp EXCEPT ![d] = s] /\ ~Holds(s)
    BY <2>1 DEF Start, Holds, Idle
  <2>3. row'.handledBy = row.handledBy
    BY <1>1, <1>2 DEF Request, Sweep, Deliver, forceEvent, RowStates
  <2> HIDE DEF s
  <2>. QED
    BY <2>2, <2>3, AccountsMoved
<1>3. ASSUME NEW d \in Dispatchers, Crash(d) PROVE \A e \in Dispatchers : Accounts(e)'
  BY <1>3, IdleHoldsNothing, AccountsMoved DEF Crash, End
<1>4. ASSUME Tick PROVE \A e \in Dispatchers : Accounts(e)'
  <2>1. row'.handledBy = row.handledBy
    BY <1>1, <1>4 DEF Tick, RowStates
  <2>2. ASSUME NEW d \in Dispatchers PROVE Accounts(d)'
    <3>1. disp[d] \in DispatchStates
      BY DEF OutboxInv, Typed, TypeOK
    <3>2. disp'[d] = IF disp[d] = Idle THEN Idle ELSE [disp[d] EXCEPT !.age = @ + 1]
      BY <1>4 DEF Tick
    <3>3. CASE disp[d] = Idle
      BY <3>2, <3>3, IdleHoldsNothing DEF Accounts
    <3>4. CASE disp[d] # Idle
      <4>1. /\ disp'[d].step = disp[d].step /\ disp'[d].failed = disp[d].failed
            /\ disp'[d].left = disp[d].left /\ disp'[d].todo = disp[d].todo
        BY <3>1, <3>2, <3>4 DEF DispatchStates
      <4>. QED
        BY <2>1, <4>1 DEF OutboxInv, Accounts, Holds
    <3>. QED
      BY <3>3, <3>4
  <2>. QED
    BY <2>2
<1>5. ASSUME UNCHANGED vars PROVE \A e \in Dispatchers : Accounts(e)'
  BY <1>5 DEF vars, OutboxInv, Accounts
<1>6. \A e \in Dispatchers : Accounts(e)'
  BY <1>2, <1>3, <1>4, <1>5, ProceedAccounts DEF Next
<1>. QED
  BY <1>6, NextTyped, LeasesStep DEF OutboxInv

\* A finished dispatch that failed counts the round it was.
LEMMA FailPromised ==
    ASSUME OutboxInv, NEW d \in Dispatchers, Fail(d)
    PROVE  Promise!FailRound
<1>1. disp[d] \in DispatchStates /\ row \in RowStates /\ WellMade(disp[d])
  BY DEF OutboxInv, Typed, TypeOK, Capped
<1>2. Unsettled /\ disp[d].saw = row.attempts
  BY <1>1 DEF Fail, Finished, Holds, OutboxInv, LeasesKept, KeepsLease
<1>3. /\ row'.processed = row.processed /\ row'.handledBy = row.handledBy
      /\ row'.attempts = row.attempts + 1
      /\ row'.failed = (row.attempts + 1 >= MaxAttempts \/ row.failed)
  BY <1>1, <1>2 DEF Fail, RowStates
<1>4. row.attempts \in Nat /\ MaxAttempts \in Nat /\ row.attempts < MaxAttempts
  BY <1>1, <1>2, TimesAssumption DEF WellMade, RowStates
<1>5. row.attempts + 1 >= MaxAttempts <=> row.attempts + 1 = MaxAttempts
  BY <1>4
<1>. QED
  BY <1>2, <1>3, <1>4, <1>5 DEF Promise!FailRound, Unsettled

LEMMA ProceedPromised ==
    ASSUME LeaseOutlasts, OutboxInv, NEW d \in Dispatchers, Proceed(d)
    PROVE  [Promise!Next]_(Promise!vars)
<1> DEFINE this == disp[d]
<1>1. this \in DispatchStates /\ row \in RowStates /\ Accounts(d) /\ KeepsLease(d)
  BY DEF OutboxInv, Typed, TypeOK, LeasesKept
<1>2. CASE Claim(d) \/ Skip(d) \/ HandlerSucceeds(d) \/ HandlerFails(d) \/ Lost(d) \/ Release(d)
  <2>1. /\ row'.processed = row.processed /\ row'.failed = row.failed
        /\ row'.handledBy = row.handledBy /\ row'.attempts = row.attempts
    BY <1>1, <1>2 DEF Claim, Skip, HandlerSucceeds, HandlerFails, Lost, Release, RowStates
  <2>. QED
    BY <2>1 DEF Promise!vars
<1>3. CASE Mark(d)
  <2> DEFINE h == First(this.todo)
  <2>1. Unsettled /\ this.todo \cap row.handledBy = {} /\ this.todo # {}
    BY <1>1, <1>3 DEF Mark, Holds, KeepsLease, OutboxInv, Typed, Capped, WellMade
  <2>2. h \in this.todo /\ h \in Handlers
    BY <1>1, <2>1, FirstIsOne, HandlersAssumption DEF DispatchStates
  <2>3. /\ row'.processed = row.processed /\ row'.failed = row.failed
        /\ row'.handledBy = row.handledBy \cup {h} /\ row'.attempts = row.attempts
    BY <1>1, <1>3 DEF Mark, RowStates
  <2>4. Promise!Record(h)
    BY <2>1, <2>2, <2>3 DEF Promise!Record, Unsettled
  <2>. QED
    BY <2>2, <2>4 DEF Promise!Next
<1>4. CASE Done(d)
  <2>1. Unsettled /\ Handlers \subseteq row.handledBy
    BY <1>1, <1>4 DEF Done, Finished, Holds, KeepsLease, Accounts
  <2>2. row.handledBy = Handlers
    BY <1>1, <2>1 DEF RowStates
  <2>3. /\ row'.processed /\ row'.failed = row.failed
        /\ row'.handledBy = row.handledBy /\ row'.attempts = row.attempts
    BY <1>1, <1>4 DEF Done, RowStates
  <2>4. Promise!Process
    BY <2>1, <2>2, <2>3 DEF Promise!Process, Unsettled
  <2>. QED
    BY <2>4 DEF Promise!Next
<1>5. CASE Fail(d)
  BY <1>5, FailPromised DEF Promise!Next
<1>. QED
  BY <1>2, <1>3, <1>4, <1>5 DEF Proceed

LEMMA NextPromised ==
    ASSUME LeaseOutlasts PROVE OutboxInv /\ [Next]_vars => [Promise!Next]_(Promise!vars)
<1> SUFFICES ASSUME OutboxInv, [Next]_vars PROVE [Promise!Next]_(Promise!vars)
  OBVIOUS
<1>1. row \in RowStates
  BY DEF OutboxInv, Typed, TypeOK
<1>2. ASSUME NEW d \in Dispatchers, forceEvent(d) PROVE [Promise!Next]_(Promise!vars)
  <2>1. /\ ~row.processed /\ row'.processed = row.processed /\ ~row'.failed
        /\ row'.handledBy = row.handledBy
        /\ row'.attempts = IF row.failed THEN 0 ELSE row.attempts
    BY <1>1, <1>2 DEF forceEvent, RowStates
  <2>2. CASE row.failed
    BY <2>1, <2>2 DEF Promise!Next, Promise!BeginAgain
  <2>3. CASE ~row.failed
    BY <2>1, <2>3 DEF Promise!vars
  <2>. QED
    BY <2>2, <2>3
<1>3. ASSUME NEW d \in Dispatchers, Request(d) \/ Sweep(d) \/ Deliver(d) \/ Crash(d)
      PROVE  [Promise!Next]_(Promise!vars)
  BY <1>3 DEF Request, Sweep, Deliver, Crash, Promise!vars
<1>4. CASE Tick
  <2>1. /\ row'.processed = row.processed /\ row'.failed = row.failed
        /\ row'.handledBy = row.handledBy /\ row'.attempts = row.attempts
    BY <1>1, <1>4 DEF Tick, RowStates
  <2>. QED
    BY <2>1 DEF Promise!vars
<1>5. CASE UNCHANGED vars
  BY <1>5 DEF vars, Promise!vars
<1>. QED
  BY <1>2, <1>3, <1>4, <1>5, ProceedPromised DEF Next

\* While no dispatch outlives its lease, the row of an event changes only as Outbox promises:
\* handlers are recorded once each, it is processed when all are, and every failed round counts.
THEOREM DispatchImplementsOutbox == ASSUME LeaseOutlasts PROVE Spec => ActsAsOutbox
<1>1. Init => OutboxInv
  BY InitTyped, LeasesInit, IdleHoldsNothing DEF OutboxInv, Accounts, Init
<1>2. Init => Promise!Init
  BY DEF Init, Promise!Init
<1>. QED
  BY <1>1, <1>2, OutboxStep, NextPromised, PTL DEF Spec, ActsAsOutbox, Promise!Spec
=============================================================================
