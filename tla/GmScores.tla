------------------------------- MODULE GmScores -------------------------------
(***************************************************************************)
(* The kept score of one GM: the ratings of the tables they ran, the         *)
(* gm_scores row a trigger marks stale at each one, and the pages that work   *)
(* the score out again and keep it (ratings/service.ts, closeAccount,        *)
(* drizzle/0032_gm_score_cache.sql).                                         *)
(*                                                                         *)
(* A page reads the row, then the ratings, then writes: three steps.  A       *)
(* rating and its trigger are one, and so is the closing of the account.      *)
(* A score is the set of ratings it was worked out from.                     *)
(***************************************************************************)
EXTENDS Integers, FiniteSets

CONSTANTS
    Ratings,    \* what the players of the GM's tables may give: one each, final
    Pages,      \* requests that show the GM's score
    MayClose,   \* whether the GM may close their account
    MaxMonth    \* bound of the clock

ASSUME GmScoresAssumption ==
    /\ IsFiniteSet(Ratings) /\ MayClose \in BOOLEAN /\ MaxMonth \in Nat

VARIABLES
    given,   \* the ratings rows of the GM's tables
    score,   \* the gm_scores row
    page,    \* Pages -> what each read
    closed,  \* the account was closed
    month

scoreVars == <<given, score, page, closed, month>>

NoScore == [kept |-> FALSE, version |-> 0, computed |-> 0, month |-> 0, of |-> {}]
NoPage == [step |-> "none", version |-> 0, month |-> 0, of |-> {}]

ScoresTypeOK ==
    /\ given \subseteq Ratings
    /\ score \in [kept: BOOLEAN, version: Nat, computed: Nat, month: Nat, of: SUBSET Ratings]
    /\ page \in [Pages -> [step: {"none", "row", "ratings"}, version: Nat, month: Nat,
                           of: SUBSET Ratings]]
    /\ closed \in BOOLEAN /\ month \in 0..MaxMonth

-----------------------------------------------------------------------------
\* gm_score_touch: the row is made, or its version raised.
touch ==
    IF score.kept THEN [score EXCEPT !.version = @ + 1]
    ELSE [kept |-> TRUE, version |-> 1, computed |-> 0, month |-> 0, of |-> {}]

submitRating(r) ==
    /\ r \notin given
    /\ given' = given \cup {r} /\ score' = touch
    /\ UNCHANGED <<page, closed, month>>

\* The ratings go and each raises the version, then the row goes: one transaction.
closeGm ==
    /\ MayClose /\ ~closed
    /\ closed' = TRUE /\ given' = {} /\ score' = NoScore
    /\ UNCHANGED <<page, month>>

UpToDate(m) == score.kept /\ score.month = m /\ score.version = score.computed

\* A row of this month that no rating made stale is served as it is.  Otherwise its version is
\* remembered, before the ratings are read.
readRow(p) ==
    /\ page[p] = NoPage /\ ~UpToDate(month)
    /\ page' = [page EXCEPT ![p] = [NoPage EXCEPT !.step = "row", !.version = score.version,
                                                  !.month = month]]
    /\ UNCHANGED <<given, score, closed, month>>

readRatings(p) ==
    /\ page[p].step = "row"
    /\ page' = [page EXCEPT ![p].step = "ratings", ![p].of = given]
    /\ UNCHANGED <<given, score, closed, month>>

\* Mistake: the write does not look at the version.
KeptAnyway(q) ==
    [score EXCEPT !.kept = TRUE, !.version = IF score.kept THEN @ ELSE q.version,
                  !.computed = IF score.kept THEN score.version ELSE q.version,
                  !.month = q.month, !.of = q.of]

\* The upsert: a new row, or the row whose version is still the one that was read.
Kept(q) ==
    IF ~score.kept \/ score.version = q.version
    THEN [kept |-> TRUE, version |-> q.version, computed |-> q.version, month |-> q.month, of |-> q.of]
    ELSE score

keepScore(p) ==
    /\ page[p].step = "ratings"
    /\ score' = Kept(page[p])
    /\ page' = [page EXCEPT ![p] = NoPage]
    /\ UNCHANGED <<given, closed, month>>

\* The write fails, or the request dies.
dropScore(p) ==
    /\ page[p] # NoPage
    /\ page' = [page EXCEPT ![p] = NoPage]
    /\ UNCHANGED <<given, score, closed, month>>

MonthTurns ==
    /\ month < MaxMonth /\ month' = month + 1
    /\ UNCHANGED <<given, score, page, closed>>

-----------------------------------------------------------------------------
ScoresInit ==
    /\ given = {} /\ score = NoScore /\ page = [p \in Pages |-> NoPage]
    /\ closed = FALSE /\ month = 0

ScoresNext ==
    \/ \E r \in Ratings : submitRating(r)
    \/ \E p \in Pages : readRow(p) \/ readRatings(p) \/ keepScore(p) \/ dropScore(p)
    \/ closeGm \/ MonthTurns

ScoresSpec == ScoresInit /\ [][ScoresNext]_scoreVars

-----------------------------------------------------------------------------
(* Properties. *)

\* The score every page is served from the table is worked out from all the ratings of the GM: one
\* that arrives while a page works leaves the row stale, as long as the account is not closed.
ServedScoreIsCurrent ==
    ~closed /\ score.kept /\ score.version = score.computed => score.of = given

=============================================================================
