----------------------------- MODULE CoachPolicy -----------------------------
(***************************************************************************)
(* What a finished game does to its player's rating and to the coach's     *)
(* next step: the accuracy that counts, the Elo update against the         *)
(* adaptive opponent (skills/elo.py, adaptation/), the rules of the        *)
(* post-game controller, and the bandit that observes every decision and,  *)
(* behind a flag, makes it (brain/bandit/decision.py); and the two other   *)
(* sources of a rating: the Lichess profile of a first link and PATCH      *)
(* /auth/me.  The row lock makes the rating update one step; everything    *)
(* else of overlapping requests interleaves.  Confidence and accuracy are  *)
(* in hundredths.                                                          *)
(***************************************************************************)
EXTENDS Integers, Sequences, FiniteSets, SequencesExt

CONSTANTS Finishes,       \* POST /game/finish requests of one player
          Histories,      \* games on record before: imported ones too, as the weak phases of each
          Reports,        \* what a game comes to: result, accuracy, weak phases in order
          StartRatings,
          Profiles,       \* of a Lichess account, its perfs in order of preference
          Estimates,      \* ratings and confidences a client sends
          Established     \* _ESTABLISHED_GAME_THRESHOLD, scaled down

ASSUME CoachPolicyAssumption ==
    /\ IsFiniteSet(Finishes) /\ StartRatings \subseteq 100..3000
    /\ Reports \subseteq [result : {"win", "draw", "loss"}, accuracy : 0..100, weak : Seq(STRING)]
    /\ \A g \in Reports : IsInjective(g.weak)   \* the keys of an object
    /\ Histories \subseteq Seq(Seq(STRING))
    /\ \A h \in Histories : \A i \in DOMAIN h : IsInjective(h[i])
    /\ Profiles \subseteq Seq([games : Nat, rating : Nat, provisional : BOOLEAN])
    /\ Estimates \subseteq [rating : 100..3000, confidence : 0..100]
    /\ Established \in Nat

VARIABLES
    player,   \* the row: rating, confidence, whether it is there
    games,    \* the weak phases of each stored game, oldest first
    fin,      \* fin[f]: how far request f has come
    weights,  \* weights[a]: the bandit_weights row of action a
    seeding,  \* how far the link request is, whether it found the defaults, and PATCH
    policy,   \* the deployment: SECA_USE_BANDIT_COACH, the length of the context vector
    log       \* history: observations, rewards decided, the first rating, overlaps

policyVars == <<player, games, fin, weights, seeding, policy, log>>

Actions == <<"NONE", "REFLECT", "DRILL", "PUZZLE", "PLAN_UPDATE">>  \* _BANDIT_ACTIONS, in order
ActionSet == {Actions[i] : i \in DOMAIN Actions}
NoRow == [n |-> 0, a |-> 0, b |-> 0]
Unsent == [pc |-> "unsent", before |-> 0, confidence |-> 0, result |-> "draw", accuracy |-> 0,
           weak |-> <<>>, reward |-> 0, action |-> "NONE", copy |-> NoRow, shown |-> "NONE"]
InFlight == {f \in Finishes : fin[f].pc \notin {"unsent", "answered"}}
Crossed == InFlight # {} \/ seeding.link = "linking"

Ratings == 100..3000
PlayerRows == [rating : Ratings, confidence : 0..100, there : BOOLEAN]
FinishStages == {"unsent", "stored", "rated", "decided", "loaded", "observed", "answered"}
Seedings == [link : {"unsent", "linking", "linked"}, fresh : BOOLEAN, patched : BOOLEAN]
Deployments == [bandit : BOOLEAN, features : {1, 2}]

\* The variables' types, and: no rating below the floor.
PolicyTypeOK ==
    /\ player \in PlayerRows /\ seeding \in Seedings /\ policy \in Deployments
    /\ \A f \in Finishes :
          fin[f].pc \in FinishStages /\ fin[f].action \in ActionSet /\ fin[f].shown \in ActionSet
    /\ \A a \in ActionSet : weights[a] = NoRow \/ (weights[a].n \in {1, 2} /\ weights[a].a > 1)

PolicyInit ==
    /\ \E r \in StartRatings :
          /\ player = [rating |-> r, confidence |-> 50, there |-> TRUE]
          /\ log = [seen |-> <<>>, rewards |-> 0, first |-> r, overlap |-> FALSE, late |-> FALSE]
    /\ games \in Histories
    /\ fin = [f \in Finishes |-> Unsent]
    /\ weights = [a \in ActionSet |-> NoRow]
    /\ seeding = [link |-> "unsent", fresh |-> FALSE, patched |-> FALSE]
    /\ policy \in [bandit : BOOLEAN, features : {1}]

-----------------------------------------------------------------------------
(* The rating *)

\* compute_adaptation: the engine is set a little above every player below 2400.
OpponentElo(rating) ==
    LET r == IF rating < 400 THEN 400 ELSE IF rating > 2400 THEN 2400 ELSE rating
    IN  600 + (9 * (r - 400)) \div 10

\* expected_score in per cent, in steps of 100 points of difference.
Odds == <<97, 95, 91, 85, 76, 64, 50, 36, 24, 15, 9, 5, 3>>
Expected(rating, opponent) ==
    LET step == (opponent - rating) \div 100
    IN  Odds[7 + (IF step < -6 THEN -6 ELSE IF step > 6 THEN 6 ELSE step)]

KFactor(rating, played) ==
    IF rating >= 2400 THEN 10 ELSE IF played < Established THEN 40 ELSE 20

GameScore(result) == CASE result = "win" -> 100 [] result = "loss" -> 0 [] OTHER -> 50

\* Every stored game but this one counts as played, imported ones too.
RatingDelta(result) ==
    (KFactor(player.rating, Len(games) - 1)
        * (GameScore(result) - Expected(player.rating, OpponentElo(player.rating)))) \div 100

Floored(rating) == IF rating < 100 THEN 100 ELSE rating
Within(c) == IF c < 0 THEN 0 ELSE IF c > 100 THEN 100 ELSE c

-----------------------------------------------------------------------------
(* POST /game/finish *)

\* _resolve_authoritative_accuracy: the engine's figures if it gives any.
Authoritative(engine, claim, truth) == IF engine = "answers" THEN truth ELSE claim

\* The event is stored (one without a move of the player's is refused before); the ratings it is compared with were read before.
StoreGame(f) ==
    /\ fin[f].pc = "unsent" /\ player.there
    /\ \E engine \in {"answers", "absent", "fails"}, claim, truth \in Reports :
          LET counted == Authoritative(engine, claim, truth)
          IN  /\ games' = Append(games, counted.weak)
              /\ fin' = [fin EXCEPT ![f] =
                     [Unsent EXCEPT !.pc = "stored", !.before = player.rating,
                                    !.confidence = player.confidence, !.result = claim.result,
                                    !.accuracy = counted.accuracy, !.weak = counted.weak]]
    /\ log' = [log EXCEPT !.overlap = @ \/ Crossed]
    /\ UNCHANGED <<player, weights, seeding, policy>>

\* SkillUpdater, under the lock of the player's row; its failure is swallowed.
Rate(f) ==
    /\ fin[f].pc = "stored" /\ player.there
    /\ fin' = [fin EXCEPT ![f].pc = "rated"]
    /\ \/ player' = [player EXCEPT !.rating = Floored(@ + RatingDelta(fin[f].result)),
                                   !.confidence = Within(@ + (fin[f].accuracy - 50) \div 10)]
       \/ UNCHANGED player
    /\ UNCHANGED <<games, weights, seeding, policy, log>>

\* Mutated form of LastThree: of the newest keys.
LastThreeAlways(seq) == IF Len(seq) > 3 THEN SubSeq(seq, 1, 3) ELSE seq

\* recent_weaknesses: the keys of the last three games run together, newest game first.
LastThree(seq) == IF Len(seq) > 3 THEN SubSeq(seq, Len(seq) - 2, Len(seq)) ELSE seq
KeysOf(i) == IF i \in DOMAIN games THEN games[i] ELSE <<>>
RecentWeaknesses == LET n == Len(games) IN KeysOf(n) \o KeysOf(n - 1) \o KeysOf(n - 2)
Repeated(keys) ==
    LET last == LastThree(keys) IN Len(last) = 3 /\ Cardinality({last[i] : i \in DOMAIN last}) = 1

\* PostGameCoachController.decide.
Decision(f, delta) ==
    CASE delta > 20 -> "REFLECT"
      [] delta < -20 /\ fin[f].weak # <<>> -> "DRILL"
      [] player.confidence < fin[f].confidence - 5 -> "PUZZLE"
      [] delta \in -4..4 /\ player.confidence >= fin[f].confidence -> "NONE"
      [] Repeated(RecentWeaknesses) -> "PLAN_UPDATE"
      [] OTHER -> "NONE"

\* The row is read again after the update: what others made of it counts as well.
Reward(f) == player.rating - fin[f].before

Decide(f) ==
    /\ fin[f].pc = "rated" /\ player.there
    /\ LET reward == Reward(f)
       IN  /\ fin' = [fin EXCEPT ![f] = [Unsent EXCEPT !.pc = "decided", !.reward = reward,
                                                     !.action = Decision(f, reward)]]
           /\ log' = [log EXCEPT !.rewards = @ + reward]
    /\ UNCHANGED <<player, games, weights, seeding, policy>>

-----------------------------------------------------------------------------
(* The bandit: every store call is a transaction of its own *)

\* Mutated form of LoadOrInit: a row of another context is taken up.
LoadAnyRow(row) ==
    IF row = NoRow THEN [n |-> policy.features, a |-> 1, b |-> 0] ELSE [row EXCEPT !.n = policy.features]

\* _load_or_init: with one feature, A is one plus the observations and b their sum.
LoadOrInit(row) == IF row.n # policy.features THEN [n |-> policy.features, a |-> 1, b |-> 0] ELSE row

LoadWeights(f) ==
    /\ fin[f].pc = "decided"
    /\ fin' = [fin EXCEPT ![f].pc = "loaded", ![f].copy = LoadOrInit(weights[fin[f].action])]
    /\ UNCHANGED <<player, games, weights, seeding, policy, log>>

Noted(f) == [Unsent EXCEPT !.pc = "observed", !.action = fin[f].action]

SaveWeights(f) ==
    /\ fin[f].pc = "loaded"
    /\ weights' = [weights EXCEPT ![fin[f].action] =
           [fin[f].copy EXCEPT !.a = @ + 1, !.b = @ + fin[f].reward]]
    /\ log' = [log EXCEPT !.seen = Append(@, [action |-> fin[f].action, n |-> fin[f].copy.n,
                                               reward |-> fin[f].reward])]
    /\ fin' = [fin EXCEPT ![f] = Noted(f)]
    /\ UNCHANGED <<player, games, seeding, policy>>

\* Whatever goes wrong in the observation, the finish goes on; a load that fails
\* leaves what a save that fails leaves.
ObservationFails(f) ==
    /\ fin[f].pc = "loaded"
    /\ fin' = [fin EXCEPT ![f] = Noted(f)]
    /\ UNCHANGED <<player, games, weights, seeding, policy, log>>

\* The exploration bonus, a thousandth of alpha over the root of A.
Exploration(a) == <<1000, 707, 577, 500>>[IF a > 4 THEN 4 ELSE a]
UcbScore(row) == LET w == LoadOrInit(row) IN (1000 * w.b) \div w.a + Exploration(w.a)

\* select_action: the best score, the first listed of equals.
Selected ==
    Actions[CHOOSE i \in DOMAIN Actions :
               \A j \in DOMAIN Actions :
                  LET best == UcbScore(weights[Actions[i]]) other == UcbScore(weights[Actions[j]])
                  IN  best > other \/ (best = other /\ i <= j)]

AnswerFinish(f) ==
    /\ fin[f].pc = "observed"
    /\ fin' = [fin EXCEPT ![f] =
           [Unsent EXCEPT !.pc = "answered", !.shown = IF policy.bandit THEN Selected ELSE fin[f].action]]
    /\ UNCHANGED <<player, games, weights, seeding, policy, log>>

-----------------------------------------------------------------------------
(* A first link, and the onboarding estimate *)

\* Neither a game nor an estimate has moved the player from where accounts start.
IsDefault == player.rating = 1200 /\ player.confidence = 50

\* The rating of the perf is bounded, its age tells how much to rely on it.
Calibrated(perf) ==
    [player EXCEPT
        !.rating = Max({600, Min({3000, perf.rating})}),
        !.confidence = CASE perf.provisional -> 40
                         [] perf.games >= 200 -> 85
                         [] perf.games >= 50 -> 70
                         [] OTHER -> 50]

\* The player's row after the link: as the first perf with a game has it.
AfterLink(perfs) ==
    LET eligible == {i \in DOMAIN perfs : perfs[i].games > 0}
    IN  IF seeding.fresh /\ eligible # {} THEN Calibrated(perfs[Min(eligible)]) ELSE player

\* The row moves for another reason than a game.
Moved(row, meanwhile) ==
    /\ player' = row
    /\ log' = [log EXCEPT !.first = @ + row.rating - player.rating, !.overlap = @ \/ meanwhile]

\* link_account reads the player's row with its first query, without a lock.
BeginLink ==
    /\ seeding.link = "unsent" /\ player.there
    /\ seeding' = [seeding EXCEPT !.link = "linking", !.fresh = IsDefault]
    /\ log' = [log EXCEPT !.overlap = @ \/ Crossed]
    /\ UNCHANGED <<player, games, fin, weights, policy>>

\* It writes what it has made of that, or fails for an account erased meanwhile.
Link ==
    /\ seeding.link = "linking"
    /\ seeding' = [seeding EXCEPT !.link = "linked", !.fresh = FALSE]
    /\ IF player.there THEN \E perfs \in Profiles : Moved(AfterLink(perfs), InFlight # {})
       ELSE UNCHANGED <<player, log>>
    /\ UNCHANGED <<games, fin, weights, policy>>

\* PATCH /auth/me.
UpdateMe ==
    /\ player.there /\ ~seeding.patched
    /\ seeding' = [seeding EXCEPT !.patched = TRUE]
    /\ \E e \in Estimates :
          Moved([player EXCEPT !.rating = e.rating, !.confidence = e.confidence], Crossed)
    /\ UNCHANGED <<games, fin, weights, policy>>

-----------------------------------------------------------------------------
(* Around it *)

\* The account is erased.  A finish that has not decided fails at its next read of
\* the player's row, one that has goes on.
ErasePlayer ==
    /\ player.there
    /\ player' = [rating |-> 100, confidence |-> 0, there |-> FALSE]
    /\ games' = <<>>
    /\ weights' = [a \in ActionSet |-> NoRow]
    /\ fin' = [f \in Finishes |->
           IF fin[f].pc \in {"stored", "rated"} THEN [Unsent EXCEPT !.pc = "answered"] ELSE fin[f]]
    /\ log' = [log EXCEPT !.late = \E f \in Finishes : fin[f].pc \in {"decided", "loaded"},
                          !.seen = <<>>, !.rewards = 0]
    /\ UNCHANGED <<seeding, policy>>

\* A deployment with a longer context vector.
LengthenContext ==
    /\ policy.features = 1 /\ InFlight = {}
    /\ policy' = [policy EXCEPT !.features = 2]
    /\ UNCHANGED <<player, games, fin, weights, seeding, log>>

\* What can move the rating, and everything that does not need a link or an estimate.
RatingNext ==
    \/ \E f \in Finishes : StoreGame(f) \/ Rate(f) \/ Decide(f)
    \/ BeginLink \/ Link \/ UpdateMe \/ ErasePlayer
PolicyNext ==
    \/ \E f \in Finishes :
          \/ StoreGame(f) \/ Rate(f) \/ Decide(f)
          \/ LoadWeights(f) \/ SaveWeights(f) \/ ObservationFails(f) \/ AnswerFinish(f)
    \/ ErasePlayer \/ LengthenContext
PolicySpec == PolicyInit /\ [][RatingNext \/ PolicyNext]_policyVars

-----------------------------------------------------------------------------
(* Properties *)

\* The observations of an action in a context of n features, by their places in the log,
\* and what the rewards of some of them come to.
Observations(a, n) == {i \in DOMAIN log.seen : log.seen[i].action = a /\ log.seen[i].n = n}
SumRewards(S) ==
    LET sum[i \in 0..Len(log.seen)] ==
            IF i = 0 THEN 0 ELSE sum[i - 1] + (IF i \in S THEN log.seen[i].reward ELSE 0)
    IN  sum[Len(log.seen)]

\* What the bandit has learned about an action is made of whole observations under
\* the present context, none twice, and of all of them unless requests overlapped.
WeightsAreObservations ==
    player.there => \A a \in ActionSet : weights[a] # NoRow =>
        \E S \in SUBSET Observations(a, weights[a].n) :
            /\ weights[a].a = 1 + Cardinality(S) /\ weights[a].b = SumRewards(S)
            /\ log.overlap \/ S = Observations(a, weights[a].n)

\* The learning deltas handed out are what the rating has moved in all, but for
\* requests that overlapped.
RewardsAddUp ==
    player.there /\ ~log.overlap /\ (\A f \in InFlight : fin[f].pc \notin {"stored", "rated"})
        => log.rewards = player.rating - log.first

\* Two of the controller's rules never fire for one game alone: the engine plays at
\* or above its player's rating, so no loss costs more than 20 points, and no
\* accuracy costs more than 0.05 of confidence.
DrillsNeedOverlap ==
    ~log.overlap => \A f \in Finishes : fin[f].action \notin {"DRILL", "PUZZLE"}

\* import_service.py 1056-1059: "we do not overwrite real SECA rating data with a
\* third-party Elo": what a link overwrites is a rating and a confidence that still
\* are the ones accounts start with, unless a finish or an estimate came while the
\* link ran.  Who has come back to exactly these is taken for a new player.
OwnRatingKept ==
    [][seeding.link = "linking" /\ player.there /\ player'.there /\ player' # player
          /\ seeding'.link = "linked"
          => log.overlap \/ IsDefault]_policyVars

\* The study plan changes only for a player whose last three games have a weakness
\* in common, the only one of the two older games, though the rule sees the
\* games' keys run together.
PlanFollowsPattern ==
    [][\A f \in Finishes :
          fin'[f].action = "PLAN_UPDATE" /\ fin[f].action # "PLAN_UPDATE" =>
              LET n == Len(games)
              IN  /\ n >= 3 /\ Len(games[n - 1]) = 1 /\ games[n - 2] = games[n - 1]
                  /\ games[n] # <<>> /\ Last(games[n]) = games[n - 1][1]]_policyVars

\* With the flag on, an action that has cost its players rating is not shown while
\* there is one that nothing is known of.
BurnedNotRepeated ==
    [][\A f \in Finishes :
          policy.bandit /\ fin[f].pc = "observed" /\ fin'[f].pc = "answered"
              /\ LoadOrInit(weights[fin'[f].shown]).b < 0
              => \A a \in ActionSet : LoadOrInit(weights[a]).a > 1]_policyVars

\* No weights outlive the account, unless a request was between its decision and
\* the save when the account went.
ErasedLeavesNothing ==
    ~player.there /\ ~log.late => \A a \in ActionSet : weights[a] = NoRow

\* What is learned from the finished games is what happened in them.
PolicySafe ==
    PolicyTypeOK /\ RewardsAddUp /\ WeightsAreObservations /\ DrillsNeedOverlap
    /\ ErasedLeavesNothing

\* What no step of a finish, a link or a decision may do.
PolicySteps == OwnRatingKept /\ PlanFollowsPattern /\ BurnedNotRepeated
=============================================================================
