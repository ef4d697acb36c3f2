-------------------------- MODULE PracticePuzzles --------------------------
(***************************************************************************)
(* How the background task of one study plan gets its theme from the model *)
(* and its two practice puzzles from Lichess or from the library:          *)
(* coach/study_plan/verdict.py, lichess_puzzles.py, library.py and the two *)
(* _populate steps of agent.py.  A puzzle is what the choice depends on;   *)
(* texts and positions are left out.                                       *)
(***************************************************************************)
EXTENDS Naturals, FiniteSets, Sequences

CONSTANTS Library,     \* the corpus: records [id, theme, skill]
          Upstream,    \* Lichess: records [id, mine, multi, rating]
          Named,       \* THEME_VOCABULARY without "generic"
          Angled,      \* those with a Lichess angle
          SkillLevels, \* how many difficulty bands a skill may be: 1..3
          FetchBudget  \* _max_fetches

ASSUME PracticeAssumption ==
    /\ Angled \subseteq Named /\ "generic" \notin Named
    /\ IsFiniteSet(Library) /\ Library \intersect Upstream = {}
    /\ \A p \in Library : p.theme \in Named \cup {"generic"} /\ p.skill \in SkillLevels
    /\ \A p \in Upstream : {p.mine, p.multi} \subseteq BOOLEAN /\ p.rating \in Nat
    /\ SkillLevels \subseteq 1..3 /\ FetchBudget \in Nat

VARIABLES want,    \* the plan's player and category: [skill, weak]
          stage,   \* of the task
          theme,   \* plan.theme
          asked,   \* the difficulty bands asked for, in order
          tried,   \* calls of the model
          matched, \* what the hunt has kept
          week     \* the practice puzzles of day 3 and 7, or <<>>

practiceVars == <<want, stage, theme, asked, tried, matched, week>>

PracticeInit ==
    /\ want = [skill |-> 1, weak |-> {}] /\ stage = "new" /\ theme = "generic"
    /\ asked = <<>> /\ tried = 0 /\ matched = <<>> /\ week = <<>>

\* The rating band of the player and the themes of the dominant category.
Anchor ==
    /\ stage = "new"
    /\ \E s \in SkillLevels, w \in SUBSET Named : want' = [skill |-> s, weak |-> w]
    /\ stage' = "verdict"
    /\ UNCHANGED <<theme, asked, tried, matched, week>>

\* generate_verdict: a rejected answer is asked for once more, a failed call is
\* not; an unknown theme without an alias is "generic".
Classify ==
    /\ stage = "verdict"
    /\ \/ /\ \E th \in Named \cup {"generic"} : theme' = th
          /\ stage' = "hunt" /\ tried' = tried + 1
       \/ stage' = "hunt" /\ tried' = tried + 1 /\ UNCHANGED theme
       \/ /\ tried' = tried + 1 /\ UNCHANGED theme
          /\ stage' = IF tried = 0 THEN "verdict" ELSE "hunt"
    /\ UNCHANGED <<want, asked, matched, week>>

-----------------------------------------------------------------------------
\* fetch_side_matched_variants.

\* _difficulty_order over the bands 1..5: the player's own (2, 3 or 4), the ones
\* above it, then the ones below, nearest first.
Own(skill) == skill + 1
DifficultyOrder(skill) ==
    [i \in 1..5 |-> IF i + Own(skill) - 1 <= 5 THEN i + Own(skill) - 1 ELSE 6 - i]

ManyMoves(s) == {i \in DOMAIN s : s[i].multi}
EnoughMatched == Cardinality(ManyMoves(matched)) >= 2

Hunting == stage = "hunt" /\ theme \in Angled
    /\ ~EnoughMatched /\ Len(asked) < FetchBudget
AskBand == asked' = Append(asked, DifficultyOrder(want.skill)[(Len(asked) % 5) + 1])

Kept(p) == p.mine /\ p \notin {matched[i] : i \in DOMAIN matched}

\* One call: a puzzle, a failure that is stepped over, or a rate limit (or an
\* unexpected error) that ends the hunt.
Fetch ==
    /\ Hunting /\ AskBand
    /\ \/ /\ \E p \in Upstream : matched' = IF Kept(p) THEN Append(matched, p) ELSE matched
          /\ UNCHANGED stage
       \/ UNCHANGED <<matched, stage>>
       \/ stage' = "pick" /\ UNCHANGED matched
    /\ UNCHANGED <<want, theme, tried, week>>

HuntOver ==
    /\ stage = "hunt" /\ ~Hunting
    /\ stage' = "pick"
    /\ UNCHANGED <<want, theme, asked, tried, matched, week>>

\* (multi + single)[:2], sorted by rating.
Ahead(s, i, j) == IF s[i].multi = s[j].multi THEN i < j ELSE s[i].multi
Place(s, i) == 1 + Cardinality({j \in DOMAIN s : Ahead(s, j, i)})
Nth(s, n) == s[CHOOSE i \in DOMAIN s : Place(s, i) = n]
FirstTwo(s) == IF Nth(s, 2).rating < Nth(s, 1).rating
               THEN <<Nth(s, 2), Nth(s, 1)>> ELSE <<Nth(s, 1), Nth(s, 2)>>

-----------------------------------------------------------------------------
\* The library's selectors; its seeded shuffle is any choice.

\* _filter_by_skill: the player's band or the next one, or all of the pool.
Fitting(pool) ==
    LET near == {p \in pool : p.skill \in (want.skill - 1)..(want.skill + 1)}
    IN IF near = {} THEN pool ELSE near

\* _pick_two_from: a pool left with one puzzle repeats it.
TwoFrom(pool) ==
    LET fit == Fitting(pool)
    IN IF Cardinality(fit) = 1 THEN {<<p, p>> : p \in fit}
       ELSE {pq \in fit \X fit : pq[1] # pq[2]}

OfTheme(ths) == {p \in Library : p.theme \in ths}
Generic == OfTheme({"generic"})

\* The only puzzle of a theme is kept for day 3; day 7 is any other one of the
\* first pool that has one, or the same again.
\* Mutated form: day 7 does not leave the first out.
BackfilledRepeat(p, pools) == {<<p, q>> : q \in UNION {pools[i] : i \in DOMAIN pools}}
Backfilled(p, pools) ==
    LET others == {i \in DOMAIN pools : pools[i] \ {p} # {}}
    IN IF others = {} THEN {<<p, p>>}
       ELSE LET i == CHOOSE i \in others : \A j \in others : i <= j
            IN {<<p, q>> : q \in Fitting(pools[i] \ {p})}

Led(pool, pools) == IF Cardinality(pool) = 1 THEN UNION {Backfilled(p, pools) : p \in pool}
                    ELSE TwoFrom(pool)

\* pick_two_puzzles_theme_first: the theme, then the category, then "generic".
LibraryPairs ==
    LET own == OfTheme({theme} \ {"generic"})  weak == OfTheme(want.weak)
    IN IF own # {} THEN Led(own, <<weak, Generic>>)
       ELSE IF weak # {} THEN Led(weak, <<Generic>>)
       ELSE TwoFrom(Generic)

\* _populate_library_variants: a full pair of Lichess, else the library's; none
\* leaves the mistake on both days, and so does a failed commit.
Pick ==
    /\ stage = "pick"
    /\ stage' = "done"
    /\ \/ IF Len(matched) >= 2 THEN week' = FirstTwo(matched)
          ELSE IF LibraryPairs = {} THEN week' = <<>>
          ELSE \E pq \in LibraryPairs : week' = pq
       \/ week' = <<>>
    /\ UNCHANGED <<want, theme, asked, tried, matched>>

PracticeWork == Classify \/ Fetch \/ HuntOver \/ Pick
PracticeNext == Anchor \/ PracticeWork
PracticeFairness == WF_practiceVars(PracticeWork)
PracticeSpec == PracticeInit /\ [][PracticeNext]_practiceVars /\ PracticeFairness

-----------------------------------------------------------------------------
\* The task stays within its stages, its two calls and its budget of fetches.
PracticeTypeOK ==
    /\ stage \in {"new", "verdict", "hunt", "pick", "done"}
    /\ theme \in Named \cup {"generic"} /\ tried \in 0..2
    /\ asked \in Seq(1..5) /\ Len(asked) <= FetchBudget
    /\ \A i \in DOMAIN matched : matched[i] \in Upstream
    /\ week = <<>> \/ Len(week) = 2

Fetched == week # <<>> /\ week[1] \in Upstream

\* A pair taken from Lichess is two different puzzles of the player's own side,
\* and the week gets harder; one of a single move is in it only when the hunt
\* found less than two longer ones.
WeekRampsUp ==
    Fetched => /\ week[2] \in Upstream /\ week[1] # week[2]
               /\ week[1].mine /\ week[2].mine
               /\ week[1].rating <= week[2].rating
               /\ Cardinality(ManyMoves(matched)) >= 2 => week[1].multi /\ week[2].multi

\* No band below the player's own is asked for before every band above it.
HarderBeforeEasier ==
    \A i \in DOMAIN asked : asked[i] < Own(want.skill) =>
        \A b \in Own(want.skill)..5 : \E j \in 1..(i - 1) : asked[j] = b

\* The days differ whenever a puzzle of the theme, of the category or a generic
\* one could have been taken instead, unless the skill filter left one of several.
RepeatsOnlyWhenStarved ==
    week # <<>> /\ week[1] = week[2] =>
        \/ OfTheme({theme} \cup want.weak \cup {"generic"}) = {week[1]}
        \/ \E ths \in {{theme}, want.weak, {"generic"}} :
              Cardinality(OfTheme(ths)) >= 2 /\ Fitting(OfTheme(ths)) = {week[1]}

\* The hunt ends, whatever Lichess answers.
PracticeSettles == stage = "verdict" ~> stage = "done"

\* The week's puzzles fit the player as well as the sources allow.
PracticeSafe == PracticeTypeOK /\ WeekRampsUp /\ HarderBeforeEasier /\ RepeatsOnlyWhenStarved
=============================================================================
