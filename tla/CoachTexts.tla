------------------------------ MODULE CoachTexts ------------------------------
(***************************************************************************)
(* The texts the model writes ahead of being read: the cards and the       *)
(* closing verdict of a game review (review/writer.py), and the theme and  *)
(* note of a study plan (coach/study_plan/verdict.py).  Every text has one *)
(* attempt and one hinted retry, a chain of gates, and a deterministic     *)
(* fallback; a text is known here by the faults a reader would find in it. *)
(***************************************************************************)
EXTENDS Naturals, Sequences

CONSTANTS CardPlies,      \* the ply of each card, in card order
          Signalled,  \* plies the engine has a signal for
          Themes, Aliases \* THEME_VOCABULARY, _THEME_ALIASES

ASSUME CoachTextsAssumption ==
    /\ CardPlies \in Seq(Nat)
    /\ "generic" \in Themes /\ \A a \in DOMAIN Aliases : Aliases[a] \in Themes

VARIABLE prose

\* What can be wrong with a text: nothing in it, too long for its place, notation or
\* advice, the vocabulary of the engine, a claim the position does not bear out, a leak.
Faults == {"blank", "long", "notation", "engine", "invented", "leak"}

\* The study reply is a JSON object, perhaps fenced.  Case and separators of its
\* theme are folded, so a tag stands for all its spellings.
Shapes == {"bare", "fenced", "not_json", "not_object", "untyped"}
Tags == Themes \union DOMAIN Aliases \union {"unheard_of"}
Replies == [shape : Shapes, tag : Tags, faults : SUBSET Faults]

NoText == [source |-> "none", faults |-> {}, ply |-> 0]

TextsInit ==
    \E job \in {"review", "study"} :
        prose = [job |-> job, cards |-> <<>>, verdict |-> NoText, outcome |-> "none",
                 theme |-> "generic", hinted |-> FALSE, refused |-> 0]

Sources == {"llm", "fallback"}
ShownTexts == [source : Sources, faults : SUBSET Faults, ply : {CardPlies[i] : i \in DOMAIN CardPlies} \union {0}]

\* The variable's types: a theme of the vocabulary, whatever the model called it.
TextsTypeOK ==
    /\ prose.job \in {"review", "study"} /\ prose.hinted \in BOOLEAN
    /\ Len(prose.cards) <= Len(CardPlies) /\ \A i \in DOMAIN prose.cards : prose.cards[i] \in ShownTexts
    /\ prose.verdict \in ShownTexts \union {NoText}
    /\ prose.outcome \in {"none", "full", "fallback"}
    /\ prose.theme \in Themes
    /\ prose.refused \in 0..(Len(CardPlies) + 1)

Finished == prose.verdict # NoText
OnCard == prose.job = "review" /\ Len(prose.cards) < Len(CardPlies)
NextPly == CardPlies[Len(prose.cards) + 1]

-----------------------------------------------------------------------------
(* The gates *)

\* _validate_text: the semantic gate needs a signal of the position, which neither
\* verdict has (ply 0).
Gates(ply) == IF ply \in Signalled THEN Faults ELSE Faults \ {"invented"}

\* _parse_and_validate on the theme: a listed one, its folded spelling or its alias.
ThemeOf(reply) ==
    IF reply.tag \in Themes THEN reply.tag
    ELSE IF reply.tag \in DOMAIN Aliases THEN Aliases[reply.tag] ELSE "generic"

Readable(reply) == reply.shape \in {"bare", "fenced"}

-----------------------------------------------------------------------------
(* One text *)

\* Mutated form of TextsOutcome: the verdict alone decides.
TextsOutcomeOf(cards, verdict) == IF verdict.source = "llm" THEN "full" ELSE "fallback"

\* KEY_OUTCOME.
TextsOutcome(cards, verdict) ==
    IF verdict.source = "llm" /\ \A i \in DOMAIN cards : cards[i].source = "llm"
    THEN "full" ELSE "fallback"

\* The text takes its place, and the next one starts from an unhinted prompt.
Settled(text) ==
    IF OnCard THEN [prose EXCEPT !.cards = Append(@, text), !.hinted = FALSE]
    ELSE [prose EXCEPT !.verdict = text, !.hinted = FALSE,
                       !.outcome = IF prose.job = "review" THEN TextsOutcome(prose.cards, text) ELSE "none"]

Place == IF OnCard THEN NextPly ELSE 0

\* The fallback text, or the plan's empty note: trusted by construction.
FellBack == Settled([source |-> "fallback", faults |-> {}, ply |-> Place])

\* generate() raises: no second attempt at a provider that is down.
AfterRefusal == FellBack

ProviderRefuses ==
    /\ ~Finished
    /\ prose' = [AfterRefusal EXCEPT !.refused = @ + 1]

Rejected(text) == IF prose.hinted THEN FellBack ELSE [prose EXCEPT !.hinted = TRUE]

\* _generate_validated for a card or the review's verdict.
WriteText ==
    /\ ~Finished /\ prose.job = "review"
    /\ \E faults \in SUBSET Faults :
          LET text == [source |-> "llm", faults |-> faults, ply |-> Place]
          IN  prose' = IF faults \intersect Gates(Place) = {} THEN Settled(text) ELSE Rejected(text)

\* generate_verdict: the note and its theme stand or fall together.
WriteNote ==
    /\ ~Finished /\ prose.job = "study"
    /\ \E reply \in Replies :
          LET text == [source |-> "llm", faults |-> reply.faults, ply |-> 0]
          IN  prose' = IF Readable(reply) /\ reply.faults \intersect Gates(0) = {}
                       THEN [Settled(text) EXCEPT !.theme = ThemeOf(reply)]
                       ELSE Rejected(text)

TextsNext == WriteText \/ WriteNote \/ ProviderRefuses

TextsSpec == TextsInit /\ [][TextsNext]_prose

-----------------------------------------------------------------------------
(* Properties *)

AllTexts == {prose.cards[i] : i \in DOMAIN prose.cards} \union ({prose.verdict} \ {NoText})

\* A reader of a review or a plan never sees a text with a fault, the retry's
\* included, but for a claim about a position the engine was not there for.
OnlyVettedShown ==
    \A text \in AllTexts : text.faults \subseteq (IF text.ply \in Signalled THEN {} ELSE {"invented"})

\* A finished review says "full" exactly when the model wrote all of it, which is
\* what decides whether it is retried, and its texts are of its cards in order.
OutcomeTellsTruth ==
    prose.job = "review" /\ Finished =>
        /\ [i \in DOMAIN prose.cards |-> prose.cards[i].ply] = CardPlies
        /\ prose.outcome = "full" <=> \A text \in AllTexts : text.source = "llm"

\* A provider that is down costs one call a text, not two.
RefusedOncePerText == prose.refused <= Len(prose.cards) + (IF Finished THEN 1 ELSE 0)

\* The texts of a review or a plan: vetted, labelled as what they are, and asked for
\* once each from a provider that is down.
TextsSafe == TextsTypeOK /\ OnlyVettedShown /\ OutcomeTellsTruth /\ RefusedOncePerText
=============================================================================
