----------------------------- MODULE CoachReply -----------------------------
(***************************************************************************)
(* One answer of the coach: the retry loops of generate_chat_reply         *)
(* (coach/chat_pipeline.py) and generate_live_reply                        *)
(* (coach/live_move_pipeline.py) around the language model, the Mode-2     *)
(* gates they run, the validation /chat and /live/move repeat at the       *)
(* boundary (validators/explain_response_schema.py) and the deterministic  *)
(* texts both fall back to.  A text is the set of marks the gates look     *)
(* for; the model may answer any of them, or not at all.                   *)
(***************************************************************************)
EXTENDS Naturals, FiniteSets

CONSTANTS Marks,      \* the marks a text may bear, a subset of AllMarks
          MaxRetries  \* config.MAX_MODE_2_RETRIES

\* leak: the output firewall's categories; notation: the lexical patterns;
\* advisory: the structural ones; edge: an advantage word; motif: a bare
\* tactical noun; engine: the engine named; inevitable: the word a mate needs;
\* refusal: a canned "I can only help with chess".
AllMarks == {"leak", "notation", "advisory", "edge", "motif", "engine", "inevitable", "refusal"}
Texts == SUBSET Marks

ASSUME CoachReplyAssumption == MaxRetries \in Nat /\ Marks \subseteq AllMarks

\* extract_engine_signal: a mate is always in the decisive band.  flags: some
\* tactical flag is set; graded: the move quality is known.
Signals == {s \in [mate : BOOLEAN, equal : BOOLEAN, flags : BOOLEAN, graded : BOOLEAN] :
              s.mate => ~s.equal}
Routes == {"chat", "live"}
Styles == {"simple", "intermediate", "advanced"}

VARIABLES route, signal, style,
          forced,   \* force_deterministic: the tier is degraded
          at,       \* where the request is
          tries,    \* model calls made
          reply,    \* the text, when there is one
          byModel,  \* whether the reply is the model's
          leaked,   \* history: the firewall blocked an answer
          counted,  \* chat turns recorded
          exchanges \* rows of the chat history

coachVars == <<route, signal, style, forced, at, tries, reply, byModel, leaked,
               counted, exchanges>>
requestVars == <<route, signal, style, forced>>
effects == <<counted, exchanges>>

\* The variables' types; only /live/move is degraded, and nothing is recorded
\* before the request is over.
CoachTypeOK ==
    /\ route \in Routes /\ signal \in Signals /\ style \in Styles
    /\ forced \in BOOLEAN /\ (forced => route = "live")
    /\ at \in {"new", "asking", "boundary", "fallback", "served", "error"}
    /\ tries \in 0..(MaxRetries + 1)
    /\ reply \subseteq AllMarks
    /\ byModel \in BOOLEAN /\ leaked \in BOOLEAN
    /\ counted \in 0..1 /\ exchanges \in 0..1
    /\ (counted = 1 \/ exchanges = 1) => at = "served" /\ route = "chat"

CoachInit ==
    /\ route = "chat" /\ style = "simple" /\ forced = FALSE
    /\ signal = [mate |-> FALSE, equal |-> TRUE, flags |-> FALSE, graded |-> FALSE]
    /\ at = "new"
    /\ tries = 0 /\ reply = {} /\ byModel = FALSE /\ leaked = FALSE
    /\ counted = 0 /\ exchanges = 0

\* A request arrives, its signal is extracted; a move of a game the tier does
\* not cover goes straight to the deterministic text.
TurnArrives ==
    /\ at = "new"
    /\ route' \in Routes /\ signal' \in Signals /\ style' \in Styles
    /\ forced' \in {route' = "live", FALSE}
    /\ at' = IF forced' THEN "fallback" ELSE "asking"
    /\ UNCHANGED <<tries, reply, byModel, leaked, effects>>

-----------------------------------------------------------------------------
(* The gates *)

Firewalled(t) == "leak" \in t
NegativeGate(t) == "notation" \notin t
StructureGate(t) == "advisory" \notin t

\* validate_mode_2_semantic, the REQUIRE of a mate included.
SemanticGate(t) ==
    /\ signal.equal => "edge" \notin t
    /\ signal.mate => "inevitable" \in t
    /\ "engine" \notin t
    /\ ~signal.flags => "motif" \notin t

\* Mutated form of Accepted: the structural gate is not run in the pipeline.
AcceptedUnstructured(t) == NegativeGate(t) /\ SemanticGate(t)

\* validate_mode_2_or_raise after its first gate, the firewall.
Accepted(t) == NegativeGate(t) /\ StructureGate(t) /\ SemanticGate(t)

\* validate_chat_response and validate_live_move_response on a non-empty text.
Boundary(t) == NegativeGate(t) /\ StructureGate(t) /\ SemanticGate(t)

\* _is_spurious_refusal: the signal is never empty here.
Spurious(t) == "refusal" \in t

-----------------------------------------------------------------------------
(* The deterministic texts: their evaluation sentence *)

\* _format_engine_context and _build_hint's eval_sentence: "Mate is
\* inevitable", "roughly equal" or "has a slight advantage".
EvalSentence ==
    IF signal.mate THEN {"inevitable"} ELSE IF signal.equal THEN {} ELSE {"edge"}

\* SafeExplainer.explain: "Mate is inevitable - you are winning".
SafeExplanation == EvalSentence \union (IF signal.mate THEN {"edge"} ELSE {})

\* _build_reply_deterministic: the sentence, then phrases that bear no mark.
ChatFallback == EvalSentence

\* _build_hint: in the simple style a graded move's comment stands alone unless
\* there is a mate; the advanced style has the explainer's sentence.
LiveFallback ==
    CASE style = "simple" /\ signal.graded /\ ~signal.mate -> {}
      [] style = "advanced" -> SafeExplanation
      [] OTHER -> EvalSentence

FallbackText == IF route = "chat" THEN ChatFallback ELSE LiveFallback

-----------------------------------------------------------------------------
(* The request *)

Goto(s) == at' = s

\* One model call more, or the deterministic text after the last one.
AskAgain ==
    /\ Goto(IF tries = MaxRetries THEN "fallback" ELSE "asking")
    /\ UNCHANGED <<reply, byModel>>

Ship(t) == Goto("boundary") /\ reply' = t /\ byModel' = TRUE

\* The call fails or the answer is empty: chat gives the model up, live asks
\* again.
NoAnswer ==
    /\ at = "asking"
    /\ tries' = tries + 1
    /\ IF route = "chat" THEN Goto("fallback") /\ UNCHANGED <<reply, byModel>>
                         ELSE AskAgain
    /\ UNCHANGED <<requestVars, leaked, effects>>

\* An answer that passes, a refusal aside: chat does not ship one it can still
\* ask about.
Judge(t) ==
    IF ~Accepted(t) \/ (route = "chat" /\ Spurious(t) /\ tries < MaxRetries)
    THEN AskAgain
    ELSE Ship(t)

Block == leaked' = TRUE /\ Goto("fallback") /\ UNCHANGED <<reply, byModel>>

\* Mutated form of Weigh: the firewall is the last gate.
WeighFirewallLast(t) ==
    IF Accepted(t) /\ Firewalled(t) THEN Block
    ELSE leaked' = (leaked \/ Firewalled(t)) /\ Judge(t)

\* The firewall is the first gate, and what it blocks is not asked again.
Weigh(t) == IF Firewalled(t) THEN Block ELSE UNCHANGED leaked /\ Judge(t)

Answers(t) ==
    /\ at = "asking"
    /\ tries' = tries + 1
    /\ Weigh(t)
    /\ UNCHANGED <<requestVars, effects>>

\* The deterministic builder; its text goes through the boundary too.
FallBack ==
    /\ at = "fallback"
    /\ Goto("boundary") /\ reply' = FallbackText /\ byModel' = FALSE
    /\ UNCHANGED <<requestVars, tries, leaked, effects>>

\* A rejected model text is replaced, a rejected deterministic one is a 500.
\* A chat turn is counted once the text is valid and stored when it can be.
Validate ==
    /\ at = "boundary"
    /\ IF Boundary(reply)
       THEN /\ Goto("served")
            /\ counted' \in IF route = "chat" THEN {0, 1} ELSE {0}
            /\ exchanges' \in IF route = "chat" THEN {0, 1} ELSE {0}
       ELSE Goto(IF byModel THEN "fallback" ELSE "error") /\ UNCHANGED effects
    /\ UNCHANGED <<requestVars, tries, reply, byModel, leaked>>

CoachWork == NoAnswer \/ (\E t \in Texts : Answers(t)) \/ FallBack \/ Validate
CoachNext == TurnArrives \/ CoachWork

\* A model call returns or times out (120 s), the rest is the handler's code.
CoachFairness == WF_coachVars(CoachWork)

CoachSpec == CoachInit /\ [][CoachNext]_coachVars /\ CoachFairness

-----------------------------------------------------------------------------
(* Properties *)

\* server.py 1356-1403 and 1963-2000: whatever the model answers, the player
\* gets a text; the deterministic ones pass every gate on every signal, so the
\* second validation never fails.
NeverAnError == at # "error"

\* chat_pipeline.py 791-800: the pipeline's gates accept nothing the boundary
\* rejects, so the substitution at the boundary stays a defence.
GatesAgree == at = "boundary" /\ byModel => Boundary(reply)

\* _mode_2_validators.py 20-25, 36-39: callers must not retry a leak, which
\* holds only because the firewall runs before the gates that are retried.
LeakIsNotRetried == [][leaked => tries' = tries]_coachVars

\* Every request is answered after at most MaxRetries + 1 calls of the model.
EveryoneIsServed == at # "new" ~> at = "served"

\* Whatever the model answers, the player gets one vetted reply.
ReplySafe == CoachTypeOK /\ NeverAnError /\ GatesAgree
=============================================================================
