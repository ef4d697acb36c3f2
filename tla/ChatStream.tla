----------------------------- MODULE ChatStream -----------------------------
(***************************************************************************)
(* One POST /chat/stream: the validate-before-emit pipeline of             *)
(* coach/chat_stream_pipeline.py and the SSE generator of llm/server.py    *)
(* that drives it, with the client's panel.  Text is a sequence of words;  *)
(* a gate rejects the phrase "best move" (retried with a hint), the        *)
(* firewall the phrase "key key" (never retried), and a mate requires      *)
(* "inevitable" in the whole reply.  The client may leave at any chunk.    *)
(* Storing the exchange, counting the turn and committing the session's    *)
(* rotation are three steps, each of which may fail and be swallowed.      *)
(***************************************************************************)
EXTENDS Naturals, Sequences

CONSTANTS LookaheadWords,  \* _LOOKAHEAD_WORDS: no gate's phrase is longer
          MaxStreamRetries,
          Tokens,          \* the pieces a provider may send a reply in
          MaxWords         \* bound on the length of a reply

Vocabulary == {"fine", "best", "move", "key", "inevitable"}
Forbidden == <<"best", "move">>
Blocked == <<"key", "key">>

ASSUME ChatStreamAssumption ==
    /\ MaxStreamRetries \in Nat /\ MaxWords \in Nat \ {0}
    /\ LookaheadWords \in Nat
    /\ Tokens \subseteq Seq(Vocabulary) \ {<<>>}
    /\ Len(Forbidden) <= LookaheadWords /\ Len(Blocked) <= LookaheadWords

VARIABLES
    mateShown,  \* the engine signal is a mate: the REQUIRE gate applies
    place,      \* where the generator is
    attempt,
    buffer,     \* the words of this attempt
    emitted,    \* how many of them were forwarded
    anyEmitted, \* chunks of some attempt were forwarded
    panel,      \* what the client shows
    stored,     \* replies persisted, in order
    turns,      \* chat turns recorded
    rotations,  \* commits of the session's new token
    rotationTried, \* rotation_committed: the commit was tried
    terminal,   \* the terminal event that came, "none" before
    swallowed,  \* history: the best-effort steps whose exception was swallowed
    offence     \* history: where the phrase begins that a shown attempt was rejected for

streamVars == <<mateShown, place, attempt, buffer, emitted, anyEmitted, panel,
                stored, turns, rotations, rotationTried, terminal, swallowed, offence>>
outcome == <<stored, turns, rotations, rotationTried, terminal, swallowed>>
pipeline == <<mateShown, attempt, anyEmitted, offence>>
locals == <<buffer, emitted>>

Fallback == <<"fallback">>

ChatStreamInit ==
    /\ mateShown = FALSE
    /\ place = "new" /\ attempt = 0
    /\ buffer = <<>> /\ emitted = 0 /\ anyEmitted = FALSE
    /\ panel = <<>> /\ stored = <<>> /\ turns = 0 /\ rotations = 0
    /\ rotationTried = FALSE /\ terminal = "none" /\ swallowed = {} /\ offence = 0

\* chat_stream: the engine signal is extracted and the first attempt begins.
AskCoach ==
    /\ place = "new"
    /\ place' = "reading" /\ mateShown' \in BOOLEAN
    /\ UNCHANGED <<attempt, buffer, emitted, anyEmitted, panel, outcome, offence>>

Starts(text, words) ==
    {i \in 1..Len(text) : /\ i + Len(words) - 1 <= Len(text)
                          /\ SubSeq(text, i, i + Len(words) - 1) = words}

Has(text, words) == Starts(text, words) # {}
Says(text, word) == \E i \in 1..Len(text) : text[i] = word

\* _safe_emit_boundary: the trailing words stay back.
Held == LookaheadWords

SafeBoundary(text) == IF Len(text) > Held THEN Len(text) - Held ELSE 0

\* live: an attempt streams only while the client has seen nothing.
StillLive == emitted > 0 \/ ~anyEmitted

\* Mutated form of Retry: it does not count.
RetryUncounted ==
    buffer' = <<>> /\ emitted' = 0 /\ place' = "reading" /\ UNCHANGED attempt

\* A rejected attempt is followed by the next one, or by the abort.
Retry ==
    IF attempt < MaxStreamRetries
    THEN /\ attempt' = attempt + 1 /\ buffer' = <<>> /\ emitted' = 0
         /\ place' = "reading"
    ELSE place' = "abort" /\ UNCHANGED <<attempt, buffer, emitted>>

\* What goes on the wire; the client appends it.
\* Mutated form of Send: the chunk starts at the first word each time.
SendAll(text, n) == panel' = panel \o SubSeq(text, 1, n)

Send(text, n) == panel' = panel \o SubSeq(text, emitted + 1, n)

\* The FORBID gates on the whole buffer; then the safe words are forwarded.
Token(words) ==
    /\ place = "reading"
    /\ Len(buffer) + Len(words) <= MaxWords
    /\ LET text == buffer \o words
           upTo == SafeBoundary(text)
           bad == Starts(text, Forbidden) \union Starts(text, Blocked)
       IN IF bad # {}
          THEN /\ offence' = IF emitted > 0 THEN CHOOSE i \in bad : \A j \in bad : i <= j
                             ELSE offence
               /\ IF Has(text, Blocked)
                  THEN place' = "abort" /\ UNCHANGED <<attempt, buffer, emitted>>
                  ELSE Retry
               /\ UNCHANGED <<anyEmitted, panel>>
          ELSE /\ buffer' = text
               /\ IF StillLive /\ upTo > emitted
                  THEN /\ Send(text, upTo)
                       /\ emitted' = upTo /\ anyEmitted' = TRUE
                       /\ place' = "sent"
                  ELSE UNCHANGED <<panel, emitted, anyEmitted, place>>
               /\ UNCHANGED <<attempt, offence>>
    /\ UNCHANGED <<mateShown, outcome>>

\* The provider fails or the prompt can't be built.
Transport ==
    /\ place = "reading"
    /\ place' = "abort"
    /\ UNCHANGED <<mateShown, attempt, buffer, emitted, anyEmitted, panel,
                   outcome, offence>>

\* The stream ends: an empty reply, a mate that is not called inevitable and a
\* spurious refusal are retried; a live reply's held tail is flushed.
EndOfStream(refusal) ==
    /\ place = "reading"
    /\ IF \/ buffer = <<>>
          \/ mateShown /\ ~Says(buffer, "inevitable")
          \/ refusal /\ attempt < MaxStreamRetries
       THEN Retry /\ UNCHANGED panel
       ELSE IF StillLive
       THEN /\ Send(buffer, Len(buffer))
            /\ place' = "flushed"
            /\ UNCHANGED <<attempt, buffer, emitted>>
       ELSE place' = "recovered" /\ UNCHANGED <<attempt, buffer, emitted, panel>>
    /\ UNCHANGED <<mateShown, anyEmitted, outcome, offence>>

\* A terminal event: the reply of a done or a recovered stream is its buffer, that of
\* an abort the deterministic fallback.
FinalReply == IF terminal = "abort" THEN Fallback ELSE buffer

Conclude(event) == terminal' = event /\ place' = "persist"

\* The pipeline has returned or is closed: its locals are gone.
PipelineOver == buffer' = <<>> /\ emitted' = 0

Done ==
    /\ place = "done"
    /\ Conclude("done")
    /\ UNCHANGED <<pipeline, locals, panel, stored, turns, rotations, rotationTried, swallowed>>

Recovered ==
    /\ place = "recovered"
    /\ Conclude("recovered")
    /\ UNCHANGED <<pipeline, locals, panel, stored, turns, rotations, rotationTried, swallowed>>

Abort ==
    /\ place = "abort"
    /\ Conclude("abort") /\ PipelineOver
    /\ UNCHANGED <<pipeline, panel, stored, turns, rotations, rotationTried, swallowed>>

\* The exception of a best-effort step is logged, and the stream goes on.
Swallow(step) == swallowed' = swallowed \union {step}

\* _persist: the exchange is stored, with the terminal's reply.
Persist ==
    /\ place = "persist"
    /\ \/ stored' = Append(stored, FinalReply) /\ UNCHANGED swallowed
       \/ Swallow("persist") /\ UNCHANGED stored
    /\ place' = "record"
    /\ UNCHANGED <<pipeline, locals, panel, turns, rotations, rotationTried, terminal>>

\* _record_turn: the turn is counted, whether or not the exchange was stored.
RecordTurn ==
    /\ place = "record"
    /\ \/ turns' = turns + 1 /\ UNCHANGED swallowed
       \/ Swallow("record") /\ UNCHANGED turns
    /\ place' = IF terminal = "done" THEN "deliver" ELSE "rotate"
    /\ UNCHANGED <<pipeline, locals, panel, stored, rotations, rotationTried, terminal>>

\* Who asks for the rotation first has it: a chunk, or the terminal event.
MayRotate == ~rotationTried

\* _commit_rotation, behind a chunk that is on the wire and behind a terminal event.
CommitRotation ==
    /\ place \in {"sent", "flushed", "rotate"}
    /\ rotationTried' = TRUE
    /\ IF MayRotate
       THEN \/ rotations' = rotations + 1 /\ UNCHANGED swallowed
            \/ Swallow("rotate") /\ UNCHANGED rotations
       ELSE UNCHANGED <<rotations, swallowed>>
    /\ place' = CASE place = "sent" -> "reading"
                  [] place = "flushed" -> "done"
                  [] place = "rotate" -> "deliver"
    /\ UNCHANGED <<pipeline, locals, panel, stored, turns, terminal>>

\* The terminal event reaches the client, which replaces what it has by the reply of
\* an abort-shaped one.
Replace(text) == panel' = text

Deliver ==
    /\ place = "deliver"
    /\ IF terminal = "done" THEN UNCHANGED panel ELSE Replace(FinalReply)
    /\ place' = "ended" /\ PipelineOver
    /\ UNCHANGED <<pipeline, outcome>>

\* The client leaves while an event is being sent: the generator is closed.
Leave ==
    /\ place \in {"sent", "flushed", "deliver"}
    /\ place' = "left" /\ PipelineOver
    /\ UNCHANGED <<pipeline, panel, outcome>>

GeneratorStep == \/ CommitRotation \/ Transport \/ Done \/ Recovered \/ Abort
                 \/ Persist \/ RecordTurn \/ Deliver
                 \/ \E r \in BOOLEAN : EndOfStream(r)
                 \/ \E w \in Tokens : Token(w)

ChatStreamNext == AskCoach \/ GeneratorStep \/ Leave

\* The generator runs while the client reads; a model call ends or times out.
ChatStreamFairness == WF_streamVars(GeneratorStep)

ChatStreamSpec == ChatStreamInit /\ [][ChatStreamNext]_streamVars /\ ChatStreamFairness

-----------------------------------------------------------------------------
(* Properties *)

\* The types.
ChatStreamTypeOK ==
    /\ attempt \in 0..MaxStreamRetries
    /\ Len(buffer) <= MaxWords /\ emitted \in 0..Len(buffer)
    /\ Len(stored) <= 1 /\ turns \in 0..1
    /\ place = "reading" => Len(panel) <= MaxWords
    /\ rotationTried \in BOOLEAN /\ anyEmitted \in BOOLEAN /\ mateShown \in BOOLEAN
    /\ terminal \in {"none", "done", "recovered", "abort"}
    /\ swallowed \subseteq {"persist", "record", "rotate"}
    /\ place \in {"new", "reading", "sent", "flushed", "done", "recovered", "abort",
                  "persist", "record", "rotate", "deliver", "ended", "left"}

\* chat_stream_pipeline.py 14-17: the leading word of a phrase a gate rejects
\* never reaches the client, in whichever pieces the model sends it.
NoLeadingWordShown == offence # 0 /\ place # "ended" => Len(panel) < offence

\* server.py 2030-2036, 2063-2067 and the StreamRecovered contract: when the stream
\* ends, the one reply that was stored is exactly what the client shows, after any
\* retry; the row is missing only if storing it failed.
PanelIsHistory ==
    place = "ended" => IF "persist" \in swallowed THEN stored = <<>> ELSE stored = <<panel>>

\* server.py 2069-2075: the header with the new token always ships, so a stream
\* commits the rotation once, and has done so by its end unless that commit failed.
\* A second commit of the token would end the grace of the one it replaced.
EndedStreamRotated ==
    /\ rotations <= 1
    /\ place = "ended" => rotations = 1 \/ "rotate" \in swallowed

\* chat_stream_pipeline.py 190-194: the stream always ends with a terminal
\* event, whatever fails behind it, unless the client left first.
StreamEnds == place = "reading" ~> (place \in {"ended", "left"})

\* What the client of a stream has seen, and what the server keeps of it.
StreamSafe == ChatStreamTypeOK /\ NoLeadingWordShown /\ PanelIsHistory /\ EndedStreamRotated
=============================================================================
