------------------------------ MODULE LlmCall ------------------------------
(***************************************************************************)
(* One completion of the language model (call_llm and call_llm_stream in   *)
(* coach/explain_pipeline.py): the provider's frames, whatever they are    *)
(* and wherever they stop, a consumer that may walk away, the byte cap,    *)
(* and what lands on the cost metrics (observability.py).                  *)
(***************************************************************************)
EXTENDS Integers

CONSTANTS ByteCap,    \* _MAX_STREAM_RESPONSE_BYTES
          ChunkSizes, \* lengths of a content delta
          MissPrice, HitPrice, \* of a prompt token of a model the table lists
          MaxFrames   \* bound: frames the provider sends

ASSUME LlmCallAssumption ==
    /\ ByteCap \in Nat /\ MaxFrames \in Nat
    /\ ChunkSizes \subseteq Nat \ {0}
    /\ HitPrice \in Nat /\ MissPrice \in Nat \ {0} /\ HitPrice <= MissPrice

VARIABLES llm,   \* the attempt
          meter  \* what observe_llm_call has recorded of it

llmVars == <<llm, meter>>

Unreported == -1
PromptLength == 8  \* in characters; a token is about four

\* `usage` of a frame: prompt tokens, completion tokens, and the cache split as the
\* provider reports it, either part of which may be absent or nonsense.
Usages == [prompt : {0, 3}, completion : {0, 1}, hit : {Unreported, 0, 2, 5}, miss : {Unreported, 1, 3}]
NoUsage == [prompt |-> 0, completion |-> 0, hit |-> Unreported, miss |-> Unreported]

Attempt == [mode |-> "full", at |-> "idle", frames |-> 0, bytes |-> 0, kept |-> 0, words |-> 0,
            usage |-> {}, outcome |-> "none", odd |-> FALSE, result |-> "none"]
Unmetered == [calls |-> 0, prompt |-> 0, completion |-> 0, cost |-> 0, errors |-> 0]

LlmInit == llm = Attempt /\ meter = Unmetered

\* The variables' types; an attempt is observed once, and only when it has ended.
LlmTypeOK ==
    /\ llm.mode \in {"full", "stream"} /\ llm.at \in {"idle", "reading", "yielded", "ended"}
    /\ llm.kept \in 0..llm.bytes /\ llm.words \in 0..llm.kept
    /\ llm.usage = {} \/ llm.usage \in {{u} : u \in Usages}
    /\ llm.outcome \in {"none", "ok", "empty", "aborted", "timeout", "http_error"}
    /\ llm.result \in {"none", "text", "error", "config"}
    /\ meter.calls \in {0, 1} /\ meter.errors \in {0, 1}
    /\ llm.at \in {"idle", "reading", "yielded"} => meter = Unmetered

\* _cache_split: the miss part is derived when it is absent, and a split that does
\* not add up is no split.
CacheSplit(u) ==
    LET miss == IF u.miss = Unreported THEN u.prompt - u.hit ELSE u.miss
    IN  IF u.hit = Unreported \/ miss < 0 \/ u.hit + miss # u.prompt THEN [hit |-> 0, miss |-> 0]
        ELSE [hit |-> u.hit, miss |-> miss]

\* _prompt_cost: without a split of the whole prompt, all of it at the miss rate.
PromptCost(prompt, split) ==
    IF prompt > 0 /\ split.hit + split.miss = prompt
    THEN split.hit * HitPrice + split.miss * MissPrice
    ELSE prompt * MissPrice

EstimateTokens(length) == IF length \div 4 > 1 THEN length \div 4 ELSE 1

\* Mutated form of Billable: an abandoned stream counts as a failed one.
BillableOk(outcome) == outcome = "ok"

\* observe_llm_call records tokens for these, call_llm estimates them.
Billable(outcome) == outcome \in {"ok", "aborted"}

\* The `finally` of an attempt whose try ended with `outcome`.
Outcome(c, outcome) == IF outcome = "ok" /\ (IF c.mode = "full" THEN c.words ELSE c.kept) = 0
                       THEN "empty" ELSE outcome
Reported(c, outcome) ==
    LET estimated == Billable(outcome) /\ c.usage = {} /\ c.kept > 0
    IN  IF estimated
        THEN [NoUsage EXCEPT !.prompt = EstimateTokens(PromptLength),
                             !.completion = EstimateTokens(c.kept)]
        ELSE IF c.usage = {} THEN NoUsage ELSE CHOOSE u \in c.usage : TRUE

Observed(outcome, u) ==
    [calls |-> meter.calls + 1,
     prompt |-> IF Billable(outcome) THEN u.prompt ELSE 0,
     completion |-> IF Billable(outcome) THEN u.completion ELSE 0,
     cost |-> IF Billable(outcome) THEN PromptCost(u.prompt, CacheSplit(u)) ELSE 0,
     errors |-> IF outcome = "ok" THEN 0 ELSE 1]

\* The end of the attempt.  The full call raises when there is no text in what it
\* has, the stream only when its try did.
Ends(c, outcome, raised) ==
    LET final == Outcome(c, outcome)
    IN  /\ meter' = Observed(final, Reported(c, final))
        /\ llm' = [c EXCEPT !.at = "ended", !.outcome = final,
                            !.result = IF raised \/ (c.mode = "full" /\ c.words = 0) THEN "error"
                                       ELSE IF c.kept > 0 THEN "text" ELSE "none"]

-----------------------------------------------------------------------------
(* The attempt *)

\* No API key: LLMConfigError before anything is opened or observed.
Unconfigured ==
    /\ llm.at = "idle"
    /\ llm' = [llm EXCEPT !.at = "ended", !.result = "config"]
    /\ UNCHANGED meter

OpenCall(mode) ==
    /\ llm.at = "idle"
    /\ llm' = [llm EXCEPT !.at = "reading", !.mode = mode]
    /\ UNCHANGED meter

Reads == llm.at = "reading" /\ llm.frames < MaxFrames
FrameRead == [llm EXCEPT !.frames = @ + 1]

\* The full call appends before it looks at the cap, the stream looks first.
KeepsChunk(total) == llm.mode = "full" \/ total <= ByteCap

\* A content delta, perhaps only whitespace.  The attempt stops at the cap; the
\* stream yields what it keeps and waits for its consumer.
Content ==
    /\ Reads
    /\ \E n \in ChunkSizes, blank \in BOOLEAN :
          LET total == llm.bytes + n
              text == IF blank THEN 0 ELSE n
              read == IF KeepsChunk(total)
                      THEN [FrameRead EXCEPT !.bytes = total, !.kept = @ + n, !.words = @ + text]
                      ELSE [FrameRead EXCEPT !.bytes = total]
          IN  IF total > ByteCap THEN Ends(read, "ok", FALSE)
              ELSE /\ llm' = IF llm.mode = "stream" THEN [read EXCEPT !.at = "yielded"] ELSE read
                   /\ UNCHANGED meter

\* The consumer asks for more, or closes the generator at its yield.
Resume ==
    /\ llm.at = "yielded"
    /\ llm' = [llm EXCEPT !.at = "reading"]
    /\ UNCHANGED meter

Abandon ==
    /\ llm.at = "yielded"
    /\ Ends(llm, "aborted", FALSE)

\* A usage block replaces an earlier one, an empty one included.
UsageFrame ==
    /\ Reads
    /\ \E u \in {{x} : x \in Usages} \union {{}} : llm' = [FrameRead EXCEPT !.usage = u]
    /\ UNCHANGED meter

\* A keep-alive, a frame that is not JSON or has no choices: skipped.
Noise ==
    /\ Reads
    /\ llm' = FrameRead
    /\ UNCHANGED meter

\* JSON that is no object: event.get raises, which no handler of the attempt
\* names, so that its outcome stays ok.
Scalar ==
    /\ Reads
    /\ Ends([FrameRead EXCEPT !.odd = TRUE], "ok", TRUE)

\* [DONE], or the provider just stops sending.
StreamOver ==
    /\ llm.at = "reading"
    /\ Ends(llm, "ok", FALSE)

\* A refused request, a timeout or a broken connection.
Refused == llm.at = "reading" /\ llm.frames = 0 /\ Ends(llm, "http_error", TRUE)
Broken == llm.at = "reading" /\ \E o \in {"timeout", "http_error"} : Ends(llm, o, TRUE)

LlmNext ==
    \/ Unconfigured \/ \E mode \in {"full", "stream"} : OpenCall(mode)
    \/ Content \/ Resume \/ Abandon \/ UsageFrame \/ Noise \/ Scalar \/ StreamOver
    \/ Refused \/ Broken

LlmSpec == LlmInit /\ [][LlmNext]_llmVars

-----------------------------------------------------------------------------
(* Properties *)

\* explain_pipeline.py 94-102: an attempt that served or was abandoned is never free
\* on the metric, also when the usage frame never came.  Text was generated and reads
\* zero only when the attempt then timed out or broke (435-447), when all of it was
\* blank, or when the provider itself reported no prompt.
SpendSeen ==
    /\ llm.at = "ended" /\ llm.outcome \in {"ok", "aborted"} /\ llm.usage = {} =>
           meter.prompt > 0 /\ meter.completion > 0 /\ meter.cost > 0
    /\ llm.at = "ended" /\ llm.kept > 0 /\ meter.prompt = 0 =>
           \/ llm.outcome \in {"timeout", "http_error"}
           \/ llm.outcome = "empty" /\ llm.words = 0
           \/ \E u \in llm.usage : u.prompt = 0

\* observability.py 288-293: whatever split a gateway reports, a prompt costs no
\* less than all of it at the hit rate and no more than all of it at the miss rate.
CostWithinPrices ==
    /\ meter.cost <= meter.prompt * MissPrice
    /\ meter.cost >= meter.prompt * HitPrice

\* The two calls mean the same by `ok`: an attempt whose caller got nothing, or an
\* exception, is an error on the metric.  A JSON scalar among the frames is the
\* exception.
OkMeansServed ==
    llm.at = "ended" /\ llm.outcome = "ok" => llm.result = "text" \/ llm.odd

\* explain_pipeline.py 72-83: a consumer never holds more than the cap; the
\* assembled text exceeds it by less than one chunk.
CapHolds ==
    /\ llm.mode = "stream" => llm.kept <= ByteCap
    /\ llm.mode = "full" => \E n \in ChunkSizes \union {0} : llm.kept <= ByteCap + n

\* One call of the model is metered once, at a price that fits, and never delivers
\* more than it may.
LlmSafe == LlmTypeOK /\ SpendSeen /\ CostWithinPrices /\ OkMeansServed /\ CapHolds
=============================================================================
