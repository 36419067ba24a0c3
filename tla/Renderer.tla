------------------------------ MODULE Renderer ------------------------------
(***************************************************************************)
(* render: the pack is compiled under its budget, the lines are assembled, *)
(* and in the LLM modes a polisher rewrites the text, which is validated   *)
(* and then replaces it, or not.                                           *)
(*                                                                         *)
(* The compiler is what BudgetContract promises: DecisionContext           *)
(* implements it.  The polisher is a service: it answers with any rewrite, *)
(* fails for good, or fails in a way its client tries once more.           *)
(***************************************************************************)
EXTENDS RenderedText

CONSTANTS
    Budgets,        \* the values of max_chars considered
    Rewrites(_),    \* the texts a polisher may make of a text
    MaxRetries      \* max_retries of OpenAITextPolisher

Mode == {"deterministic", "llm_with_fallback", "llm_required"}
Fallback == "deterministic_fallback"

ASSUME RendererAssumption == MaxRetries \in Nat

VARIABLES
    pack, maxChars, mode, polisher,     \* inputs; polisher: there is one
    compiled, body, left,   \* the answer of the compiler
    content,    \* the text, an empty one before it is assembled
    polished,   \* the text of the polisher
    attempts,   \* calls made to the polisher
    modeUsed,   \* mode_used
    pc, outcome

inputs == <<pack, maxChars, mode, polisher>>
compilation == <<compiled, body, left>>
vars == <<inputs, compilation, content, polished, attempts, modeUsed, pc, outcome>>

Budget == INSTANCE BudgetContract WITH outcome <- compiled

EmptyText == [blocks |-> <<>>, length |-> 0, alien |-> {}]

HasRoot(t) == \E a \in Found(t) : a.id = pack.root

-----------------------------------------------------------------------------
Init ==
    /\ Budget!Init
    /\ mode \in Mode
    /\ polisher \in BOOLEAN
    /\ content = EmptyText /\ polished = EmptyText
    /\ attempts = 0
    /\ modeUsed = mode
    /\ pc = "compile" /\ outcome = "pending"

End(verdict) == pc' = "done" /\ outcome' = verdict

\* compiler.compile: its errors are the caller's.
Compile ==
    /\ pc = "compile"
    /\ Budget!Next
    /\ CASE compiled' = "ok" -> pc' = "assemble" /\ outcome' = "pending"
         [] compiled' = "refused" -> End("too_small")
         [] OTHER -> End("root_missing")
    /\ UNCHANGED <<mode, polisher, content, polished, attempts, modeUsed>>

\* _assemble_sectioned_markdown and the assertion on its length.
Assemble ==
    /\ pc = "assemble"
    /\ content' = Deterministic(pack, body)
    /\ IF content'.length <= maxChars
       THEN pc' = "polish" /\ UNCHANGED outcome
       ELSE End("too_small")
    /\ UNCHANGED <<inputs, compilation, polished, attempts, modeUsed>>

\* No polish: the deterministic text is kept, in an LLM mode as a fallback.
Skip ==
    /\ pc = "polish"
    /\ mode = "deterministic"
    /\ pc' = "check"
    /\ UNCHANGED <<inputs, compilation, content, polished, attempts, modeUsed, outcome>>

\* Faulty variants of GiveUp: the mode is not corrected; a failed call raises
\* in both modes.
GiveUpSilently(error) ==
    /\ IF mode = "llm_required" THEN End(error) ELSE pc' = "check" /\ UNCHANGED outcome
    /\ UNCHANGED <<inputs, compilation, content, modeUsed>>

GiveUpRaising(error) ==
    /\ End(error)
    /\ UNCHANGED <<inputs, compilation, content, modeUsed>>

\* raise, or fall back to the deterministic text.
GiveUp(error) ==
    /\ IF mode = "llm_required"
       THEN End(error) /\ UNCHANGED modeUsed
       ELSE pc' = "check" /\ modeUsed' = Fallback /\ UNCHANGED outcome
    /\ UNCHANGED <<inputs, compilation, content>>

NoPolisher ==
    /\ pc = "polish" /\ mode # "deterministic" /\ ~ polisher
    /\ GiveUp("value_error")
    /\ UNCHANGED <<polished, attempts>>

\* polisher.polish: one attempt of the client.
Polish ==
    /\ pc = "polish" /\ mode # "deterministic" /\ polisher
    /\ attempts' = attempts + 1
    /\ polished' \in Rewrites(content) \cap Text
    /\ pc' = "validate"
    /\ UNCHANGED <<inputs, compilation, content, modeUsed, outcome>>

\* Faulty variant: the client never stops trying.
RetryUnbounded ==
    /\ pc = "polish" /\ mode # "deterministic" /\ polisher
    /\ attempts' = attempts + 1
    /\ UNCHANGED <<inputs, compilation, content, polished, modeUsed, pc, outcome>>

Retry ==
    /\ pc = "polish" /\ mode # "deterministic" /\ polisher
    /\ attempts < MaxRetries
    /\ attempts' = attempts + 1
    /\ UNCHANGED <<inputs, compilation, content, polished, modeUsed, pc, outcome>>

Unavailable ==
    /\ pc = "polish" /\ mode # "deterministic" /\ polisher
    /\ attempts' = attempts + 1
    /\ GiveUp("polisher_error")
    /\ UNCHANGED polished

\* Faulty variants: a bad text is asked for again; the text is replaced before it
\* is validated.
RejectAgain ==
    /\ pc = "validate" /\ ~ Valid(polished, pack, body)
    /\ pc' = "polish" /\ attempts' = 0
    /\ UNCHANGED <<inputs, compilation, content, polished, modeUsed, outcome>>

RejectLate ==
    /\ pc = "validate" /\ ~ Valid(polished, pack, body)
    /\ content' = polished
    /\ IF mode = "llm_required"
       THEN End("value_error") /\ UNCHANGED modeUsed
       ELSE pc' = "check" /\ modeUsed' = Fallback /\ UNCHANGED outcome
    /\ UNCHANGED <<inputs, compilation, polished, attempts>>

\* _validate_llm_output.
Reject ==
    /\ pc = "validate" /\ ~ Valid(polished, pack, body)
    /\ GiveUp("value_error")
    /\ UNCHANGED <<polished, attempts>>

Accept ==
    /\ pc = "validate" /\ Valid(polished, pack, body)
    /\ content' = polished
    /\ pc' = "check"
    /\ UNCHANGED <<inputs, compilation, polished, attempts, modeUsed, outcome>>

\* The anchor of the root must be in the final text.
Finish ==
    /\ pc = "check"
    /\ End(IF HasRoot(content) THEN "ok" ELSE "root_missing_in_text")
    /\ UNCHANGED <<inputs, compilation, content, polished, attempts, modeUsed>>

Done == pc = "done" /\ UNCHANGED vars

Step ==
    \/ Compile \/ Assemble \/ Skip \/ NoPolisher
    \/ Polish \/ Retry \/ Unavailable
    \/ Reject \/ Accept \/ Finish

Next == Step \/ Done

Spec == Init /\ [][Next]_vars

\* Each step is the next statement of one thread, and the client of the polisher
\* times out: nothing waits for ever.
FairSpec == Spec /\ WF_vars(Step)

-----------------------------------------------------------------------------
Unaltered == Deterministic(pack, body)

TypeOK ==
    /\ pack \in Packs /\ maxChars \in Budgets /\ mode \in Mode /\ polisher \in BOOLEAN
    /\ compiled \in {"pending", "refused", "ok", "root_missing"}
    /\ body \subseteq Units(pack) /\ left \subseteq Units(pack)
    /\ content.blocks \in Seq(Block) /\ polished.blocks \in Seq(Block)
    /\ attempts \in 0..(MaxRetries + 1)
    /\ modeUsed \in Mode \cup {Fallback}
    /\ pc \in {"compile", "assemble", "polish", "validate", "check", "done"}
    /\ outcome \in {"pending", "ok", "too_small", "root_missing", "value_error",
                    "polisher_error", "root_missing_in_text"}

\* What may leave the renderer: the deterministic text under the mode asked for
\* or as a fallback, or a valid polish under the LLM mode asked for.
Deliverable ==
    \/ content = Unaltered /\ mode = "deterministic" /\ modeUsed = mode
    \/ content = Unaltered /\ mode = "llm_with_fallback" /\ modeUsed = Fallback
    \/ /\ content = polished /\ Valid(polished, pack, body)
       /\ mode # "deterministic" /\ modeUsed = mode

Progress ==
    /\ pc = "done" <=> outcome # "pending"
    /\ pc = "compile" => compiled = "pending"
    /\ pc \notin {"compile", "done"} \/ outcome = "ok" =>
          /\ compiled = "ok"
          /\ left = Units(pack) \ body
          /\ Budget!Fits(body) /\ Budget!RootKept(body)
    /\ pc \in {"polish", "validate"} => content = Unaltered
    /\ pc \in {"compile", "assemble", "polish", "validate"} => modeUsed = mode
    /\ pc \in {"compile", "assemble", "polish"} => attempts <= MaxRetries
    /\ pc = "validate" => mode # "deterministic"
    /\ pc = "check" \/ outcome = "ok" => Deliverable

\* What is called polished is a validated polish, what was rewritten is called
\* polished, and only the fallback mode falls back (mode_used of render).
ModeTold ==
    outcome = "ok" =>
        /\ modeUsed \in {"llm_with_fallback", "llm_required"} =>
              content = polished /\ Valid(content, pack, body)
        /\ content # Unaltered => modeUsed = mode /\ mode # "deterministic"
        /\ modeUsed # mode => mode = "llm_with_fallback"

\* Whoever wrote the text, it holds each selected view once, under its own
\* partition and source, no other view, no new number and no new URI.
FactsKept ==
    outcome = "ok" =>
        /\ NoPhantom(content, body) /\ EachOnce(content, body)
        /\ content.alien = {}

\* With a fallback, no polisher, no failure of it and no bad text of it turns a
\* pack that compiles into an error; nor does any mode by the final checks on
\* the length and on the root.
FallbackNeverFails ==
    /\ mode # "llm_required" => outcome \notin {"value_error", "polisher_error"}
    /\ compiled = "ok" => outcome \notin {"too_small", "root_missing", "root_missing_in_text"}

\* The validator accepts the text it is compared with, when every line has a
\* source: llm_required can succeed.
UnalteredTextPasses ==
    pc = "validate" /\ polished = content /\ (\A v \in body : SourceOf(v) # unknown)
        => Valid(polished, pack, body)

Placed(t) ==
    LET Repeats == \E i, j \in Heads(t) : i # j /\ Title(t, i) = Title(t, j)
        Stray == \E spot \in Spots(t) : Title(t, spot[1]) = "preamble"
    IN  ~ Repeats /\ ~ Stray =>
          \A v \in body, spot \in Spots(t) :
              spot[2].anchor.id = v.id /\ (\A w \in body : w.id = v.id => w = v)
              => Title(t, spot[1]) = SectionOf(pack, v)

\* A view alone for its member stands in the section of its role, in any text
\* that repeats no heading and keeps its lines below headings
\* (_validate_llm_output_sections).
PlacedLines == outcome = "ok" => Placed(content)

IInv ==
    /\ TypeOK /\ Progress
    /\ ModeTold /\ FactsKept /\ FallbackNeverFails /\ UnalteredTextPasses /\ PlacedLines

\* Every rendering ends, also when the polisher fails.
Terminates == <>(pc = "done")

-----------------------------------------------------------------------------
\* What the documentation says beyond that.

\* The text is never longer than max_chars ("never an over-long response").
NeverTooLong == outcome = "ok" => content.length <= maxChars

\* A line keeps its status tag ("4. Status tags preserved").
TagsPreserved ==
    outcome = "ok" =>
        \A v \in body, spot \in Spots(content) :
            spot[2].anchor = AnchorOf(v) => spot[2].tag = TagOf(v)
=============================================================================
