-------------------------- MODULE GroundedGuidance --------------------------
(***************************************************************************)
(* One recommendation of a hybrid match: the semantic score and the        *)
(* grounded explanation of one resume for one job version.                 *)
(*                                                                         *)
(* Each asks the index for evidence, shows what it finds to a model, and   *)
(* looks the answer's citations up again; the service looks them all up    *)
(* once more, and stores the recommendation after it has done the same for *)
(* all others.  Each of these is a transaction of its own, and Sources are *)
(* indexed anew and withdrawn in between.  (That the match holds the row   *)
(* of its resume is in MatchPrivacy; nothing here relies on it.)  Whatever *)
(* fails, the recommendation is delivered with what the rules say.         *)
(*                                                                         *)
(* Summary, strengths, gaps, risks and questions are claims, and a claim   *)
(* is the set of the chunks that it cites.                                 *)
(***************************************************************************)
EXTENDS Naturals, FiniteSets

CONSTANTS
    Documents,      \* knowledge documents that the match may use
    Others,         \* Sources that it may not use
    MaxGeneration,  \* bound: generations of one Source
    Reindexed,      \* bound: Sources that are indexed anew
    MaxScored,      \* bound: chunks that a score cites
    MaxCites,       \* bound: chunks that a claim of the explanation cites
    MaxClaims       \* bound: claims of one answer; two: one to be kept and one dropped

ASSUME SourcesAssumption ==
    /\ Documents \cap Others = {}
    /\ {"resume", "version"} \cap (Documents \cup Others) = {}
ASSUME BoundsAssumption == /\ MaxGeneration \in Nat \ {0}
                           /\ {MaxScored, MaxCites, MaxClaims} \subseteq Nat

VARIABLES
    generation,  \* generation[s]: the active generation of a Source
    visible,     \* the Sources that are open
    step,        \* what the match does next
    ruleClaims,  \* what the rules have to say, which cites nothing
    judged,      \* the chunks shown to the model that scores
    semantic,    \* the chunks that the score cites; {}: there is no score
    shown,       \* the chunks shown to the model that explains
    answer,      \* the claims of its answer
    claims,      \* the claims of the explanation
    status,      \* grounding status of the explanation; "none": there is no explanation
    traces,      \* recorded model calls
    resolved,    \* the recommendation after the last lookup
    stored       \* the recommendation as stored

indexVars == <<generation, visible>>
scoreVars == <<judged, semantic>>
explanationVars == <<shown, answer, claims, status>>
resultVars == <<resolved, stored>>
vars == <<indexVars, step, ruleClaims, scoreVars, explanationVars, traces, resultVars>>

-----------------------------------------------------------------------------
Pair    == {"resume", "version"}
Scope   == Pair \cup Documents
Sources == Scope \cup Others
Chunks  == {c \in [source : Sources, generation : 1 .. MaxGeneration] :
               c.generation = 1 \/ c.source \in Reindexed}

\* search and resolve_active_citations return chunks of these only.
Active == {c \in Chunks : c.source \in visible /\ c.generation = generation[c.source]}
From(s) == {c \in Chunks : c.source = s}
Within(scope) == {c \in Active : c.source \in scope}

Citing(n) == {c \in SUBSET Chunks : Cardinality(c) <= n}
Answers   == {a \in SUBSET Citing(MaxCites) : Cardinality(a) <= MaxClaims}

Statuses == {"grounded", "rejected_unsupported_claims", "rules_fallback",
             "insufficient_evidence", "empty_model_output"}
Reasons == (Statuses \ {"grounded"}) \cup
           {"none", "semantic_evidence_unavailable", "invalid_semantic_citations",
            "guidance_retrieval_unavailable"}
Traces == [call : {"semantic_match", "match_explanation"}, status : {"succeeded", "rejected", "failed"}]

Nothing == [status |-> "none"]

Init == /\ generation = [s \in Sources |-> 1]
        /\ visible = Sources
        /\ step = "score"
        /\ ruleClaims \in {{}, {{}}}
        /\ judged = {} /\ semantic = {} /\ shown = {} /\ answer = {} /\ claims = {}
        /\ status = "none"
        /\ traces = {}
        /\ resolved = Nothing /\ stored = Nothing

-----------------------------------------------------------------------------
(* The index changes                                                       *)

Reindex(s) == /\ s \in Reindexed /\ generation[s] < MaxGeneration
              /\ generation' = [generation EXCEPT ![s] = @ + 1]
              /\ UNCHANGED <<visible, step, ruleClaims, scoreVars, explanationVars, traces, resultVars>>

Withdraw(s) == /\ s \in visible
               /\ visible' = visible \ {s}
               /\ UNCHANGED <<generation, step, ruleClaims, scoreVars, explanationVars, traces, resultVars>>

-----------------------------------------------------------------------------
(* What counts                                                             *)

\* Defect: citations are taken as they are.
NotLookedUp(cites, scope) == cites

\* resolve_active_citations
LookedUp(cites, scope) == cites \cap Within(scope)

\* Defect: a claim that cites nothing contradicts nothing.
KnownOrUncited(claim, known) == claim \subseteq known

\* citations_are_known
Known(claim, known) == claim # {} /\ claim \subseteq known

\* Defect: every active chunk that an answer names is looked up.
AllRequested(cites, prompt) == cites

\* Chunks that were not in the prompt are not looked up.
Requested(cites, prompt) == cites \cap prompt

\* Defect: evidence of the pair is enough, whichever side it is of.
PairEvidence(cites, found) == cites # {} /\ cites \subseteq found

\* validate_semantic_score: each side is cited, and by chunks of that side only.
TwoSided(cites, found) == /\ cites \subseteq found
                          /\ \A s \in Pair : cites \cap From(s) # {}

\* Defect: an answer is a success.
SucceededIfAnswered(valid) == "succeeded"

TraceStatus(valid) == IF valid THEN "succeeded" ELSE "rejected"

\* One call leaves one trace, unless the sink fails, which nobody notices.
Trace(call, result) == traces' \in {traces, traces \cup {[call |-> call, status |-> result]}}

-----------------------------------------------------------------------------
(* SemanticMatcher.score                                                   *)

\* Both sides have evidence; the prompt holds as much of it as fits.
ShowPair == /\ step = "score"
            /\ \A s \in Pair : Within({s}) # {}
            /\ judged' \in SUBSET Within(Pair)
            /\ step' = "judge"
            /\ UNCHANGED <<indexVars, ruleClaims, semantic, explanationVars, traces, resultVars>>

\* No evidence above the threshold, or no search.
NoPair == /\ step = "score"
          /\ step' = "show"
          /\ UNCHANGED <<indexVars, ruleClaims, scoreVars, explanationVars, traces, resultVars>>

\* The answer may name any chunk.
Judge == /\ step = "judge"
         /\ semantic' \in Citing(MaxScored)
         /\ step' = "confirm"
         /\ UNCHANGED <<indexVars, ruleClaims, judged, explanationVars, traces, resultVars>>

JudgeFails == /\ step = "judge"
              /\ step' = "show"
              /\ Trace("semantic_match", "failed")
              /\ UNCHANGED <<indexVars, ruleClaims, scoreVars, explanationVars, resultVars>>

\* A lookup that fails finds nothing; a score that is no number from 0 to 100 is as good.
Confirm ==
    /\ step = "confirm"
    /\ \E looked \in BOOLEAN :
          LET found == IF looked THEN LookedUp(Requested(semantic, judged), Pair) ELSE {}
              valid == TwoSided(semantic, found)
          IN  /\ semantic' = IF valid THEN semantic ELSE {}
              /\ Trace("semantic_match", TraceStatus(valid))
    /\ step' = "show"
    /\ UNCHANGED <<indexVars, ruleClaims, judged, explanationVars, resultVars>>

-----------------------------------------------------------------------------
(* GroundedExplanationService.generate                                     *)

\* Without an explanation there is none to validate; a call that was made leaves no trace.
Unavailable == /\ step \in {"show", "validate"}
               /\ step' = "resolve"
               /\ claims' = {} /\ status' = "none"
               /\ UNCHANGED <<indexVars, ruleClaims, scoreVars, shown, answer, traces, resultVars>>

FallBack(reason) == /\ claims' = ruleClaims
                    /\ status' = reason
                    /\ step' = "resolve"

\* Explanations are switched off.
Disabled == /\ step = "show"
            /\ FallBack("rules_fallback")
            /\ UNCHANGED <<indexVars, ruleClaims, scoreVars, shown, answer, traces, resultVars>>

\* What the search finds is looked up at once, and what still is active goes into the
\* prompt as far as it fits.
Show == /\ step = "show"
        /\ shown' \in SUBSET Within(Scope)
        /\ IF shown' = {} THEN FallBack("insufficient_evidence")
           ELSE step' = "explain" /\ UNCHANGED <<claims, status>>
        /\ UNCHANGED <<indexVars, ruleClaims, scoreVars, answer, traces, resultVars>>

Explain == /\ step = "explain"
           /\ answer' \in Answers
           /\ step' = "validate"
           /\ UNCHANGED <<indexVars, ruleClaims, scoreVars, shown, claims, status, traces, resultVars>>

ExplainFails == /\ step = "explain"
                /\ FallBack("rules_fallback")
                /\ Trace("match_explanation", "failed")
                /\ UNCHANGED <<indexVars, ruleClaims, scoreVars, shown, answer, resultVars>>

\* Defect: an answer of which anything is kept is grounded.
GroundedIfAny(kept) == "grounded"

\* _validate: a claim that is dropped is a claim rejected.
ValidStatus(kept) == IF kept = answer THEN "grounded" ELSE "rejected_unsupported_claims"

Validate ==
    LET permitted == LookedUp(Requested(UNION answer, shown), Scope)
        kept == {c \in answer : Known(c, permitted)}
    IN  /\ step = "validate"
        /\ IF kept = {} THEN FallBack("empty_model_output")
           ELSE claims' = kept /\ status' = ValidStatus(kept) /\ step' = "resolve"
        /\ Trace("match_explanation", TraceStatus(status' = "grounded"))
        /\ UNCHANGED <<indexVars, ruleClaims, scoreVars, shown, answer, resultVars>>

-----------------------------------------------------------------------------
(* MatchingService._add_grounded_guidance                                  *)

\* Defect: what is dropped at last does not change the status.
StatusAsBefore(kept) == status

\* _resolved_guidance: the status after the last validation.
FinalStatus(kept) == IF kept = claims THEN status
                     ELSE IF kept = {} THEN "empty_model_output" ELSE "rejected_unsupported_claims"

\* Defect: the status is given as the reason, whatever it is.
ReasonAnyway(hadScore, score, final) == final

\* fallback_reason: the first thing that went wrong with the score, or with the guidance.
Reason(hadScore, score, final) ==
    CASE hadScore /\ score = {}    -> "invalid_semantic_citations"
      [] ~ hadScore                -> "semantic_evidence_unavailable"
      [] hadScore /\ score # {} /\ status = "none"    -> "guidance_retrieval_unavailable"
      [] hadScore /\ score # {} /\ final = "grounded" -> "none"
      [] OTHER                     -> final

\* All citations are looked up together; rules' claims have none, and stay.
Resolve ==
    LET found == LookedUp(semantic \cup UNION claims, Scope)
        score == IF TwoSided(semantic, found) THEN semantic ELSE {}
        kept  == {c \in claims : c = {} \/ Known(c, found)}
        final == FinalStatus(kept)
    IN  /\ step = "resolve"
        /\ resolved' = [semantic |-> score, claims |-> kept, cites |-> score \cup UNION kept,
                        status |-> IF score = {} \/ status = "none" THEN "rules_fallback" ELSE final,
                        reason |-> Reason(semantic # {}, score, final)]
        /\ step' = "commit"
        /\ UNCHANGED <<indexVars, ruleClaims, scoreVars, explanationVars, traces, stored>>

\* _unresolved_guidance_fallback
ResolveFails ==
    /\ step = "resolve" /\ semantic \cup UNION claims # {}
    /\ resolved' = [semantic |-> {}, claims |-> {}, cites |-> {}, status |-> "rules_fallback",
                    reason |-> IF semantic = {} THEN "semantic_evidence_unavailable"
                               ELSE "guidance_retrieval_unavailable"]
    /\ step' = "commit"
    /\ UNCHANGED <<indexVars, ruleClaims, scoreVars, explanationVars, traces, stored>>

\* MatchingService._run: the results are committed together, after the searches, calls and
\* lookups for all other recommendations, and nothing is looked up again.
Store == /\ step = "commit"
         /\ stored' = resolved
         /\ step' = "done"
         /\ UNCHANGED <<indexVars, ruleClaims, scoreVars, explanationVars, traces, resolved>>

-----------------------------------------------------------------------------
Score == ShowPair \/ NoPair \/ Judge \/ JudgeFails \/ Confirm
Guide == Disabled \/ Show \/ Explain \/ ExplainFails \/ Validate \/ Unavailable
Match == Score \/ Guide \/ Resolve \/ ResolveFails \/ Store

Next == Match \/ \E s \in Sources : Reindex(s) \/ Withdraw(s)

Spec == Init /\ [][Next]_vars

-----------------------------------------------------------------------------
(* Properties                                                              *)

Done == step = "done"

\* Every variable has its type.
TypeOK == /\ generation \in [Sources -> 1 .. MaxGeneration]
          /\ visible \subseteq Sources
          /\ step \in {"score", "judge", "confirm", "show", "explain", "validate",
                       "resolve", "commit", "done"}
          /\ ruleClaims \in {{}, {{}}}
          /\ judged \subseteq Chunks /\ shown \subseteq Chunks /\ semantic \subseteq Chunks
          /\ answer \subseteq SUBSET Chunks /\ claims \subseteq SUBSET Chunks
          /\ status \in Statuses \cup {"none"}
          /\ traces \subseteq Traces
          /\ \A r \in {resolved, stored} : r = Nothing \/
                 /\ DOMAIN r = {"semantic", "claims", "cites", "status", "reason"}
                 /\ r.status \in Statuses
                 /\ r.reason \in Reasons

\* What is stored rests on what the models were shown: a score on chunks of its prompt and
\* of both sides, a claim on chunks of its own prompt, and what rests on nothing is the
\* rules'.  Nothing cites a Source that the match may not use.
EverythingIsGrounded ==
    Done => /\ stored.semantic \subseteq judged
            /\ stored.semantic # {} => \A s \in Pair : stored.semantic \cap From(s) # {}
            /\ \A c \in stored.claims : c \subseteq shown /\ (c = {} => c \in ruleClaims)
            /\ \A c \in stored.cites : c.source \in Scope

\* The citations that are stored were all active at one moment, after all models had answered
\* and though each was chosen long before: that of the last lookup.  What is stored is what was
\* confirmed then; until it is, documents and the job version may be replaced once more.
CitationsWereConfirmed ==
    [][/\ step = "resolve" /\ step' # "resolve" => resolved'.cites \subseteq Active
       /\ Done' /\ ~ Done => stored' = resolved]_vars

\* A recommendation is called grounded only if it has a score, the model's answer has claims,
\* every one of them cites, and not one was dropped on the way, neither when the answer was
\* validated nor at the last lookup; and otherwise it says why not.
GroundedMeansGrounded ==
    Done => /\ stored.status = "grounded" => /\ stored.semantic # {}
                                             /\ stored.claims = answer /\ answer # {}
                                             /\ {} \notin answer
            /\ stored.status = "grounded" <=> stored.reason = "none"

\* The traces do not belie the result: a call is recorded as succeeded if and only if its
\* score, or its explanation as a whole, was accepted, and nothing is recorded twice.
TracesAgree ==
    /\ \A t, u \in traces : t.call = u.call => t = u
    /\ Done => \A t \in traces :
          t.status = "succeeded" <=> IF t.call = "semantic_match" THEN semantic # {}
                                    ELSE status = "grounded"
=============================================================================
