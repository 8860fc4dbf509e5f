----------------------- MODULE GroundedGuidanceProofs -----------------------
(***************************************************************************)
(* Proofs about GroundedGuidance, for any documents and Sources, and       *)
(* answers of any length.                                                  *)
(*                                                                         *)
(* The index changes under a match at any time, so nothing that it has     *)
(* looked up stays true; what stays is what the match itself has shown,    *)
(* kept and recorded.  The invariant says of each step what is settled by  *)
(* then: the score after its own lookup, the claims after theirs.          *)
(***************************************************************************)
EXTENDS GroundedGuidance, TLAPS

Scoring == {"score", "judge", "confirm"}
Ended   == {"resolve", "commit", "done"}
OfModel == {"grounded", "rejected_unsupported_claims"}   \* claims are the model's

\* A score that was confirmed rests on its prompt and on both sides.
ScoreRests == /\ step \in {"score", "judge"} => semantic = {}
              /\ step \notin Scoring =>
                    semantic \subseteq judged /\ (semantic # {} => \A s \in Pair : semantic \cap From(s) # {})

\* There is no explanation, or it is the model's and cites its prompt, or it is the rules'; what
\* is kept of an answer is called grounded if it is all of it.
ClaimsRest == /\ step \notin Ended => claims = {}
              /\ step \notin Ended => status = "none"
              /\ step \in Ended =>
                    \/ status = "none" /\ claims = {}
                    \/ /\ status \in OfModel /\ claims # {}
                       /\ \A c \in claims : c # {} /\ c \subseteq shown
                       /\ status = "grounded" => claims = answer
                    \/ status \in Statuses \ OfModel /\ claims = ruleClaims

\* A call is recorded once it is over, and as what it was.
TracesRest == /\ \A t, u \in traces : t.call = u.call => t = u
              /\ step \in Scoring => \A t \in traces : t.call # "semantic_match"
              /\ step \notin Ended => \A t \in traces : t.call # "match_explanation"
              /\ \A t \in traces : t.status = "succeeded" <=>
                    IF t.call = "semantic_match" THEN semantic # {} ELSE status = "grounded"

\* A recommendation rests on what was shown, or on nothing because the rules say it, and says
\* truly whether it is grounded; it says so before it is stored, and when it is.
Rests(r) == /\ r.semantic \subseteq judged
            /\ r.semantic # {} => \A s \in Pair : r.semantic \cap From(s) # {}
            /\ \A c \in r.claims : c \subseteq shown /\ (c = {} => c \in ruleClaims)
            /\ \A c \in r.cites : c.source \in Scope

IsTrue(r) == /\ r.status = "grounded" => /\ r.semantic # {}
                                         /\ r.claims = answer /\ answer # {}
                                         /\ {} \notin answer
             /\ r.status = "grounded" <=> r.reason = "none"

StoredRests == /\ step \in {"commit", "done"} => Rests(resolved) /\ IsTrue(resolved)
               /\ step = "done" => stored = resolved

IInv == TypeOK /\ ScoreRests /\ ClaimsRest /\ TracesRest /\ StoredRests

-----------------------------------------------------------------------------
(* The operators                                                           *)

LEMMA FinalIs ==
    ASSUME NEW kept
    PROVE  /\ kept = claims => FinalStatus(kept) = status
           /\ kept # claims => FinalStatus(kept) \in {"empty_model_output", "rejected_unsupported_claims"}
BY DEF FinalStatus

LEMMA ReasonIs ==
    ASSUME NEW had \in BOOLEAN, NEW score, score # {} => had, NEW final, status = "none" => final # "grounded"
    PROVE  /\ score = {} => Reason(had, score, final) \in
                                {"invalid_semantic_citations", "semantic_evidence_unavailable"}
           /\ score # {} /\ status = "none" =>
                  Reason(had, score, final) = "guidance_retrieval_unavailable"
           /\ score # {} /\ status # "none" =>
                  Reason(had, score, final) = IF final = "grounded" THEN "none" ELSE final
BY DEF Reason

\* What a lookup finds is active, and in the scope.
LEMMA FoundIs ==
    ASSUME NEW cites, NEW scope
    PROVE  LookedUp(cites, scope) \subseteq {c \in Active : c.source \in scope}
BY DEF LookedUp, Within

\* A trace is added, or not.
LEMMA TraceIs ==
    ASSUME NEW call \in {"semantic_match", "match_explanation"},
           NEW result \in {"succeeded", "rejected", "failed"},
           traces \subseteq Traces, Trace(call, result)
    PROVE  /\ traces' \subseteq Traces
           /\ \A t \in traces' : t \in traces \/ (t.call = call /\ t.status = result)
           /\ (\A t \in traces : t.call # call) /\ (\A t, u \in traces : t.call = u.call => t = u)
                  => \A t, u \in traces' : t.call = u.call => t = u
<1> DEFINE new == [call |-> call, status |-> result]
<1>1. new \in Traces /\ new.call = call /\ new.status = result
    BY DEF Traces
<1>2. traces' = traces \/ traces' = traces \cup {new}
    BY DEF Trace
<1> HIDE DEF new
<1> QED BY <1>1, <1>2

\* What the last lookup leaves, in terms of what is kept of the score and of the claims.
LEMMA ResolvedIs ==
    ASSUME IInv, Resolve
    PROVE  \E score, kept :
              /\ score = {} \/ score = semantic
              /\ kept \subseteq claims
              /\ resolved'.semantic = score /\ resolved'.claims = kept
              /\ resolved'.cites = score \cup UNION kept
              /\ resolved'.cites \subseteq {c \in Active : c.source \in Scope}
              /\ DOMAIN resolved' = {"semantic", "claims", "cites", "status", "reason"}
              /\ resolved'.status = IF score = {} \/ status = "none" THEN "rules_fallback" ELSE FinalStatus(kept)
              /\ resolved'.reason = Reason(semantic # {}, score, FinalStatus(kept))
<1> DEFINE found == LookedUp(semantic \cup UNION claims, Scope)
           score == IF TwoSided(semantic, found) THEN semantic ELSE {}
           kept  == {c \in claims : c = {} \/ Known(c, found)}
           final == FinalStatus(kept)
           new == [semantic |-> score, claims |-> kept, cites |-> score \cup UNION kept,
                   status |-> IF score = {} \/ status = "none" THEN "rules_fallback" ELSE final,
                   reason |-> Reason(semantic # {}, score, final)]
<1>1. resolved' = new
    BY DEF Resolve
<1>2. score \subseteq found /\ \A c \in kept : c \subseteq found
    BY DEF TwoSided, Known
<1>3. found \subseteq {c \in Active : c.source \in Scope}
    BY FoundIs
<1>4. (score = {} \/ score = semantic) /\ kept \subseteq claims
    OBVIOUS
<1> HIDE DEF found, score, kept
<1>5. score \cup UNION kept \subseteq {c \in Active : c.source \in Scope}
    BY <1>2, <1>3
<1>6. resolved'.semantic = score /\ resolved'.claims = kept /\ resolved'.cites = score \cup UNION kept
    BY <1>1
<1>7. resolved'.status = IF score = {} \/ status = "none" THEN "rules_fallback" ELSE FinalStatus(kept)
    BY <1>1
<1>8. resolved'.reason = Reason(semantic # {}, score, FinalStatus(kept))
    BY <1>1
<1>9. DOMAIN resolved' = {"semantic", "claims", "cites", "status", "reason"}
    BY <1>1
<1> HIDE DEF new
<1> QED BY <1>4, <1>5, <1>6, <1>7, <1>8, <1>9

-----------------------------------------------------------------------------
(* The parts of the invariant, one by one                                  *)

LEMMA InitInv == Init => IInv
<1> SUFFICES ASSUME Init PROVE IInv OBVIOUS
<1>1. TypeOK
    BY BoundsAssumption DEF Init, TypeOK
<1> QED BY <1>1 DEF Init, IInv, ScoreRests, ClaimsRest, TracesRest, StoredRests, Scoring, Ended

\* The index changes, and the match does not.
LEMMA IndexKeepsInv ==
    ASSUME IInv,
           UNCHANGED <<step, ruleClaims, scoreVars, explanationVars, traces, resultVars>>,
           generation' \in [Sources -> 1 .. MaxGeneration], visible' \subseteq Sources
    PROVE  IInv'
<1> USE DEF scoreVars, explanationVars, resultVars
<1>1. TypeOK'
    BY DEF IInv, TypeOK
<1>2. ScoreRests' /\ ClaimsRest' /\ TracesRest' /\ StoredRests'
    BY DEF IInv, ScoreRests, ClaimsRest, TracesRest, StoredRests, Rests, IsTrue, From
<1> QED BY <1>1, <1>2 DEF IInv

LEMMA ScoreKeepsInv == ASSUME IInv, Score PROVE IInv'
<1> USE DEF scoreVars, explanationVars, resultVars
<1>1. /\ step \in Scoring /\ step' \in {"judge", "confirm", "show"} /\ status = "none" /\ claims = {}
      /\ UNCHANGED <<indexVars, ruleClaims, explanationVars, resultVars>>
    BY DEF Score, ShowPair, NoPair, Judge, JudgeFails, Confirm, Scoring, IInv, ClaimsRest, Ended
<1>2. /\ judged' \subseteq Chunks /\ semantic' \subseteq Chunks
      /\ step' = "judge" => semantic' = {} /\ traces' = traces
      /\ step' = "confirm" => traces' = traces
      /\ step' = "show" => /\ semantic' \subseteq judged'
                           /\ semantic' # {} => \A s \in Pair : semantic' \cap From(s) # {}
                           /\ \/ traces' = traces
                              \/ \E result \in {"succeeded", "rejected", "failed"} :
                                    /\ Trace("semantic_match", result)
                                    /\ result = "succeeded" <=> semantic' # {}
  <2>1. CASE ShowPair
      BY <2>1 DEF ShowPair, Within, Active, IInv, TypeOK, ScoreRests
  <2>2. CASE NoPair
      BY <2>2 DEF NoPair, IInv, TypeOK, ScoreRests
  <2>3. CASE Judge
      BY <2>3 DEF Judge, Citing, IInv, TypeOK
  <2>4. CASE JudgeFails
      BY <2>4 DEF JudgeFails, IInv, TypeOK, ScoreRests
  <2>5. CASE Confirm
    <3>1. PICK looked \in BOOLEAN :
             LET found == IF looked THEN LookedUp(Requested(semantic, judged), Pair) ELSE {}
                 valid == TwoSided(semantic, found)
             IN  /\ semantic' = IF valid THEN semantic ELSE {}
                 /\ Trace("semantic_match", TraceStatus(valid))
        BY <2>5 DEF Confirm
    <3> DEFINE found == IF looked THEN LookedUp(Requested(semantic, judged), Pair) ELSE {}
               valid == TwoSided(semantic, found)
    <3>2. found \subseteq judged
        BY DEF LookedUp, Requested
    <3>3. /\ semantic' = IF valid THEN semantic ELSE {}
          /\ Trace("semantic_match", TraceStatus(valid))
          /\ judged' = judged /\ step' = "show"
        BY <2>5, <3>1 DEF Confirm
    <3>4. valid => semantic \subseteq found /\ \A s \in Pair : semantic \cap From(s) # {}
        BY DEF TwoSided
    <3> HIDE DEF found, valid
    <3>5. valid => semantic # {}
        BY <3>4 DEF Pair
    <3>6. TraceStatus(valid) \in {"succeeded", "rejected", "failed"}
          /\ (TraceStatus(valid) = "succeeded" <=> valid)
        BY DEF TraceStatus
    <3>7. judged \subseteq Chunks /\ semantic \subseteq Chunks
        BY DEF IInv, TypeOK
    <3> QED BY <3>2, <3>3, <3>4, <3>5, <3>6, <3>7
  <2> QED BY <2>1, <2>2, <2>3, <2>4, <2>5 DEF Score
<1>3. /\ traces \subseteq Traces /\ traces' \subseteq Traces /\ TracesRest'
  <2>0. /\ traces \subseteq Traces
        /\ \A t, u \in traces : t.call = u.call => t = u
        /\ \A t \in traces : t.call # "semantic_match" /\ t.call # "match_explanation"
      BY <1>1 DEF IInv, TypeOK, TracesRest, Scoring, Ended
  <2>1. \A t \in traces : FALSE
      BY <2>0 DEF Traces
  <2>2. CASE traces' = traces
      BY <2>0, <2>1, <2>2 DEF TracesRest
  <2>3. CASE traces' # traces
    <3>1. PICK result \in {"succeeded", "rejected", "failed"} :
             /\ Trace("semantic_match", result) /\ (result = "succeeded" <=> semantic' # {})
             /\ step' = "show"
        BY <1>1, <1>2, <2>3
    <3>2. /\ traces' \subseteq Traces
          /\ \A t \in traces' : t.call = "semantic_match" /\ t.status = result
          /\ \A t, u \in traces' : t.call = u.call => t = u
        BY <2>0, <2>1, <3>1, TraceIs
    <3> QED BY <2>0, <3>1, <3>2 DEF TracesRest, Scoring
  <2> QED BY <2>2, <2>3
<1>4. TypeOK'
    BY <1>1, <1>2, <1>3 DEF IInv, TypeOK, indexVars
<1>5. ScoreRests' /\ ClaimsRest'
    BY <1>1, <1>2 DEF ScoreRests, ClaimsRest, Scoring, Ended, From
<1>6. StoredRests'
    BY <1>1 DEF StoredRests, Scoring
<1> QED BY <1>3, <1>4, <1>5, <1>6 DEF IInv

LEMMA GuideKeepsInv == ASSUME IInv, Guide PROVE IInv'
<1> USE DEF scoreVars, explanationVars, resultVars
<1>1. /\ step \in {"show", "explain", "validate"} /\ step' \in {"explain", "validate", "resolve"}
      /\ status = "none" /\ claims = {}
      /\ UNCHANGED <<indexVars, ruleClaims, scoreVars, resultVars>>
    BY DEF Guide, Disabled, Show, Explain, ExplainFails, Validate, Unavailable, FallBack,
           IInv, ClaimsRest, Ended
<1>2. /\ shown' \subseteq Chunks /\ claims' \subseteq SUBSET Chunks /\ answer' \subseteq SUBSET Chunks
      /\ status' \in Statuses \cup {"none"} /\ ClaimsRest'
      /\ \/ traces' = traces /\ status' # "grounded"
         \/ \E result \in {"succeeded", "rejected", "failed"} :
               /\ Trace("match_explanation", result) /\ step' = "resolve"
               /\ result = "succeeded" <=> status' = "grounded"
  <2>0. /\ shown \subseteq Chunks /\ answer \subseteq SUBSET Chunks /\ claims = {}
        /\ ruleClaims \in {{}, {{}}}
        /\ ruleClaims \subseteq SUBSET Chunks
      BY <1>1 DEF IInv, TypeOK, ClaimsRest, Ended
  <2>1. CASE Disabled
      BY <1>1, <2>0, <2>1 DEF Disabled, FallBack, ClaimsRest, Ended, OfModel, Statuses
  <2>2. CASE Show
    <3>1. shown' \subseteq Chunks
        BY <2>2 DEF Show, Within, Active
    <3>2. CASE shown' = {}
        BY <1>1, <2>0, <2>2, <3>1, <3>2 DEF Show, FallBack, ClaimsRest, Ended, OfModel, Statuses
    <3>3. CASE shown' # {}
        BY <1>1, <2>0, <2>2, <3>1, <3>3 DEF Show, ClaimsRest, Ended
    <3> QED BY <3>2, <3>3
  <2>3. CASE Explain
    <3>1. answer' \subseteq SUBSET Chunks
        BY <2>3 DEF Explain, Answers, Citing
    <3> QED BY <1>1, <2>0, <2>3, <3>1 DEF Explain, ClaimsRest, Ended
  <2>4. CASE ExplainFails
      BY <1>1, <2>0, <2>4 DEF ExplainFails, FallBack, ClaimsRest, Ended, OfModel, Statuses
  <2>5. CASE Validate
    <3> DEFINE permitted == LookedUp(Requested(UNION answer, shown), Scope)
               kept == {c \in answer : Known(c, permitted)}
    <3>1. /\ IF kept = {} THEN FallBack("empty_model_output")
             ELSE claims' = kept /\ status' = ValidStatus(kept) /\ step' = "resolve"
          /\ Trace("match_explanation", TraceStatus(status' = "grounded"))
          /\ shown' = shown /\ answer' = answer
        BY <2>5 DEF Validate
    <3>2. kept \subseteq answer /\ \A c \in kept : c # {} /\ c \subseteq shown
        BY DEF Known, LookedUp, Requested
    <3> HIDE DEF permitted, kept
    <3>3. /\ step' = "resolve" /\ claims' \subseteq SUBSET Chunks
          /\ \/ status' = "empty_model_output" /\ claims' = ruleClaims
             \/ /\ status' \in OfModel /\ claims' # {}
                /\ \A c \in claims' : c # {} /\ c \subseteq shown
                /\ status' = "grounded" => claims' = answer'
        BY <2>0, <3>1, <3>2 DEF FallBack, ValidStatus, OfModel
    <3>4. /\ TraceStatus(status' = "grounded") \in {"succeeded", "rejected", "failed"}
          /\ TraceStatus(status' = "grounded") = "succeeded" <=> status' = "grounded"
        BY DEF TraceStatus
    <3>5. ClaimsRest'
        BY <1>1, <3>1, <3>3 DEF ClaimsRest, Ended, OfModel, Statuses
    <3> QED BY <2>0, <3>1, <3>3, <3>4, <3>5 DEF OfModel, Statuses
  <2>6. CASE Unavailable
      BY <1>1, <2>0, <2>6 DEF Unavailable, ClaimsRest, Ended
  <2> QED BY <2>1, <2>2, <2>3, <2>4, <2>5, <2>6 DEF Guide
<1>3. traces' \subseteq Traces /\ TracesRest'
  <2>0. /\ traces \subseteq Traces
        /\ \A t, u \in traces : t.call = u.call => t = u
        /\ \A t \in traces : t.call = "semantic_match" /\ (t.status = "succeeded" <=> semantic # {})
      BY <1>1 DEF IInv, TypeOK, TracesRest, Ended, Traces
  <2>1. step' \notin Scoring
      BY <1>1 DEF Scoring
  <2>2. CASE traces' = traces
      BY <1>1, <2>0, <2>1, <2>2 DEF TracesRest
  <2>3. CASE traces' # traces
    <3>1. PICK result \in {"succeeded", "rejected", "failed"} :
             /\ Trace("match_explanation", result) /\ (result = "succeeded" <=> status' = "grounded")
             /\ step' = "resolve"
        BY <1>2, <2>3
    <3>2. /\ traces' \subseteq Traces
          /\ \A t \in traces' : t \in traces \/ (t.call = "match_explanation" /\ t.status = result)
          /\ \A t, u \in traces' : t.call = u.call => t = u
        BY <2>0, <3>1, TraceIs
    <3> QED BY <1>1, <2>0, <2>1, <3>1, <3>2 DEF TracesRest, Ended
  <2> QED BY <2>2, <2>3
<1>4. TypeOK'
    BY <1>1, <1>2, <1>3 DEF IInv, TypeOK, indexVars
<1>5. ScoreRests'
    BY <1>1 DEF IInv, ScoreRests, Scoring, From
<1>6. StoredRests'
    BY <1>1 DEF StoredRests
<1> QED BY <1>2, <1>3, <1>4, <1>5, <1>6 DEF IInv

\* What comes after the models changes only the recommendation.
LEMMA EndKeepsInv ==
    ASSUME IInv, step = "resolve", step' = "commit",
           UNCHANGED <<indexVars, ruleClaims, scoreVars, explanationVars, traces, stored>>,
           DOMAIN resolved' = {"semantic", "claims", "cites", "status", "reason"},
           resolved'.status \in Statuses, resolved'.reason \in Reasons,
           Rests(resolved)', IsTrue(resolved)'
    PROVE  IInv'
<1> USE DEF scoreVars, explanationVars
<1>1. TypeOK'
    BY DEF IInv, TypeOK, indexVars
<1>2. ScoreRests' /\ ClaimsRest' /\ TracesRest'
    BY DEF IInv, ScoreRests, ClaimsRest, TracesRest, Scoring, Ended, From
<1>3. StoredRests'
    BY DEF StoredRests
<1> QED BY <1>1, <1>2, <1>3 DEF IInv

\* What was confirmed is stored as it is.
LEMMA StoreKeepsInv == ASSUME IInv, Store PROVE IInv'
<1> USE DEF Store, scoreVars, explanationVars
<1>1. TypeOK'
    BY DEF IInv, TypeOK, indexVars
<1>2. ScoreRests' /\ ClaimsRest' /\ TracesRest'
    BY DEF IInv, ScoreRests, ClaimsRest, TracesRest, Scoring, Ended, From
<1>3. StoredRests'
    BY DEF IInv, StoredRests, Rests, IsTrue, From
<1> QED BY <1>1, <1>2, <1>3 DEF IInv

LEMMA ResolveKeepsInv == ASSUME IInv, Resolve PROVE IInv'
<1>1. PICK score, kept :
              /\ score = {} \/ score = semantic
              /\ kept \subseteq claims
              /\ resolved'.semantic = score /\ resolved'.claims = kept
              /\ resolved'.cites = score \cup UNION kept
              /\ resolved'.cites \subseteq {c \in Active : c.source \in Scope}
              /\ DOMAIN resolved' = {"semantic", "claims", "cites", "status", "reason"}
              /\ resolved'.status = IF score = {} \/ status = "none" THEN "rules_fallback" ELSE FinalStatus(kept)
              /\ resolved'.reason = Reason(semantic # {}, score, FinalStatus(kept))
    BY ResolvedIs
<1> DEFINE final == FinalStatus(kept)
<1>2. /\ step = "resolve" /\ step' = "commit"
      /\ UNCHANGED <<indexVars, ruleClaims, scoreVars, explanationVars, traces, stored>>
    BY DEF Resolve
<1>3. /\ semantic \subseteq judged /\ (semantic # {} => \A s \in Pair : semantic \cap From(s) # {})
      /\ status \in Statuses \cup {"none"} /\ ruleClaims \in {{}, {{}}}
      /\ \/ status = "none" /\ claims = {}
         \/ /\ status \in OfModel /\ claims # {} /\ \A c \in claims : c # {} /\ c \subseteq shown
            /\ status = "grounded" => claims = answer
         \/ status \in Statuses \ OfModel /\ claims = ruleClaims
    BY <1>2 DEF IInv, TypeOK, ScoreRests, ClaimsRest, Scoring, Ended
<1>4. /\ kept = claims => final = status
      /\ kept # claims => final \in {"empty_model_output", "rejected_unsupported_claims"}
    BY FinalIs
<1> HIDE DEF final
<1>5. /\ final = "grounded" => status = "grounded" /\ kept = claims
      /\ status # "none" => final \in Statuses
    BY <1>3, <1>4 DEF Statuses
<1>6. /\ score = {} => resolved'.reason \in {"invalid_semantic_citations", "semantic_evidence_unavailable"}
      /\ score # {} /\ status = "none" => resolved'.reason = "guidance_retrieval_unavailable"
      /\ score # {} /\ status # "none" => resolved'.reason = IF final = "grounded" THEN "none" ELSE final
  <2>1. score # {} => semantic # {}
      BY <1>1
  <2>2. status = "none" => final # "grounded"
      BY <1>5
  <2> DEFINE had == semantic # {}
  <2>3. had \in BOOLEAN /\ resolved'.reason = Reason(had, score, final)
      BY <1>1 DEF final
  <2> HIDE DEF had
  <2> QED BY ZenonT(60), <2>1, <2>2, <2>3, ReasonIs DEF had
<1>7. resolved'.status = IF score = {} \/ status = "none" THEN "rules_fallback" ELSE final
    BY <1>1 DEF final
<1>8. resolved'.status \in Statuses /\ resolved'.reason \in Reasons
    BY <1>5, <1>6, <1>7 DEF Statuses, Reasons
<1>9. Rests(resolved)'
  <2>1. \A c \in kept : c \subseteq shown /\ (c = {} => c \in ruleClaims)
      BY <1>1, <1>3
  <2>2. score \subseteq judged /\ (score # {} => \A s \in Pair : score \cap From(s) # {})
      BY <1>1, <1>3
  <2> QED BY <1>1, <1>2, <2>1, <2>2 DEF Rests, From, scoreVars, explanationVars
<1>10. IsTrue(resolved)'
  <2>1. ASSUME resolved'.status = "grounded"
        PROVE  score # {} /\ status = "grounded" /\ kept = claims /\ final = "grounded"
      BY <1>5, <1>7, <2>1
  <2>2. status = "grounded" => claims # {} /\ claims = answer /\ {} \notin answer
      BY <1>3 DEF OfModel
  <2>3. resolved'.status = "grounded" => resolved'.reason = "none"
      BY <1>6, <2>1
  <2>4. resolved'.reason = "none" => resolved'.status = "grounded"
      BY <1>5, <1>6, <1>7 DEF Statuses
  <2> QED BY <1>1, <1>2, <2>1, <2>2, <2>3, <2>4 DEF IsTrue, explanationVars
<1> QED BY <1>1, <1>2, <1>8, <1>9, <1>10, EndKeepsInv

LEMMA ResolveFailsKeepsInv == ASSUME IInv, ResolveFails PROVE IInv'
<1>1. /\ step = "resolve" /\ step' = "commit"
      /\ UNCHANGED <<indexVars, ruleClaims, scoreVars, explanationVars, traces, stored>>
      /\ resolved'.semantic = {} /\ resolved'.claims = {} /\ resolved'.cites = {}
      /\ resolved'.status = "rules_fallback"
      /\ resolved'.reason \in {"semantic_evidence_unavailable", "guidance_retrieval_unavailable"}
      /\ DOMAIN resolved' = {"semantic", "claims", "cites", "status", "reason"}
    BY DEF ResolveFails
<1>2. resolved'.status \in Statuses /\ resolved'.reason \in Reasons
    BY <1>1 DEF Statuses, Reasons
<1>3. Rests(resolved)' /\ IsTrue(resolved)'
    BY <1>1 DEF Rests, IsTrue
<1> QED BY <1>1, <1>2, <1>3, EndKeepsInv

LEMMA StepInv == IInv /\ [Next]_vars => IInv'
<1> SUFFICES ASSUME IInv, [Next]_vars PROVE IInv' OBVIOUS
<1>1. ASSUME NEW s \in Sources, Reindex(s) \/ Withdraw(s) PROVE IInv'
  <2>1. generation' \in [Sources -> 1 .. MaxGeneration] /\ visible' \subseteq Sources
      BY <1>1, BoundsAssumption DEF Reindex, Withdraw, IInv, TypeOK
  <2> QED BY <1>1, <2>1, IndexKeepsInv DEF Reindex, Withdraw
<1>2. CASE UNCHANGED vars
    BY <1>2, IndexKeepsInv DEF vars, indexVars, IInv, TypeOK
<1> QED BY <1>1, <1>2, ScoreKeepsInv, GuideKeepsInv, ResolveKeepsInv, ResolveFailsKeepsInv,
       StoreKeepsInv DEF Next, Match

LEMMA InvHolds == Spec => []IInv
BY InitInv, StepInv, PTL DEF Spec

-----------------------------------------------------------------------------
(* The properties                                                          *)

\* Every variable has its type, and a recommendation its five parts.
THEOREM TypeCorrect == Spec => []TypeOK
<1>1. IInv => TypeOK
    BY DEF IInv
<1> QED BY <1>1, InvHolds, PTL

\* Whatever models answer and whatever happens to the index meanwhile, what is stored rests
\* on what was shown and may be used, or is the rules'.
THEOREM StoredIsGrounded == Spec => []EverythingIsGrounded
<1>1. IInv => EverythingIsGrounded
    BY DEF IInv, StoredRests, Rests, EverythingIsGrounded, Done
<1> QED BY <1>1, InvHolds, PTL

\* "grounded" is only said with a score, and of an answer of which every claim kept its
\* citations to the end.
THEOREM GroundedIsTrue == Spec => []GroundedMeansGrounded
<1>1. IInv => GroundedMeansGrounded
    BY DEF IInv, StoredRests, IsTrue, GroundedMeansGrounded, Done
<1> QED BY <1>1, InvHolds, PTL

\* The trace of a call says what became of its answer.
THEOREM TracesTell == Spec => []TracesAgree
<1>1. IInv => TracesAgree
    BY DEF IInv, TracesRest, TracesAgree, Done, Ended
<1> QED BY <1>1, InvHolds, PTL

\* The last lookup is what counts: everything that is stored was active then, all of it at the
\* same moment, whatever had been replaced while the models answered.
THEOREM CitationsStayConfirmed == Spec => CitationsWereConfirmed
<1> DEFINE Confirmed == /\ step = "resolve" /\ step' # "resolve" => resolved'.cites \subseteq Active
                        /\ Done' /\ ~ Done => stored' = resolved
<1>1. IInv /\ [Next]_vars => [Confirmed]_vars
  <2> SUFFICES ASSUME IInv, [Next]_vars PROVE Confirmed
      OBVIOUS
  <2>1. CASE Resolve
      BY <2>1, ResolvedIs DEF Resolve, Done
  <2>2. CASE ResolveFails
      BY <2>2 DEF ResolveFails, Done
  <2>3. CASE Store
      BY <2>3 DEF Store
  <2>4. CASE Score
      BY <2>4 DEF Score, ShowPair, NoPair, Judge, JudgeFails, Confirm, Done
  <2>5. CASE Guide
      BY <2>5 DEF Guide, Disabled, Show, Explain, ExplainFails, Validate, Unavailable, FallBack, Done
  <2>6. CASE UNCHANGED vars \/ \E s \in Sources : Reindex(s) \/ Withdraw(s)
      BY <2>6 DEF vars, Reindex, Withdraw, Done
  <2> QED BY <2>1, <2>2, <2>3, <2>4, <2>5, <2>6 DEF Next, Match
<1> QED BY <1>1, InvHolds, PTL DEF Spec, CitationsWereConfirmed
=============================================================================
