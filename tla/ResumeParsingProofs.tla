------------------------- MODULE ResumeParsingProofs -------------------------
(***************************************************************************)
(* Proofs about ResumeParsing, for any number of retries and any skills.   *)
(*                                                                         *)
(* The requests sent are tied to the attempts of the present request: as   *)
(* many as these before the repair, at most one full round more after it.  *)
(* What is to be published has passed Combined, or is the rules' profile;  *)
(* what both keep of the facts is the lemma CombinedIsFair.                *)
(***************************************************************************)
EXTENDS ResumeParsing, TLAPS

\* What the properties ask of a profile that is stored.
Fair(p) == /\ \A s \in p.skills : s.sound
           /\ Names(rules.skills) \subseteq Names(p.skills)
           /\ rules.experience.value => p.experience.value
           /\ rules.education.value => p.education.value
           /\ p.experience.value /\ ~ rules.experience.value => p.experience.evidence = "sound"
           /\ p.education.value /\ ~ rules.education.value => p.education.evidence = "sound"

\* A request costs one attempt; only the repair starts to count anew.
SentIsCounted == /\ sent <= MaxRequests
                 /\ step = "first" => sent <= attempt
                 /\ step = "repair" => sent <= MaxRetries + 1 + attempt

\* What is about to be published, and its trace, if the model was asked.
OutcomeIsFair == step = "publish" =>
    /\ result \in Outcomes /\ Fair(result.profile)
    /\ sent > 0 => result.trace \in Traces
    /\ result.trace \in Traces /\ result.trace.status = "failed" => result.profile = rules

StoredIsFair == stored # Nothing => Fair(stored)

IInv == TypeOK /\ SentIsCounted /\ OutcomeIsFair /\ StoredIsFair

-----------------------------------------------------------------------------
LEMMA RulesAreProfiles == RuleProfiles \subseteq Profiles
<1>1. Found \subseteq Facts
    BY DEF Found, Facts, NoFact
<1>2. SUBSET [name : SkillNames, sound : {TRUE}] \subseteq SUBSET Skills
  <2>1. [name : SkillNames, sound : {TRUE}] \subseteq Skills
      BY DEF Skills
  <2> QED BY <2>1
<1> QED BY <1>1, <1>2 DEF RuleProfiles, Profiles

\* The rules' profile is fair to itself.
LEMMA RulesAreFair == TypeOK => Fair(rules)
BY DEF TypeOK, RuleProfiles, Found, NoFact, Fair

\* A merged fact is there if the rules or the model, with sound evidence, have it; where the
\* rules have none, its evidence is the model's.
LEMMA MergedFact ==
    ASSUME NEW l \in Facts, NEW r \in Found
    PROVE  LET f == Merged(Grounded(l), r) IN
           /\ f \in Facts
           /\ r.value => f.value
           /\ f.value /\ ~ r.value => f.evidence = "sound"
<1>0. l.value \in BOOLEAN /\ l.evidence \in {"none", "sound", "unsound"}
    BY DEF Facts
<1>1. \/ r = NoFact
      \/ r.value = TRUE /\ r.evidence = "sound"
    BY DEF Found
<1>2. NoFact.value = FALSE /\ NoFact.evidence = "none"
    BY DEF NoFact
<1> DEFINE g == Grounded(l)
<1>3. \/ g = NoFact
      \/ g = l /\ (l.value => l.evidence = "sound")
    BY DEF Grounded
<1>4. /\ g.value \in BOOLEAN /\ g.evidence \in {"none", "sound", "unsound"}
      /\ g.value => g.evidence = "sound"
    BY <1>0, <1>2, <1>3
<1> HIDE DEF g
<1>5. /\ Merged(g, r).value = (g.value \/ r.value)
      /\ Merged(g, r).evidence = IF g.evidence # "none" THEN g.evidence ELSE r.evidence
      /\ Merged(g, r) = [value |-> Merged(g, r).value, evidence |-> Merged(g, r).evidence]
    BY DEF Merged
<1>6. r.evidence \in {"none", "sound", "unsound"}
    BY <1>1, <1>2
<1>7. Merged(g, r).value \in BOOLEAN /\ Merged(g, r).evidence \in {"none", "sound", "unsound"}
    BY <1>1, <1>2, <1>4, <1>5, <1>6
<1>8. Merged(g, r) \in Facts
    BY <1>5, <1>7 DEF Facts
<1>9. r.value => Merged(g, r).value
    BY <1>5
<1>10. Merged(g, r).value /\ ~ r.value => Merged(g, r).evidence = "sound"
    BY <1>1, <1>2, <1>4, <1>5
<1> QED BY <1>8, <1>9, <1>10 DEF g

\* The skills of the model that stand, and those the rules have in addition.
LEMMA CombinedSkills ==
    ASSUME TypeOK, NEW llm \in Profiles
    PROVE  LET c == Combined(llm) IN
           /\ c.skills \subseteq Skills
           /\ \A s \in c.skills : s.sound
           /\ Names(rules.skills) \subseteq Names(c.skills)
<1>1. rules.skills \subseteq [name : SkillNames, sound : {TRUE}]
    BY DEF TypeOK, RuleProfiles
<1>2. llm.skills \subseteq Skills
    BY DEF Profiles
<1> DEFINE kept == SoundSkills(llm.skills)
           more == {s \in rules.skills : s.name \notin Names(kept)}
<1>3. Combined(llm).skills = kept \cup more
    BY DEF Combined
<1>4. kept \subseteq Skills /\ \A s \in kept : s.sound
    BY <1>2 DEF SoundSkills
<1>5. more \subseteq Skills /\ \A s \in more : s.sound
    BY <1>1 DEF Skills
<1>6. ASSUME NEW n \in Names(rules.skills) PROVE n \in Names(kept \cup more)
  <2>1. PICK s \in rules.skills : s.name = n
      BY <1>6 DEF Names
  <2>2. CASE n \in Names(kept)
      BY <2>2 DEF Names
  <2>3. CASE n \notin Names(kept)
      BY <2>1, <2>3 DEF Names
  <2> QED BY <2>2, <2>3
<1> QED BY <1>3, <1>4, <1>5, <1>6

LEMMA CombinedIsFair ==
    ASSUME TypeOK, NEW llm \in Profiles PROVE Combined(llm) \in Profiles /\ Fair(Combined(llm))
<1>1. /\ rules.experience \in Found /\ rules.education \in Found
      /\ llm.experience \in Facts /\ llm.education \in Facts
      /\ llm.version \in {"1.0", "other"}
    BY DEF TypeOK, RuleProfiles, Profiles
<1>2. /\ Combined(llm).experience = Merged(Grounded(llm.experience), rules.experience)
      /\ Combined(llm).education = Merged(Grounded(llm.education), rules.education)
      /\ Combined(llm).version = llm.version
    BY DEF Combined
<1>3. Combined(llm) = [version |-> Combined(llm).version, skills |-> Combined(llm).skills,
         experience |-> Combined(llm).experience, education |-> Combined(llm).education]
    BY DEF Combined
<1>4. Combined(llm) \in Profiles
    BY <1>1, <1>2, <1>3, CombinedSkills, MergedFact DEF Profiles
<1>5. Fair(Combined(llm))
    BY <1>1, <1>2, CombinedSkills, MergedFact DEF Fair
<1> QED BY <1>4, <1>5

-----------------------------------------------------------------------------
LEMMA InitInv == Init => IInv
<1> USE RetriesAssumption, CyclesAssumption
<1> QED BY DEF Init, IInv, TypeOK, SentIsCounted, OutcomeIsFair, StoredIsFair, MaxRequests

LEMMA ClaimKeepsInv == ASSUME IInv, Claim PROVE IInv'
<1> USE RetriesAssumption, CyclesAssumption DEF MaxRequests
<1>1. CASE ClaimParse
    BY <1>1 DEF ClaimParse, IInv, TypeOK, SentIsCounted, OutcomeIsFair, StoredIsFair, Fair
<1>2. CASE ClaimParseByRules
  <2>1. Fair(rules) /\ rules \in Profiles
      BY RulesAreFair, RulesAreProfiles DEF IInv, TypeOK
  <2>2. result' \in Outcomes /\ result'.profile = rules /\ result'.trace = Nothing
      BY <1>2, <2>1 DEF ClaimParseByRules, Outcomes
  <2>3. TypeOK'
      BY <1>2, <2>2 DEF ClaimParseByRules, IInv, TypeOK
  <2>4. OutcomeIsFair'
      BY <1>2, <2>1, <2>2, NothingAssumption DEF ClaimParseByRules, OutcomeIsFair, Fair
  <2>5. StoredIsFair' /\ SentIsCounted'
      BY <1>2 DEF ClaimParseByRules, IInv, StoredIsFair, SentIsCounted, Fair
  <2> QED BY <2>3, <2>4, <2>5 DEF IInv
<1>3. CASE ClaimIndexOnly
    BY <1>3 DEF ClaimIndexOnly, IInv, TypeOK, SentIsCounted, OutcomeIsFair, StoredIsFair, Fair
<1>4. CASE ClaimUnreadable
    BY <1>4 DEF ClaimUnreadable, IInv, TypeOK, SentIsCounted, OutcomeIsFair, StoredIsFair, Fair
<1> QED BY <1>1, <1>2, <1>3, <1>4 DEF Claim

\* While the model is asked, one more request is within the bound.
LEMMA RoomForARequest ==
    ASSUME IInv, Asking
    PROVE  /\ Counted = sent + 1 /\ sent + 1 <= MaxRequests /\ sent \in Nat
           /\ attempt \in 0 .. MaxRetries
           /\ step = "first" => sent + 1 <= MaxRetries + 1
BY RetriesAssumption DEF IInv, TypeOK, SentIsCounted, Asking, Counted, MaxRequests

\* A call of the model is concluded: with a fair profile and a trace of this call.
LEMMA ConcludeKeepsInv ==
    ASSUME IInv, Asking, NEW p \in Profiles, Fair(p), NEW t \in Traces,
           t.status = "failed" => p = rules,
           Conclude(p, t), sent' = Counted,
           UNCHANGED <<status, attempt, rules, stored, trace, cycles>>
    PROVE  IInv'
<1> USE RetriesAssumption
<1>1. sent' = sent + 1 /\ sent + 1 <= MaxRequests /\ sent \in Nat
    BY RoomForARequest
<1>2. result' \in Outcomes /\ result'.profile = p /\ result'.trace = t /\ step' = "publish"
    BY DEF Conclude, Outcomes
<1>3. TypeOK'
    BY <1>1, <1>2 DEF IInv, TypeOK, MaxRequests
<1>4. SentIsCounted'
    BY <1>1, <1>2 DEF SentIsCounted, MaxRequests
<1>5. OutcomeIsFair'
    BY <1>2 DEF OutcomeIsFair, Fair
<1>6. StoredIsFair'
    BY DEF IInv, StoredIsFair, Fair
<1> QED BY <1>3, <1>4, <1>5, <1>6 DEF IInv

LEMMA FallBackKeepsInv ==
    ASSUME IInv, Asking, NEW code \in Codes, NEW n \in 1 .. MaxRetries + 1,
           FallBack(code, n), sent' = Counted,
           UNCHANGED <<status, attempt, rules, stored, trace, cycles>>
    PROVE  IInv'
<1> DEFINE t == [status |-> "failed", code |-> code, attempts |-> n]
<1>1. t \in Traces
    BY DEF Traces
<1>2. rules \in Profiles /\ Fair(rules)
    BY RulesAreFair, RulesAreProfiles DEF IInv, TypeOK
<1>3. Conclude(rules, t)
    BY DEF FallBack
<1> QED BY <1>1, <1>2, <1>3, ConcludeKeepsInv

LEMMA AskingKeepsInv ==
    ASSUME IInv, Answer \/ InvalidOutput \/ PermanentError \/ TransientError PROVE IInv'
<1> USE RetriesAssumption
<1>1. Asking
    BY DEF Answer, InvalidOutput, PermanentError, TransientError
<1>2. /\ Counted = sent + 1 /\ sent + 1 <= MaxRequests /\ sent \in Nat
      /\ attempt \in 0 .. MaxRetries /\ 1 \in 1 .. MaxRetries + 1
      /\ attempt + 1 \in 1 .. MaxRetries + 1
      /\ step = "first" => sent + 1 <= MaxRetries + 1
    BY <1>1, RoomForARequest
<1>3. CASE Answer
  <2> DEFINE t == [status |-> "succeeded", code |-> "none", attempts |-> attempt + 1]
  <2>1. PICK llm \in Profiles : Conclude(Combined(llm), t)
      BY <1>3 DEF Answer
  <2>2. t \in Traces /\ t.status # "failed"
      BY <1>2 DEF Traces, Codes
  <2>3. Combined(llm) \in Profiles /\ Fair(Combined(llm))
      BY CombinedIsFair DEF IInv
  <2> HIDE DEF t
  <2> QED BY <1>1, <1>3, <2>1, <2>2, <2>3, ConcludeKeepsInv DEF Answer
<1>4. CASE InvalidOutput
  <2>1. CASE MayRepair
    <3>1. /\ step = "first" /\ step' = "repair" /\ attempt' = 0 /\ sent' = sent + 1
          /\ UNCHANGED <<status, rules, result, stored, trace, cycles>>
        BY <1>2, <1>4, <2>1 DEF InvalidOutput, MayRepair
    <3>2. TypeOK'
        BY <1>2, <3>1 DEF IInv, TypeOK, MaxRequests
    <3>3. SentIsCounted'
        BY <1>2, <3>1 DEF SentIsCounted, MaxRequests
    <3> QED BY <3>1, <3>2, <3>3 DEF IInv, OutcomeIsFair, StoredIsFair, Fair
  <2>2. CASE ~ MayRepair
    <3>1. PICK n \in {1, attempt + 1} : FallBack("invalid_output", n)
        BY <1>4, <2>2 DEF InvalidOutput
    <3>2. UNCHANGED <<status, attempt, rules, stored, trace, cycles>> /\ sent' = Counted
        BY <1>4, <2>2 DEF InvalidOutput
    <3> QED BY <1>1, <1>2, <3>1, <3>2, FallBackKeepsInv DEF Codes
  <2> QED BY <2>1, <2>2
<1>5. CASE PermanentError
    BY <1>1, <1>2, <1>5, FallBackKeepsInv DEF PermanentError, Codes
<1>6. CASE TransientError
  <2>1. CASE MayRetry
    <3>1. /\ attempt' = attempt + 1 /\ attempt < MaxRetries /\ sent' = sent + 1
          /\ UNCHANGED <<status, step, rules, result, stored, trace, cycles>>
        BY <1>2, <1>6, <2>1 DEF TransientError, MayRetry
    <3>2. TypeOK'
        BY <1>2, <3>1 DEF IInv, TypeOK, MaxRequests
    <3>3. SentIsCounted'
        BY <1>2, <3>1 DEF IInv, SentIsCounted, MaxRequests
    <3>4. OutcomeIsFair'
        BY <1>1, <3>1 DEF OutcomeIsFair, Asking
    <3> QED BY <3>1, <3>2, <3>3, <3>4 DEF IInv, StoredIsFair, Fair
  <2>2. CASE ~ MayRetry
      BY <1>1, <1>2, <1>6, <2>2, FallBackKeepsInv DEF TransientError, Codes
  <2> QED BY <2>1, <2>2
<1> QED BY <1>3, <1>4, <1>5, <1>6

LEMMA StepInv == IInv /\ [Next]_vars => IInv'
<1> SUFFICES ASSUME IInv, [Next]_vars PROVE IInv' OBVIOUS
<1> USE RetriesAssumption, CyclesAssumption
<1>1. CASE Claim
    BY <1>1, ClaimKeepsInv
<1>2. CASE Answer \/ InvalidOutput \/ PermanentError \/ TransientError
    BY <1>2, AskingKeepsInv
<1>3. CASE Publish
  <2>1. result \in Outcomes /\ Fair(result.profile)
      BY <1>3 DEF Publish, IInv, OutcomeIsFair
  <2>2. stored' = result.profile /\ stored' \in Profiles
      BY <1>3, <2>1 DEF Publish, Outcomes
  <2>3. trace' \in Traces \cup {Nothing}
      BY <1>3, <2>1 DEF Publish, Traced, Outcomes, IInv, TypeOK
  <2>4. TypeOK'
      BY <1>3, <2>2, <2>3 DEF Publish, IInv, TypeOK
  <2>5. StoredIsFair' /\ OutcomeIsFair' /\ SentIsCounted'
      BY <1>3, <2>1, <2>2 DEF Publish, IInv, StoredIsFair, OutcomeIsFair, SentIsCounted, Fair
  <2> QED BY <2>4, <2>5 DEF IInv
<1>4. CASE PublishIndex
    BY <1>4 DEF PublishIndex, IInv, TypeOK, SentIsCounted, OutcomeIsFair, StoredIsFair, Fair
<1>5. CASE Interrupt
    BY <1>5 DEF Interrupt, IInv, TypeOK, SentIsCounted, OutcomeIsFair, StoredIsFair, Fair
<1>6. CASE Backfill
    BY <1>6 DEF Backfill, IInv, TypeOK, SentIsCounted, OutcomeIsFair, StoredIsFair, Fair
<1>7. CASE UNCHANGED vars
    BY <1>7 DEF vars, IInv, TypeOK, SentIsCounted, OutcomeIsFair, StoredIsFair, Fair
<1> QED BY <1>1, <1>2, <1>3, <1>4, <1>5, <1>6, <1>7 DEF Next, Work

LEMMA InvHolds == Spec => []IInv
BY InitInv, StepInv, PTL DEF Spec

-----------------------------------------------------------------------------
(* The properties, for every MaxRetries and all skills                     *)

\* Every variable has its type.
THEOREM TypeCorrect == Spec => []TypeOK
<1>1. IInv => TypeOK
    BY DEF IInv
<1> QED BY <1>1, InvHolds, PTL

\* An attempt at a resume costs two rounds of requests at most.
THEOREM RequestsStayBounded == Spec => []RequestsAreBounded
<1>1. IInv => RequestsAreBounded
    BY DEF IInv, SentIsCounted, RequestsAreBounded
<1> QED BY <1>1, InvHolds, PTL

\* What the rules find is published, whatever the model answers.
THEOREM RulesAreKept == Spec => []RulesFactsSurvive
<1>1. IInv => RulesFactsSurvive
    BY DEF IInv, StoredIsFair, Fair, RulesFactsSurvive
<1> QED BY <1>1, InvHolds, PTL

\* What only the model says is published with evidence that resolves.
THEOREM ModelIsHeldToEvidence == Spec => []ModelFactsAreSupported
<1>1. IInv => ModelFactsAreSupported
    BY DEF IInv, StoredIsFair, Fair, ModelFactsAreSupported
<1> QED BY <1>1, InvHolds, PTL

\* Grounding and merging lose nothing that the rules found, and let nothing through that only
\* the model says and the text does not.
THEOREM ProfilesAreGrounded == Spec => []ProfileIsGrounded
BY RulesAreKept, ModelIsHeldToEvidence, PTL DEF ProfileIsGrounded

\* A profile that a model call led to comes with a trace, and a failed call with the rules'
\* profile.
THEOREM TracesTell == Spec => TraceTellsTheOutcome
<1> DEFINE Tells == stored' # stored /\ sent > 0 =>
          /\ trace' # Nothing
          /\ trace'.status = "failed" => stored' = rules
<1>1. IInv /\ [Next]_vars => [Tells]_vars
  <2> SUFFICES ASSUME IInv, [Next]_vars PROVE Tells OBVIOUS
  <2>1. CASE Publish
    <3> SUFFICES ASSUME sent > 0
                 PROVE  trace' # Nothing /\ (trace'.status = "failed" => stored' = rules)
        OBVIOUS
    <3>1. result.trace \in Traces /\ (result.trace.status = "failed" => result.profile = rules)
        BY <2>1 DEF Publish, IInv, OutcomeIsFair
    <3>2. result.trace # Nothing
        BY <3>1, NothingAssumption
    <3> QED BY <2>1, <3>1, <3>2 DEF Publish, Traced
  <2>2. CASE UNCHANGED stored
      BY <2>2
  <2> QED BY <2>1, <2>2
          DEF Next, Claim, ClaimParse, ClaimParseByRules, ClaimIndexOnly, ClaimUnreadable, Work,
              Answer, InvalidOutput, PermanentError, TransientError, PublishIndex, Interrupt,
              Backfill, vars
<1> QED BY <1>1, InvHolds, PTL DEF Spec, TraceTellsTheOutcome
=============================================================================
