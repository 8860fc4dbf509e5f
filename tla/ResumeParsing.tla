---------------------------- MODULE ResumeParsing ----------------------------
(***************************************************************************)
(* Parsing a resume with a language model and with rules.                  *)
(*                                                                         *)
(* The worker asks the model through the gateway, which tries a request    *)
(* several times; invalid output is given one more request, to repair it.  *)
(* What the model says is kept as far as its evidence, a slice of the      *)
(* text, resolves, and is merged with what the rules find; without an      *)
(* answer the rules' profile stands alone.  The profile is published       *)
(* together with the trace of the call.  When the resume is processed      *)
(* again, a profile that is there is checked, and only the index is        *)
(* rebuilt.                                                                *)
(*                                                                         *)
(* Of the texts only matters whether evidence resolves.  A project or a    *)
(* skill stands or falls with its evidence alike; Skills has both.         *)
(***************************************************************************)
EXTENDS Naturals

CONSTANTS
    SkillNames,
    MaxRetries,    \* MODEL_MAX_RETRIES
    MaxCycles,     \* bound: how often the resume is queued again
    Nothing

ASSUME RetriesAssumption == MaxRetries \in Nat
ASSUME CyclesAssumption == MaxCycles \in Nat

VARIABLES
    status,    \* the resume: "queued", "working", "done", "failed"
    step,      \* the worker: "idle", "first", "repair", "publish", "index"
    attempt,   \* attempts of the present request that have failed
    sent,      \* provider requests since the resume was claimed, counted up to one too many
    rules,     \* what the rules find in this text
    result,    \* what is to be published: profile and trace
    stored,    \* the profile that is published
    trace,     \* the trace that was published with it
    cycles     \* how often the resume has been queued again

vars == <<status, step, attempt, sent, rules, result, stored, trace, cycles>>

-----------------------------------------------------------------------------
Skills == [name : SkillNames, sound : BOOLEAN]
Facts  == [value : BOOLEAN, evidence : {"none", "sound", "unsound"}]
NoFact == [value |-> FALSE, evidence |-> "none"]

\* ResumeProfile: what the schema admits.
Profiles == [version : {"1.0", "other"}, skills : SUBSET Skills, experience : Facts, education : Facts]

\* HeuristicResumeParser cites what it has found.
Found == {NoFact, [value |-> TRUE, evidence |-> "sound"]}
RuleProfiles == [version : {"1.0"}, skills : SUBSET [name : SkillNames, sound : {TRUE}],
                 experience : Found, education : Found]

Codes  == {"none", "invalid_output", "permanent", "transient"}
Traces == [status : {"succeeded", "failed"}, code : Codes, attempts : 1 .. MaxRetries + 1]
Outcomes == [profile : Profiles, trace : Traces \cup {Nothing}]

ASSUME NothingAssumption == Nothing \notin Profiles \cup Traces

MaxRequests == 2 * (MaxRetries + 1)

Init == /\ status = "queued" /\ step = "idle"
        /\ attempt = 0 /\ sent = 0 /\ cycles = 0
        /\ rules \in RuleProfiles
        /\ result = Nothing /\ stored = Nothing /\ trace = Nothing

-----------------------------------------------------------------------------
(* Grounding and merging                                                   *)

\* Defect: facts are taken from the model as they are.
GroundedUnchecked(f) == f

\* A value without evidence that resolves is removed with its evidence; where there is no
\* value, the evidence is not looked at.
Grounded(f) == IF f.value /\ f.evidence # "sound" THEN NoFact ELSE f

\* Defect: what the model says replaces what the rules say.
MergedModelOnly(l, r) == IF l.value THEN l ELSE NoFact

\* _merge: value and evidence are merged each for itself, the model's first.
Merged(l, r) == [value |-> l.value \/ r.value,
                 evidence |-> IF l.evidence # "none" THEN l.evidence ELSE r.evidence]

SoundSkills(skills) == {s \in skills : s.sound}
Names(skills) == {s.name : s \in skills}

\* The model's profile, grounded, with what the rules have in addition.
Combined(llm) == LET skills == SoundSkills(llm.skills) IN
    [version    |-> llm.version,
     skills     |-> skills \cup {s \in rules.skills : s.name \notin Names(skills)},
     experience |-> Merged(Grounded(llm.experience), rules.experience),
     education  |-> Merged(Grounded(llm.education), rules.education)]

Supported(f) == f.value => f.evidence = "sound"

\* _has_parsed_state accepts the stored profile.
Readable(p) == /\ p.version = "1.0"
               /\ \A s \in p.skills : s.sound
               /\ Supported(p.experience) /\ Supported(p.education)

-----------------------------------------------------------------------------
(* The worker                                                              *)

\* A claim.  A resume that has a profile is only indexed again.
ClaimParse == /\ status = "queued" /\ stored = Nothing
              /\ status' = "working" /\ step' = "first"
              /\ attempt' = 0 /\ sent' = 0
              /\ UNCHANGED <<rules, result, stored, trace, cycles>>

\* Without a model, the parser is the rules' parser.
ClaimParseByRules == /\ status = "queued" /\ stored = Nothing
                     /\ status' = "working" /\ step' = "publish"
                     /\ attempt' = 0 /\ sent' = 0
                     /\ result' = [profile |-> rules, trace |-> Nothing]
                     /\ UNCHANGED <<rules, stored, trace, cycles>>

ClaimIndexOnly == /\ status = "queued" /\ stored # Nothing /\ Readable(stored)
                  /\ status' = "working" /\ step' = "index"
                  /\ attempt' = 0 /\ sent' = 0
                  /\ UNCHANGED <<rules, result, stored, trace, cycles>>

\* resume_parsed_state_invalid: not retried, and not taken up by a backfill.
ClaimUnreadable == /\ status = "queued" /\ stored # Nothing /\ ~ Readable(stored)
                   /\ status' = "failed"
                   /\ UNCHANGED <<step, attempt, sent, rules, result, stored, trace, cycles>>

Conclude(profile, traced) == /\ step' = "publish"
                             /\ result' = [profile |-> profile, trace |-> traced]

\* Any failure of the model leaves what the rules find.
FallBack(code, attempts) ==
    Conclude(rules, [status |-> "failed", code |-> code, attempts |-> attempts])

Asking == step \in {"first", "repair"}

Counted == IF sent > MaxRequests THEN sent ELSE sent + 1

\* A provider request returns output that fits the schema.
Answer == /\ Asking
          /\ sent' = Counted
          /\ \E llm \in Profiles :
                Conclude(Combined(llm), [status |-> "succeeded", code |-> "none",
                                         attempts |-> attempt + 1])
          /\ UNCHANGED <<status, attempt, rules, stored, trace, cycles>>

\* Defect: every invalid output is sent back for repair.
MayRepairAlways == TRUE

\* invalid_output is not retried by the gateway; the parser asks once for a repair.  The
\* attempts before are counted or not, with the way in which the output was invalid.
MayRepair == step = "first"

InvalidOutput ==
    /\ Asking
    /\ sent' = Counted
    /\ IF MayRepair THEN step' = "repair" /\ attempt' = 0 /\ UNCHANGED result
       ELSE /\ \E attempts \in {1, attempt + 1} : FallBack("invalid_output", attempts)
            /\ UNCHANGED attempt
    /\ UNCHANGED <<status, rules, stored, trace, cycles>>

\* Authentication and other errors of the provider's client end the request; the attempts
\* before are not counted in the error.
PermanentError == /\ Asking
                  /\ sent' = Counted
                  /\ FallBack("permanent", 1)
                  /\ UNCHANGED <<status, attempt, rules, stored, trace, cycles>>

MayRetry == attempt < MaxRetries

\* Rate limit, timeout, lost connection, and any status the provider returns are tried
\* again, a rejection too.
TransientError ==
    /\ Asking
    /\ sent' = Counted
    /\ IF MayRetry THEN attempt' = attempt + 1 /\ UNCHANGED <<step, result>>
       ELSE FallBack("transient", attempt + 1) /\ UNCHANGED attempt
    /\ UNCHANGED <<status, rules, stored, trace, cycles>>

\* Defect: the trace is only kept if the model was of use.
TracedIfUseful(r) == IF r.trace # Nothing /\ r.trace.status = "succeeded" THEN r.trace ELSE trace

\* The trace is written in the transaction that publishes the profile.
Traced(r) == IF r.trace # Nothing THEN r.trace ELSE trace

Publish == /\ step = "publish"
           /\ stored' = result.profile
           /\ trace' = Traced(result)
           /\ status' = "done" /\ step' = "idle" /\ result' = Nothing
           /\ UNCHANGED <<attempt, sent, rules, cycles>>

PublishIndex == /\ step = "index"
                /\ status' = "done" /\ step' = "idle"
                /\ UNCHANGED <<attempt, sent, rules, result, stored, trace, cycles>>

\* An unforeseen error, the time limit, a lost lease: nothing is published, and the resume
\* is queued again, unless the failure is permanent.
Interrupt == /\ step # "idle" /\ cycles < MaxCycles
             /\ status' \in {"queued", "failed"}
             /\ step' = "idle" /\ result' = Nothing
             /\ cycles' = cycles + 1
             /\ UNCHANGED <<attempt, sent, rules, stored, trace>>

\* A backfill takes up what is done.
Backfill == /\ status = "done" /\ cycles < MaxCycles
            /\ status' = "queued"
            /\ cycles' = cycles + 1
            /\ UNCHANGED <<step, attempt, sent, rules, result, stored, trace>>

-----------------------------------------------------------------------------
Claim == ClaimParse \/ ClaimParseByRules \/ ClaimIndexOnly \/ ClaimUnreadable

Work == \/ Answer \/ InvalidOutput \/ PermanentError \/ TransientError
        \/ Publish \/ PublishIndex

Next == Claim \/ Work \/ Interrupt \/ Backfill

Spec == Init /\ [][Next]_vars

-----------------------------------------------------------------------------
(* Properties                                                              *)

\* Every variable has its type.
TypeOK == /\ status \in {"queued", "working", "done", "failed"}
          /\ step \in {"idle", "first", "repair", "publish", "index"}
          /\ attempt \in 0 .. MaxRetries
          /\ sent \in 0 .. MaxRequests + 1
          /\ rules \in RuleProfiles
          /\ result \in Outcomes \cup {Nothing}
          /\ stored \in Profiles \cup {Nothing}
          /\ trace \in Traces \cup {Nothing}
          /\ cycles \in 0 .. MaxCycles

\* Retries and repair multiply, but they are bounded: an attempt at a resume costs at most
\* 2 * (MaxRetries + 1) provider requests, whatever the provider does.
RequestsAreBounded == sent <= MaxRequests

\* Whatever the rules found is in the profile, whether the model answered or not, and each
\* skill has evidence that resolves.
RulesFactsSurvive ==
    stored # Nothing =>
        /\ \A s \in stored.skills : s.sound
        /\ Names(rules.skills) \subseteq Names(stored.skills)
        /\ rules.experience.value => stored.experience.value
        /\ rules.education.value => stored.education.value

\* A value that only the model gave has evidence that resolves.
ModelFactsAreSupported ==
    stored # Nothing =>
        /\ stored.experience.value /\ ~ rules.experience.value => stored.experience.evidence = "sound"
        /\ stored.education.value /\ ~ rules.education.value => stored.education.evidence = "sound"

\* Grounding and merging lose nothing that the rules found, and let nothing through that
\* only the model says and the text does not.
ProfileIsGrounded == RulesFactsSurvive /\ ModelFactsAreSupported

\* A model call whose result was published has left a trace, and one that failed has left
\* the rules' profile and nothing else.
TraceTellsTheOutcome ==
    [][stored' # stored /\ sent > 0 =>
          /\ trace' # Nothing
          /\ trace'.status = "failed" => stored' = rules]_vars
=============================================================================
