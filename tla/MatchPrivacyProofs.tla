------------------------- MODULE MatchPrivacyProofs -------------------------
(***************************************************************************)
(* Proofs about MatchPrivacy, for any number of requests, workers, Sources *)
(* and results.                                                            *)
(*                                                                         *)
(* The guard does most of the work: whoever is past it is alone there, so  *)
(* a match that has read what is not erased stores its result before       *)
(* anything of it can be.  Locks on resumes do the rest: workers and       *)
(* operators, who do not need the guard, cannot replace the index of the   *)
(* resume that a match has locked.                                         *)
(***************************************************************************)
EXTENDS MatchPrivacy, TLAPS

RequestStates == [op : Operations, step : Steps,
                  subject : Sources \cup Results \cup {Nothing},
                  version : Versions \cup {Nothing}, scope : SUBSET Sources,
                  shown : SUBSET Chunks, semantic : SUBSET Chunks, claim : SUBSET Chunks]

Outside    == {"idle", "guard"}    \* steps of a request that does not hold the guard
MatchSteps == {"scope", "rank", "explain", "resolve", "commit"}

\* What a request is about, by its operation and step.
Subjects(p) == LET q == request[p] IN
    /\ IsMatch(p) => q.subject \in Resumes /\ q.version \in Versions
    /\ q.op = "feedback" => q.subject \in Results
    /\ q.op = "erase" => q.subject \in Resumes \cup Documents
    /\ q.step \in MatchSteps => IsMatch(p)
    /\ q.step \in {"read", "write"} => q.op = "feedback"
    /\ q.step = "scrub" => q.op = "erase"

\* What a match has been shown lies in its scope, and what it cites among what it was shown.
Evidence(p) == LET q == request[p] IN
    /\ q.step \notin {"resolve", "commit"} => q.shown = {}
    /\ q.step \notin {"explain", "resolve", "commit"} => q.semantic = {}
    /\ q.scope \subseteq {q.subject, q.version} \cup Documents
    /\ q.claim \subseteq q.shown
    /\ \A c \in q.shown : c.source \in q.scope
    /\ q.semantic # {} => {c.source : c \in q.semantic} = {q.subject, q.version}

\* The guard, and the lock on the resume.
Holds(p) == LET q == request[p] IN
    /\ q.step \notin Outside => guard = p
    /\ q.step \in MatchSteps => locked[q.subject] = p

\* What a request has read still holds.
StillTrue(p) == LET q == request[p] IN
    /\ q.step \in MatchSteps => lifecycle[q.subject] = "active"
    /\ \A c \in q.shown : lifecycle[c.source] # "deleted"
    /\ q.step = "commit" => \A c \in q.semantic \cup q.claim :
           c.source \in Resumes => c = Current(q.subject) /\ Searchable(q.subject)
    /\ q.step = "write" => Open(q.subject)

RequestsInv == \A p \in Requests : Subjects(p) /\ Evidence(p) /\ Holds(p) /\ StillTrue(p)

\* A worker that is going to publish holds the lock of its Source.
WorkersInv == \A w \in Workers : /\ publishing[w] # Nothing => locked[publishing[w]] = w
                                 /\ w \in sharing => publishing[w] # Nothing

\* A result owes its words to its own two sides and to documents.
ResultsInv == /\ ErasedLeavesNoTrace
              /\ \A i \in Results : result[i] # Nothing =>
                     result[i].text \subseteq {result[i].resume, result[i].version} \cup Documents
              /\ \A v \in Versions : lifecycle[v] # "deleted"

IInv == TypeOK /\ RequestsInv /\ WorkersInv /\ ResultsInv /\ RemarksGoWithTheResult

-----------------------------------------------------------------------------
(* What holds in any state                                                 *)

\* A request that has not passed the guard has read nothing yet.
LEMMA OutsideIsTrue ==
    ASSUME NEW p \in Requests, request[p].step \in Outside, Evidence(p)
    PROVE  Holds(p) /\ StillTrue(p)
BY DEF Outside, MatchSteps, Evidence, Holds, StillTrue

\* Past the guard everybody is alone.
LEMMA OneInside ==
    ASSUME RequestsInv, NEW p \in Requests, guard = p, NEW q \in Requests, q # p
    PROVE  request[q].step \in Outside
BY DEF RequestsInv, Holds

\* An active chunk is that of the present generation of a Source that may be searched.
LEMMA ActiveChunk ==
    ASSUME TypeOK, NEW c \in Active
    PROVE  /\ c \in Chunks /\ c.source \in Sources
           /\ c = Current(c.source) /\ Searchable(c.source)
BY DEF Active, Current, Chunks, TypeOK

\* The chunks of both sides come from both sides.
LEMMA SidesOf ==
    ASSUME NEW S, NEW T, T = {Current(s) : s \in S} PROVE {c.source : c \in T} = S
<1>1. \A s : Current(s).source = s
    BY DEF Current
<1> QED BY <1>1

LEMMA InitInv == Init => IInv
<1> SUFFICES ASSUME Init PROVE IInv OBVIOUS
<1>1. Idle \in RequestStates
    BY DEF Idle, RequestStates, Operations, Steps
<1>2. TypeOK
    BY <1>1 DEF Init, TypeOK, RequestStates
<1>3. RequestsInv
    BY DEF Init, RequestsInv, Subjects, Evidence, Holds, StillTrue, Idle, IsMatch, Outside, MatchSteps
<1>4. WorkersInv /\ ResultsInv /\ RemarksGoWithTheResult
    BY DEF Init, WorkersInv, ResultsInv, ErasedLeavesNoTrace, RemarksGoWithTheResult, Sources
<1> QED BY <1>2, <1>3, <1>4 DEF IInv

-----------------------------------------------------------------------------
(* Steps of a request inside or before the guard, which write nothing      *)

\* The request changes, and nothing else does: what it has to keep is its own affair.
LEMMA OwnAffair ==
    ASSUME IInv, NEW p \in Requests, NEW x \in RequestStates,
           request' = [request EXCEPT ![p] = x],
           UNCHANGED <<sourceVars, lockVars, publishing, storedVars>>,
           Subjects(p)', Evidence(p)', Holds(p)', StillTrue(p)'
    PROVE  IInv'
<1> USE DEF sourceVars, lockVars, storedVars
<1>1. TypeOK'
    BY DEF IInv, TypeOK, RequestStates
<1>2. RequestsInv'
  <2> SUFFICES ASSUME NEW q \in Requests, q # p
               PROVE  (Subjects(q) /\ Evidence(q) /\ Holds(q) /\ StillTrue(q))'
      BY DEF RequestsInv
  <2>1. request'[q] = request[q]
      BY DEF IInv, TypeOK
  <2>2. Subjects(q) /\ Evidence(q) /\ Holds(q) /\ StillTrue(q)
      BY DEF IInv, RequestsInv
  <2> QED BY <2>1, <2>2 DEF Subjects, Evidence, Holds, StillTrue, IsMatch, Current, Searchable, Open
<1>3. WorkersInv' /\ ResultsInv' /\ RemarksGoWithTheResult'
    BY DEF IInv, WorkersInv, ResultsInv, ErasedLeavesNoTrace, RemarksGoWithTheResult
<1> QED BY <1>1, <1>2, <1>3 DEF IInv

LEMMA ArriveKeepsInv == ASSUME IInv, NEW p \in Requests, Arrive(p) PROVE IInv'
<1>1. ASSUME NEW op \in Operations, NEW s \in Sources \cup Results, NEW v \in Versions \cup {Nothing},
             Begin(p, op, s, v),
             op \in {"rules", "hybrid"} => s \in Resumes /\ v \in Versions,
             op = "feedback" => s \in Results,
             op = "erase" => s \in Resumes \cup Documents
      PROVE  IInv'
  <2> DEFINE x == [Idle EXCEPT !.op = op, !.step = "guard", !.subject = s, !.version = v]
  <2>1. request' = [request EXCEPT ![p] = x]
      BY <1>1 DEF Begin
  <2>2. x \in RequestStates
      BY <1>1 DEF Idle, RequestStates, Operations, Steps
  <2>3. /\ x.op = op /\ x.step = "guard" /\ x.subject = s /\ x.version = v
        /\ x.scope = {} /\ x.shown = {} /\ x.semantic = {} /\ x.claim = {}
      BY DEF Idle
  <2> HIDE DEF x
  <2>4. request'[p] = x
      BY <2>1 DEF IInv, TypeOK
  <2>5. Subjects(p)'
      BY <1>1, <2>3, <2>4 DEF Subjects, IsMatch, MatchSteps
  <2>6. Evidence(p)' /\ Holds(p)' /\ StillTrue(p)'
      BY <2>3, <2>4 DEF Evidence, Holds, StillTrue, Outside, MatchSteps
  <2> QED BY <1>1, <2>1, <2>2, <2>5, <2>6, OwnAffair DEF Begin
<1>2. CASE \E op \in {"rules", "hybrid"}, r \in Resumes, v \in Versions : Begin(p, op, r, v)
    BY <1>1, <1>2 DEF Operations, Sources
<1>3. CASE \E i \in Results, v \in Versions \cup {Nothing} : Begin(p, "feedback", i, v)
    BY <1>1, <1>3 DEF Operations
<1>4. CASE \E s \in Resumes \cup Documents : Begin(p, "erase", s, Nothing)
    BY <1>1, <1>4 DEF Operations, Sources
<1> QED BY <1>2, <1>3, <1>4 DEF Arrive

\* What a match at one of its steps knows of itself.
LEMMA MatchFacts ==
    ASSUME IInv, NEW p \in Requests, request[p].step \in MatchSteps
    PROVE  /\ request[p] \in RequestStates /\ IsMatch(p)
           /\ request[p].subject \in Resumes /\ request[p].version \in Versions
           /\ request[p].subject \in Sources /\ request[p].version \in Sources
           /\ Subjects(p) /\ Evidence(p) /\ Holds(p) /\ StillTrue(p)
           /\ guard = p /\ locked[request[p].subject] = p
           /\ lifecycle[request[p].subject] = "active"
<1>1. request[p] \in RequestStates
    BY DEF IInv, TypeOK, RequestStates
<1>2. Subjects(p) /\ Evidence(p) /\ Holds(p) /\ StillTrue(p)
    BY DEF IInv, RequestsInv
<1>3. request[p].step \notin Outside
    BY DEF Outside, MatchSteps
<1> QED BY <1>1, <1>2, <1>3 DEF Subjects, Holds, StillTrue, Sources

LEMMA ReadScopeKeepsInv == ASSUME IInv, NEW p \in Requests, ReadScope(p) PROVE IInv'
<1> DEFINE q == request[p]
           scope == {q.subject, q.version} \cup {d \in Documents : Searchable(d)}
           x == [q EXCEPT !.step = "rank", !.scope = scope]
<1>1. q.step = "scope" /\ q.step \in MatchSteps
    BY DEF ReadScope, At, MatchSteps
<1>2. /\ q \in RequestStates /\ q.subject \in Sources /\ q.version \in Sources
      /\ Subjects(p) /\ Evidence(p) /\ Holds(p) /\ StillTrue(p)
    BY <1>1, MatchFacts
<1>3. scope \subseteq Sources
    BY <1>2 DEF Sources
<1>4. /\ x \in RequestStates /\ x.step = "rank" /\ x.scope = scope /\ x.op = q.op
      /\ x.subject = q.subject /\ x.version = q.version /\ x.shown = q.shown
      /\ x.semantic = q.semantic /\ x.claim = q.claim
    BY <1>2, <1>3 DEF RequestStates, Steps
<1>5. request' = [request EXCEPT ![p] = x]
    BY DEF ReadScope
<1> HIDE DEF x
<1>6. request'[p] = x
    BY <1>5 DEF IInv, TypeOK
<1>7. Subjects(p)'
    BY <1>1, <1>2, <1>4, <1>6 DEF Subjects, IsMatch, MatchSteps
<1>8. Evidence(p)'
    BY <1>1, <1>2, <1>4, <1>6 DEF Evidence
<1>9. Holds(p)' /\ StillTrue(p)'
  <2>1. UNCHANGED <<lifecycle, locked, guard>>
      BY DEF ReadScope, sourceVars, lockVars
  <2>2. x.shown = {}
      BY <1>1, <1>2, <1>4 DEF Evidence
  <2> QED BY <1>1, <1>2, <1>4, <1>6, <2>1, <2>2 DEF Holds, StillTrue, MatchSteps, Outside
<1> QED BY <1>4, <1>5, <1>7, <1>8, <1>9, OwnAffair DEF ReadScope

LEMMA RankKeepsInv == ASSUME IInv, NEW p \in Requests, Rank(p) PROVE IInv'
<1> DEFINE q == request[p]
           sides == {q.subject, q.version}
<1>1. q.step = "rank" /\ q.step \in MatchSteps
    BY DEF Rank, MayAsk, At, MatchSteps
<1>2. /\ q \in RequestStates /\ q.subject \in Sources /\ q.version \in Sources
      /\ Subjects(p) /\ Evidence(p) /\ Holds(p) /\ StillTrue(p)
    BY <1>1, MatchFacts
<1>3. PICK semantic : /\ semantic = {} \/ semantic = {Current(s) : s \in sides}
                      /\ request' = [request EXCEPT ![p].step = "explain", ![p].semantic = semantic]
    BY DEF Rank
<1>4. semantic \subseteq Chunks
    BY <1>2, <1>3 DEF Current, Chunks, IInv, TypeOK
<1>5. semantic # {} => {c.source : c \in semantic} = sides
    BY <1>3, SidesOf
<1> DEFINE x == [q EXCEPT !.step = "explain", !.semantic = semantic]
<1>6. /\ x \in RequestStates /\ x.step = "explain" /\ x.semantic = semantic /\ x.op = q.op
      /\ x.subject = q.subject /\ x.version = q.version /\ x.shown = q.shown
      /\ x.scope = q.scope /\ x.claim = q.claim
    BY <1>2, <1>4 DEF RequestStates, Steps
<1>7. request' = [request EXCEPT ![p] = x]
    BY <1>3 DEF IInv, TypeOK
<1> HIDE DEF x
<1>8. request'[p] = x
    BY <1>7 DEF IInv, TypeOK
<1>9. Subjects(p)'
    BY <1>1, <1>2, <1>6, <1>8 DEF Subjects, IsMatch, MatchSteps
<1>10. Evidence(p)'
    BY <1>1, <1>2, <1>5, <1>6, <1>8 DEF Evidence
<1>11. Holds(p)' /\ StillTrue(p)'
  <2>1. UNCHANGED <<lifecycle, locked, guard>>
      BY DEF Rank, sourceVars, lockVars
  <2>2. x.shown = {}
      BY <1>1, <1>2, <1>6 DEF Evidence
  <2> QED BY <1>1, <1>2, <1>6, <1>8, <2>1, <2>2 DEF Holds, StillTrue, MatchSteps, Outside
<1> QED BY <1>6, <1>7, <1>9, <1>10, <1>11, OwnAffair DEF Rank

LEMMA ExplainKeepsInv == ASSUME IInv, NEW p \in Requests, Explain(p) PROVE IInv'
<1> DEFINE q == request[p]
<1>1. q.step = "explain" /\ q.step \in MatchSteps
    BY DEF Explain, MayAsk, At, MatchSteps
<1>2. /\ q \in RequestStates
      /\ Subjects(p) /\ Evidence(p) /\ Holds(p) /\ StillTrue(p)
    BY <1>1, MatchFacts
<1>3. PICK shown, claim :
         /\ shown \subseteq {c \in Active : c.source \in q.scope} /\ claim \subseteq shown
         /\ request' = [request EXCEPT ![p].step = "resolve", ![p].shown = shown, ![p].claim = claim]
    BY DEF Explain
<1>4. /\ shown \subseteq Chunks /\ claim \subseteq shown
      /\ \A c \in shown : c.source \in q.scope /\ lifecycle[c.source] # "deleted"
  <2>1. TypeOK
      BY DEF IInv
  <2> QED BY <1>3, <2>1, ActiveChunk DEF Searchable
<1> DEFINE x == [q EXCEPT !.step = "resolve", !.shown = shown, !.claim = claim]
<1>6. /\ x \in RequestStates /\ x.step = "resolve" /\ x.semantic = q.semantic /\ x.op = q.op
      /\ x.subject = q.subject /\ x.version = q.version /\ x.shown = shown
      /\ x.scope = q.scope /\ x.claim = claim
    BY <1>2, <1>4 DEF RequestStates, Steps
<1>7. request' = [request EXCEPT ![p] = x]
    BY <1>3 DEF IInv, TypeOK
<1> HIDE DEF x
<1>8. request'[p] = x
    BY <1>7 DEF IInv, TypeOK
<1>9. Subjects(p)'
    BY <1>1, <1>2, <1>6, <1>8 DEF Subjects, IsMatch, MatchSteps
<1>10. Evidence(p)'
    BY <1>1, <1>2, <1>4, <1>6, <1>8 DEF Evidence
<1>11. Holds(p)' /\ StillTrue(p)'
  <2>1. UNCHANGED <<lifecycle, locked, guard>>
      BY DEF Explain, sourceVars, lockVars
  <2> QED BY <1>1, <1>2, <1>4, <1>6, <1>8, <2>1 DEF Holds, StillTrue, MatchSteps, Outside
<1> QED BY <1>6, <1>7, <1>9, <1>10, <1>11, OwnAffair DEF Explain

\* The last lookup is what makes the citations of the resume current.
LEMMA ResolveKeepsInv == ASSUME IInv, NEW p \in Requests, Resolve(p) PROVE IInv'
<1> DEFINE q == request[p]
<1>1. q.step = "resolve" /\ q.step \in MatchSteps
    BY DEF Resolve, At, MatchSteps
<1>2. /\ q \in RequestStates /\ q.subject \in Resumes /\ q.version \in Versions
      /\ Subjects(p) /\ Evidence(p) /\ Holds(p) /\ StillTrue(p)
    BY <1>1, MatchFacts
<1>3. PICK found \in BOOLEAN : request' = [request EXCEPT
              ![p].step = "commit",
              ![p].semantic = IF found /\ StillActive(@) THEN @ ELSE {},
              ![p].claim = IF found /\ StillActive(@) THEN @ ELSE {},
              ![p].shown = IF found /\ StillActive(request[p].claim) THEN @ ELSE {}]
    BY DEF Resolve
<1> DEFINE semantic == IF found /\ StillActive(q.semantic) THEN q.semantic ELSE {}
           claim == IF found /\ StillActive(q.claim) THEN q.claim ELSE {}
           shown == IF found /\ StillActive(q.claim) THEN q.shown ELSE {}
           x == [q EXCEPT !.step = "commit", !.semantic = semantic, !.claim = claim, !.shown = shown]
<1>4. /\ semantic \subseteq Active /\ claim \subseteq Active
      /\ semantic = {} \/ semantic = q.semantic
      /\ claim \subseteq shown /\ shown \subseteq q.shown /\ claim \subseteq q.claim
    BY <1>2 DEF StillActive, Evidence
<1>5. request' = [request EXCEPT ![p] = x]
    BY <1>3 DEF IInv, TypeOK
<1> HIDE DEF semantic, claim, shown
<1>6. /\ x \in RequestStates /\ x.step = "commit" /\ x.semantic = semantic /\ x.op = q.op
      /\ x.subject = q.subject /\ x.version = q.version /\ x.shown = shown
      /\ x.scope = q.scope /\ x.claim = claim
    BY <1>2, <1>4 DEF RequestStates, Steps
<1> HIDE DEF x
<1>8. request'[p] = x
    BY <1>5 DEF IInv, TypeOK
<1>9. Subjects(p)'
    BY <1>1, <1>2, <1>6, <1>8 DEF Subjects, IsMatch, MatchSteps
<1>10. Evidence(p)'
    BY <1>1, <1>2, <1>4, <1>6, <1>8 DEF Evidence
<1>11. UNCHANGED <<lifecycle, generation, locked, guard>>
    BY DEF Resolve, sourceVars, lockVars
<1>12. ASSUME NEW c \in semantic \cup claim, c.source \in Resumes
       PROVE  c = Current(q.subject) /\ Searchable(q.subject)
  <2>1. c.source \in {q.subject, q.version} \cup Documents
      BY <1>2, <1>4 DEF Evidence
  <2>2. c.source = q.subject
      BY <1>2, <1>12, <2>1, SourcesAssumption
  <2>3. c = Current(c.source) /\ Searchable(c.source)
      BY <1>4, ActiveChunk DEF IInv
  <2> QED BY <2>2, <2>3
<1>13. Holds(p)'
    BY <1>1, <1>2, <1>6, <1>8, <1>11 DEF Holds, MatchSteps, Outside
<1>14. StillTrue(p)'
    BY <1>1, <1>2, <1>4, <1>6, <1>8, <1>11, <1>12 DEF StillTrue, MatchSteps, Current, Searchable
<1> QED BY <1>5, <1>6, <1>9, <1>10, <1>13, <1>14, OwnAffair DEF Resolve

LEMMA ReadResultKeepsInv == ASSUME IInv, NEW p \in Requests, ReadResult(p) PROVE IInv'
<1> DEFINE q == request[p]
           x == [q EXCEPT !.step = "write"]
<1>1. q.step = "read" /\ Open(q.subject)
    BY DEF ReadResult, At
<1>2. /\ q \in RequestStates
      /\ Subjects(p) /\ Evidence(p) /\ Holds(p) /\ StillTrue(p)
    BY DEF IInv, RequestsInv, TypeOK, RequestStates
<1>4. /\ x \in RequestStates /\ x.step = "write" /\ x.scope = q.scope /\ x.op = q.op
      /\ x.subject = q.subject /\ x.version = q.version /\ x.shown = q.shown
      /\ x.semantic = q.semantic /\ x.claim = q.claim
    BY <1>2 DEF RequestStates, Steps
<1>5. request' = [request EXCEPT ![p] = x]
    BY DEF ReadResult, Goto
<1> HIDE DEF x
<1>6. request'[p] = x
    BY <1>5 DEF IInv, TypeOK
<1>7. Subjects(p)' /\ Evidence(p)'
    BY <1>1, <1>2, <1>4, <1>6 DEF Subjects, Evidence, IsMatch, MatchSteps
<1>8. UNCHANGED <<lifecycle, locked, guard, result>>
    BY DEF ReadResult, sourceVars, lockVars, storedVars
<1>9. Holds(p)' /\ StillTrue(p)'
    BY <1>1, <1>2, <1>4, <1>6, <1>8 DEF Holds, StillTrue, Open, MatchSteps, Outside
<1> QED BY <1>4, <1>5, <1>7, <1>9, OwnAffair DEF ReadResult

-----------------------------------------------------------------------------
(* Guard and locks are taken                                               *)

\* Where all others are outside, a step has to keep nothing of theirs.
LEMMA AloneKeeps ==
    ASSUME IInv, NEW p \in Requests, NEW x \in RequestStates,
           \A q \in Requests : q # p => request[q].step \in Outside,
           request' = [request EXCEPT ![p] = x],
           Subjects(p)', Evidence(p)', Holds(p)', StillTrue(p)'
    PROVE  RequestsInv'
<1> SUFFICES ASSUME NEW q \in Requests, q # p
             PROVE  (Subjects(q) /\ Evidence(q) /\ Holds(q) /\ StillTrue(q))'
    BY DEF RequestsInv
<1>1. request'[q] = request[q] /\ request[q].step \in Outside
    BY DEF IInv, TypeOK
<1>2. Subjects(q) /\ Evidence(q)
    BY DEF IInv, RequestsInv
<1>3. Subjects(q)' /\ Evidence(q)'
    BY <1>1, <1>2 DEF Subjects, Evidence, IsMatch
<1>4. Holds(q)' /\ StillTrue(q)'
    BY <1>1, <1>3 DEF Outside, MatchSteps, Evidence, Holds, StillTrue
<1> QED BY <1>3, <1>4

LEMMA TakeGuardKeepsInv == ASSUME IInv, NEW p \in Requests, TakeGuard(p) PROVE IInv'
<1> DEFINE q == request[p]
           step == IF q.op = "feedback" THEN "read" ELSE "source"
           x == [q EXCEPT !.step = step]
<1>1. /\ q.step = "guard" /\ guard = Nothing /\ guard' = p
      /\ UNCHANGED <<sourceVars, sharing, locked, publishing, storedVars>>
    BY DEF TakeGuard, MayTakeGuard, At, NeedsGuard
<1>2. q \in RequestStates /\ Subjects(p) /\ Evidence(p)
    BY DEF IInv, RequestsInv, TypeOK, RequestStates
<1>3. /\ x \in RequestStates /\ x.step = step /\ x.scope = q.scope /\ x.op = q.op
      /\ x.subject = q.subject /\ x.version = q.version /\ x.shown = q.shown
      /\ x.semantic = q.semantic /\ x.claim = q.claim
    BY <1>2 DEF RequestStates, Steps
<1>4. request' = [request EXCEPT ![p] = x]
    BY DEF TakeGuard, Goto
<1> HIDE DEF x
<1>5. request'[p] = x
    BY <1>4 DEF IInv, TypeOK
<1>6. Subjects(p)' /\ Evidence(p)'
    BY <1>1, <1>2, <1>3, <1>5 DEF Subjects, Evidence, IsMatch, MatchSteps
<1>7. Holds(p)' /\ StillTrue(p)'
    BY <1>1, <1>2, <1>3, <1>5 DEF Evidence, Holds, StillTrue, MatchSteps, Outside
<1>8. \A r \in Requests : request[r].step \in Outside
    BY <1>1, NothingAssumption DEF IInv, RequestsInv, Holds
<1>9. RequestsInv'
    BY <1>3, <1>4, <1>6, <1>7, <1>8, AloneKeeps
<1>10. TypeOK'
    BY <1>1, <1>3, <1>4 DEF IInv, TypeOK, RequestStates, sourceVars, storedVars
<1>11. WorkersInv' /\ ResultsInv' /\ RemarksGoWithTheResult'
    BY <1>1 DEF IInv, WorkersInv, ResultsInv, ErasedLeavesNoTrace, RemarksGoWithTheResult,
                sourceVars, storedVars
<1> QED BY <1>9, <1>10, <1>11 DEF IInv

\* Somebody past the guard locks the row of a Source that nobody has locked.
LEMMA LockKeepsInv ==
    ASSUME IInv, NEW p \in Requests, NEW s \in Sources, NEW step \in Steps,
           request[p].step = "source", locked[s] = Nothing,
           step = "scrub" => request[p].op = "erase",
           step # "scrub" => /\ step \in {"scope", "commit"} /\ IsMatch(p)
                             /\ s = request[p].subject /\ lifecycle[s] = "active",
           locked' = [locked EXCEPT ![s] = p], Goto(p, step),
           UNCHANGED <<sourceVars, guard, sharing, publishing, storedVars>>
    PROVE  IInv'
<1> DEFINE q == request[p]
           x == [q EXCEPT !.step = step]
<1>1. /\ q \in RequestStates /\ Subjects(p) /\ Evidence(p) /\ guard = p
      /\ q.shown = {} /\ q.claim = {} /\ q.semantic = {}
    BY DEF IInv, RequestsInv, TypeOK, RequestStates, Holds, Outside, Evidence
<1>2. \A r \in Requests : r # p => request[r].step \in Outside
    BY <1>1, OneInside DEF IInv
<1>3. /\ x \in RequestStates /\ x.step = step /\ x.scope = q.scope /\ x.op = q.op
      /\ x.subject = q.subject /\ x.version = q.version /\ x.shown = q.shown
      /\ x.semantic = q.semantic /\ x.claim = q.claim
    BY <1>1 DEF RequestStates, Steps
<1>4. request' = [request EXCEPT ![p] = x]
    BY DEF Goto
<1> HIDE DEF x
<1>5. request'[p] = x
    BY <1>4 DEF IInv, TypeOK
<1>6. Subjects(p)' /\ Evidence(p)'
    BY <1>1, <1>3, <1>5 DEF Subjects, Evidence, IsMatch, MatchSteps
<1>7. Holds(p)'
    BY <1>1, <1>3, <1>5 DEF Holds, MatchSteps, IInv, TypeOK
<1>8. StillTrue(p)'
    BY <1>1, <1>3, <1>5 DEF StillTrue, MatchSteps, sourceVars
<1>9. RequestsInv'
    BY <1>2, <1>3, <1>4, <1>6, <1>7, <1>8, AloneKeeps
<1>10. TypeOK'
    BY <1>3, <1>4 DEF IInv, TypeOK, RequestStates, sourceVars, storedVars
<1>11. WorkersInv'
    BY NothingAssumption DEF IInv, TypeOK, WorkersInv
<1>12. ResultsInv' /\ RemarksGoWithTheResult'
    BY DEF IInv, ResultsInv, ErasedLeavesNoTrace, RemarksGoWithTheResult, sourceVars, storedVars
<1> QED BY <1>9, <1>10, <1>11, <1>12 DEF IInv

LEMMA LockResumeKeepsInv == ASSUME IInv, NEW p \in Requests, LockResume(p) PROVE IInv'
<1> DEFINE r == request[p].subject
           step == IF request[p].op = "hybrid" THEN "scope" ELSE "commit"
<1>1. /\ request[p].step = "source" /\ IsMatch(p) /\ locked[r] = Nothing
      /\ lifecycle[r] = "active" /\ locked' = [locked EXCEPT ![r] = p] /\ Goto(p, step)
      /\ UNCHANGED <<sourceVars, guard, sharing, publishing, storedVars>>
    BY DEF LockResume, RowIsFree, At, Matchable, LockRow
<1>2. r \in Sources /\ step \in Steps /\ step \in {"scope", "commit"}
    BY <1>1 DEF IInv, RequestsInv, Subjects, Sources, Steps
<1> QED BY <1>1, <1>2, LockKeepsInv

LEMMA LockErasedKeepsInv == ASSUME IInv, NEW p \in Requests, LockErased(p) PROVE IInv'
<1> DEFINE s == request[p].subject
<1>1. /\ request[p].step = "source" /\ request[p].op = "erase" /\ locked[s] = Nothing
      /\ locked' = [locked EXCEPT ![s] = p] /\ Goto(p, "scrub")
      /\ UNCHANGED <<sourceVars, guard, sharing, publishing, storedVars>>
    BY DEF LockErased, RowIsFree, At
<1>2. s \in Sources /\ "scrub" \in Steps
    BY <1>1 DEF IInv, RequestsInv, Subjects, Sources, Steps
<1> QED BY <1>1, <1>2, LockKeepsInv

-----------------------------------------------------------------------------
(* Transactions of requests end                                            *)

\* The one that ends is idle again; locks of workers are not its own.
LEMMA ReleaseBase ==
    ASSUME IInv, NEW p \in Requests, Release(p), UNCHANGED publishing
    PROVE  /\ request' = [request EXCEPT ![p] = Idle] /\ Idle \in RequestStates
           /\ request' \in [Requests -> RequestStates]
           /\ guard' \in Requests \cup {Nothing} /\ sharing' = sharing
           /\ locked' \in [Sources -> Requests \cup Workers \cup {Nothing}]
           /\ WorkersInv'
           /\ Subjects(p)' /\ Evidence(p)' /\ Holds(p)' /\ StillTrue(p)'
<1>1. Idle \in RequestStates
    BY DEF Idle, RequestStates, Operations, Steps
<1>2. request' = [request EXCEPT ![p] = Idle] /\ request'[p] = Idle
    BY DEF Release, IInv, TypeOK
<1>3. /\ Idle.op = "none" /\ Idle.step = "idle" /\ Idle.scope = {} /\ Idle.shown = {}
      /\ Idle.semantic = {} /\ Idle.claim = {}
    BY DEF Idle
<1>4. Subjects(p)' /\ Evidence(p)' /\ Holds(p)' /\ StillTrue(p)'
    BY <1>2, <1>3 DEF Subjects, Evidence, Holds, StillTrue, IsMatch, MatchSteps, Outside
<1>5. request' \in [Requests -> RequestStates]
    BY <1>1, <1>2 DEF IInv, TypeOK, RequestStates
<1>6. /\ guard' \in Requests \cup {Nothing} /\ sharing' = sharing
      /\ locked' \in [Sources -> Requests \cup Workers \cup {Nothing}]
    BY DEF Release, IInv, TypeOK
<1>7. WorkersInv'
    BY ActorsAssumption DEF Release, IInv, TypeOK, WorkersInv
<1> QED BY <1>1, <1>2, <1>4, <1>5, <1>6, <1>7

LEMMA AbortKeepsInv ==
    ASSUME IInv, NEW p \in Requests, Release(p), UNCHANGED <<sourceVars, publishing, storedVars>>
    PROVE  IInv'
<1> USE DEF sourceVars, storedVars
<1>1. /\ request' = [request EXCEPT ![p] = Idle] /\ Idle \in RequestStates
      /\ request' \in [Requests -> RequestStates]
      /\ guard' \in Requests \cup {Nothing} /\ sharing' = sharing
      /\ locked' \in [Sources -> Requests \cup Workers \cup {Nothing}]
      /\ WorkersInv'
      /\ Subjects(p)' /\ Evidence(p)' /\ Holds(p)' /\ StillTrue(p)'
    BY ReleaseBase
<1>2. TypeOK'
    BY <1>1 DEF IInv, TypeOK, RequestStates
<1>3. RequestsInv'
  <2>1. CASE guard = p
    <3>1. \A q \in Requests : q # p => request[q].step \in Outside
        BY <2>1, OneInside DEF IInv
    <3> QED BY <1>1, <3>1, AloneKeeps
  <2>2. CASE guard # p
    <3> SUFFICES ASSUME NEW q \in Requests, q # p
                 PROVE  (Subjects(q) /\ Evidence(q) /\ Holds(q) /\ StillTrue(q))'
        BY <1>1 DEF RequestsInv
    <3>1. request'[q] = request[q] /\ guard' = guard
        BY <1>1, <2>2 DEF IInv, TypeOK, Release
    <3>2. Subjects(q) /\ Evidence(q) /\ Holds(q) /\ StillTrue(q)
        BY DEF IInv, RequestsInv
    <3>3. Subjects(q)' /\ Evidence(q)' /\ StillTrue(q)'
        BY <3>1, <3>2 DEF Subjects, Evidence, StillTrue, IsMatch, Current, Searchable, Open
    <3>4. Holds(q)'
      <4>1. request[q].step \in MatchSteps => request[q].subject \in Sources
          BY <3>2 DEF Subjects, Sources
      <4> QED BY <3>1, <3>2, <4>1 DEF Holds, Release
    <3> QED BY <3>3, <3>4
  <2> QED BY <2>1, <2>2
<1>4. ResultsInv' /\ RemarksGoWithTheResult'
    BY DEF IInv, ResultsInv, ErasedLeavesNoTrace, RemarksGoWithTheResult
<1> QED BY <1>1, <1>2, <1>3, <1>4 DEF IInv

\* Who writes has the guard, so that what it writes concerns no other request.
LEMMA WriteKeepsInv ==
    ASSUME IInv, NEW p \in Requests, guard = p, Release(p), UNCHANGED publishing,
           lifecycle' \in [Sources -> {"active", "inactive", "deleted"}],
           processed' = processed, generation' = generation,
           result' \in [Results -> Stored \cup {Nothing}], reasons' \subseteq Results,
           ResultsInv', RemarksGoWithTheResult'
    PROVE  IInv'
<1>1. /\ request' = [request EXCEPT ![p] = Idle] /\ Idle \in RequestStates
      /\ request' \in [Requests -> RequestStates]
      /\ guard' \in Requests \cup {Nothing} /\ sharing' = sharing
      /\ locked' \in [Sources -> Requests \cup Workers \cup {Nothing}]
      /\ WorkersInv'
      /\ Subjects(p)' /\ Evidence(p)' /\ Holds(p)' /\ StillTrue(p)'
    BY ReleaseBase
<1>2. \A q \in Requests : q # p => request[q].step \in Outside
    BY OneInside DEF IInv
<1>3. RequestsInv'
    BY <1>1, <1>2, AloneKeeps
<1>4. TypeOK'
    BY <1>1 DEF IInv, TypeOK, RequestStates
<1> QED BY <1>1, <1>3, <1>4 DEF IInv

LEMMA CommitMatchKeepsInv ==
    ASSUME IInv, NEW p \in Requests, NEW i \in Results, CommitMatch(p, i) PROVE IInv'
<1> DEFINE q == request[p]
           new == ResultOf(p)
<1>1. /\ q.step = "commit" /\ q.step \in MatchSteps /\ result[i] = Nothing
      /\ result' = [result EXCEPT ![i] = new]
      /\ Release(p) /\ UNCHANGED <<sourceVars, publishing, reasons>>
    BY DEF CommitMatch, MayStore, At, MatchSteps
<1>2. /\ q \in RequestStates /\ q.subject \in Resumes /\ q.version \in Versions
      /\ q.subject \in Sources /\ q.version \in Sources
      /\ Evidence(p) /\ StillTrue(p) /\ guard = p /\ lifecycle[q.subject] = "active"
    BY <1>1, MatchFacts
<1>3. /\ new.resume = q.subject /\ new.version = q.version /\ new.cites = q.semantic \cup q.claim
      /\ new.text = {q.subject, q.version} \cup {c.source : c \in q.shown}
      /\ new.redacted = FALSE /\ new \in Stored
  <2>1. {c.source : c \in q.shown} \subseteq Sources /\ q.semantic \cup q.claim \subseteq Chunks
      BY <1>2 DEF RequestStates, Chunks
  <2> QED BY <1>2, <2>1 DEF ResultOf, Stored
<1> HIDE DEF new
<1>4. /\ \A s \in new.text : lifecycle[s] # "deleted"
      /\ \A c \in new.cites : c.source \in new.text
      /\ new.text \subseteq {new.resume, new.version} \cup Documents
  <2>1. \A s \in new.text : lifecycle[s] # "deleted"
      BY <1>2, <1>3 DEF StillTrue, IInv, ResultsInv
  <2>2. \A c \in q.semantic : c.source \in {q.subject, q.version}
      BY <1>2 DEF Evidence
  <2>3. \A c \in new.cites : c.source \in new.text
      BY <1>2, <1>3, <2>2 DEF Evidence
  <2>4. new.text \subseteq {new.resume, new.version} \cup Documents
      BY <1>2, <1>3 DEF Evidence
  <2> QED BY <2>1, <2>3, <2>4
<1>5. /\ result' \in [Results -> Stored \cup {Nothing}] /\ result'[i] = new
      /\ \A j \in Results \ {i} : result'[j] = result[j]
    BY <1>1, <1>3 DEF IInv, TypeOK
<1>6. ResultsInv'
    BY <1>1, <1>4, <1>5 DEF IInv, ResultsInv, ErasedLeavesNoTrace, sourceVars
<1>7. i \notin reasons /\ reasons \subseteq Results
    BY <1>1 DEF IInv, TypeOK, RemarksGoWithTheResult
<1>8. RemarksGoWithTheResult'
    BY <1>1, <1>5, <1>7 DEF IInv, RemarksGoWithTheResult, sourceVars
<1> QED BY <1>1, <1>2, <1>5, <1>6, <1>7, <1>8, WriteKeepsInv DEF sourceVars, IInv, TypeOK

LEMMA CommitFeedbackKeepsInv ==
    ASSUME IInv, NEW p \in Requests, CommitFeedback(p) PROVE IInv'
<1> DEFINE i == request[p].subject
<1>1. /\ request[p].step = "write" /\ reasons' = reasons \cup {i} /\ Release(p)
      /\ UNCHANGED <<sourceVars, publishing, result>>
    BY DEF CommitFeedback, MayStore, At
<1>2. i \in Results /\ Open(i) /\ guard = p
    BY <1>1 DEF IInv, RequestsInv, Subjects, StillTrue, Holds, Outside
<1>3. ResultsInv' /\ RemarksGoWithTheResult'
    BY <1>1, <1>2 DEF IInv, ResultsInv, ErasedLeavesNoTrace, RemarksGoWithTheResult, Open, sourceVars
<1> QED BY <1>1, <1>2, <1>3, WriteKeepsInv DEF sourceVars, IInv, TypeOK

\* What owes a word to the erased Source is redacted: a document may have been read by any
\* match, but a resume by its own matches only.
LEMMA CommitErasureKeepsInv ==
    ASSUME IInv, NEW p \in Requests, CommitErasure(p) PROVE IInv'
<1> DEFINE s == request[p].subject
           gone == {i \in Results : result[i] # Nothing /\ Concerns(i, s)}
<1>1. request[p].step = "scrub" /\ Release(p) /\ UNCHANGED <<processed, generation, publishing>>
    BY DEF CommitErasure, At
<1>2. s \in Resumes \cup Documents /\ s \notin Versions /\ s \in Sources /\ guard = p
    BY <1>1, SourcesAssumption DEF IInv, RequestsInv, Subjects, Holds, Outside, Sources
<1>3. CASE lifecycle[s] = "deleted"
  <2>1. UNCHANGED <<lifecycle, storedVars>>
      BY <1>3 DEF CommitErasure
  <2> QED BY <1>1, <2>1, AbortKeepsInv DEF sourceVars
<1>4. CASE lifecycle[s] # "deleted"
  <2>1. /\ lifecycle' = [lifecycle EXCEPT ![s] = "deleted"]
        /\ result' = [i \in Results |-> IF i \in gone THEN Redacted(result[i]) ELSE result[i]]
        /\ reasons' = reasons \ gone
      BY <1>4 DEF CommitErasure
  <2>2. /\ lifecycle' \in [Sources -> {"active", "inactive", "deleted"}]
        /\ \A t \in Sources : t # s => lifecycle'[t] = lifecycle[t]
      BY <2>1 DEF IInv, TypeOK
  <2>3. \A i \in gone : /\ Redacted(result[i]) \in Stored
                        /\ Redacted(result[i]).text = {} /\ Redacted(result[i]).cites = {}
    <3> SUFFICES ASSUME NEW i \in gone
                 PROVE  /\ Redacted(result[i]) \in Stored
                        /\ Redacted(result[i]).text = {} /\ Redacted(result[i]).cites = {}
        OBVIOUS
    <3>1. result[i] \in Stored
        BY DEF IInv, TypeOK
    <3> QED BY <3>1 DEF Redacted, Stored
  <2>4. result' \in [Results -> Stored \cup {Nothing}] /\ reasons' \subseteq Results
      BY <2>1, <2>3 DEF IInv, TypeOK
  <2>5. ASSUME NEW i \in Results, i \notin gone, result[i] # Nothing
        PROVE  /\ result'[i] = result[i] /\ result[i] \in Stored /\ result[i].resume # s
               /\ s \notin Documents /\ s \notin result[i].text
    <3>1. result'[i] = result[i] /\ result[i] \in Stored
        BY <2>1, <2>5 DEF IInv, TypeOK
    <3>2. result[i].resume # s /\ s \notin Documents
        BY <2>5 DEF Concerns
    <3>3. result[i].version # s
        BY <1>2, <3>1 DEF Stored
    <3>4. result[i].text \subseteq {result[i].resume, result[i].version} \cup Documents
        BY <2>5 DEF IInv, ResultsInv
    <3> QED BY <3>1, <3>2, <3>3, <3>4
  <2>6. ASSUME NEW i \in Results, i \in gone
        PROVE  result'[i].text = {} /\ result'[i].cites = {}
      BY <2>1, <2>3, <2>6
  <2>7. ASSUME NEW i \in Results, i \notin gone, result[i] = Nothing PROVE result'[i] = Nothing
      BY <2>1, <2>7
  <2>8. ErasedLeavesNoTrace'
    <3> SUFFICES ASSUME NEW i \in Results, result'[i] # Nothing
                 PROVE  /\ \A t \in result'[i].text : lifecycle'[t] # "deleted"
                        /\ \A c \in result'[i].cites : c.source \in result'[i].text
        BY DEF ErasedLeavesNoTrace
    <3>1. CASE i \in gone
        BY <2>6, <3>1
    <3>2. CASE i \notin gone
      <4>1. result[i] # Nothing
          BY <2>7, <3>2
      <4>2. /\ result'[i] = result[i] /\ result[i] \in Stored /\ s \notin result[i].text
          BY <2>5, <3>2, <4>1
      <4>3. result[i].text \subseteq Sources
          BY <4>2 DEF Stored
      <4> QED BY <2>2, <4>1, <4>2, <4>3 DEF IInv, ResultsInv, ErasedLeavesNoTrace
    <3> QED BY <3>1, <3>2
  <2>9. ResultsInv'
    <3>1. \A v \in Versions : lifecycle'[v] # "deleted"
        BY <1>2, <2>2 DEF IInv, ResultsInv, Sources
    <3>2. \A i \in Results : result'[i] # Nothing =>
             result'[i].text \subseteq {result'[i].resume, result'[i].version} \cup Documents
        BY <2>5, <2>6, <2>7 DEF IInv, ResultsInv
    <3> QED BY <2>8, <3>1, <3>2 DEF ResultsInv
  <2>10. RemarksGoWithTheResult'
    <3> SUFFICES ASSUME NEW i \in reasons'
                 PROVE  /\ result'[i] # Nothing /\ ~ result'[i].redacted
                        /\ lifecycle'[result'[i].resume] # "deleted"
        BY DEF RemarksGoWithTheResult
    <3>1. /\ i \in reasons /\ i \in Results /\ i \notin gone
          /\ result[i] # Nothing /\ ~ result[i].redacted /\ lifecycle[result[i].resume] # "deleted"
        BY <2>1 DEF IInv, TypeOK, RemarksGoWithTheResult
    <3>2. result'[i] = result[i] /\ result[i].resume # s /\ result[i].resume \in Sources
        BY <2>5, <3>1 DEF Stored, Sources
    <3> QED BY <2>2, <3>1, <3>2
  <2> QED BY <1>1, <1>2, <2>2, <2>4, <2>9, <2>10, WriteKeepsInv
<1> QED BY <1>3, <1>4

-----------------------------------------------------------------------------
(* Workers and operators, who do not need the guard                        *)

\* They erase nothing, and change nothing of a resume that a request has locked.
LEMMA BesideKeepsInv ==
    ASSUME IInv, TypeOK', WorkersInv', UNCHANGED <<guard, request, storedVars>>,
           \A s \in Sources : lifecycle'[s] = "deleted" <=> lifecycle[s] = "deleted",
           \A r \in Resumes : lifecycle'[r] = lifecycle[r],
           \A p \in Requests, r \in Resumes :
               locked[r] = p => locked'[r] = p /\ generation'[r] = generation[r]
    PROVE  IInv'
<1>1. RequestsInv'
  <2> SUFFICES ASSUME NEW p \in Requests
               PROVE  (Subjects(p) /\ Evidence(p) /\ Holds(p) /\ StillTrue(p))'
      BY DEF RequestsInv
  <2> DEFINE q == request[p]
  <2>1. /\ q \in RequestStates /\ Subjects(p) /\ Evidence(p) /\ Holds(p) /\ StillTrue(p)
        /\ q.step \in MatchSteps => q.subject \in Resumes
      BY DEF IInv, RequestsInv, TypeOK, RequestStates, Subjects
  <2>2. Subjects(p)' /\ Evidence(p)' /\ Holds(p)'
      BY <2>1 DEF Subjects, Evidence, Holds, IsMatch
  <2>3. q.step \in MatchSteps => lifecycle'[q.subject] = "active"
      BY <2>1 DEF StillTrue
  <2>4. \A c \in q.shown : lifecycle'[c.source] # "deleted"
    <3>1. \A c \in q.shown : c.source \in Sources
        BY <2>1 DEF RequestStates, Chunks
    <3> QED BY <2>1, <3>1 DEF StillTrue
  <2>5. q.step = "commit" => \A c \in q.semantic \cup q.claim :
           c.source \in Resumes => c = Current(q.subject)' /\ Searchable(q.subject)'
      BY <2>1 DEF StillTrue, Holds, MatchSteps, Current, Searchable
  <2>6. q.step = "write" => Open(q.subject)'
    <3> SUFFICES ASSUME q.step = "write" PROVE Open(q.subject)'
        OBVIOUS
    <3>1. q.subject \in Results /\ Open(q.subject)
        BY <2>1 DEF Subjects, StillTrue
    <3>2. result[q.subject].resume \in Resumes
        BY <3>1 DEF Open, Stored, IInv, TypeOK
    <3> QED BY <3>1, <3>2 DEF Open, storedVars
  <2>7. StillTrue(p)'
      BY <2>3, <2>4, <2>5, <2>6 DEF StillTrue
  <2> QED BY <2>2, <2>7
<1>2. ResultsInv'
  <2>1. \A i \in Results : result[i] # Nothing => result[i].text \subseteq Sources
      BY DEF IInv, TypeOK, Stored
  <2> QED BY <2>1 DEF IInv, ResultsInv, ErasedLeavesNoTrace, storedVars, Sources
<1>3. RemarksGoWithTheResult'
  <2>1. \A i \in reasons : i \in Results /\ result[i] # Nothing /\ result[i].resume \in Sources
      BY DEF IInv, TypeOK, RemarksGoWithTheResult, Stored, Sources
  <2> QED BY <2>1 DEF IInv, RemarksGoWithTheResult, storedVars
<1> QED BY <1>1, <1>2, <1>3 DEF IInv

LEMMA LockPublicationKeepsInv ==
    ASSUME IInv, NEW w \in Workers, NEW s \in Sources, LockPublication(w, s) PROVE IInv'
<1> USE DEF sourceVars, storedVars
<1>1. TypeOK'
    BY DEF LockPublication, IInv, TypeOK
<1>2. WorkersInv'
    BY NothingAssumption DEF LockPublication, IInv, TypeOK, WorkersInv, Sources
<1>3. \A p \in Requests, r \in Resumes : locked[r] = p => locked'[r] = p
    BY NothingAssumption DEF LockPublication, IInv, TypeOK, Sources
<1> QED BY <1>1, <1>2, <1>3, BesideKeepsInv DEF LockPublication

LEMMA ShareTenantKeepsInv == ASSUME IInv, NEW w \in Workers, ShareTenant(w) PROVE IInv'
<1> USE DEF sourceVars, storedVars
<1>1. TypeOK' /\ WorkersInv'
    BY DEF ShareTenant, MayShare, IInv, TypeOK, WorkersInv
<1> QED BY <1>1, BesideKeepsInv DEF ShareTenant

LEMMA CommitPublicationKeepsInv ==
    ASSUME IInv, NEW w \in Workers, CommitPublication(w) PROVE IInv'
<1> DEFINE s == publishing[w]
<1> USE DEF sourceVars, storedVars
<1>1. s \in Sources /\ locked[s] = w
    BY DEF CommitPublication, IInv, TypeOK, WorkersInv
<1>2. PICK indexed \in BOOLEAN :
         generation' = [generation EXCEPT ![s] = IF indexed THEN @ + 1 ELSE @]
    BY DEF CommitPublication
<1>3. /\ generation' \in [Sources -> Nat]
      /\ \A r \in Sources : r # s => generation'[r] = generation[r]
    BY <1>1, <1>2 DEF IInv, TypeOK
<1>4. TypeOK'
    BY <1>3 DEF CommitPublication, EndPublication, IInv, TypeOK
<1>5. WorkersInv'
    BY DEF CommitPublication, EndPublication, IInv, TypeOK, WorkersInv
<1>6. \A p \in Requests, r \in Resumes :
         locked[r] = p => locked'[r] = p /\ generation'[r] = generation[r]
    BY <1>1, <1>3, ActorsAssumption DEF CommitPublication, EndPublication, Sources
<1> QED BY <1>4, <1>5, <1>6, BesideKeepsInv DEF CommitPublication, EndPublication

LEMMA AbortPublicationKeepsInv ==
    ASSUME IInv, NEW w \in Workers, AbortPublication(w) PROVE IInv'
<1> USE DEF sourceVars, storedVars
<1>1. TypeOK' /\ WorkersInv'
    BY DEF AbortPublication, EndPublication, IInv, TypeOK, WorkersInv
<1>2. \A p \in Requests, r \in Resumes : locked[r] = p => locked'[r] = p
    BY ActorsAssumption DEF AbortPublication, EndPublication, Sources
<1> QED BY <1>1, <1>2, BesideKeepsInv DEF AbortPublication, EndPublication

LEMMA OperatorsKeepInv ==
    ASSUME IInv, NEW s \in Sources, Reopen(s) \/ Deactivate(s) \/ Activate(s) PROVE IInv'
<1> USE DEF lockVars, storedVars
<1>1. TypeOK' /\ WorkersInv'
    BY DEF Reopen, Deactivate, Activate, IInv, TypeOK, WorkersInv
<1>2. /\ \A t \in Sources : lifecycle'[t] = "deleted" <=> lifecycle[t] = "deleted"
      /\ \A r \in Resumes : lifecycle'[r] = lifecycle[r]
      /\ UNCHANGED <<generation, locked, guard, request, storedVars>>
    BY SourcesAssumption DEF Reopen, Deactivate, Activate, IInv, TypeOK, Sources
<1> QED BY <1>1, <1>2, BesideKeepsInv

-----------------------------------------------------------------------------
(* All steps, and what follows for the specification                       *)

LEMMA StepInv == IInv /\ [Next]_vars => IInv'
<1> SUFFICES ASSUME IInv, [Next]_vars PROVE IInv' OBVIOUS
<1>1. ASSUME NEW p \in Requests, RequestStep(p) PROVE IInv'
  <2>1. CASE \E i \in Results : CommitMatch(p, i)
      BY <2>1, CommitMatchKeepsInv
  <2>2. CASE Refuse(p)
      BY <2>2, AbortKeepsInv DEF Refuse
  <2> QED BY <1>1, <2>1, <2>2, TakeGuardKeepsInv, LockResumeKeepsInv, ReadScopeKeepsInv,
             RankKeepsInv, ExplainKeepsInv, ResolveKeepsInv, ReadResultKeepsInv,
             CommitFeedbackKeepsInv, LockErasedKeepsInv, CommitErasureKeepsInv DEF RequestStep
<1>2. ASSUME NEW p \in Requests, Arrive(p) \/ Abort(p) PROVE IInv'
    BY <1>2, ArriveKeepsInv, AbortKeepsInv DEF Abort
<1>3. ASSUME NEW w \in Workers,
             \/ WorkerStep(w) \/ AbortPublication(w)
             \/ \E s \in Sources : LockPublication(w, s)
      PROVE  IInv'
    BY <1>3, ShareTenantKeepsInv, CommitPublicationKeepsInv, AbortPublicationKeepsInv,
       LockPublicationKeepsInv DEF WorkerStep
<1>4. CASE UNCHANGED vars
  <2>1. /\ UNCHANGED <<guard, request, storedVars, lifecycle, generation, locked>>
        /\ UNCHANGED <<processed, sharing, publishing, result, reasons>>
      BY <1>4 DEF vars, sourceVars, lockVars, storedVars
  <2>2. TypeOK' /\ WorkersInv'
      BY <2>1 DEF IInv, TypeOK, WorkersInv
  <2> QED BY <2>1, <2>2, BesideKeepsInv
<1> QED BY <1>1, <1>2, <1>3, <1>4, OperatorsKeepInv DEF Next

LEMMA InvHolds == Spec => []IInv
BY InitInv, StepInv, PTL DEF Spec

\* Every variable has its type, whatever requests, workers and operators do.
THEOREM TypeCorrect == Spec => []TypeOK
<1>1. IInv => TypeOK
    BY DEF IInv
<1> QED BY <1>1, InvHolds, PTL

\* The guard does what it is for: once a Source is erased no stored result owes a word to
\* it, not even that of a match which had read it before.
THEOREM ErasureLeavesNoTrace == Spec => []ErasedLeavesNoTrace
<1>1. IInv => ErasedLeavesNoTrace
    BY DEF IInv, ResultsInv
<1> QED BY <1>1, InvHolds, PTL

\* A remark is never stored on a result that has been redacted meanwhile.
THEOREM RemarksGo == Spec => []RemarksGoWithTheResult
<1>1. IInv => RemarksGoWithTheResult
    BY DEF IInv
<1> QED BY <1>1, InvHolds, PTL

\* Of all steps only the end of a match and an erasure change what is stored.
LEMMA WhoChanges ==
    ASSUME IInv, [Next]_vars, NEW i \in Results, result'[i] # result[i]
    PROVE  \E p \in Requests : CommitMatch(p, i) \/ CommitErasure(p)
<1> USE DEF sourceVars, storedVars
<1>1. CASE UNCHANGED vars
    BY <1>1 DEF vars
<1>2. ASSUME NEW p \in Requests, Arrive(p) \/ Abort(p) PROVE FALSE
    BY <1>2 DEF Arrive, Begin, Abort
<1>3. ASSUME NEW p \in Requests, RequestStep(p), ~ CommitErasure(p) PROVE CommitMatch(p, i)
  <2>1. ASSUME NEW j \in Results, CommitMatch(p, j) PROVE j = i
      BY <2>1 DEF CommitMatch, IInv, TypeOK
  <2> QED BY <1>3, <2>1 DEF RequestStep, TakeGuard, LockResume, ReadScope, Rank, Explain,
             Resolve, ReadResult, CommitFeedback, Refuse, LockErased
<1>4. ASSUME NEW w \in Workers,
             \/ WorkerStep(w) \/ AbortPublication(w)
             \/ \E s \in Sources : LockPublication(w, s)
      PROVE  FALSE
    BY <1>4 DEF WorkerStep, ShareTenant, CommitPublication, AbortPublication, EndPublication,
                LockPublication
<1>5. ASSUME NEW s \in Sources, Reopen(s) \/ Deactivate(s) \/ Activate(s) PROVE FALSE
    BY <1>5 DEF Reopen, Deactivate, Activate
<1> QED BY <1>1, <1>2, <1>3, <1>4, <1>5 DEF Next

\* A stored result is changed by redaction only, when its resume or knowledge is erased.
THEOREM ResultsStay == Spec => ResultsAreImmutable
<1> DEFINE Redacts(i) == result[i] # Nothing /\ result'[i] # result[i] =>
              /\ result'[i] = [result[i] EXCEPT !.redacted = TRUE, !.text = {}, !.cites = {}]
              /\ \E s \in {result[i].resume} \cup Documents :
                     lifecycle[s] # "deleted" /\ lifecycle'[s] = "deleted"
<1>1. IInv /\ [Next]_vars => [\A i \in Results : Redacts(i)]_vars
  <2> SUFFICES ASSUME IInv, [Next]_vars, NEW i \in Results, result[i] # Nothing, result'[i] # result[i]
               PROVE  /\ result'[i] = [result[i] EXCEPT !.redacted = TRUE, !.text = {}, !.cites = {}]
                      /\ \E s \in {result[i].resume} \cup Documents :
                             lifecycle[s] # "deleted" /\ lifecycle'[s] = "deleted"
      OBVIOUS
  <2>1. PICK p \in Requests : CommitErasure(p)
      BY WhoChanges DEF CommitMatch
  <2> DEFINE s == request[p].subject
             gone == {j \in Results : result[j] # Nothing /\ Concerns(j, s)}
  <2>2. /\ lifecycle[s] # "deleted"
        /\ lifecycle' = [lifecycle EXCEPT ![s] = "deleted"]
        /\ result' = [j \in Results |-> IF j \in gone THEN Redacted(result[j]) ELSE result[j]]
      BY <2>1 DEF CommitErasure, storedVars
  <2>3. s \in Sources
      BY <2>1 DEF CommitErasure, At, IInv, RequestsInv, Subjects, Sources
  <2>4. i \in gone /\ result'[i] = Redacted(result[i])
      BY <2>2
  <2>5. lifecycle'[s] = "deleted"
      BY <2>2, <2>3 DEF IInv, TypeOK
  <2>6. s \in {result[i].resume} \cup Documents
      BY <2>4 DEF Concerns
  <2> QED BY <2>2, <2>4, <2>5, <2>6 DEF Redacted
<1> QED BY <1>1, InvHolds, PTL DEF Spec, ResultsAreImmutable

\* What a match cites of its resume is active when the result is stored, however long the
\* models took: the resume is locked, and the citations were looked up under the lock.
THEOREM CitationsStayCurrent == Spec => ResumeCitationsAreCurrent
<1> DEFINE Cites(i) == result[i] = Nothing /\ result'[i] # Nothing =>
          LET r == result'[i].resume IN
          /\ \A c \in result'[i].cites : c.source \in Resumes => c = Current(r) /\ Searchable(r)
          /\ result'[i].semantic => {r, result'[i].version} \subseteq
                                        {c.source : c \in result'[i].cites}
<1>1. IInv /\ [Next]_vars => [\A i \in Results : Cites(i)]_vars
  <2> SUFFICES ASSUME IInv, [Next]_vars, NEW i \in Results, result[i] = Nothing, result'[i] # Nothing
               PROVE  Cites(i)
      OBVIOUS
  <2>1. PICK p \in Requests : CommitMatch(p, i) \/ CommitErasure(p)
      BY WhoChanges
  <2>2. ~ CommitErasure(p)
      BY DEF CommitErasure, storedVars
  <2>3. CommitMatch(p, i)
      BY <2>1, <2>2
  <2> DEFINE q == request[p]
  <2>4. q.step = "commit" /\ q.step \in MatchSteps /\ result'[i] = ResultOf(p)
      BY <2>3 DEF CommitMatch, MayStore, At, MatchSteps, IInv, TypeOK
  <2>5. Evidence(p) /\ StillTrue(p)
      BY DEF IInv, RequestsInv
  <2>6. /\ result'[i].resume = q.subject /\ result'[i].version = q.version
        /\ result'[i].cites = q.semantic \cup q.claim
        /\ result'[i].semantic = (q.semantic # {})
      BY <2>4 DEF ResultOf
  <2>7. \A c \in result'[i].cites :
            c.source \in Resumes => c = Current(q.subject) /\ Searchable(q.subject)
      BY <2>4, <2>5, <2>6 DEF StillTrue
  <2>8. ASSUME q.semantic # {}
        PROVE  {q.subject, q.version} \subseteq {c.source : c \in result'[i].cites}
      BY <2>5, <2>6, <2>8 DEF Evidence
  <2> QED BY <2>6, <2>7, <2>8
<1> QED BY <1>1, InvHolds, PTL DEF Spec, ResumeCitationsAreCurrent

-----------------------------------------------------------------------------
(* Deadlock                                                                *)

HoldingSteps == MatchSteps \cup {"scrub"}

\* Who holds the guard is past it, and who holds a row is past both.
Holders(p) == LET q == request[p] IN
    /\ guard = p => q.step \notin Outside
    /\ \A s \in Sources : locked[s] = p => q.step \in HoldingSteps
    /\ q.step \in {"guard", "source"} => q.op # "none"
    /\ q.step = "source" => q.op # "feedback"

HoldersInv == \A p \in Requests : Holders(p)

\* A step of p that takes nothing away from p and gives it what its next step may hold.
LEMMA OthersHold ==
    ASSUME TypeOK, HoldersInv, NEW p \in Requests,
           \A q \in Requests : q # p => request'[q] = request[q],
           guard' \in {guard, p, Nothing},
           \A s \in Sources : locked'[s] \in {locked[s], p, Nothing},
           Holders(p)'
    PROVE  HoldersInv'
<1> SUFFICES ASSUME NEW q \in Requests, q # p PROVE Holders(q)'
    BY DEF HoldersInv
<1>1. Holders(q) /\ request'[q] = request[q] /\ q # Nothing
    BY NothingAssumption DEF HoldersInv
<1> QED BY <1>1 DEF Holders

\* After a release p holds nothing.
LEMMA ReleaseHolds ==
    ASSUME TypeOK, HoldersInv, NEW p \in Requests, Release(p)
    PROVE  HoldersInv'
<1>1. p # Nothing
    BY NothingAssumption
<1>2. request'[p] = Idle /\ \A q \in Requests : q # p => request'[q] = request[q]
    BY DEF Release, TypeOK
<1>3. guard' # p /\ guard' \in {guard, Nothing}
    BY <1>1 DEF Release
<1>4. \A s \in Sources : locked'[s] # p /\ locked'[s] \in {locked[s], Nothing}
    BY <1>1 DEF Release
<1>5. Holders(p)'
    BY <1>2, <1>3, <1>4 DEF Holders, Idle
<1> QED BY <1>2, <1>3, <1>4, <1>5, OthersHold

LEMMA RequestHolds ==
    ASSUME TypeOK, HoldersInv, NEW p \in Requests, Arrive(p) \/ RequestStep(p) \/ Abort(p)
    PROVE  HoldersInv'
<1> USE DEF At, lockVars
<1>1. Holders(p)
    BY DEF HoldersInv
<1>2. CASE Arrive(p)
  <2>1. PICK op, s, v : op \in Operations \ {"none"} /\ Begin(p, op, s, v)
      BY <1>2 DEF Arrive, Operations
  <2>2. /\ request'[p].step = "guard" /\ request'[p].op # "none" /\ UNCHANGED <<guard, locked>> /\ request[p].step = "idle"
        /\ \A q \in Requests : q # p => request'[q] = request[q]
      BY <2>1 DEF Begin, TypeOK, Idle
  <2>3. Holders(p)'
      BY <1>1, <2>2 DEF Holders, Outside, HoldingSteps, MatchSteps
  <2> QED BY <2>2, <2>3, OthersHold
<1>3. CASE TakeGuard(p)
  <2>1. /\ request'[p].step \in {"read", "source"} /\ request'[p].op = request[p].op
        /\ request'[p].step = "source" => request[p].op # "feedback"
        /\ \A q \in Requests : q # p => request'[q] = request[q]
        /\ guard' \in {guard, p} /\ UNCHANGED locked /\ request[p].step = "guard"
      BY <1>3 DEF TakeGuard, MayTakeGuard, Goto, TypeOK
  <2>2. Holders(p)'
      BY <1>1, <2>1 DEF Holders, Outside, HoldingSteps, MatchSteps
  <2> QED BY <2>1, <2>2, OthersHold
<1>4. CASE LockResume(p) \/ LockErased(p)
  <2>1. /\ request'[p].step \in {"scope", "commit", "scrub"}
        /\ \A q \in Requests : q # p => request'[q] = request[q]
        /\ UNCHANGED guard
      BY <1>4 DEF LockResume, LockErased, Goto, TypeOK
  <2>2. \A s \in Sources : locked'[s] \in {locked[s], p}
      BY <1>4 DEF LockResume, LockErased, LockRow, TypeOK
  <2>3. Holders(p)'
      BY <2>1 DEF Holders, Outside, HoldingSteps, MatchSteps
  <2> QED BY <2>1, <2>2, <2>3, OthersHold
<1>5. CASE ReadScope(p) \/ Rank(p) \/ Explain(p) \/ Resolve(p)
  <2>1. UNCHANGED <<guard, locked>> /\ \A q \in Requests : q # p => request'[q] = request[q]
      BY <1>5 DEF ReadScope, Rank, Explain, Resolve, TypeOK
  <2>2. request'[p].step \in MatchSteps
    <3>1. CASE ReadScope(p)
        BY <3>1 DEF ReadScope, MatchSteps, TypeOK
    <3>2. CASE Rank(p)
        BY <3>2 DEF Rank, MatchSteps, TypeOK
    <3>3. CASE Explain(p)
        BY <3>3 DEF Explain, MatchSteps, TypeOK
    <3>4. CASE Resolve(p)
        BY <3>4 DEF Resolve, MatchSteps, TypeOK
    <3> QED BY <1>5, <3>1, <3>2, <3>3, <3>4
  <2>3. Holders(p)'
      BY <2>2 DEF Holders, Outside, HoldingSteps, MatchSteps
  <2> QED BY <2>1, <2>3, OthersHold
<1>6. CASE ReadResult(p)
  <2>1. /\ request[p].step = "read" /\ request'[p].step = "write" /\ UNCHANGED <<guard, locked>>
        /\ \A q \in Requests : q # p => request'[q] = request[q]
      BY <1>6 DEF ReadResult, Goto, TypeOK
  <2>2. Holders(p)'
      BY <1>1, <2>1 DEF Holders, Outside, HoldingSteps, MatchSteps
  <2> QED BY <2>1, <2>2, OthersHold
<1>7. ASSUME Release(p) PROVE HoldersInv'
    BY <1>7, ReleaseHolds
<1> QED BY <1>2, <1>3, <1>4, <1>5, <1>6, <1>7
        DEF RequestStep, CommitMatch, CommitFeedback, Refuse, CommitErasure, Abort

LEMMA HoldersKept == ASSUME TypeOK, HoldersInv, [Next]_vars PROVE HoldersInv'
<1>1. ASSUME NEW w \in Workers,
             \/ WorkerStep(w) \/ AbortPublication(w)
             \/ \E s \in Sources : LockPublication(w, s)
      PROVE  HoldersInv'
  <2>1. UNCHANGED <<request, guard>> /\ \A s \in Sources : locked'[s] \in {locked[s], w, Nothing}
      BY <1>1 DEF WorkerStep, AbortPublication, LockPublication, ShareTenant, CommitPublication,
                  EndPublication, TypeOK
  <2>2. \A p \in Requests : p # w /\ p # Nothing
      BY ActorsAssumption, NothingAssumption
  <2> QED BY <2>1, <2>2 DEF HoldersInv, Holders
<1>2. CASE UNCHANGED vars \/ \E s \in Sources : Reopen(s) \/ Deactivate(s) \/ Activate(s)
  <2>1. UNCHANGED <<request, guard, locked>>
      BY <1>2 DEF vars, lockVars, Reopen, Deactivate, Activate
  <2> QED BY <2>1 DEF HoldersInv, Holders
<1> QED BY <1>1, <1>2, RequestHolds DEF Next

\* A worker holds no row but the one of its publication.
WorkersHold == \A w \in Workers, s \in Sources : locked[s] = w => publishing[w] = s

LEMMA WorkersHoldKept == ASSUME TypeOK, WorkersHold, [Next]_vars PROVE WorkersHold'
<1>1. ASSUME NEW p \in Requests, Arrive(p) \/ RequestStep(p) \/ Abort(p)
      PROVE  WorkersHold'
  <2>1. UNCHANGED publishing /\ \A s \in Sources : locked'[s] \in {locked[s], p, Nothing}
    <3>1. ASSUME Release(p) PROVE \A s \in Sources : locked'[s] \in {locked[s], p, Nothing}
        BY <3>1 DEF Release
    <3>2. CASE LockResume(p) \/ LockErased(p)
        BY <3>2 DEF LockResume, LockErased, LockRow, TypeOK
    <3>3. CASE ~ (LockResume(p) \/ LockErased(p))
        BY <1>1, <3>1, <3>3 DEF RequestStep, Arrive, Begin, Abort, TakeGuard, ReadScope, Rank, Explain,
           Resolve, CommitMatch, ReadResult, CommitFeedback, Refuse, CommitErasure, lockVars
    <3> QED BY <1>1, <3>2, <3>3 DEF RequestStep, Arrive, Begin, Abort, TakeGuard, LockResume,
               ReadScope, Rank, Explain, Resolve, CommitMatch, ReadResult, CommitFeedback, Refuse,
               LockErased, CommitErasure
  <2>2. \A w \in Workers : w # p /\ w # Nothing
      BY ActorsAssumption, NothingAssumption
  <2> QED BY <2>1, <2>2 DEF WorkersHold
<1>2. ASSUME NEW w \in Workers, NEW s \in Sources, LockPublication(w, s)
      PROVE  WorkersHold'
  <2>1. \A t \in Sources : locked[t] # w
      BY <1>2, NothingAssumption DEF LockPublication, WorkersHold, Sources
  <2>2. /\ \A t \in Sources : locked'[t] = IF t = s THEN w ELSE locked[t]
        /\ \A v \in Workers : publishing'[v] = IF v = w THEN s ELSE publishing[v]
      BY <1>2 DEF LockPublication, TypeOK
  <2> QED BY <2>1, <2>2 DEF WorkersHold
<1>3. ASSUME NEW w \in Workers, WorkerStep(w) \/ AbortPublication(w)
      PROVE  WorkersHold'
  <2>1. CASE ShareTenant(w)
      BY <2>1 DEF ShareTenant, WorkersHold
  <2>2. CASE EndPublication(w)
    <3>1. /\ \A t \in Sources : locked'[t] = IF locked[t] = w THEN Nothing ELSE locked[t]
          /\ \A v \in Workers : v # w => publishing'[v] = publishing[v]
        BY <2>2 DEF EndPublication, TypeOK
    <3>2. \A v \in Workers : v # Nothing
        BY NothingAssumption
    <3> QED BY <3>1, <3>2 DEF WorkersHold
  <2> QED BY <1>3, <2>1, <2>2 DEF WorkerStep, CommitPublication, AbortPublication
<1>4. CASE UNCHANGED vars \/ \E s \in Sources : Reopen(s) \/ Deactivate(s) \/ Activate(s)
  <2>1. UNCHANGED <<locked, publishing>>
      BY <1>4 DEF vars, lockVars, Reopen, Deactivate, Activate
  <2> QED BY <2>1 DEF WorkersHold
<1> QED BY <1>1, <1>2, <1>3, <1>4 DEF Next

\* No request holds the row of a version: it locks a resume, or what it erases.
VersionsAreFree == \A v \in Versions : locked[v] \notin Requests

LEMMA VersionsAreFreeKept ==
    ASSUME IInv, VersionsAreFree, [Next]_vars PROVE VersionsAreFree'
<1>1. Nothing \notin Requests /\ Versions \subseteq Sources
    BY NothingAssumption DEF Sources
<1>2. ASSUME NEW p \in Requests, Arrive(p) \/ RequestStep(p) \/ Abort(p)
      PROVE  VersionsAreFree'
  <2>1. CASE LockResume(p) \/ LockErased(p)
    <3>1. request[p].subject \notin Versions
        BY <2>1, SourcesAssumption
           DEF LockResume, LockErased, IInv, RequestsInv, Subjects
    <3>2. \A v \in Versions : locked'[v] = locked[v]
        BY <1>1, <2>1, <3>1 DEF LockResume, LockErased, LockRow, IInv, TypeOK
    <3> QED BY <3>2 DEF VersionsAreFree
  <2>2. CASE Release(p)
      BY <1>1, <2>2 DEF Release, VersionsAreFree
  <2>3. CASE UNCHANGED locked
      BY <2>3 DEF VersionsAreFree
  <2> QED BY <1>2, <2>1, <2>2, <2>3 DEF RequestStep, Arrive, Begin, Abort, TakeGuard, ReadScope,
          Rank, Explain, Resolve, CommitMatch, ReadResult, CommitFeedback, Refuse, CommitErasure,
          lockVars
<1>3. ASSUME NEW w \in Workers,
             \/ WorkerStep(w) \/ AbortPublication(w)
             \/ \E s \in Sources : LockPublication(w, s)
      PROVE  VersionsAreFree'
  <2>1. \A s \in Sources : locked'[s] \in {locked[s], w, Nothing}
      BY <1>3 DEF WorkerStep, AbortPublication, LockPublication, ShareTenant, CommitPublication,
                  EndPublication, IInv, TypeOK
  <2> QED BY <1>1, <2>1, ActorsAssumption DEF VersionsAreFree
<1>4. CASE UNCHANGED vars \/ \E s \in Sources : Reopen(s) \/ Deactivate(s) \/ Activate(s)
  <2>1. UNCHANGED locked
      BY <1>4 DEF vars, lockVars, Reopen, Deactivate, Activate
  <2> QED BY <2>1 DEF VersionsAreFree
<1> QED BY <1>2, <1>3, <1>4 DEF Next

\* All that the locks need.
LocksInv == IInv /\ HoldersInv /\ WorkersHold /\ VersionsAreFree

\* Behind the guard and before the row there are matches and deletions, of a Source.
LEMMA SourceSubject ==
    ASSUME LocksInv, NEW p \in Requests, At(p, "source")
    PROVE  /\ request[p].subject \in Sources
           /\ IsMatch(p) \/ request[p].op = "erase"
<1>1. Subjects(p) /\ Holders(p) /\ request[p].op \in Operations
    BY DEF LocksInv, IInv, RequestsInv, HoldersInv, TypeOK
<1>2. request[p].op # "feedback" /\ request[p].op # "none"
    BY <1>1 DEF Holders, At
<1> QED BY <1>1, <1>2 DEF Subjects, IsMatch, Operations, Sources

\* Whoever waits for the guard waits for one that is past it, whoever waits for a row waits for
\* a worker or for one that has its row, and whoever stores its results waits for a worker; all
\* of them are under way.  Workers and the trace sink never wait for one that holds something.
LEMMA WaitedForIsFarther ==
    ASSUME LocksInv, NEW a \in Requests \cup Workers, NEW b \in WaitsFor(a)
    PROVE  LockOrder(b) < LockOrder(a) /\ IsOpen(b)
<1> USE DEF At
<1>1. CASE a \in Requests /\ At(a, "guard") /\ guard = b
  <2>1. b \in Requests
      BY <1>1, NothingAssumption DEF WaitsFor, LocksInv, IInv, TypeOK
  <2>2. request[b].step \notin Outside
      BY <1>1, <2>1 DEF LocksInv, HoldersInv, Holders
  <2>3. LockOrder(a) = 3 /\ LockOrder(b) \in 1 .. 2
      BY <1>1, <2>1, <2>2, ActorsAssumption DEF LockOrder, Outside
  <2>4. IsOpen(b)
      BY <2>1, <2>2 DEF IsOpen, Outside
  <2> QED BY <2>3, <2>4
<1>2. CASE a \in Requests /\ At(a, "source") /\ locked[request[a].subject] = b
  <2>1. request[a].subject \in Sources
      BY <1>2, SourceSubject
  <2>2. CASE b \in Requests
    <3>1. request[b].step \in HoldingSteps
        BY <1>2, <2>1, <2>2 DEF LocksInv, HoldersInv, Holders
    <3>2. LockOrder(a) = 2 /\ LockOrder(b) = 1
        BY <1>2, <2>2, <3>1, ActorsAssumption DEF LockOrder, HoldingSteps, MatchSteps
    <3>3. IsOpen(b)
        BY <2>2, <3>1 DEF IsOpen, HoldingSteps, MatchSteps
    <3> QED BY <3>2, <3>3
  <2>3. CASE b \in Workers
    <3>1. b \notin Requests /\ request[a].subject # Nothing
        BY <2>1, <2>3, ActorsAssumption, NothingAssumption DEF Sources
    <3>2. publishing[b] # Nothing
        BY <1>2, <2>1, <2>3, <3>1 DEF LocksInv, WorkersHold
    <3>3. LockOrder(a) = 2 /\ LockOrder(b) = 0
        BY <1>2, <2>3, ActorsAssumption DEF LockOrder
    <3> QED BY <3>1, <3>2, <3>3 DEF IsOpen
  <2> QED BY <2>2, <2>3 DEF WaitsFor
<1>3. CASE /\ a \in Requests /\ (At(a, "commit") \/ At(a, "write"))
           /\ request[a].version # Nothing /\ locked[request[a].version] = b
  <2>1. request[a].version \in Versions /\ request[a].version \in Sources
      BY <1>3 DEF LocksInv, IInv, TypeOK, Sources
  <2>2. b \in Workers /\ b \notin Requests
      BY <1>3, <2>1 DEF WaitsFor, LocksInv, VersionsAreFree
  <2>3. publishing[b] # Nothing
      BY <1>3, <2>1, <2>2 DEF LocksInv, WorkersHold
  <2> QED BY <1>3, <2>2, <2>3, ActorsAssumption DEF LockOrder, IsOpen
<1> QED BY <1>1, <1>2, <1>3 DEF WaitsFor, KeyShareWaits

\* No guard keeps a transaction that waits for nobody from its next step.
LEMMA NobodyIsStuck ==
    ASSUME LocksInv, NEW a \in Requests \cup Workers, IsOpen(a), WaitsFor(a) = {}
    PROVE  MayGoOn(a)
<1> USE DEF At
<1>1. CASE a \in Requests
  <2>1. request[a].step \in Steps \ {"idle"}
      BY <1>1 DEF LocksInv, IInv, TypeOK, IsOpen
  <2>2. CASE At(a, "guard")
    <3>1. guard = Nothing
        BY <1>1, <2>2 DEF WaitsFor, NeedsGuard, LocksInv, IInv, TypeOK
    <3> QED BY <1>1, <2>2, <3>1 DEF MayGoOn, MayTakeGuard
  <2>3. CASE At(a, "source")
    <3>1. request[a].subject \in Sources /\ (IsMatch(a) \/ request[a].op = "erase")
        BY <1>1, <2>3, SourceSubject
    <3>2. locked[request[a].subject] = Nothing
        BY <1>1, <2>3, <3>1 DEF WaitsFor, LocksInv, IInv, TypeOK
    <3> QED BY <1>1, <2>3, <3>1, <3>2 DEF MayGoOn, RowIsFree
  <2>4. CASE request[a].step \in {"commit", "write"}
    <3>1. VersionIsFree(a)
      <4>1. ASSUME request[a].version # Nothing PROVE locked[request[a].version] = Nothing
        <5>1. locked[request[a].version] \in Requests \cup Workers \cup {Nothing}
            BY <1>1, <4>1 DEF LocksInv, IInv, TypeOK, Sources
        <5> QED BY <1>1, <2>4, <4>1, <5>1 DEF WaitsFor
      <4> QED BY <4>1 DEF VersionIsFree
    <3> QED BY <1>1, <2>4, <3>1 DEF MayGoOn, MayStore
  <2>5. CASE request[a].step \notin {"guard", "source", "commit", "write"}
      BY <1>1, <2>1, <2>5 DEF MayGoOn, MayAsk, KeyShareWaits, Steps
  <2> QED BY <2>2, <2>3, <2>4, <2>5
<1>2. CASE a \notin Requests
    BY <1>2 DEF IsOpen, MayGoOn, MayShare, KeyShareWaits
<1> QED BY <1>1, <1>2

\* Follow who waits for whom: three steps at most, and there is one that can go on.
LEMMA SomebodyGoesOn ==
    ASSUME LocksInv, NEW a \in Requests \cup Workers, IsOpen(a)
    PROVE  \E b \in Requests \cup Workers : MayGoOn(b)
<1> DEFINE Goal == \E b \in Requests \cup Workers : MayGoOn(b)
<1>1. ASSUME NEW b \in Requests \cup Workers, IsOpen(b),
             \A c \in Requests \cup Workers :
                 IsOpen(c) /\ LockOrder(c) < LockOrder(b) => Goal
      PROVE  Goal
  <2>1. CASE WaitsFor(b) = {}
      BY <1>1, <2>1, NobodyIsStuck
  <2>2. CASE WaitsFor(b) # {}
    <3>1. PICK c \in WaitsFor(b) : LockOrder(c) < LockOrder(b) /\ IsOpen(c)
        BY <1>1, <2>2, WaitedForIsFarther
    <3>2. c \in Requests \cup Workers
        BY DEF WaitsFor
    <3> QED BY <1>1, <3>1, <3>2
  <2> QED BY <2>1, <2>2
<1>2. \A b \in Requests \cup Workers : LockOrder(b) \in 0 .. 3
    BY DEF LockOrder
<1> HIDE DEF Goal
<1>3. ASSUME NEW b \in Requests \cup Workers, IsOpen(b), LockOrder(b) < 1 PROVE Goal
    BY <1>1, <1>2, <1>3
<1>4. ASSUME NEW b \in Requests \cup Workers, IsOpen(b), LockOrder(b) < 2 PROVE Goal
    BY <1>1, <1>2, <1>3, <1>4
<1>5. ASSUME NEW b \in Requests \cup Workers, IsOpen(b), LockOrder(b) < 3 PROVE Goal
    BY <1>1, <1>2, <1>4, <1>5
<1>6. Goal
    BY <1>1, <1>2, <1>5
<1> QED BY <1>6 DEF Goal

LEMMA LocksHold == Spec => []LocksInv
<1>1. Init => HoldersInv /\ WorkersHold /\ VersionsAreFree
  <2> SUFFICES ASSUME Init PROVE HoldersInv /\ WorkersHold /\ VersionsAreFree
      OBVIOUS
  <2>1. HoldersInv
      BY NothingAssumption DEF Init, HoldersInv, Holders, Idle
  <2>2. WorkersHold
      BY NothingAssumption DEF Init, WorkersHold
  <2>3. VersionsAreFree
      BY NothingAssumption DEF Init, VersionsAreFree, Sources
  <2> QED BY <2>1, <2>2, <2>3
<1>2. IInv => TypeOK
    BY DEF IInv
<1>3. TypeOK /\ HoldersInv /\ WorkersHold /\ [Next]_vars => HoldersInv' /\ WorkersHold'
    BY HoldersKept, WorkersHoldKept
<1>4. IInv /\ VersionsAreFree /\ [Next]_vars => VersionsAreFree'
    BY VersionsAreFreeKept
<1>5. IInv /\ HoldersInv /\ WorkersHold /\ VersionsAreFree => LocksInv
    BY DEF LocksInv
<1> QED BY <1>1, <1>2, <1>3, <1>4, <1>5, InvHolds, PTL DEF Spec

\* Deadlock freedom, for any number of requests, workers and Sources: the locks are taken in one
\* order, nobody waits for a transaction that has ended, and as long as one is open there is one
\* that can go on.
THEOREM NobodyIsLockedOut == Spec => []NobodyWaitsInACircle
<1>1. LocksInv => LocksAreOrdered
    BY WaitedForIsFarther DEF LocksAreOrdered
<1>2. LocksInv => NobodyWaitsInACircle
    BY <1>1, WaitedForIsFarther, NobodyIsStuck, SomebodyGoesOn DEF NobodyWaitsInACircle
<1> QED BY <1>2, LocksHold, PTL

-----------------------------------------------------------------------------
(* The index that matches search                                           *)

\* An erasure holds the row of what it erases.
ErasersHold == \A p \in Requests : At(p, "scrub") => locked[request[p].subject] = p

\* A step of a takes no row from others, and locks what a is going to erase.
LEMMA OthersErase ==
    ASSUME IInv, ErasersHold, NEW a,
           \A p \in Requests : p # a => /\ request'[p] = request[p]
                                       /\ \A s \in Sources : locked[s] = p => locked'[s] = p,
           a \in Requests /\ request'[a].step = "scrub" => locked'[request'[a].subject] = a
    PROVE  ErasersHold'
<1>1. \A p \in Requests : At(p, "scrub") => request[p].subject \in Sources
    BY DEF IInv, RequestsInv, Subjects, At, Sources
<1> QED BY <1>1 DEF ErasersHold, At

LEMMA ErasersKept == ASSUME IInv, ErasersHold, [Next]_vars PROVE ErasersHold'
<1> USE DEF IInv, TypeOK
<1>1. \A p \in Requests : p # Nothing /\ p \notin Workers
    BY ActorsAssumption, NothingAssumption
<1>2. ASSUME NEW p \in Requests, Arrive(p) \/ RequestStep(p) \/ Abort(p)
      PROVE  ErasersHold'
  <2>1. CASE Arrive(p) \/ TakeGuard(p) \/ ReadScope(p) \/ Rank(p) \/ Explain(p) \/ Resolve(p)
            \/ ReadResult(p)
    <3>1. UNCHANGED locked /\ \A q \in Requests : q # p => request'[q] = request[q]
        BY <2>1 DEF Arrive, Begin, TakeGuard, Goto, ReadScope, Rank, Explain, Resolve, ReadResult,
                    lockVars
    <3>2. request'[p].step # "scrub"
      <4>1. CASE Arrive(p)
        <5>1. PICK op, s, v : Begin(p, op, s, v)
            BY <4>1 DEF Arrive
        <5>2. request'[p].step = "guard"
            BY <5>1 DEF Begin, Idle
        <5> QED BY <5>2
      <4>2. CASE TakeGuard(p) \/ ReadResult(p)
          BY <4>2 DEF TakeGuard, Goto, ReadResult
      <4>3. CASE ReadScope(p)
          BY <4>3 DEF ReadScope
      <4>4. CASE Rank(p)
          BY <4>4 DEF Rank
      <4>5. CASE Explain(p)
          BY <4>5 DEF Explain
      <4>6. CASE Resolve(p)
          BY <4>6 DEF Resolve
      <4> QED BY <2>1, <4>1, <4>2, <4>3, <4>4, <4>5, <4>6
    <3> QED BY <3>1, <3>2, OthersErase
  <2>2. CASE LockResume(p) \/ LockErased(p)
    <3>1. /\ \A q \in Requests : q # p => request'[q] = request[q]
          /\ request'[p].step = "scrub" => LockErased(p)
          /\ request'[p].subject = request[p].subject
        BY <2>2 DEF LockResume, LockErased, Goto
    <3>2. request[p].subject \in Sources /\ locked[request[p].subject] = Nothing
        BY <2>2 DEF LockResume, LockErased, RowIsFree, RequestsInv, Subjects, Sources
    <3>3. \A s \in Sources : locked'[s] = IF s = request[p].subject THEN p ELSE locked[s]
        BY <2>2 DEF LockResume, LockErased, LockRow
    <3> QED BY <1>1, <3>1, <3>2, <3>3, OthersErase
  <2>3. ASSUME Release(p) PROVE ErasersHold'
    <3>1. /\ \A q \in Requests : q # p => request'[q] = request[q]
          /\ request'[p].step = "idle"
        BY <2>3 DEF Release, Idle
    <3>2. \A s \in Sources : locked'[s] = IF locked[s] = p THEN Nothing ELSE locked[s]
        BY <2>3 DEF Release
    <3> QED BY <3>1, <3>2, OthersErase
  <2> QED BY <1>2, <2>1, <2>2, <2>3
          DEF RequestStep, CommitMatch, CommitFeedback, Refuse, CommitErasure, Abort
<1>3. ASSUME NEW w \in Workers,
             \/ WorkerStep(w) \/ AbortPublication(w)
             \/ \E s \in Sources : LockPublication(w, s)
      PROVE  ErasersHold'
  <2>1. UNCHANGED request
      BY <1>3 DEF WorkerStep, AbortPublication, LockPublication, ShareTenant, CommitPublication,
                  EndPublication
  <2>2. \A p \in Requests, s \in Sources : locked[s] = p => locked'[s] = p
      BY <1>1, <1>3 DEF WorkerStep, AbortPublication, LockPublication, ShareTenant,
                        CommitPublication, EndPublication
  <2> QED BY <1>1, <2>1, <2>2, OthersErase
<1>4. CASE UNCHANGED vars \/ \E s \in Sources : Reopen(s) \/ Deactivate(s) \/ Activate(s)
  <2>1. UNCHANGED <<locked, request>>
      BY <1>4 DEF vars, lockVars, Reopen, Deactivate, Activate
  <2> QED BY <2>1 DEF ErasersHold, At
<1> QED BY <1>2, <1>3, <1>4 DEF Next

\* What a worker is going to publish has not been withdrawn meanwhile.
PublishersInv == \A w \in Workers : publishing[w] \in Indexed => lifecycle[publishing[w]] = "active"

\* A Source changes its lifecycle by an erasure or an operator, and its row is locked by none
\* but the erasure.
LEMMA WhoWithdraws ==
    ASSUME IInv, ErasersHold, [Next]_vars, NEW s \in Indexed, lifecycle'[s] # lifecycle[s]
    PROVE  /\ lifecycle' = [lifecycle EXCEPT ![s] = lifecycle'[s]] /\ lifecycle'[s] # "active"
           /\ generation' = generation
           /\ \A w \in Workers : locked[s] # w
<1> USE DEF sourceVars, lockVars, storedVars
<1>1. /\ s \in Sources /\ s \notin Versions
      /\ lifecycle \in [Sources -> {"active", "inactive", "deleted"}]
    BY SourcesAssumption DEF Indexed, Sources, IInv, TypeOK
<1>2. ASSUME NEW p \in Requests, CommitErasure(p)
      PROVE  /\ lifecycle' = [lifecycle EXCEPT ![s] = lifecycle'[s]] /\ lifecycle'[s] # "active"
             /\ generation' = generation
             /\ \A w \in Workers : locked[s] # w
  <2>1. /\ lifecycle' = [lifecycle EXCEPT ![request[p].subject] = "deleted"]
        /\ generation' = generation /\ request[p].step = "scrub"
      BY <1>2 DEF CommitErasure, At
  <2>2. request[p].subject = s
      BY <1>1, <2>1
  <2>3. locked[s] = p
      BY <2>1, <2>2 DEF ErasersHold, At
  <2> QED BY <1>1, <2>1, <2>2, <2>3, ActorsAssumption
<1>3. ASSUME NEW t \in Sources, Reopen(t) \/ Deactivate(t) \/ Activate(t)
      PROVE  /\ lifecycle' = [lifecycle EXCEPT ![s] = lifecycle'[s]] /\ lifecycle'[s] # "active"
             /\ generation' = generation
             /\ \A w \in Workers : locked[s] # w
  <2>1. Deactivate(t) /\ t = s
      BY <1>1, <1>3 DEF Reopen, Deactivate, Activate
  <2> QED BY <1>1, <2>1, NothingAssumption DEF Deactivate
<1>4. ASSUME NEW p \in Requests, Arrive(p) \/ RequestStep(p) \/ Abort(p), ~ CommitErasure(p)
      PROVE  FALSE
  BY <1>4 DEF Arrive, Begin, Abort, RequestStep, TakeGuard, LockResume, ReadScope, Rank, Explain,
              Resolve, CommitMatch, ReadResult, CommitFeedback, Refuse, LockErased
<1>5. ASSUME NEW w \in Workers,
             \/ WorkerStep(w) \/ AbortPublication(w)
             \/ \E t \in Sources : LockPublication(w, t)
      PROVE  FALSE
  BY <1>5 DEF WorkerStep, ShareTenant, CommitPublication, AbortPublication, EndPublication,
              LockPublication
<1> QED BY <1>2, <1>3, <1>4, <1>5 DEF Next, vars

\* A generation is published by the worker that holds the row.
LEMMA WhoPublishes ==
    ASSUME IInv, ErasersHold, [Next]_vars, generation' # generation
    PROVE  \E w \in Workers : CommitPublication(w)
<1> USE DEF sourceVars, storedVars
<1>1. ASSUME NEW p \in Requests, Arrive(p) \/ RequestStep(p) \/ Abort(p)
      PROVE  FALSE
  BY <1>1 DEF Arrive, Begin, Abort, RequestStep, TakeGuard, LockResume, ReadScope, Rank, Explain,
              Resolve, CommitMatch, ReadResult, CommitFeedback, Refuse, LockErased, CommitErasure
<1>2. ASSUME NEW w \in Workers,
             \/ WorkerStep(w) \/ AbortPublication(w)
             \/ \E t \in Sources : LockPublication(w, t)
      PROVE  CommitPublication(w)
  BY <1>2 DEF WorkerStep, ShareTenant, AbortPublication, LockPublication
<1>3. ASSUME NEW s \in Sources, Reopen(s) \/ Deactivate(s) \/ Activate(s) PROVE FALSE
  BY <1>3 DEF Reopen, Deactivate, Activate
<1> QED BY <1>1, <1>2, <1>3 DEF Next, vars

\* A publication begins on a Source that is active, and keeps its row.
LEMMA PublishersKept == ASSUME IInv, ErasersHold, PublishersInv, [Next]_vars PROVE PublishersInv'
<1> SUFFICES ASSUME NEW w \in Workers, publishing'[w] \in Indexed
             PROVE  lifecycle'[publishing'[w]] = "active"
    BY DEF PublishersInv
<1> USE DEF sourceVars, storedVars
<1>1. Nothing \notin Indexed
    BY NothingAssumption DEF Indexed
<1>2. CASE publishing'[w] = publishing[w]
  <2> DEFINE s == publishing[w]
  <2>1. locked[s] = w /\ lifecycle[s] = "active"
      BY <1>1, <1>2 DEF PublishersInv, IInv, WorkersInv
  <2> QED BY <1>2, <2>1, WhoWithdraws
<1>3. CASE publishing'[w] # publishing[w]
  <2>1. ASSUME NEW p \in Requests, Arrive(p) \/ RequestStep(p) \/ Abort(p)
        PROVE  FALSE
    BY <1>3, <2>1
       DEF Arrive, Begin, Abort, RequestStep, TakeGuard, LockResume, ReadScope, Rank, Explain,
           Resolve, CommitMatch, ReadResult, CommitFeedback, Refuse, LockErased, CommitErasure
  <2>2. ASSUME NEW v \in Workers, WorkerStep(v) \/ AbortPublication(v)
        PROVE  FALSE
    BY <1>1, <1>3, <2>2
       DEF WorkerStep, ShareTenant, CommitPublication, AbortPublication, EndPublication, IInv,
           TypeOK
  <2>3. ASSUME NEW v \in Workers, NEW s \in Sources, LockPublication(v, s)
        PROVE  lifecycle'[publishing'[w]] = "active"
    <3>1. publishing'[w] = s
        BY <1>3, <2>3 DEF LockPublication, IInv, TypeOK
    <3>2. s \notin Versions
        BY <3>1, SourcesAssumption DEF Indexed
    <3> QED BY <2>3, <3>1, <3>2 DEF LockPublication
  <2>4. ASSUME NEW s \in Sources, Reopen(s) \/ Deactivate(s) \/ Activate(s) PROVE FALSE
    BY <1>3, <2>4 DEF Reopen, Deactivate, Activate
  <2> QED BY <1>3, <2>1, <2>2, <2>3, <2>4 DEF Next, vars
<1> QED BY <1>2, <1>3

\* Every step publishes or withdraws one Source, or changes nothing that readers see.
LEMMA IndexStep ==
    ASSUME IInv, ErasersHold, PublishersInv, [Next]_vars
    PROVE  [Index!Next]_(Index!vars)
<1> USE DEF Searchable
<1>1. /\ Indexed \subseteq Sources /\ generation \in [Sources -> Nat]
      /\ lifecycle \in [Sources -> {"active", "inactive", "deleted"}]
    BY DEF Indexed, Sources, IInv, TypeOK
<1>2. ASSUME NEW s \in Indexed, lifecycle'[s] # lifecycle[s]
      PROVE  Index!Withdraw(s)
  <2>1. /\ lifecycle'[s] # "active" /\ generation' = generation
        /\ \A t \in Indexed : t # s => lifecycle'[t] = lifecycle[t]
      BY <1>1, <1>2, WhoWithdraws
  <2> QED BY <2>1 DEF Index!Withdraw
<1>3. ASSUME \A s \in Indexed : lifecycle'[s] = lifecycle[s], generation' # generation
      PROVE  [Index!Next]_(Index!vars)
  <2>1. PICK w \in Workers : CommitPublication(w)
      BY <1>3, WhoPublishes
  <2>2. PICK s \in Sources : s = publishing[w]
      BY <2>1 DEF CommitPublication, IInv, WorkersInv, TypeOK
  <2>3. PICK indexed \in BOOLEAN :
            generation' = [generation EXCEPT ![s] = IF indexed THEN @ + 1 ELSE @]
      BY <2>1, <2>2 DEF CommitPublication
  <2>4. generation'[s] = generation[s] + 1 /\ \A t \in Sources : t # s => generation'[t] = generation[t]
      BY <1>1, <1>3, <2>2, <2>3
  <2>5. ASSUME s \in Indexed PROVE Index!Publish(s)
    <3>1. lifecycle[s] = "active" /\ lifecycle'[s] = "active" /\ generation[s] + 1 > 0
        BY <1>1, <1>3, <2>2, <2>5 DEF PublishersInv
    <3>2. \A t \in Indexed : t # s => generation'[t] = generation[t]
        BY <1>1, <2>4
    <3>3. [t \in Indexed |-> generation'[t]] =
              [[t \in Indexed |-> generation[t]] EXCEPT ![s] = @ + 1]
        BY <2>4, <2>5, <3>2
    <3>4. [t \in Indexed |-> IF lifecycle'[t] = "active" /\ generation'[t] > 0
                             THEN {generation'[t]} ELSE {}] =
              [[t \in Indexed |-> IF lifecycle[t] = "active" /\ generation[t] > 0
                                  THEN {generation[t]} ELSE {}]
                   EXCEPT ![s] = {[t \in Indexed |-> generation[t]][s] + 1}]
        BY <1>3, <2>4, <2>5, <3>1, <3>2
    <3>5. [t \in Indexed |-> lifecycle[t] = "active"][s]
        BY <2>5, <3>1
    <3>6. [t \in Indexed |-> lifecycle'[t] = "active"] = [t \in Indexed |-> lifecycle[t] = "active"]
        BY <1>3
    <3> QED BY <3>3, <3>4, <3>5, <3>6 DEF Index!Publish
  <2>6. ASSUME s \notin Indexed PROVE UNCHANGED Index!vars
    <3>1. \A t \in Indexed : generation'[t] = generation[t]
        BY <1>1, <2>4, <2>6
    <3>2. [t \in Indexed |-> generation'[t]] = [t \in Indexed |-> generation[t]]
        BY <3>1
    <3>3. [t \in Indexed |-> lifecycle'[t] = "active"] = [t \in Indexed |-> lifecycle[t] = "active"]
        BY <1>3
    <3>4. [t \in Indexed |-> IF lifecycle'[t] = "active" /\ generation'[t] > 0
                             THEN {generation'[t]} ELSE {}] =
              [t \in Indexed |-> IF lifecycle[t] = "active" /\ generation[t] > 0
                                 THEN {generation[t]} ELSE {}]
        BY <1>3, <3>1
    <3> QED BY <3>2, <3>3, <3>4 DEF Index!vars
  <2> QED BY <2>5, <2>6 DEF Index!Next
<1>4. ASSUME \A s \in Indexed : lifecycle'[s] = lifecycle[s], generation' = generation
      PROVE  UNCHANGED Index!vars
    BY <1>4 DEF Index!vars
<1> QED BY <1>2, <1>3, <1>4 DEF Index!Next

\* Matches search an index that keeps the promises of PublishedIndex, for any number of
\* requests, workers and Sources.
THEOREM SearchedIndexIsPublished == Spec => ImplementsIndex
<1>1. Init => ErasersHold /\ PublishersInv /\ Index!Init
  <2> SUFFICES ASSUME Init PROVE ErasersHold /\ PublishersInv /\ Index!Init
      OBVIOUS
  <2>1. \A s \in Indexed : generation[s] = 0 /\ lifecycle[s] = "active" /\ ~ Searchable(s)
      BY DEF Init, Indexed, Sources, Searchable
  <2>2. PublishersInv
      BY NothingAssumption DEF Init, PublishersInv, Indexed
  <2>3. ErasersHold
      BY DEF Init, ErasersHold, At, Idle
  <2> QED BY <2>1, <2>2, <2>3 DEF Index!Init
<1>2. IInv /\ ErasersHold /\ PublishersInv /\ [Next]_vars =>
          ErasersHold' /\ PublishersInv' /\ [Index!Next]_(Index!vars)
    BY ErasersKept, PublishersKept, IndexStep
<1> QED BY <1>1, <1>2, InvHolds, PTL DEF Spec, ImplementsIndex, Index!Spec
=============================================================================
