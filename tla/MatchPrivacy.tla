---------------------------- MODULE MatchPrivacy ----------------------------
(***************************************************************************)
(* Matches, feedback and privacy deletions of one tenant.                  *)
(*                                                                         *)
(* A match reads a resume, the published job versions and the recruiting   *)
(* knowledge, asks models about them for a long time, and stores text that *)
(* was derived from them; a deletion must leave nothing of that.  Matches, *)
(* feedback and deletions therefore take the privacy guard, a NO KEY       *)
(* UPDATE lock on the tenant's row, before anything else, and the row of   *)
(* the Source second.  Workers publish index generations under the lock of *)
(* the Source and then need a KEY SHARE lock on the tenant for their       *)
(* foreign keys; so does the sink that records model calls, on a           *)
(* connection of its own while its request waits for it.  Matches and      *)
(* feedback need one, last of all, on the version of a job they refer to,  *)
(* whose row its indexer holds FOR UPDATE.                                 *)
(*                                                                         *)
(* Requests and publications are transactions: what they hold is released, *)
(* and what they write appears, when they end.  Searches and citation      *)
(* lookups run in transactions of their own and see what is committed.     *)
(***************************************************************************)
EXTENDS Naturals

CONSTANTS
    Resumes, Documents, Versions,   \* Sources; Versions: current versions of jobs
    Requests,       \* API requests
    Workers,        \* processes that publish generations
    Results,        \* identities of match results
    MaxGeneration,  \* bound: generations of a resume; other Sources are indexed once
    Nothing

ASSUME SourcesAssumption == /\ Resumes \cap Documents = {}
                            /\ Versions \cap (Resumes \cup Documents) = {}
ASSUME ActorsAssumption == Requests \cap Workers = {}
ASSUME BoundAssumption == MaxGeneration \in Nat
ASSUME NothingAssumption == /\ Nothing \notin Resumes \cup Documents \cup Versions
                            /\ Nothing \notin Requests \cup Workers

VARIABLES
    lifecycle,   \* lifecycle[s]: "active", "inactive" (document or job), "deleted"
    processed,   \* processed: the resumes that are SUCCEEDED
    generation,  \* generation[s]: active_index_generation
    guard,       \* who holds the tenant's row for NO KEY UPDATE
    sharing,     \* workers that hold it for KEY SHARE
    locked,      \* locked[s]: who holds the row of the Source
    request,     \* request[p]: what a request is doing
    publishing,  \* publishing[w]: the Source that a worker has locked
    result,      \* result[i]: a stored match result, if there is one
    reasons      \* results with feedback whose free text is stored

lockVars == <<guard, sharing, locked>>
sourceVars == <<lifecycle, processed, generation>>
storedVars == <<result, reasons>>
vars == <<sourceVars, lockVars, request, publishing, storedVars>>

-----------------------------------------------------------------------------
Sources == Resumes \cup Documents \cup Versions
Chunks  == [source : Sources, generation : Nat]
Stored  == [resume : Resumes, version : Versions, text : SUBSET Sources,
            semantic : BOOLEAN, cites : SUBSET Chunks, redacted : BOOLEAN]
Operations == {"none", "rules", "hybrid", "feedback", "erase"}
Steps == {"idle", "guard", "source", "scope", "rank", "explain", "resolve", "commit",
          "read", "write", "scrub"}

Idle == [op |-> "none", step |-> "idle", subject |-> Nothing, version |-> Nothing,
         scope |-> {}, shown |-> {}, semantic |-> {}, claim |-> {}]

Init == /\ lifecycle = [s \in Sources |-> "active"]
        /\ processed = {}
        /\ generation = [s \in Sources |-> 0]
        /\ guard = Nothing
        /\ sharing = {}
        /\ locked = [s \in Sources |-> Nothing]
        /\ request = [p \in Requests |-> Idle]
        /\ publishing = [w \in Workers |-> Nothing]
        /\ result = [i \in Results |-> Nothing]
        /\ reasons = {}

At(p, step) == request[p].step = step
Goto(p, step) == request' = [request EXCEPT ![p].step = step]

Current(s) == [source |-> s, generation |-> generation[s]]

\* Chunks that a search finds and that resolve_active_citations confirms.
Searchable(s) == lifecycle[s] = "active" /\ generation[s] > 0
Active == {Current(s) : s \in {t \in Sources : Searchable(t)}}

\* Defect: a FOR UPDATE lock on the tenant also keeps foreign key checks waiting.
GuardExcludesKeyShare(p) == guard # Nothing

\* Would a KEY SHARE lock on the tenant have to wait for the guard?  NO KEY UPDATE
\* conflicts with itself only.
KeyShareWaits(p) == FALSE

\* The transaction of request p ends: commit, rollback or death.
Release(p) == /\ guard' = IF guard = p THEN Nothing ELSE guard
              /\ locked' = [s \in Sources |-> IF locked[s] = p THEN Nothing ELSE locked[s]]
              /\ request' = [request EXCEPT ![p] = Idle]
              /\ UNCHANGED sharing

-----------------------------------------------------------------------------
(* Every request                                                           *)

Begin(p, op, subject, version) ==
    /\ At(p, "idle")
    /\ request' = [request EXCEPT ![p] = [Idle EXCEPT !.op = op, !.step = "guard",
                                             !.subject = subject, !.version = version]]
    /\ UNCHANGED <<sourceVars, lockVars, publishing, storedVars>>

\* Defect: feedback does not take the guard.
NeedsGuardUnlessFeedback(p) == request[p].op # "feedback"

\* lock_privacy_guard is the first thing that matches, feedback and deletions do.
NeedsGuard(p) == TRUE

MayTakeGuard(p) == At(p, "guard") /\ (NeedsGuard(p) => guard = Nothing)

TakeGuard(p) ==
    /\ MayTakeGuard(p)
    /\ guard' = IF NeedsGuard(p) THEN p ELSE guard
    /\ Goto(p, IF request[p].op = "feedback" THEN "read" ELSE "source")
    /\ UNCHANGED <<sourceVars, sharing, locked, publishing, storedVars>>

\* A lost connection or the end of the process: everything is rolled back.
Abort(p) == /\ ~ At(p, "idle")
            /\ Release(p)
            /\ UNCHANGED <<sourceVars, publishing, storedVars>>

-----------------------------------------------------------------------------
(* A match                                                                 *)

IsMatch(p) == request[p].op \in {"rules", "hybrid"}

\* Defect: the resume is read without locking its row.
ReadUnlocked(p, s) == UNCHANGED locked

LockRow(p, s) == locked' = [locked EXCEPT ![s] = p]

\* The resume is processed and not deleted, and the job is on the list.
Matchable(r, v) == r \in processed /\ lifecycle[r] = "active" /\ lifecycle[v] = "active"

\* The row that request p locks next is free.
RowIsFree(p) == At(p, "source") /\ locked[request[p].subject] = Nothing

\* get_succeeded_resume ... FOR UPDATE, and the published version of a job.
LockResume(p) == LET r == request[p].subject IN
    /\ RowIsFree(p) /\ IsMatch(p)
    /\ Matchable(r, request[p].version)
    /\ LockRow(p, r)
    /\ Goto(p, IF request[p].op = "hybrid" THEN "scope" ELSE "commit")
    /\ UNCHANGED <<sourceVars, guard, sharing, publishing, storedVars>>

\* _search_scope: the resume, the version, and the knowledge that is ready now.
ReadScope(p) ==
    /\ At(p, "scope")
    /\ request' = [request EXCEPT ![p].step = "rank", ![p].scope =
            {request[p].subject, request[p].version} \cup {d \in Documents : Searchable(d)}]
    /\ UNCHANGED <<sourceVars, lockVars, publishing, storedVars>>

\* A model is called; the sink that records the call checks its foreign key to the tenant.
MayAsk(p, step) == At(p, step) /\ ~ KeyShareWaits(p)

\* The semantic matcher: evidence of both sides, judged by a model, cited and resolved;
\* the call is recorded by the trace sink whether it worked or not.
Rank(p) == LET sides == {request[p].subject, request[p].version} IN
    /\ MayAsk(p, "rank")
    /\ \E semantic \in {{}} \cup
            (IF \A s \in sides : Searchable(s) THEN {{Current(s) : s \in sides}} ELSE {}) :
          request' = [request EXCEPT ![p].step = "explain", ![p].semantic = semantic]
    /\ UNCHANGED <<sourceVars, lockVars, publishing, storedVars>>

\* The explanation: chunks in the scope are shown to a model, and what it says cites some
\* of them, or nothing if it fails.  One claim stands for all, which are judged one by one.
Explain(p) ==
    /\ MayAsk(p, "explain")
    /\ \E shown \in SUBSET {c \in Active : c.source \in request[p].scope} :
       \E claim \in SUBSET shown :
          request' = [request EXCEPT ![p].step = "resolve", ![p].shown = shown, ![p].claim = claim]
    /\ UNCHANGED <<sourceVars, lockVars, publishing, storedVars>>

StillActive(cites) == cites \subseteq Active

\* The last validation: a claim, or the semantic score, whose citations are not all active
\* any more is dropped; so are both if they cannot be looked up.
Resolve(p) ==
    /\ At(p, "resolve")
    /\ \E found \in BOOLEAN :
          request' = [request EXCEPT
              ![p].step = "commit",
              ![p].semantic = IF found /\ StillActive(@) THEN @ ELSE {},
              ![p].claim = IF found /\ StillActive(@) THEN @ ELSE {},
              ![p].shown = IF found /\ StillActive(request[p].claim) THEN @ ELSE {}]
    /\ UNCHANGED <<sourceVars, lockVars, publishing, storedVars>>

\* The foreign key of what p stores, checked when the commit writes it: a KEY SHARE lock on
\* the version, for which an indexer that holds the row is waited for.
VersionIsFree(p) == LET v == request[p].version IN v # Nothing => locked[v] = Nothing

MayStore(p, step) == At(p, step) /\ VersionIsFree(p)

\* What a match stores.  Whatever cites nothing may still owe its words to any chunk that
\* the model was shown.
ResultOf(p) == LET q == request[p] IN
    [resume |-> q.subject, version |-> q.version, redacted |-> FALSE,
     text |-> {q.subject, q.version} \cup {c.source : c \in q.shown},
     semantic |-> q.semantic # {},
     cites |-> q.semantic \cup q.claim]

CommitMatch(p, i) ==
    /\ MayStore(p, "commit") /\ result[i] = Nothing
    /\ result' = [result EXCEPT ![i] = ResultOf(p)]
    /\ Release(p)
    /\ UNCHANGED <<sourceVars, publishing, reasons>>

-----------------------------------------------------------------------------
(* Feedback, which may name the version of another job as the better one   *)

\* FeedbackRepository.get_result finds it.
Open(i) == /\ result[i] # Nothing
           /\ ~ result[i].redacted /\ lifecycle[result[i].resume] = "active"

ReadResult(p) ==
    /\ At(p, "read") /\ Open(request[p].subject)
    /\ Goto(p, "write")
    /\ UNCHANGED <<sourceVars, lockVars, publishing, storedVars>>

\* A match without a resume or a job, or feedback on what is not there, is refused; so is
\* a match when all Results are used up, which is a bound of the model.
Refuse(p) ==
    /\ \/ /\ RowIsFree(p) /\ IsMatch(p)
          /\ ~ Matchable(request[p].subject, request[p].version)
       \/ At(p, "read") /\ ~ Open(request[p].subject)
       \/ MayStore(p, "commit") /\ \A i \in Results : result[i] # Nothing
    /\ Release(p)
    /\ UNCHANGED <<sourceVars, publishing, storedVars>>

CommitFeedback(p) ==
    /\ MayStore(p, "write")
    /\ reasons' = reasons \cup {request[p].subject}
    /\ Release(p)
    /\ UNCHANGED <<sourceVars, publishing, result>>

-----------------------------------------------------------------------------
(* Privacy deletion                                                        *)

LockErased(p) == LET s == request[p].subject IN
    /\ RowIsFree(p) /\ request[p].op = "erase"
    /\ locked' = [locked EXCEPT ![s] = p]
    /\ Goto(p, "scrub")
    /\ UNCHANGED <<sourceVars, guard, sharing, publishing, storedVars>>

\* Defect: deleting a document redacts the results that cite it, and no others.
CitesIt(i, s) == \/ result[i].resume = s
                 \/ s \in Documents /\ \E c \in result[i].cites : c.source = s

\* The runs of the resume, or every run of the tenant if knowledge is deleted.
Concerns(i, s) == result[i].resume = s \/ s \in Documents

\* Defect: a column is set to NULL that forbids it.
RedactedToNull(r) == [r EXCEPT !.redacted = TRUE, !.text = {}, !.cites = {}, !.semantic = Nothing]

Redacted(r) == [r EXCEPT !.redacted = TRUE, !.text = {}, !.cites = {}]

\* scrub_private_data and scrub_private_results; nothing more is done the second time.
CommitErasure(p) == LET s == request[p].subject
                        gone == {i \in Results : result[i] # Nothing /\ Concerns(i, s)} IN
    /\ At(p, "scrub")
    /\ IF lifecycle[s] = "deleted" THEN UNCHANGED <<lifecycle, storedVars>>
       ELSE /\ lifecycle' = [lifecycle EXCEPT ![s] = "deleted"]
            /\ result' = [i \in Results |-> IF i \in gone THEN Redacted(result[i]) ELSE result[i]]
            /\ reasons' = reasons \ gone
    /\ Release(p)
    /\ UNCHANGED <<processed, generation, publishing>>

-----------------------------------------------------------------------------
(* Publications, and operators that do not need the guard                  *)

LockPublication(w, s) ==
    /\ publishing[w] = Nothing /\ locked[s] = Nothing
    /\ s \in Versions \/ lifecycle[s] = "active"
    /\ generation[s] < IF s \in Resumes THEN MaxGeneration ELSE 1
    /\ locked' = [locked EXCEPT ![s] = w]
    /\ publishing' = [publishing EXCEPT ![w] = s]
    /\ UNCHANGED <<sourceVars, guard, sharing, request, storedVars>>

\* Rows that refer to the tenant are inserted.
MayShare(w) == publishing[w] # Nothing /\ w \notin sharing /\ ~ KeyShareWaits(w)

ShareTenant(w) ==
    /\ MayShare(w)
    /\ sharing' = sharing \cup {w}
    /\ UNCHANGED <<sourceVars, guard, locked, request, publishing, storedVars>>

EndPublication(w) == /\ sharing' = sharing \ {w}
                     /\ locked' = [s \in Sources |-> IF locked[s] = w THEN Nothing ELSE locked[s]]
                     /\ publishing' = [publishing EXCEPT ![w] = Nothing]
                     /\ UNCHANGED <<lifecycle, guard, request, storedVars>>

\* A resume may be published without an index.
CommitPublication(w) == LET s == publishing[w] IN
    /\ w \in sharing
    /\ \E indexed \in BOOLEAN :
          /\ indexed \/ s \in Resumes
          /\ generation' = [generation EXCEPT ![s] = IF indexed THEN @ + 1 ELSE @]
    /\ processed' = processed \cup ({s} \cap Resumes)
    /\ EndPublication(w)

AbortPublication(w) == /\ publishing[w] # Nothing
                       /\ EndPublication(w)
                       /\ UNCHANGED <<processed, generation>>

\* A backfill queues a resume again.
Reopen(r) == /\ r \in processed /\ lifecycle[r] = "active" /\ locked[r] = Nothing
             /\ processed' = processed \ {r}
             /\ UNCHANGED <<lifecycle, generation, lockVars, request, publishing, storedVars>>

\* A document is deactivated, or a job is taken off the list.
Deactivate(s) == /\ s \in Documents \cup Versions /\ locked[s] = Nothing /\ lifecycle[s] = "active"
                 /\ lifecycle' = [lifecycle EXCEPT ![s] = "inactive"]
                 /\ UNCHANGED <<processed, generation, lockVars, request, publishing, storedVars>>

\* A job is published again.
Activate(v) == /\ v \in Versions /\ locked[v] = Nothing /\ lifecycle[v] = "inactive"
               /\ lifecycle' = [lifecycle EXCEPT ![v] = "active"]
               /\ UNCHANGED <<processed, generation, lockVars, request, publishing, storedVars>>

-----------------------------------------------------------------------------
RequestStep(p) == \/ TakeGuard(p)
                  \/ LockResume(p) \/ ReadScope(p) \/ Rank(p) \/ Explain(p) \/ Resolve(p)
                  \/ \E i \in Results : CommitMatch(p, i)
                  \/ ReadResult(p) \/ CommitFeedback(p) \/ Refuse(p)
                  \/ LockErased(p) \/ CommitErasure(p)

WorkerStep(w) == ShareTenant(w) \/ CommitPublication(w)

Arrive(p) == \/ \E op \in {"rules", "hybrid"}, r \in Resumes, v \in Versions : Begin(p, op, r, v)
             \/ \E i \in Results, v \in Versions \cup {Nothing} : Begin(p, "feedback", i, v)
             \/ \E s \in Resumes \cup Documents : Begin(p, "erase", s, Nothing)

Next == \/ \E p \in Requests : Arrive(p) \/ RequestStep(p) \/ Abort(p)
        \/ \E w \in Workers : \/ WorkerStep(w) \/ AbortPublication(w)
                              \/ \E s \in Sources : LockPublication(w, s)
        \/ \E s \in Sources : Reopen(s) \/ Deactivate(s) \/ Activate(s)

Spec == Init /\ [][Next]_vars

-----------------------------------------------------------------------------
(* Properties                                                              *)

\* Every variable has its type.
TypeOK == /\ lifecycle \in [Sources -> {"active", "inactive", "deleted"}]
          /\ processed \subseteq Resumes
          /\ generation \in [Sources -> Nat]
          /\ guard \in Requests \cup {Nothing}
          /\ sharing \subseteq Workers
          /\ locked \in [Sources -> Requests \cup Workers \cup {Nothing}]
          /\ request \in [Requests -> [op : Operations, step : Steps,
                             subject : Sources \cup Results \cup {Nothing},
                             version : Versions \cup {Nothing}, scope : SUBSET Sources,
                             shown : SUBSET Chunks, semantic : SUBSET Chunks,
                             claim : SUBSET Chunks]]
          /\ publishing \in [Workers -> Sources \cup {Nothing}]
          /\ result \in [Results -> Stored \cup {Nothing}]
          /\ reasons \subseteq Results

\* Privacy: no stored result owes a word to an erased Source, cited or not, whatever
\* matches were under way when the Source was erased.
ErasedLeavesNoTrace ==
    \A i \in Results : result[i] # Nothing =>
        /\ \A s \in result[i].text : lifecycle[s] # "deleted"
        /\ \A c \in result[i].cites : c.source \in result[i].text

\* Privacy: no recruiter's remark remains, or appears later, on a redacted result or on
\* one of an erased resume.
RemarksGoWithTheResult ==
    \A i \in reasons : /\ result[i] # Nothing /\ ~ result[i].redacted
                       /\ lifecycle[result[i].resume] # "deleted"

\* A stored result changes by redaction only, and only when its resume, or knowledge of
\* the tenant, is erased; a redacted result stays redacted.
ResultsAreImmutable ==
    [][\A i \in Results : result[i] # Nothing /\ result'[i] # result[i] =>
          /\ result'[i] = [result[i] EXCEPT !.redacted = TRUE, !.text = {}, !.cites = {}]
          /\ \E s \in {result[i].resume} \cup Documents :
                 lifecycle[s] # "deleted" /\ lifecycle'[s] = "deleted"]_vars

\* What a result says of its resume, it says of the resume's present index: its citations
\* are active when it is stored, however long the models took; and a semantic score rests
\* on both sides.
ResumeCitationsAreCurrent ==
    [][\A i \in Results : result[i] = Nothing /\ result'[i] # Nothing =>
          LET r == result'[i].resume IN
          /\ \A c \in result'[i].cites : c.source \in Resumes => c = Current(r) /\ Searchable(r)
          /\ result'[i].semantic => {r, result'[i].version} \subseteq
                                        {c.source : c \in result'[i].cites}]_vars

\* Whom a transaction waits for: the holder of the guard or of a row, of the row of a version
\* for a foreign key, and of the tenant's row for a foreign key or a trace.
WaitsFor(a) ==
    {b \in Requests \cup Workers :
        \/ a \in Requests /\ At(a, "guard") /\ NeedsGuard(a) /\ guard = b
        \/ a \in Requests /\ At(a, "source") /\ locked[request[a].subject] = b
        \/ /\ a \in Requests /\ (At(a, "commit") \/ At(a, "write"))
           /\ request[a].version # Nothing /\ locked[request[a].version] = b
        \/ /\ \/ a \in Requests /\ (At(a, "rank") \/ At(a, "explain"))
              \/ a \in Workers /\ publishing[a] # Nothing /\ a \notin sharing
           /\ KeyShareWaits(a) /\ guard = b}

\* Before the guard, behind it without a row, with the row, and a worker, which waits for
\* nobody that holds one.
LockOrder(a) == IF a \in Workers THEN 0
                ELSE IF At(a, "guard") THEN 3
                ELSE IF At(a, "source") THEN 2 ELSE 1

\* Locks are taken in one order: whoever is waited for is farther on.
LocksAreOrdered == \A a \in Requests \cup Workers : \A b \in WaitsFor(a) : LockOrder(b) < LockOrder(a)

\* A transaction that is open: of a request, or of a worker that publishes.
IsOpen(a) == IF a \in Requests THEN ~ At(a, "idle") ELSE publishing[a] # Nothing

\* What an open transaction needs to go on (not to give up): the guards of RequestStep, of
\* which one branch or the other is open once the row or the result is there, and of WorkerStep.
MayGoOn(a) ==
    IF a \in Requests
    THEN \/ MayTakeGuard(a)
         \/ RowIsFree(a) /\ (IsMatch(a) \/ request[a].op = "erase")
         \/ MayAsk(a, "rank") \/ MayAsk(a, "explain")
         \/ MayStore(a, "commit") \/ MayStore(a, "write")
         \/ \E step \in {"scope", "resolve", "read", "scrub"} : At(a, step)
    ELSE MayShare(a) \/ a \in sharing

\* Nobody waits for ever: guard, row locks and foreign key checks never form a circle.  Who is
\* waited for is in an open transaction and farther on, whoever waits for nobody can go on, and
\* so, as long as a transaction is open, there is one that can.
NobodyWaitsInACircle ==
    /\ LocksAreOrdered
    /\ \A a \in Requests \cup Workers : \A b \in WaitsFor(a) : IsOpen(b)
    /\ \A a \in Requests \cup Workers : IsOpen(a) /\ WaitsFor(a) = {} => MayGoOn(a)
    /\ (\E a \in Requests \cup Workers : IsOpen(a)) => \E a \in Requests \cup Workers : MayGoOn(a)

-----------------------------------------------------------------------------
(* The index that matches search                                           *)

\* Sources that are withdrawn for good; jobs may be published again.
Indexed == Resumes \cup Documents

Index ==
    INSTANCE PublishedIndex WITH
        Sources <- Indexed,
        version <- [s \in Indexed |-> generation[s]],
        offered <- [s \in Indexed |-> IF Searchable(s) THEN {generation[s]} ELSE {}],
        open    <- [s \in Indexed |-> lifecycle[s] = "active"]

\* What matches search keeps the promises of PublishedIndex, as the index that
\* IndexGenerations models does: a publication that began before an erasure or a deactivation
\* does not come after it, because it holds the row of the Source throughout.
ImplementsIndex == Index!Spec
=============================================================================
