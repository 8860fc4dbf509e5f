-------------------------- MODULE IndexGenerations --------------------------
(***************************************************************************)
(* The vector index of the recruiting Sources: chunks are staged under the *)
(* next generation of their Source, inactive, and activated in one         *)
(* transaction that moves the Source's pointer.                            *)
(*                                                                         *)
(* Resumes and knowledge documents are indexed by the workers that hold    *)
(* their processing lease; of the lease this module keeps what fences the  *)
(* index: the epoch and whether it still runs (SourceLease has the rest).  *)
(* Job versions are indexed by API requests and by backfills, without a    *)
(* lease, and several at a time.                                           *)
(*                                                                         *)
(* A transaction of GenerationWriter locks the Source first and is one     *)
(* action.  The chunks a Source is cut into are the same for every attempt *)
(* (its file or text is immutable), and they are written, flipped and      *)
(* deleted together: a generation is present or absent.  What differs is   *)
(* the embedding model of the process that wrote it.                       *)
(***************************************************************************)
EXTENDS Naturals

CONSTANTS
    Resumes, Documents, JobVersions,  \* the Sources
    Workers,        \* processes that work under a lease
    Indexers,       \* requests and backfills that index job versions
    Models,         \* embedding models that deployed processes may use
    MaxEpoch,       \* bound: claims of one Source
    MaxGeneration,  \* bound: generations of one Source
    Nothing         \* no source, no chunks

ASSUME SourcesAssumption == /\ Resumes \cap Documents = {}
                            /\ JobVersions \cap (Resumes \cup Documents) = {}
ASSUME ActorsAssumption == Workers \cap Indexers = {}
ASSUME BoundsAssumption == MaxEpoch \in Nat /\ MaxGeneration \in Nat
ASSUME NothingAssumption == /\ Nothing \notin Resumes \cup Documents \cup JobVersions
                            /\ Nothing \notin [model : Models, live : BOOLEAN, by : Nat]

VARIABLES
    status,    \* status[s]: processing status, "deleted" once erased
    epoch,     \* epoch[s]: processing_lease_epoch
    lease,     \* lease[s]: the lease of that epoch has not run out
    parsed,    \* parsed[s]: extracted text and profile of a resume are stored
    pointer,   \* pointer[s]: active_index_generation
    ready,     \* ready[s]: search_index_status
    flawed,    \* flawed[s]: search_index_error_code is set
    chunks,    \* chunks[s][g]: the rows of generation g, if there are any
    attempt    \* attempt[a]: what worker or indexer a is doing

rowVars == <<status, epoch, lease, parsed>>
indexVars == <<pointer, ready, flawed, chunks>>
vars == <<rowVars, indexVars, attempt>>

-----------------------------------------------------------------------------
Leased  == Resumes \cup Documents
Sources == Leased \cup JobVersions
Actors  == Workers \cup Indexers
Generations == 1 .. MaxGeneration

Idle  == [step |-> "idle", source |-> Nothing, epoch |-> 0, target |-> 0, model |-> Nothing]
Steps == {"idle", "claimed", "parsed", "reconciled", "staged", "unindexed",
          "read", "written", "refused"}
Rows  == [model : Models, live : BOOLEAN, by : 0 .. MaxEpoch]
Statuses == {"queued", "running", "done", "failed", "retry", "inactive", "deleted"}

Init == /\ status = [s \in Sources |-> "queued"]
        /\ epoch = [s \in Sources |-> 0]
        /\ lease = [s \in Sources |-> FALSE]
        /\ parsed = [s \in Sources |-> FALSE]
        /\ pointer = [s \in Sources |-> 0]
        /\ ready = [s \in Sources |-> "pending"]
        /\ flawed = [s \in Sources |-> FALSE]
        /\ chunks = [s \in Sources |-> [g \in Generations |-> Nothing]]
        /\ attempt = [a \in Actors |-> Idle]

\* Neither withdrawn by an operator nor erased.
Open(s) == status[s] \notin {"inactive", "deleted"}

At(a, step) == attempt[a].step = step
Subject(a)  == attempt[a].source
Target(a)   == attempt[a].target

Goto(a, step) == attempt' = [attempt EXCEPT ![a].step = step]
Finish(a)     == attempt' = [attempt EXCEPT ![a] = Idle]

\* Defect: any running lease on the Source will do.
OwnedByAnyone(w) == status[Subject(w)] = "running" /\ lease[Subject(w)]

\* LeaseRepository.owned: the claim's epoch stands, its lease runs, the row is RUNNING.
Owned(w) == /\ status[Subject(w)] = "running"
            /\ epoch[Subject(w)] = attempt[w].epoch
            /\ lease[Subject(w)]

-----------------------------------------------------------------------------
(* GenerationWriter                                                        *)

NextGeneration(s) == pointer[s] + 1

\* _require_exact_replay: the same offsets, contents and vectors, all inactive.
Replays(a) == LET rows == chunks[Subject(a)][Target(a)]
              IN rows # Nothing /\ rows.model = attempt[a].model /\ ~ rows.live

\* Defect: rows that are already there are a conflict, even one's own.
StageAllowedOnce(a) == /\ Target(a) = NextGeneration(Subject(a))
                       /\ chunks[Subject(a)][Target(a)] = Nothing

StageAllowed(a) == /\ Target(a) = NextGeneration(Subject(a))
                   /\ chunks[Subject(a)][Target(a)] = Nothing \/ Replays(a)

\* Rows are added, inactive; a replay writes nothing.
StageRows(a) == IF Replays(a) THEN UNCHANGED chunks
                ELSE chunks' = [chunks EXCEPT ![Subject(a)][Target(a)] =
                        [model |-> attempt[a].model, live |-> FALSE, by |-> attempt[a].epoch]]

\* Defect: the rows of the replaced generation keep their flag.
FlippedOnlyOn(s, g) == [chunks[s] EXCEPT ![g].live = TRUE]

\* Deactivate what is active, activate the target.
Flipped(s, g) == [h \in Generations |->
                     IF chunks[s][h] = Nothing THEN Nothing
                     ELSE [chunks[s][h] EXCEPT !.live = (h = g)]]

\* The staged rows are complete, inactive, and of the model that is to be activated.
ActivateAllowed(a) == Target(a) = NextGeneration(Subject(a)) /\ Replays(a)

Activate(s, g) == /\ chunks' = [chunks EXCEPT ![s] = Flipped(s, g)]
                  /\ pointer' = [pointer EXCEPT ![s] = g]
                  /\ ready' = [ready EXCEPT ![s] = "ready"]
                  /\ flawed' = [flawed EXCEPT ![s] = FALSE]

\* Defect: a failed refresh takes the index out of service.
StatusFailed(s) == "failed"

\* What fail() leaves: a published index stays ready.
StatusAfterFailure(s) == IF pointer[s] > 0 THEN "ready" ELSE "failed"

RecordFailure(s) == /\ ready' = [ready EXCEPT ![s] = StatusAfterFailure(s)]
                    /\ flawed' = [flawed EXCEPT ![s] = TRUE]
                    /\ UNCHANGED <<pointer, chunks>>

\* Defect: a new claimant keeps what it finds.
WithoutNothing(s) == chunks[s]

\* reconcile_staging deletes what lies beyond the pointer.  Its limit of 2048 chunks
\* is not modelled, and its other refusals are covered by StagedIsActivatable: a
\* result refers to chunks that were active when it was made, never to staged ones.
WithoutStaging(s) == [g \in Generations |-> IF g > pointer[s] THEN Nothing ELSE chunks[s][g]]

-----------------------------------------------------------------------------
(* Processing under a lease                                                *)

Claimable(s) == /\ status[s] = "queued" \/ (status[s] = "running" /\ ~ lease[s])
                /\ epoch[s] < MaxEpoch /\ pointer[s] < MaxGeneration

\* The claim's transaction also reads the generation the attempt will write.
Claim(w, s, m) ==
    /\ At(w, "idle") /\ Claimable(s)
    /\ status' = [status EXCEPT ![s] = "running"]
    /\ epoch' = [epoch EXCEPT ![s] = @ + 1]
    /\ lease' = [lease EXCEPT ![s] = TRUE]
    /\ attempt' = [attempt EXCEPT ![w] = [step |-> "claimed", source |-> s, model |-> m,
                        epoch |-> epoch[s] + 1, target |-> NextGeneration(s)]]
    /\ UNCHANGED <<parsed, indexVars>>

\* Time passes the expiry.
Lapse(s) == /\ lease[s]
            /\ lease' = [lease EXCEPT ![s] = FALSE]
            /\ UNCHANGED <<status, epoch, parsed, indexVars, attempt>>

\* The file is read, extracted and parsed; a resume already parsed skips this.
Parse(w) == /\ At(w, "claimed")
            /\ Goto(w, "parsed")
            /\ UNCHANGED <<rowVars, indexVars>>

ReconcileStaging(w) == /\ At(w, "parsed") /\ Owned(w)
                       /\ Target(w) = NextGeneration(Subject(w))
                       /\ chunks' = [chunks EXCEPT ![Subject(w)] = WithoutStaging(Subject(w))]
                       /\ Goto(w, "reconciled")
                       /\ UNCHANGED <<rowVars, pointer, ready, flawed>>

\* The embedding call returned vectors, and they are staged.
Stage(w) == /\ At(w, "reconciled") /\ Owned(w)
            /\ StageAllowed(w)
            /\ StageRows(w)
            /\ Goto(w, "staged")
            /\ UNCHANGED <<rowVars, pointer, ready, flawed>>

\* The embedding call failed, or its vectors are invalid.
EmbeddingFails(w) == /\ At(w, "reconciled")
                     /\ Goto(w, "unindexed")
                     /\ UNCHANGED <<rowVars, indexVars>>

\* finalize_owned: the generation, the parse and the status become visible together.
Publish(w) == LET s == Subject(w) IN
    /\ At(w, "staged") /\ Owned(w)
    /\ ActivateAllowed(w)
    /\ Activate(s, Target(w))
    /\ status' = [status EXCEPT ![s] = "done"]
    /\ lease' = [lease EXCEPT ![s] = FALSE]
    /\ parsed' = [parsed EXCEPT ![s] = (s \in Resumes)]
    /\ Finish(w)
    /\ UNCHANGED epoch

\* A resume that cannot be indexed is published all the same, with the error.
PublishUnindexed(w) == LET s == Subject(w) IN
    /\ At(w, "unindexed") /\ Owned(w) /\ s \in Resumes
    /\ RecordFailure(s)
    /\ status' = [status EXCEPT ![s] = "done"]
    /\ lease' = [lease EXCEPT ![s] = FALSE]
    /\ parsed' = [parsed EXCEPT ![s] = TRUE]
    /\ Finish(w)
    /\ UNCHANGED epoch

\* A failed attempt is retried soon, later, or not at all (finish_failed_attempt).
EndFailed(s) == /\ \E next \in {"queued", "retry", "failed"} :
                       status' = [status EXCEPT ![s] = next]
                /\ lease' = [lease EXCEPT ![s] = FALSE]
                /\ UNCHANGED <<epoch, parsed>>

\* A document that cannot be indexed fails; the index error is recorded with it.
DocumentFails(w) == /\ At(w, "unindexed") /\ Owned(w) /\ Subject(w) \in Documents
                    /\ RecordFailure(Subject(w))
                    /\ EndFailed(Subject(w))
                    /\ Finish(w)

\* Unreadable file, parse error, or the soft time limit at any point.
AttemptFails(w) == /\ attempt[w].step \in {"claimed", "parsed", "reconciled", "staged", "unindexed"}
                   /\ Owned(w)
                   /\ EndFailed(Subject(w))
                   /\ Finish(w)
                   /\ UNCHANGED indexVars

\* A due retry is queued again by the recovery.
RequeueDue(s) == /\ status[s] = "retry"
                 /\ status' = [status EXCEPT ![s] = "queued"]
                 /\ UNCHANGED <<epoch, lease, parsed, indexVars, attempt>>

-----------------------------------------------------------------------------
(* Job versions                                                            *)

\* A request has committed a version, or a backfill has listed it; either reads the
\* pointer well before it embeds and locks.
ReadVersion(i, s, m) ==
    /\ At(i, "idle") /\ pointer[s] < MaxGeneration
    /\ attempt' = [attempt EXCEPT ![i] = [step |-> "read", source |-> s, model |-> m,
                        epoch |-> 0, target |-> NextGeneration(s)]]
    /\ UNCHANGED <<rowVars, indexVars>>

StageVersion(i) == /\ At(i, "read") /\ StageAllowed(i)
                   /\ StageRows(i)
                   /\ Goto(i, "written")
                   /\ UNCHANGED <<rowVars, pointer, ready, flawed>>

\* Another generation is next by now, or other chunks lie under this one.
StageRefused(i) == /\ At(i, "read") /\ ~ StageAllowed(i)
                   /\ Goto(i, "refused")
                   /\ UNCHANGED <<rowVars, indexVars>>

VersionEmbeddingFails(i) == /\ At(i, "read")
                            /\ Goto(i, "refused")
                            /\ UNCHANGED <<rowVars, indexVars>>

ActivateVersion(i) == /\ At(i, "written") /\ ActivateAllowed(i)
                      /\ Activate(Subject(i), Target(i))
                      /\ Finish(i)
                      /\ UNCHANGED rowVars

ActivateRefused(i) == /\ At(i, "written") /\ ~ ActivateAllowed(i)
                      /\ Goto(i, "refused")
                      /\ UNCHANGED <<rowVars, indexVars>>

\* The failure is recorded whatever became of the version meanwhile.
FailVersion(i) == /\ At(i, "refused")
                  /\ RecordFailure(Subject(i))
                  /\ Finish(i)
                  /\ UNCHANGED rowVars

-----------------------------------------------------------------------------
(* Operators, and the end of processes                                     *)

\* Reindex of a document, backfill of a resume that SUCCEEDED.
Reopen(s) == /\ Open(s)
             /\ s \in Documents \/ status[s] = "done"
             /\ status' = [status EXCEPT ![s] = "queued"]
             /\ lease' = [lease EXCEPT ![s] = FALSE]
             /\ UNCHANGED <<epoch, parsed, indexVars, attempt>>

AllInactive(s) == [g \in Generations |-> IF chunks[s][g] = Nothing THEN Nothing
                                         ELSE [chunks[s][g] EXCEPT !.live = FALSE]]

Deactivate(s) == /\ s \in Documents /\ status[s] # "deleted"
                 /\ status' = [status EXCEPT ![s] = "inactive"]
                 /\ ready' = [ready EXCEPT ![s] = "inactive"]
                 /\ chunks' = [chunks EXCEPT ![s] = AllInactive(s)]
                 /\ UNCHANGED <<epoch, lease, parsed, pointer, flawed, attempt>>

\* Defect: only the chunks that searches can find are deleted.
Searchable(s) == [g \in Generations |->
    IF chunks[s][g] # Nothing /\ chunks[s][g].live THEN Nothing ELSE chunks[s][g]]

\* scrub_private_data deletes every generation of the Source.
NoChunks(s) == [g \in Generations |-> Nothing]

Delete(s) == /\ status[s] # "deleted"
             /\ status' = [status EXCEPT ![s] = "deleted"]
             /\ parsed' = [parsed EXCEPT ![s] = FALSE]
             /\ ready' = [ready EXCEPT ![s] = "deleted"]
             /\ flawed' = [flawed EXCEPT ![s] = FALSE]
             /\ chunks' = [chunks EXCEPT ![s] = NoChunks(s)]
             /\ UNCHANGED <<epoch, lease, pointer, attempt>>

\* The process dies, loses the database, or finds its lease lost.
Stop(a) == /\ ~ At(a, "idle")
           /\ Finish(a)
           /\ UNCHANGED <<rowVars, indexVars>>

-----------------------------------------------------------------------------
WorkerStep(w) == \/ Parse(w) \/ ReconcileStaging(w) \/ Stage(w) \/ EmbeddingFails(w)
                 \/ Publish(w) \/ PublishUnindexed(w) \/ DocumentFails(w) \/ AttemptFails(w)

IndexerStep(i) == \/ StageVersion(i) \/ StageRefused(i) \/ VersionEmbeddingFails(i)
                  \/ ActivateVersion(i) \/ ActivateRefused(i) \/ FailVersion(i)

Next == \/ \E w \in Workers : \/ WorkerStep(w)
                              \/ \E s \in Leased, m \in Models : Claim(w, s, m)
        \/ \E i \in Indexers : \/ IndexerStep(i)
                               \/ \E s \in JobVersions, m \in Models : ReadVersion(i, s, m)
        \/ \E s \in Leased : Lapse(s) \/ RequeueDue(s) \/ Reopen(s) \/ Deactivate(s) \/ Delete(s)
        \/ \E a \in Actors : Stop(a)

Spec == Init /\ [][Next]_vars

\* Backfills are started again and again, and neither a crash nor the embedding service
\* meets every one of them.
Fairness == \A i \in Indexers :
    /\ \A s \in JobVersions : SF_vars(\E m \in Models : ReadVersion(i, s, m))
    /\ SF_vars(StageVersion(i))
    /\ SF_vars(ActivateVersion(i))
    /\ WF_vars(IndexerStep(i))

FairSpec == Spec /\ Fairness

-----------------------------------------------------------------------------
(* Properties                                                              *)

\* What a search may return of a Source: the predicates of search and of
\* resolve_active_citations.
Visible(s) == {g \in Generations : /\ chunks[s][g] # Nothing /\ chunks[s][g].live
                                   /\ Open(s)
                                   /\ pointer[s] = g
                                   /\ ready[s] = "ready"}

\* Every variable has its type, and who is not idle is busy with a Source.
TypeOK == /\ status \in [Sources -> Statuses]
          /\ epoch \in [Sources -> 0 .. MaxEpoch]
          /\ lease \in [Sources -> BOOLEAN]
          /\ parsed \in [Sources -> BOOLEAN]
          /\ pointer \in [Sources -> 0 .. MaxGeneration]
          /\ ready \in [Sources -> {"pending", "ready", "failed", "inactive", "deleted"}]
          /\ flawed \in [Sources -> BOOLEAN]
          /\ chunks \in [Sources -> [Generations -> Rows \cup {Nothing}]]
          /\ attempt \in [Actors -> [step : Steps, source : Sources \cup {Nothing},
                             epoch : 0 .. MaxEpoch, target : 0 .. MaxGeneration,
                             model : Models \cup {Nothing}]]
          /\ \A a \in Actors : At(a, "idle") <=> Subject(a) = Nothing

\* Flags, pointer and status agree: a Source has active rows of its pointer's generation
\* and of no other, and none when it is withdrawn, so that no search, whichever of the
\* three it filters by, meets a replaced, a staged or a withdrawn generation.
OneGenerationLive ==
    \A s \in Sources, g \in Generations :
        (chunks[s][g] # Nothing /\ chunks[s][g].live)
            <=> (g = pointer[s] /\ Open(s))

\* Whoever still owns the lease finds its target generation next, and nothing but
\* inactive rows of that generation beyond the pointer; when its chunks are staged it can
\* activate them.  The refusals of reconcile_staging and of activate, and the second
\* publication that follows the latter, do not happen to an owner.
StagedIsActivatable ==
    \A w \in Workers : ~ At(w, "idle") /\ Owned(w) =>
        /\ Target(w) = NextGeneration(Subject(w))
        /\ \A g \in Generations : g > pointer[Subject(w)] /\ chunks[Subject(w)][g] # Nothing =>
               g = Target(w) /\ ~ chunks[Subject(w)][g].live
        /\ At(w, "staged") => ActivateAllowed(w)

\* Each generation of a leased Source is the work of one attempt: what it activates it
\* has staged itself, after it removed what an attempt before it had left.
OwnWorkIsPublished ==
    [][\A s \in Leased : pointer'[s] # pointer[s] =>
          /\ chunks'[s][pointer'[s]].by = epoch[s]
          /\ \E w \in Workers : attempt[w].epoch = epoch[s] /\ Subject(w) = s /\ Owned(w)]_vars

\* Published generations are kept for audit, unchanged, until the Source is deleted:
\* neither a reconciliation nor a replay touches them.
HistoryIsKept ==
    [][\A s \in Sources, g \in Generations :
          g <= pointer[s] /\ status'[s] # "deleted" =>
              /\ chunks'[s][g] # Nothing
              /\ chunks'[s][g].model = chunks[s][g].model
              /\ chunks'[s][g].by = chunks[s][g].by]_vars

\* Privacy: no chunk of a deleted Source exists, and none is written by an attempt that
\* was under way, however late it comes.
DeletedHasNoChunks ==
    \A s \in Sources, g \in Generations : status[s] = "deleted" => chunks[s][g] = Nothing

\* A search index is reported failed only if there is nothing to search, even if the
\* failure is recorded after somebody else's success; and what is processed is ready, or
\* says why not.
ReportedAsItIs ==
    \A s \in Sources : /\ ready[s] = "failed" => pointer[s] = 0
                       /\ ready[s] = "ready" => pointer[s] > 0
                       /\ status[s] = "done" => (ready[s] = "ready" /\ pointer[s] > 0) \/ flawed[s]
                       /\ status[s] = "done" /\ s \in Documents => ready[s] = "ready"
                       /\ status[s] = "done" /\ s \in Resumes => parsed[s]

\* A request or backfill that indexes a job version is refused only when another one has
\* published the generation meanwhile, so that the version is searchable, or has staged it
\* with another embedding model; what it staged itself only the former can refuse.  Chunks
\* that a dead process left staged, which nothing removes, stand in nobody's way.
RefusedForAReason ==
    \A i \in Indexers :
        LET s == Subject(i)
            published == pointer[s] >= Target(i) /\ ready[s] = "ready"
            foreign   == chunks[s][Target(i)] # Nothing /\ chunks[s][Target(i)].model # attempt[i].model
        IN /\ At(i, "read") /\ ~ StageAllowed(i) => published \/ foreign
           /\ At(i, "written") /\ ~ ActivateAllowed(i) => published

\* The repair of job versions works: if backfills are run again and again, every version
\* is searchable in the end.
BackfillRepairs == \A s \in JobVersions : <>(ready[s] = "ready")

Index == INSTANCE PublishedIndex WITH
             version <- pointer,
             offered <- [s \in Sources |-> Visible(s)],
             open    <- [s \in Sources |-> Open(s)]

\* Attempts, requests and operators keep the promises of PublishedIndex.
ImplementsIndex == Index!Spec
=============================================================================
