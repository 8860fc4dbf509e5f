------------------------ MODULE IndexGenerationsProofs ------------------------
(***************************************************************************)
(* The safety properties of IndexGenerations, for every number of Sources, *)
(* workers, indexers, models, epochs and generations.                      *)
(*                                                                         *)
(* The properties of a Source (RowsInv) need that nobody but the holder of *)
(* its lease writes beyond its pointer; what an attempt may rely on        *)
(* (ClaimsInv, for workers; RequestsInv, for indexers) needs that a claim  *)
(* has an epoch of its own.                                                *)
(***************************************************************************)
EXTENDS IndexGenerations, TLAPS

Step(a)   == attempt[a].step
WorkSteps == {"idle", "claimed", "parsed", "reconciled", "staged", "unindexed"}
JobSteps  == {"idle", "read", "written", "refused"}

\* Type correctness in three parts, with the steps that a worker and an indexer go through.
RowsTyped == /\ status \in [Sources -> Statuses]
             /\ epoch \in [Sources -> 0 .. MaxEpoch]
             /\ lease \in [Sources -> BOOLEAN]
             /\ parsed \in [Sources -> BOOLEAN]
             /\ pointer \in [Sources -> 0 .. MaxGeneration]
             /\ ready \in [Sources -> {"pending", "ready", "failed", "inactive", "deleted"}]
             /\ flawed \in [Sources -> BOOLEAN]

ChunksTyped == chunks \in [Sources -> [Generations -> Rows \cup {Nothing}]]

Attempts == [step : Steps, source : Sources \cup {Nothing}, epoch : 0 .. MaxEpoch,
             target : 0 .. MaxGeneration, model : Models \cup {Nothing}]

AttemptsTyped == /\ attempt \in [Actors -> Attempts]
                 /\ \A a \in Actors : At(a, "idle") <=> Subject(a) = Nothing
                 /\ \A w \in Workers : Step(w) \in WorkSteps
                 /\ \A i \in Indexers : Step(i) \in JobSteps

Typed == RowsTyped /\ ChunksTyped /\ AttemptsTyped

\* The rows of one Source: the generations up to the pointer are there, until it is
\* deleted, at most one is beyond it, and pointer, flags and statuses agree.
GenerationsInv(s) ==
    \A g \in Generations :
       /\ g <= pointer[s] /\ status[s] # "deleted" => chunks[s][g] # Nothing
       /\ chunks[s][g] # Nothing => g <= pointer[s] + 1 /\ status[s] # "deleted"
       /\ chunks[s][g] # Nothing => (chunks[s][g].live <=> (g = pointer[s] /\ Open(s)))

StatusInv(s) ==
    /\ Open(s) => (ready[s] = "ready" <=> pointer[s] > 0)
    /\ ready[s] = "failed" => pointer[s] = 0
    /\ ready[s] = "ready" => pointer[s] > 0
    /\ status[s] = "done" => ready[s] = "ready" \/ flawed[s]
    /\ status[s] = "done" /\ s \in Documents => ready[s] = "ready"
    /\ status[s] = "done" /\ s \in Resumes => parsed[s]
    /\ s \in JobVersions => status[s] = "queued"

RowInv(s) == GenerationsInv(s) /\ StatusInv(s)

RowsInv == \A s \in Sources : RowInv(s)

\* The claim is the latest of its Source, and nobody has ended it.
Current(w) == status[Subject(w)] = "running" /\ epoch[Subject(w)] = attempt[w].epoch

\* A claim was once the latest of a leased Source; while it still is, its target is next,
\* and from its reconciliation on only its own rows are there.
ClaimInv(w) == ~ At(w, "idle") =>
    /\ Subject(w) \in Leased
    /\ Target(w) \in Generations
    /\ attempt[w].model \in Models
    /\ attempt[w].epoch <= epoch[Subject(w)]
    /\ Current(w) =>
          /\ Target(w) = pointer[Subject(w)] + 1
          /\ At(w, "reconciled") => chunks[Subject(w)][Target(w)] = Nothing
          /\ At(w, "staged") => /\ chunks[Subject(w)][Target(w)] # Nothing
                                /\ chunks[Subject(w)][Target(w)].model = attempt[w].model
                                /\ chunks[Subject(w)][Target(w)].by = attempt[w].epoch

\* No two claims have the same Source and epoch.
ClaimsApart(x, y) ==
    ~ At(x, "idle") /\ ~ At(y, "idle") /\ Subject(x) = Subject(y) /\ attempt[x].epoch = attempt[y].epoch
    => x = y

ClaimsInv == /\ \A w \in Workers : ClaimInv(w)
             /\ \A w, v \in Workers : ClaimsApart(w, v)

RequestsInv == \A i \in Indexers : ~ At(i, "idle") =>
                   /\ Subject(i) \in JobVersions
                   /\ Target(i) \in Generations
                   /\ attempt[i].model \in Models

IInv == Typed /\ RowsInv /\ ClaimsInv /\ RequestsInv

USE SourcesAssumption, ActorsAssumption, BoundsAssumption, NothingAssumption
USE DEF Sources, Leased, Actors, Generations, Statuses, Steps, Rows, Idle, At, Subject,
        Target, Open, NextGeneration

\* Nothing is indexed at first.
LEMMA InitHolds == Init => IInv
BY DEF Init, IInv, Typed, RowsTyped, ChunksTyped, AttemptsTyped, Attempts, RowsInv, RowInv,
       GenerationsInv, StatusInv, ClaimsInv, ClaimInv, ClaimsApart, RequestsInv, Current, Step, WorkSteps, JobSteps

\* The rows of one Source are replaced.
LEMMA ChunksUpdated ==
    ASSUME ChunksTyped, NEW s \in Sources, NEW new \in [Generations -> Rows \cup {Nothing}],
           chunks' = [chunks EXCEPT ![s] = new]
    PROVE  ChunksTyped'
BY DEF ChunksTyped

\* A busy actor goes on to another of its steps.
LEMMA GotoTyped ==
    ASSUME AttemptsTyped, NEW a \in Actors, ~ At(a, "idle"), NEW step \in Steps \ {"idle"},
           a \in Workers => step \in WorkSteps, a \in Indexers => step \in JobSteps,
           Goto(a, step)
    PROVE  AttemptsTyped'
<1>1. attempt' = [attempt EXCEPT ![a] = [attempt[a] EXCEPT !.step = step]]
  BY DEF AttemptsTyped, Attempts, Goto
<1>2. [attempt[a] EXCEPT !.step = step] \in Attempts
  BY DEF AttemptsTyped, Attempts
<1>3. attempt' \in [Actors -> Attempts]
  BY <1>1, <1>2 DEF AttemptsTyped
<1>4. \A b \in Actors : attempt'[b].source = attempt[b].source
  BY <1>1 DEF AttemptsTyped, Attempts
<1>5. \A b \in Actors : attempt'[b].step = IF b = a THEN step ELSE attempt[b].step
  BY <1>1 DEF AttemptsTyped, Attempts
<1>. QED
  BY <1>3, <1>4, <1>5 DEF AttemptsTyped, Step, Actors

\* An actor is done.
LEMMA FinishTyped ==
    ASSUME AttemptsTyped, NEW a \in Actors, Finish(a)
    PROVE  AttemptsTyped'
<1>1. Idle \in Attempts
  BY DEF Attempts
<1>2. attempt' \in [Actors -> Attempts]
  BY <1>1 DEF AttemptsTyped, Finish
<1>. QED
  BY <1>2 DEF AttemptsTyped, Finish, Step, WorkSteps, JobSteps

\* A claim or a read begins.
LEMMA BeginTyped ==
    ASSUME AttemptsTyped, NEW a \in Actors, NEW new \in Attempts,
           new.step # "idle", new.source # Nothing,
           a \in Workers => new.step \in WorkSteps, a \in Indexers => new.step \in JobSteps,
           attempt' = [attempt EXCEPT ![a] = new]
    PROVE  AttemptsTyped'
<1>1. attempt' \in [Actors -> Attempts]
  BY DEF AttemptsTyped
<1>. QED
  BY <1>1 DEF AttemptsTyped, Step, WorkSteps, JobSteps

\* Every action keeps the types of the rows.
LEMMA RowsTypedStep == ASSUME IInv, [Next]_vars PROVE RowsTyped'
<1> USE DEF IInv, Typed
<1> USE DEF RowsTyped, AttemptsTyped, ClaimsInv, ClaimInv, RequestsInv,
            RecordFailure, StatusAfterFailure, EndFailed, Activate, rowVars, indexVars
<1>1. ASSUME NEW w \in Workers, Parse(w) PROVE RowsTyped'
  BY <1>1 DEF Parse
<1>2. ASSUME NEW w \in Workers, ReconcileStaging(w) PROVE RowsTyped'
  BY <1>2 DEF ReconcileStaging
<1>3. ASSUME NEW w \in Workers, Stage(w) PROVE RowsTyped'
  BY <1>3 DEF Stage
<1>4. ASSUME NEW w \in Workers, EmbeddingFails(w) PROVE RowsTyped'
  BY <1>4 DEF EmbeddingFails
<1>5. ASSUME NEW w \in Workers, Publish(w) PROVE RowsTyped'
  BY SMTT(30), <1>5 DEF Publish
<1>6. ASSUME NEW w \in Workers, PublishUnindexed(w) PROVE RowsTyped'
  BY <1>6 DEF PublishUnindexed
<1>7. ASSUME NEW w \in Workers, DocumentFails(w) PROVE RowsTyped'
  BY <1>7 DEF DocumentFails
<1>8. ASSUME NEW w \in Workers, AttemptFails(w) PROVE RowsTyped'
  BY <1>8 DEF AttemptFails
<1>9. ASSUME NEW w \in Workers, NEW s \in Leased, NEW m \in Models, Claim(w, s, m) PROVE RowsTyped'
  BY <1>9 DEF Claim, Claimable
<1>10. ASSUME NEW i \in Indexers, StageVersion(i) PROVE RowsTyped'
  BY <1>10 DEF StageVersion
<1>11. ASSUME NEW i \in Indexers, StageRefused(i) PROVE RowsTyped'
  BY <1>11 DEF StageRefused
<1>12. ASSUME NEW i \in Indexers, VersionEmbeddingFails(i) PROVE RowsTyped'
  BY <1>12 DEF VersionEmbeddingFails
<1>13. ASSUME NEW i \in Indexers, ActivateVersion(i) PROVE RowsTyped'
  BY <1>13 DEF ActivateVersion
<1>14. ASSUME NEW i \in Indexers, ActivateRefused(i) PROVE RowsTyped'
  BY <1>14 DEF ActivateRefused
<1>15. ASSUME NEW i \in Indexers, FailVersion(i) PROVE RowsTyped'
  BY <1>15 DEF FailVersion
<1>16. ASSUME NEW i \in Indexers, NEW s \in JobVersions, NEW m \in Models, ReadVersion(i, s, m) PROVE RowsTyped'
  BY <1>16 DEF ReadVersion
<1>17. ASSUME NEW s \in Leased, Lapse(s) PROVE RowsTyped'
  BY <1>17 DEF Lapse
<1>18. ASSUME NEW s \in Leased, RequeueDue(s) PROVE RowsTyped'
  BY <1>18 DEF RequeueDue
<1>19. ASSUME NEW s \in Leased, Reopen(s) PROVE RowsTyped'
  BY <1>19 DEF Reopen
<1>20. ASSUME NEW s \in Leased, Deactivate(s) PROVE RowsTyped'
  BY <1>20 DEF Deactivate
<1>21. ASSUME NEW s \in Leased, Delete(s) PROVE RowsTyped'
  BY <1>21 DEF Delete
<1>22. ASSUME NEW a \in Actors, Stop(a) PROVE RowsTyped'
  BY <1>22 DEF Stop
<1>23. ASSUME UNCHANGED vars PROVE RowsTyped'
  BY <1>23 DEF vars
<1>. QED
  BY <1>1, <1>2, <1>3, <1>4, <1>5, <1>6, <1>7, <1>8, <1>9, <1>10, <1>11, <1>12, <1>13, <1>14, <1>15, <1>16, <1>17, <1>18, <1>19, <1>20, <1>21, <1>22, <1>23 DEF Next, WorkerStep, IndexerStep

\* The chunks of a Source are replaced, if at all, by rows.
LEMMA ChunksTypedStep == ASSUME IInv, [Next]_vars PROVE ChunksTyped'
<1> USE DEF IInv, Typed
<1>a. ASSUME NEW a \in Actors, ~ At(a, "idle"), StageRows(a), Subject(a) \in Sources,
             Target(a) \in Generations, attempt[a].model \in Models, attempt[a].epoch \in 0 .. MaxEpoch
      PROVE  ChunksTyped'
  <2>. DEFINE row == [model |-> attempt[a].model, live |-> FALSE, by |-> attempt[a].epoch]
              new == [chunks[Subject(a)] EXCEPT ![Target(a)] = row]
  <2>1. row \in Rows
    BY <1>a
  <2>2. new \in [Generations -> Rows \cup {Nothing}]
    BY <1>a, <2>1 DEF ChunksTyped
  <2>3. CASE UNCHANGED chunks
    BY <2>3 DEF ChunksTyped
  <2>4. CASE chunks' = [chunks EXCEPT ![Subject(a)] = new]
    BY <1>a, <2>2, <2>4, ChunksUpdated
  <2>. QED
    BY <1>a, <2>3, <2>4 DEF StageRows
<1>b. ASSUME NEW s \in Sources, NEW g \in Generations, Activate(s, g) PROVE ChunksTyped'
  <2>1. ASSUME NEW h \in Generations, chunks[s][h] # Nothing
        PROVE  [chunks[s][h] EXCEPT !.live = (h = g)] \in Rows
    <3>1. chunks[s][h] \in Rows
      BY <2>1 DEF ChunksTyped
    <3>. QED
      BY <3>1
  <2>2. Flipped(s, g) \in [Generations -> Rows \cup {Nothing}]
    BY <2>1 DEF Flipped
  <2>. QED
    BY <1>b, <2>2, ChunksUpdated DEF Activate
<1>c. ASSUME NEW a \in Actors, ~ At(a, "idle")
      PROVE  Subject(a) \in Sources /\ attempt[a].model \in Models /\ attempt[a].epoch \in 0 .. MaxEpoch
             /\ Target(a) \in Generations
  BY <1>c DEF AttemptsTyped, Attempts, ClaimsInv, ClaimInv, RequestsInv
<1> USE DEF ChunksTyped, RecordFailure, EndFailed, rowVars, indexVars
<1>1. ASSUME NEW w \in Workers, Parse(w) PROVE ChunksTyped'
  BY <1>1 DEF Parse
<1>2. ASSUME NEW w \in Workers, ReconcileStaging(w) PROVE ChunksTyped'
  <2>1. WithoutStaging(Subject(w)) \in [Generations -> Rows \cup {Nothing}]
    BY <1>2, <1>c DEF ReconcileStaging, WithoutStaging, ChunksTyped
  <2>. QED
    BY <1>2, <1>c, <2>1, ChunksUpdated DEF ReconcileStaging
<1>3. ASSUME NEW w \in Workers, Stage(w) PROVE ChunksTyped'
  BY <1>3, <1>a, <1>c DEF Stage
<1>4. ASSUME NEW w \in Workers, EmbeddingFails(w) PROVE ChunksTyped'
  BY <1>4 DEF EmbeddingFails
<1>5. ASSUME NEW w \in Workers, Publish(w) PROVE ChunksTyped'
  BY <1>5, <1>b, <1>c DEF Publish
<1>6. ASSUME NEW w \in Workers, PublishUnindexed(w) PROVE ChunksTyped'
  BY <1>6 DEF PublishUnindexed
<1>7. ASSUME NEW w \in Workers, DocumentFails(w) PROVE ChunksTyped'
  BY <1>7 DEF DocumentFails
<1>8. ASSUME NEW w \in Workers, AttemptFails(w) PROVE ChunksTyped'
  BY <1>8 DEF AttemptFails
<1>9. ASSUME NEW w \in Workers, NEW s \in Leased, NEW m \in Models, Claim(w, s, m) PROVE ChunksTyped'
  BY <1>9 DEF Claim
<1>10. ASSUME NEW i \in Indexers, StageVersion(i) PROVE ChunksTyped'
  BY <1>10, <1>a, <1>c DEF StageVersion
<1>11. ASSUME NEW i \in Indexers, StageRefused(i) PROVE ChunksTyped'
  BY <1>11 DEF StageRefused
<1>12. ASSUME NEW i \in Indexers, VersionEmbeddingFails(i) PROVE ChunksTyped'
  BY <1>12 DEF VersionEmbeddingFails
<1>13. ASSUME NEW i \in Indexers, ActivateVersion(i) PROVE ChunksTyped'
  BY <1>13, <1>b, <1>c DEF ActivateVersion
<1>14. ASSUME NEW i \in Indexers, ActivateRefused(i) PROVE ChunksTyped'
  BY <1>14 DEF ActivateRefused
<1>15. ASSUME NEW i \in Indexers, FailVersion(i) PROVE ChunksTyped'
  BY <1>15 DEF FailVersion
<1>16. ASSUME NEW i \in Indexers, NEW s \in JobVersions, NEW m \in Models, ReadVersion(i, s, m) PROVE ChunksTyped'
  BY <1>16 DEF ReadVersion
<1>17. ASSUME NEW s \in Leased, Lapse(s) PROVE ChunksTyped'
  BY <1>17 DEF Lapse
<1>18. ASSUME NEW s \in Leased, RequeueDue(s) PROVE ChunksTyped'
  BY <1>18 DEF RequeueDue
<1>19. ASSUME NEW s \in Leased, Reopen(s) PROVE ChunksTyped'
  BY <1>19 DEF Reopen
<1>20. ASSUME NEW s \in Leased, Deactivate(s) PROVE ChunksTyped'
  <2>1. ASSUME NEW g \in Generations, chunks[s][g] # Nothing
        PROVE  [chunks[s][g] EXCEPT !.live = FALSE] \in Rows
    <3>1. chunks[s][g] \in Rows
      BY <2>1 DEF ChunksTyped
    <3>. QED
      BY <3>1
  <2>2. AllInactive(s) \in [Generations -> Rows \cup {Nothing}]
    BY <2>1 DEF AllInactive
  <2>. QED
    BY <1>20, <2>2, ChunksUpdated DEF Deactivate
<1>21. ASSUME NEW s \in Leased, Delete(s) PROVE ChunksTyped'
  <2>1. NoChunks(s) \in [Generations -> Rows \cup {Nothing}]
    BY DEF NoChunks, ChunksTyped
  <2>. QED
    BY <1>21, <2>1, ChunksUpdated DEF Delete
<1>22. ASSUME NEW a \in Actors, Stop(a) PROVE ChunksTyped'
  BY <1>22 DEF Stop
<1>23. ASSUME UNCHANGED vars PROVE ChunksTyped'
  BY <1>23 DEF vars
<1>. QED
  BY <1>1, <1>2, <1>3, <1>4, <1>5, <1>6, <1>7, <1>8, <1>9, <1>10, <1>11, <1>12, <1>13, <1>14, <1>15, <1>16, <1>17, <1>18, <1>19, <1>20, <1>21, <1>22, <1>23 DEF Next, WorkerStep, IndexerStep

\* Actors go through their steps.
LEMMA AttemptsTypedStep == ASSUME IInv, [Next]_vars PROVE AttemptsTyped'
<1> USE DEF IInv, Typed
<1> USE DEF rowVars, indexVars
<1>1. ASSUME NEW w \in Workers, Parse(w) PROVE AttemptsTyped'
  BY <1>1, GotoTyped DEF Parse, WorkSteps, JobSteps, RowsTyped
<1>2. ASSUME NEW w \in Workers, ReconcileStaging(w) PROVE AttemptsTyped'
  BY <1>2, GotoTyped DEF ReconcileStaging, WorkSteps, JobSteps, RowsTyped
<1>3. ASSUME NEW w \in Workers, Stage(w) PROVE AttemptsTyped'
  BY <1>3, GotoTyped DEF Stage, WorkSteps, JobSteps, RowsTyped
<1>4. ASSUME NEW w \in Workers, EmbeddingFails(w) PROVE AttemptsTyped'
  BY <1>4, GotoTyped DEF EmbeddingFails, WorkSteps, JobSteps, RowsTyped
<1>5. ASSUME NEW w \in Workers, Publish(w) PROVE AttemptsTyped'
  BY <1>5, FinishTyped DEF Publish
<1>6. ASSUME NEW w \in Workers, PublishUnindexed(w) PROVE AttemptsTyped'
  BY <1>6, FinishTyped DEF PublishUnindexed
<1>7. ASSUME NEW w \in Workers, DocumentFails(w) PROVE AttemptsTyped'
  BY <1>7, FinishTyped DEF DocumentFails
<1>8. ASSUME NEW w \in Workers, AttemptFails(w) PROVE AttemptsTyped'
  BY <1>8, FinishTyped DEF AttemptFails
<1>9. ASSUME NEW w \in Workers, NEW s \in Leased, NEW m \in Models, Claim(w, s, m) PROVE AttemptsTyped'
  <2>. DEFINE new == [step |-> "claimed", source |-> s, model |-> m, epoch |-> epoch[s] + 1,
                        target |-> pointer[s] + 1]
  <2>1. new \in Attempts /\ new.step = "claimed" /\ new.source # Nothing
    BY <1>9 DEF Claim, Claimable, RowsTyped, Attempts
  <2>2. attempt' = [attempt EXCEPT ![w] = new]
    BY <1>9 DEF Claim
  <2>. HIDE DEF new
  <2>. QED
    BY <2>1, <2>2, BeginTyped DEF WorkSteps
<1>10. ASSUME NEW i \in Indexers, StageVersion(i) PROVE AttemptsTyped'
  BY <1>10, GotoTyped DEF StageVersion, WorkSteps, JobSteps, RowsTyped
<1>11. ASSUME NEW i \in Indexers, StageRefused(i) PROVE AttemptsTyped'
  BY <1>11, GotoTyped DEF StageRefused, WorkSteps, JobSteps, RowsTyped
<1>12. ASSUME NEW i \in Indexers, VersionEmbeddingFails(i) PROVE AttemptsTyped'
  BY <1>12, GotoTyped DEF VersionEmbeddingFails, WorkSteps, JobSteps, RowsTyped
<1>13. ASSUME NEW i \in Indexers, ActivateVersion(i) PROVE AttemptsTyped'
  BY <1>13, FinishTyped DEF ActivateVersion
<1>14. ASSUME NEW i \in Indexers, ActivateRefused(i) PROVE AttemptsTyped'
  BY <1>14, GotoTyped DEF ActivateRefused, WorkSteps, JobSteps, RowsTyped
<1>15. ASSUME NEW i \in Indexers, FailVersion(i) PROVE AttemptsTyped'
  BY <1>15, FinishTyped DEF FailVersion
<1>16. ASSUME NEW i \in Indexers, NEW s \in JobVersions, NEW m \in Models, ReadVersion(i, s, m) PROVE AttemptsTyped'
  <2>. DEFINE new == [step |-> "read", source |-> s, model |-> m, epoch |-> 0, target |-> pointer[s] + 1]
  <2>1. new \in Attempts /\ new.step = "read" /\ new.source # Nothing
    BY <1>16 DEF ReadVersion, RowsTyped, Attempts
  <2>2. attempt' = [attempt EXCEPT ![i] = new]
    BY <1>16 DEF ReadVersion
  <2>. HIDE DEF new
  <2>. QED
    BY <2>1, <2>2, BeginTyped DEF JobSteps
<1>17. ASSUME NEW s \in Leased, Lapse(s) PROVE AttemptsTyped'
  BY <1>17 DEF Lapse, AttemptsTyped, Step
<1>18. ASSUME NEW s \in Leased, RequeueDue(s) PROVE AttemptsTyped'
  BY <1>18 DEF RequeueDue, AttemptsTyped, Step
<1>19. ASSUME NEW s \in Leased, Reopen(s) PROVE AttemptsTyped'
  BY <1>19 DEF Reopen, AttemptsTyped, Step
<1>20. ASSUME NEW s \in Leased, Deactivate(s) PROVE AttemptsTyped'
  BY <1>20 DEF Deactivate, AttemptsTyped, Step
<1>21. ASSUME NEW s \in Leased, Delete(s) PROVE AttemptsTyped'
  BY <1>21 DEF Delete, AttemptsTyped, Step
<1>22. ASSUME NEW a \in Actors, Stop(a) PROVE AttemptsTyped'
  BY <1>22, FinishTyped DEF Stop
<1>23. ASSUME UNCHANGED vars PROVE AttemptsTyped'
  BY <1>23 DEF vars, AttemptsTyped, Step
<1>. QED
  BY <1>1, <1>2, <1>3, <1>4, <1>5, <1>6, <1>7, <1>8, <1>9, <1>10, <1>11, <1>12, <1>13, <1>14, <1>15, <1>16, <1>17, <1>18, <1>19, <1>20, <1>21, <1>22, <1>23 DEF Next, WorkerStep, IndexerStep

\* Who works on what, where the actions act.
LEMMA BusyActors ==
    ASSUME IInv, NEW a \in Actors, ~ At(a, "idle")
    PROVE  /\ Subject(a) \in Sources
           /\ a \in Workers => Subject(a) \in Leased
           /\ a \in Indexers => Subject(a) \in JobVersions
           /\ Target(a) \in Generations
           /\ attempt[a].model \in Models
           /\ attempt[a].epoch \in 0 .. MaxEpoch
BY DEF IInv, Typed, AttemptsTyped, Attempts, ClaimsInv, ClaimInv, RequestsInv

\* The rows of a generation, of which something is asked only when they are there.
LEMMA RowsThere ==
    ASSUME ChunksTyped, NEW s \in Sources, NEW g \in Generations
    PROVE  /\ chunks[s][g] # Nothing => chunks[s][g] \in Rows
           /\ chunks[s] \in [Generations -> Rows \cup {Nothing}]
           /\ \A row \in Rows : row # Nothing
BY DEF ChunksTyped

\* Staging adds the actor's own rows, or finds rows like them; it touches nothing else.
LEMMA StagedRows ==
    ASSUME IInv, NEW a \in Actors, ~ At(a, "idle"), StageAllowed(a), StageRows(a)
    PROVE  /\ \A x \in Sources : x # Subject(a) => chunks'[x] = chunks[x]
           /\ \A h \in Generations :
                 h # Target(a) => chunks'[Subject(a)][h] = chunks[Subject(a)][h]
           /\ chunks'[Subject(a)][Target(a)] # Nothing
           /\ chunks'[Subject(a)][Target(a)].live = FALSE
           /\ chunks'[Subject(a)][Target(a)].model = attempt[a].model
           /\ IF chunks[Subject(a)][Target(a)] = Nothing
              THEN chunks'[Subject(a)][Target(a)].by = attempt[a].epoch
              ELSE chunks' = chunks
<1> USE BusyActors DEF IInv, Typed
<1>1. CASE Replays(a)
  <2>1. chunks' = chunks
    BY <1>1 DEF StageRows
  <2>2. chunks[Subject(a)][Target(a)] \in Rows
    BY <1>1, RowsThere DEF Replays
  <2>. QED
    BY <1>1, <2>1, <2>2 DEF Replays
<1>2. CASE ~ Replays(a)
  <2>. DEFINE row == [model |-> attempt[a].model, live |-> FALSE, by |-> attempt[a].epoch]
  <2>1. row \in Rows
    OBVIOUS
  <2>a. row # Nothing
    BY <2>1, RowsThere
  <2>2. chunks' = [chunks EXCEPT ![Subject(a)][Target(a)] = row]
    BY <1>2 DEF StageRows
  <2>3. chunks[Subject(a)][Target(a)] = Nothing
    BY <1>2 DEF StageAllowed
  <2>. QED
    BY <2>1, <2>a, <2>2, <2>3 DEF ChunksTyped
<1>. QED
  BY <1>1, <1>2

\* Activation flips flags, and nothing else.
LEMMA ActivatedRows ==
    ASSUME IInv, NEW s \in Sources, NEW g \in Generations, Activate(s, g)
    PROVE  /\ \A x \in Sources : x # s => chunks'[x] = chunks[x]
           /\ \A h \in Generations : chunks[s][h] = Nothing => chunks'[s][h] = Nothing
           /\ \A h \in Generations :
                 chunks[s][h] # Nothing => /\ chunks'[s][h] # Nothing
                                           /\ chunks'[s][h].live = (h = g)
                                           /\ chunks'[s][h].model = chunks[s][h].model
                                           /\ chunks'[s][h].by = chunks[s][h].by
<1>1. \A h \in Generations : chunks'[s][h] = Flipped(s, g)[h]
  BY DEF IInv, Typed, ChunksTyped, Activate, Flipped
<1>2. ASSUME NEW h \in Generations, chunks[s][h] # Nothing
      PROVE  /\ chunks'[s][h] \in Rows
             /\ chunks'[s][h].live = (h = g)
             /\ chunks'[s][h].model = chunks[s][h].model
             /\ chunks'[s][h].by = chunks[s][h].by
  <2>1. chunks[s][h] \in Rows
    BY <1>2, RowsThere DEF IInv, Typed
  <2>2. chunks'[s][h] = [chunks[s][h] EXCEPT !.live = (h = g)]
    BY <1>1, <1>2 DEF Flipped
  <2>. QED
    BY <2>1, <2>2
<1>3. \A h \in Generations : chunks[s][h] = Nothing => chunks'[s][h] = Nothing
  BY <1>1 DEF Flipped
<1>4. \A x \in Sources : x # s => chunks'[x] = chunks[x]
  BY DEF IInv, Typed, ChunksTyped, Activate
<1>. QED
  BY <1>2, <1>3, <1>4, RowsThere DEF IInv, Typed

\* So does deactivation.
LEMMA DeactivatedRows ==
    ASSUME IInv, NEW s \in Leased, Deactivate(s)
    PROVE  /\ \A x \in Sources : x # s => chunks'[x] = chunks[x]
           /\ \A h \in Generations : chunks[s][h] = Nothing => chunks'[s][h] = Nothing
           /\ \A h \in Generations :
                 chunks[s][h] # Nothing => /\ chunks'[s][h] # Nothing
                                           /\ chunks'[s][h].live = FALSE
                                           /\ chunks'[s][h].model = chunks[s][h].model
                                           /\ chunks'[s][h].by = chunks[s][h].by
<1>1. \A h \in Generations : chunks'[s][h] = AllInactive(s)[h]
  BY DEF IInv, Typed, ChunksTyped, AllInactive, Deactivate
<1>2. ASSUME NEW h \in Generations, chunks[s][h] # Nothing
      PROVE  /\ chunks'[s][h] \in Rows
             /\ chunks'[s][h].live = FALSE
             /\ chunks'[s][h].model = chunks[s][h].model
             /\ chunks'[s][h].by = chunks[s][h].by
  <2>1. chunks[s][h] \in Rows
    BY <1>2, RowsThere DEF IInv, Typed
  <2>2. chunks'[s][h] = [chunks[s][h] EXCEPT !.live = FALSE]
    BY <1>1, <1>2 DEF AllInactive
  <2>. QED
    BY <2>1, <2>2
<1>3. \A h \in Generations : chunks[s][h] = Nothing => chunks'[s][h] = Nothing
  BY <1>1 DEF AllInactive
<1>4. \A x \in Sources : x # s => chunks'[x] = chunks[x]
  BY DEF IInv, Typed, ChunksTyped, Deactivate
<1>. QED
  BY <1>2, <1>3, <1>4, RowsThere DEF IInv, Typed

\* Every action keeps the rows of every Source in order.
LEMMA RowsStep == ASSUME IInv, [Next]_vars PROVE RowsInv'
<1>. SUFFICES ASSUME NEW x \in Sources PROVE RowInv(x)'
  BY DEF RowsInv
<1>. RowInv(x) /\ RowsTyped /\ AttemptsTyped
  BY DEF IInv, RowsInv, Typed
<1> USE DEF RowInv, RowsTyped, rowVars, indexVars
<1>1. ASSUME NEW w \in Workers, Parse(w) PROVE RowInv(x)'
  BY <1>1 DEF Parse, GenerationsInv, StatusInv
<1>2. ASSUME NEW w \in Workers, ReconcileStaging(w) PROVE RowInv(x)'
  <2>. DEFINE s == Subject(w)
  <2>0. /\ s \in Sources
        /\ \A h \in Generations : chunks'[s][h] = IF h > pointer[s] THEN Nothing ELSE chunks[s][h]
        /\ x # s => chunks'[x] = chunks[x]
    BY <1>2, BusyActors DEF ReconcileStaging, WithoutStaging, IInv, Typed, ChunksTyped
  <2>1. GenerationsInv(x)'
    BY <1>2, <2>0 DEF GenerationsInv, ReconcileStaging
  <2>2. StatusInv(x)'
    BY <1>2 DEF StatusInv, ReconcileStaging
  <2>. QED
    BY <2>1, <2>2
<1>3. ASSUME NEW w \in Workers, Stage(w) PROVE RowInv(x)'
  <2>. DEFINE s == Subject(w)
              g == Target(w)
  <2>1. ~ At(w, "idle") /\ StageAllowed(w) /\ StageRows(w)
    BY <1>3 DEF Stage
  <2>2. s \in Sources /\ g \in Generations
    BY <2>1, BusyActors
  <2>3. g = pointer[s] + 1
    BY <2>1 DEF StageAllowed
  <2>4. /\ x # s => chunks'[x] = chunks[x]
        /\ \A h \in Generations : h # g => chunks'[s][h] = chunks[s][h]
    BY <2>1, StagedRows
  <2>5. chunks'[s][g] # Nothing /\ chunks'[s][g].live = FALSE
    BY <2>1, StagedRows
  <2>6. status[s] # "deleted" /\ UNCHANGED <<status, pointer, ready, flawed, parsed>>
    BY <1>3, <2>1, <2>2, BusyActors DEF Stage, Owned
  <2>. HIDE DEF s, g
  <2>7. GenerationsInv(x)'
    BY <2>2, <2>3, <2>4, <2>5, <2>6 DEF GenerationsInv
  <2>8. StatusInv(x)'
    BY <2>6 DEF StatusInv
  <2>. QED
    BY <2>7, <2>8
<1>4. ASSUME NEW w \in Workers, EmbeddingFails(w) PROVE RowInv(x)'
  BY <1>4 DEF EmbeddingFails, GenerationsInv, StatusInv
<1>5. ASSUME NEW w \in Workers, Publish(w) PROVE RowInv(x)'
  <2>. DEFINE s == Subject(w)
              g == Target(w)
  <2>1. ~ At(w, "idle") /\ Activate(s, g) /\ ActivateAllowed(w)
    BY <1>5 DEF Publish
  <2>2. s \in Sources /\ g \in Generations
    BY <2>1, BusyActors
  <2>3. /\ g = pointer[s] + 1
        /\ chunks[s][g] # Nothing
    BY <2>1 DEF ActivateAllowed, Replays
  <2>4. /\ pointer' = [pointer EXCEPT ![s] = g]
        /\ ready' = [ready EXCEPT ![s] = "ready"]
    BY <2>1 DEF Activate
  <2>5. /\ x # s => chunks'[x] = chunks[x]
        /\ \A h \in Generations : chunks[s][h] = Nothing => chunks'[s][h] = Nothing
        /\ \A h \in Generations :
              chunks[s][h] # Nothing => chunks'[s][h] # Nothing /\ chunks'[s][h].live = (h = g)
    BY <2>1, <2>2, ActivatedRows
  <2>6. status[s] \in {"running", "queued"} /\ status' = [status EXCEPT ![s] = "done"]
    BY <1>5, <2>1, <2>2, BusyActors DEF Publish, Owned
  <2>. HIDE DEF s, g
  <2>7. GenerationsInv(x)'
    <3>1. CASE x # s
      BY <2>2, <2>4, <2>5, <2>6, <3>1 DEF GenerationsInv
    <3>2. CASE x = s
      <4>1. ASSUME NEW h \in Generations PROVE chunks'[s][h] # Nothing <=> chunks[s][h] # Nothing
        BY <2>5
      <4>2. ASSUME NEW h \in Generations, chunks'[s][h] # Nothing
            PROVE  chunks'[s][h].live <=> h = g
        BY <2>5, <4>1, <4>2
      <4>3. pointer'[s] = g /\ status'[s] \in {"done", "queued"}
        BY <2>2, <2>4, <2>6
      <4>4. ASSUME NEW h \in Generations
            PROVE  /\ h <= g => chunks[s][h] # Nothing
                   /\ chunks[s][h] # Nothing => h <= g
        <5>1. pointer[s] \in Nat /\ h \in Nat
          BY <2>2
        <5>2. h <= g => h <= pointer[s] \/ h = g
          BY <2>3, <5>1
        <5>3. h <= pointer[s] => chunks[s][h] # Nothing
          BY <2>6, <3>2 DEF GenerationsInv
        <5>4. chunks[s][h] # Nothing => h <= pointer[s] + 1
          BY <3>2 DEF GenerationsInv
        <5>. QED
          BY <2>3, <5>2, <5>3, <5>4
      <4>. QED
        BY <2>2, <3>2, <4>1, <4>2, <4>3, <4>4 DEF GenerationsInv
    <3>. QED
      BY <3>1, <3>2
  <2>8. StatusInv(x)'
    <3>1. parsed' = [parsed EXCEPT ![s] = (s \in Resumes)] /\ s \in Leased
      BY <1>5, BusyActors DEF Publish, s
    <3>2. /\ x = s /\ s \in Resumes => parsed'[x]
          /\ x # s => parsed'[x] = parsed[x]
      BY <2>2, <3>1
    <3>3. g > 0 /\ flawed' = [flawed EXCEPT ![s] = FALSE]
      BY <2>1, <2>2 DEF Activate
    <3>. QED
      BY <2>2, <2>4, <2>6, <3>1, <3>2, <3>3 DEF StatusInv
  <2>. QED
    BY <2>7, <2>8
<1>6. ASSUME NEW w \in Workers, PublishUnindexed(w) PROVE RowInv(x)'
  <2>1. GenerationsInv(x)'
    BY <1>6, BusyActors DEF GenerationsInv, PublishUnindexed, RecordFailure, Owned
  <2>2. StatusInv(x)'
    BY <1>6, BusyActors DEF StatusInv, PublishUnindexed, RecordFailure, StatusAfterFailure
  <2>. QED
    BY <2>1, <2>2
<1>7. ASSUME NEW w \in Workers, DocumentFails(w) PROVE RowInv(x)'
  <2>1. GenerationsInv(x)'
    BY <1>7, BusyActors DEF GenerationsInv, DocumentFails, RecordFailure, EndFailed, Owned
  <2>2. StatusInv(x)'
    BY <1>7, BusyActors DEF StatusInv, DocumentFails, RecordFailure, StatusAfterFailure, EndFailed
  <2>. QED
    BY <2>1, <2>2
<1>8. ASSUME NEW w \in Workers, AttemptFails(w) PROVE RowInv(x)'
  <2>1. GenerationsInv(x)'
    BY <1>8, BusyActors DEF GenerationsInv, AttemptFails, EndFailed, Owned
  <2>2. StatusInv(x)'
    BY <1>8, BusyActors DEF StatusInv, AttemptFails, EndFailed, Owned
  <2>. QED
    BY <2>1, <2>2
<1>9. ASSUME NEW w \in Workers, NEW s \in Leased, NEW m \in Models, Claim(w, s, m) PROVE RowInv(x)'
  <2>1. GenerationsInv(x)'
    BY <1>9 DEF GenerationsInv, Claim, Claimable
  <2>2. StatusInv(x)'
    BY <1>9 DEF StatusInv, Claim, Claimable
  <2>. QED
    BY <2>1, <2>2
<1>10. ASSUME NEW i \in Indexers, StageVersion(i) PROVE RowInv(x)'
  <2>. DEFINE s == Subject(i)
              g == Target(i)
  <2>1. ~ At(i, "idle") /\ StageAllowed(i) /\ StageRows(i)
    BY <1>10 DEF StageVersion
  <2>2. s \in Sources /\ g \in Generations
    BY <2>1, BusyActors
  <2>3. g = pointer[s] + 1
    BY <2>1 DEF StageAllowed
  <2>4. /\ x # s => chunks'[x] = chunks[x]
        /\ \A h \in Generations : h # g => chunks'[s][h] = chunks[s][h]
    BY <2>1, StagedRows
  <2>5. chunks'[s][g] # Nothing /\ chunks'[s][g].live = FALSE
    BY <2>1, StagedRows
  <2>6. status[s] # "deleted" /\ UNCHANGED <<status, pointer, ready, flawed, parsed>>
    BY <1>10, <2>1, <2>2, BusyActors DEF StageVersion, IInv, RowsInv, StatusInv
  <2>. HIDE DEF s, g
  <2>7. GenerationsInv(x)'
    BY <2>2, <2>3, <2>4, <2>5, <2>6 DEF GenerationsInv
  <2>8. StatusInv(x)'
    BY <2>6 DEF StatusInv
  <2>. QED
    BY <2>7, <2>8
<1>11. ASSUME NEW i \in Indexers, StageRefused(i) PROVE RowInv(x)'
  BY <1>11 DEF StageRefused, GenerationsInv, StatusInv
<1>12. ASSUME NEW i \in Indexers, VersionEmbeddingFails(i) PROVE RowInv(x)'
  BY <1>12 DEF VersionEmbeddingFails, GenerationsInv, StatusInv
<1>13. ASSUME NEW i \in Indexers, ActivateVersion(i) PROVE RowInv(x)'
  <2>. DEFINE s == Subject(i)
              g == Target(i)
  <2>1. ~ At(i, "idle") /\ Activate(s, g) /\ ActivateAllowed(i)
    BY <1>13 DEF ActivateVersion
  <2>2. s \in Sources /\ g \in Generations
    BY <2>1, BusyActors
  <2>3. /\ g = pointer[s] + 1
        /\ chunks[s][g] # Nothing
    BY <2>1 DEF ActivateAllowed, Replays
  <2>4. /\ pointer' = [pointer EXCEPT ![s] = g]
        /\ ready' = [ready EXCEPT ![s] = "ready"]
    BY <2>1 DEF Activate
  <2>5. /\ x # s => chunks'[x] = chunks[x]
        /\ \A h \in Generations : chunks[s][h] = Nothing => chunks'[s][h] = Nothing
        /\ \A h \in Generations :
              chunks[s][h] # Nothing => chunks'[s][h] # Nothing /\ chunks'[s][h].live = (h = g)
    BY <2>1, <2>2, ActivatedRows
  <2>6. status[s] = "queued" /\ status' = status
    BY <1>13, <2>1, <2>2, BusyActors DEF ActivateVersion, IInv, RowsInv, StatusInv
  <2>. HIDE DEF s, g
  <2>7. GenerationsInv(x)'
    <3>1. CASE x # s
      BY <2>2, <2>4, <2>5, <2>6, <3>1 DEF GenerationsInv
    <3>2. CASE x = s
      <4>1. ASSUME NEW h \in Generations PROVE chunks'[s][h] # Nothing <=> chunks[s][h] # Nothing
        BY <2>5
      <4>2. ASSUME NEW h \in Generations, chunks'[s][h] # Nothing
            PROVE  chunks'[s][h].live <=> h = g
        BY <2>5, <4>1, <4>2
      <4>3. pointer'[s] = g /\ status'[s] \in {"done", "queued"}
        BY <2>2, <2>4, <2>6
      <4>4. ASSUME NEW h \in Generations
            PROVE  /\ h <= g => chunks[s][h] # Nothing
                   /\ chunks[s][h] # Nothing => h <= g
        <5>1. pointer[s] \in Nat /\ h \in Nat
          BY <2>2
        <5>2. h <= g => h <= pointer[s] \/ h = g
          BY <2>3, <5>1
        <5>3. h <= pointer[s] => chunks[s][h] # Nothing
          BY <2>6, <3>2 DEF GenerationsInv
        <5>4. chunks[s][h] # Nothing => h <= pointer[s] + 1
          BY <3>2 DEF GenerationsInv
        <5>. QED
          BY <2>3, <5>2, <5>3, <5>4
      <4>. QED
        BY <2>2, <3>2, <4>1, <4>2, <4>3, <4>4 DEF GenerationsInv
    <3>. QED
      BY <3>1, <3>2
  <2>8. StatusInv(x)'
    BY <1>13, <2>2, <2>4, <2>6 DEF StatusInv, ActivateVersion, Activate
  <2>. QED
    BY <2>7, <2>8
<1>14. ASSUME NEW i \in Indexers, ActivateRefused(i) PROVE RowInv(x)'
  BY <1>14 DEF ActivateRefused, GenerationsInv, StatusInv
<1>15. ASSUME NEW i \in Indexers, FailVersion(i) PROVE RowInv(x)'
  <2>1. GenerationsInv(x)'
    BY <1>15 DEF GenerationsInv, FailVersion, RecordFailure
  <2>2. StatusInv(x)'
    BY <1>15, BusyActors DEF StatusInv, FailVersion, RecordFailure, StatusAfterFailure
  <2>. QED
    BY <2>1, <2>2
<1>16. ASSUME NEW i \in Indexers, NEW s \in JobVersions, NEW m \in Models, ReadVersion(i, s, m) PROVE RowInv(x)'
  BY <1>16 DEF ReadVersion, GenerationsInv, StatusInv
<1>17. ASSUME NEW s \in Leased, Lapse(s) PROVE RowInv(x)'
  BY <1>17 DEF Lapse, GenerationsInv, StatusInv
<1>18. ASSUME NEW s \in Leased, RequeueDue(s) PROVE RowInv(x)'
  <2>1. GenerationsInv(x)'
    BY <1>18 DEF GenerationsInv, RequeueDue
  <2>2. StatusInv(x)'
    BY <1>18 DEF StatusInv, RequeueDue
  <2>. QED
    BY <2>1, <2>2
<1>19. ASSUME NEW s \in Leased, Reopen(s) PROVE RowInv(x)'
  <2>1. GenerationsInv(x)'
    BY <1>19 DEF GenerationsInv, Reopen
  <2>2. StatusInv(x)'
    BY <1>19 DEF StatusInv, Reopen
  <2>. QED
    BY <2>1, <2>2
<1>20. ASSUME NEW s \in Leased, Deactivate(s) PROVE RowInv(x)'
  <2>0. /\ x # s => chunks'[x] = chunks[x]
        /\ \A h \in Generations : chunks[s][h] = Nothing => chunks'[s][h] = Nothing
        /\ \A h \in Generations :
              chunks[s][h] # Nothing => chunks'[s][h] # Nothing /\ chunks'[s][h].live = FALSE
    BY ZenonT(60), <1>20, DeactivatedRows
  <2>a. /\ status' = [status EXCEPT ![s] = "inactive"] /\ status[s] # "deleted"
        /\ pointer' = pointer
    BY <1>20 DEF Deactivate
  <2>1. GenerationsInv(x)'
    BY <2>0, <2>a DEF GenerationsInv
  <2>2. StatusInv(x)'
    BY <1>20 DEF StatusInv, Deactivate
  <2>. QED
    BY <2>1, <2>2
<1>21. ASSUME NEW s \in Leased, Delete(s) PROVE RowInv(x)'
  <2>0. /\ \A h \in Generations : chunks'[s][h] = Nothing
        /\ x # s => chunks'[x] = chunks[x]
    BY <1>21 DEF Delete, NoChunks, IInv, Typed, ChunksTyped
  <2>1. GenerationsInv(x)'
    <3>1. CASE x = s
      BY <1>21, <2>0, <3>1 DEF GenerationsInv, Delete
    <3>2. CASE x # s
      <4>1. chunks'[x] = chunks[x] /\ status'[x] = status[x] /\ pointer'[x] = pointer[x]
        BY <1>21, <2>0, <3>2 DEF Delete
      <4>. QED
        BY <4>1 DEF GenerationsInv
    <3>. QED
      BY <3>1, <3>2
  <2>2. StatusInv(x)'
    BY <1>21 DEF StatusInv, Delete
  <2>. QED
    BY <2>1, <2>2
<1>22. ASSUME NEW a \in Actors, Stop(a) PROVE RowInv(x)'
  BY <1>22 DEF Stop, GenerationsInv, StatusInv
<1>23. ASSUME UNCHANGED vars PROVE RowInv(x)'
  BY <1>23 DEF vars, GenerationsInv, StatusInv
<1>. QED
  BY <1>1, <1>2, <1>3, <1>4, <1>5, <1>6, <1>7, <1>8, <1>9, <1>10, <1>11, <1>12, <1>13, <1>14, <1>15, <1>16, <1>17, <1>18, <1>19, <1>20, <1>21, <1>22, <1>23 DEF Next, WorkerStep, IndexerStep

\* What a step of an actor does to the attempts.
LEMMA GotoFields ==
    ASSUME AttemptsTyped, NEW a \in Actors, NEW step, Goto(a, step)
    PROVE  /\ \A b \in Actors : b # a => attempt'[b] = attempt[b]
           /\ attempt'[a].step = step
           /\ attempt'[a].source = attempt[a].source
           /\ attempt'[a].epoch = attempt[a].epoch
           /\ attempt'[a].target = attempt[a].target
           /\ attempt'[a].model = attempt[a].model
BY DEF AttemptsTyped, Attempts, Goto

LEMMA FinishFields ==
    ASSUME AttemptsTyped, NEW a \in Actors, Finish(a)
    PROVE  /\ \A b \in Actors : b # a => attempt'[b] = attempt[b]
           /\ attempt'[a] = Idle
BY DEF AttemptsTyped, Finish

\* Only a claim makes a pair of Source and epoch appear among the attempts.
Continues(x) == ~ At(x, "idle")' => /\ ~ At(x, "idle")
                                    /\ attempt'[x].source = attempt[x].source
                                    /\ attempt'[x].epoch = attempt[x].epoch

LEMMA ClaimsStayApart ==
    ASSUME \A x, y \in Workers : ClaimsApart(x, y), \A x \in Workers : Continues(x)
    PROVE  \A x, y \in Workers : ClaimsApart(x, y)'
BY DEF ClaimsApart, Continues

\* A worker that does nothing keeps what it may rely on, unless its claim ends.
LEMMA Bystander ==
    ASSUME IInv, NEW x \in Workers, attempt'[x] = attempt[x],
           ~ At(x, "idle") => /\ epoch[Subject(x)] <= epoch'[Subject(x)]
                              /\ epoch'[Subject(x)] \in Nat
                              /\ Current(x)' => /\ Current(x)
                                                /\ pointer'[Subject(x)] = pointer[Subject(x)]
                                                /\ chunks'[Subject(x)] = chunks[Subject(x)]
    PROVE  ClaimInv(x)'
<1>. SUFFICES ASSUME ~ At(x, "idle") PROVE ClaimInv(x)'
  BY DEF ClaimInv
<1>1. ClaimInv(x) /\ attempt[x].epoch \in Nat /\ epoch[Subject(x)] \in Nat
  BY BusyActors DEF IInv, ClaimsInv, Typed, RowsTyped
<1>2. attempt[x].epoch <= epoch'[Subject(x)]
  BY <1>1 DEF ClaimInv
<1>. QED
  BY <1>1, <1>2 DEF ClaimInv, Current

\* Two current claims of one Source are the same.
LEMMA OneCurrentClaim ==
    ASSUME IInv, NEW x \in Workers, NEW y \in Workers, ~ At(x, "idle"), ~ At(y, "idle"),
           Current(x), Current(y), Subject(x) = Subject(y)
    PROVE  x = y
BY DEF IInv, ClaimsInv, ClaimsApart, Current

\* A worker that does nothing while nothing happens to its Source.
LEMMA QuietBystander ==
    ASSUME IInv, NEW x \in Workers, attempt'[x] = attempt[x], UNCHANGED <<status, epoch>>,
           ~ At(x, "idle") /\ Current(x) => /\ pointer'[Subject(x)] = pointer[Subject(x)]
                                            /\ chunks'[Subject(x)] = chunks[Subject(x)]
    PROVE  ClaimInv(x)'
<1>1. ~ At(x, "idle") => epoch[Subject(x)] \in Nat
  BY BusyActors DEF IInv, Typed, RowsTyped
<1>. QED
  BY <1>1, Bystander DEF Current

\* A worker on whose Source something happened that left the claim's status or epoch behind.
LEMMA OustedBystander ==
    ASSUME IInv, NEW x \in Workers, attempt'[x] = attempt[x], NEW s \in Sources,
           epoch' = epoch, status' = [status EXCEPT ![s] = status'[s]], status'[s] # "running",
           pointer' = [pointer EXCEPT ![s] = pointer'[s]], chunks' = [chunks EXCEPT ![s] = chunks'[s]]
    PROVE  ClaimInv(x)'
<1>1. ~ At(x, "idle") => epoch[Subject(x)] \in Nat /\ Subject(x) \in Sources
  BY BusyActors DEF IInv, Typed, RowsTyped
<1>2. CASE ~ At(x, "idle") /\ Subject(x) # s
  <2>1. /\ status'[Subject(x)] = status[Subject(x)]
        /\ pointer'[Subject(x)] = pointer[Subject(x)]
        /\ chunks'[Subject(x)] = chunks[Subject(x)]
    BY <1>1, <1>2 DEF IInv, Typed, RowsTyped, ChunksTyped
  <2>. QED
    BY <1>1, <1>2, <2>1, Bystander DEF Current
<1>3. CASE ~ At(x, "idle") /\ Subject(x) = s
  <2>1. ~ Current(x)'
    BY <1>3 DEF Current
  <2>. QED
    BY <1>1, <1>3, <2>1, Bystander
<1>. QED
  BY <1>2, <1>3, Bystander

\* Every action keeps what a worker may rely on.
LEMMA ClaimStep == ASSUME IInv, [Next]_vars, NEW x \in Workers PROVE ClaimInv(x)'
<1>a. AttemptsTyped /\ RowsTyped /\ ChunksTyped /\ ClaimInv(x) /\ x \in Actors
  BY DEF IInv, Typed, ClaimsInv
<1>b. ASSUME NEW a \in Actors, NEW step, Goto(a, step) PROVE x # a => attempt'[x] = attempt[x]
  BY <1>a, <1>b, GotoFields
<1>c. ASSUME NEW a \in Actors, Finish(a)
      PROVE  IF x = a THEN ClaimInv(x)' ELSE attempt'[x] = attempt[x]
  BY <1>a, <1>c, FinishFields DEF ClaimInv
<1>d. ASSUME NEW w \in Workers, Owned(w) PROVE Current(w)
  BY <1>d DEF Owned, Current
<1>1. ASSUME NEW w \in Workers, Parse(w) PROVE ClaimInv(x)'
  <2>1. CASE x = w
    BY <1>1, <1>a, <2>1, GotoFields DEF Parse, ClaimInv, Current, rowVars, indexVars
  <2>2. CASE x # w
    BY <1>1, <1>b, <2>2, QuietBystander DEF Parse, rowVars, indexVars
  <2>. QED
    BY <2>1, <2>2
<1>2. ASSUME NEW w \in Workers, ReconcileStaging(w) PROVE ClaimInv(x)'
  <2>. DEFINE s == Subject(w)
  <2>0. ~ At(w, "idle") /\ Current(w) /\ Goto(w, "reconciled") /\ Target(w) = pointer[s] + 1
    BY <1>2, <1>d DEF ReconcileStaging
  <2>a. s \in Sources /\ Target(w) \in Generations
    BY <2>0, BusyActors
  <2>b. UNCHANGED <<status, epoch, pointer>> /\ chunks' = [chunks EXCEPT ![s] = WithoutStaging(s)]
    BY <1>2 DEF ReconcileStaging, rowVars
  <2>c. chunks'[s][Target(w)] = Nothing
    BY <1>a, <2>0, <2>a, <2>b DEF ChunksTyped, WithoutStaging, RowsTyped
  <2>1. CASE x = w
    BY <1>a, <2>0, <2>b, <2>c, <2>1, GotoFields DEF ClaimInv, Current
  <2>2. CASE x # w
    <3>1. ~ At(x, "idle") /\ Current(x) => Subject(x) # s
      BY <2>0, <2>2, OneCurrentClaim
    <3>2. ~ At(x, "idle") /\ Current(x) => chunks'[Subject(x)] = chunks[Subject(x)]
      BY <1>a, <2>a, <2>b, <3>1, BusyActors DEF ChunksTyped
    <3>. QED
      BY <1>b, <2>0, <2>2, <2>b, <3>2, QuietBystander
  <2>. QED
    BY <2>1, <2>2
<1>3. ASSUME NEW w \in Workers, Stage(w) PROVE ClaimInv(x)'
  <2>. DEFINE s == Subject(w)
  <2>0. /\ At(w, "reconciled") /\ ~ At(w, "idle") /\ Current(w) /\ Goto(w, "staged")
        /\ StageAllowed(w) /\ StageRows(w)
    BY <1>3, <1>d DEF Stage
  <2>a. s \in Sources /\ Target(w) \in Generations
    BY <2>0, BusyActors
  <2>b. UNCHANGED <<status, epoch, pointer>>
    BY <1>3 DEF Stage, rowVars
  <2>1. CASE x = w
    <3>1. chunks[s][Target(w)] = Nothing /\ Target(w) = pointer[s] + 1
      BY <1>a, <2>0, <2>1 DEF ClaimInv
    <3>2. /\ chunks'[s][Target(w)] # Nothing
          /\ chunks'[s][Target(w)].model = attempt[w].model
          /\ chunks'[s][Target(w)].by = attempt[w].epoch
      BY <2>0, <3>1, StagedRows
    <3>. QED
      BY SMTT(30), <1>a, <2>0, <2>b, <2>1, <3>1, <3>2, GotoFields DEF ClaimInv, Current
  <2>2. CASE x # w
    <3>1. ~ At(x, "idle") /\ Current(x) => Subject(x) # s
      BY <2>0, <2>2, OneCurrentClaim
    <3>2. ~ At(x, "idle") /\ Current(x) => chunks'[Subject(x)] = chunks[Subject(x)]
      <4>1. \A y \in Sources : y # s => chunks'[y] = chunks[y]
        BY <2>0, StagedRows
      <4>. QED
        BY <3>1, <4>1, BusyActors
    <3>. QED
      BY <1>b, <2>0, <2>2, <2>b, <3>2, QuietBystander
  <2>. QED
    BY <2>1, <2>2
<1>4. ASSUME NEW w \in Workers, EmbeddingFails(w) PROVE ClaimInv(x)'
  <2>1. CASE x = w
    BY <1>4, <1>a, <2>1, GotoFields DEF EmbeddingFails, ClaimInv, Current, rowVars, indexVars
  <2>2. CASE x # w
    BY <1>4, <1>b, <2>2, QuietBystander DEF EmbeddingFails, rowVars, indexVars
  <2>. QED
    BY <2>1, <2>2
<1>5. ASSUME NEW w \in Workers, Publish(w) PROVE ClaimInv(x)'
  <2>1. w \in Actors /\ Finish(w) /\ Subject(w) \in Sources
    BY <1>5, BusyActors DEF Publish
  <2>2. /\ epoch' = epoch
        /\ status' = [status EXCEPT ![Subject(w)] = status'[Subject(w)]]
        /\ status'[Subject(w)] # "running"
        /\ pointer' = [pointer EXCEPT ![Subject(w)] = pointer'[Subject(w)]]
        /\ chunks' = [chunks EXCEPT ![Subject(w)] = chunks'[Subject(w)]]
    BY <1>5, <1>a, <2>1 DEF Publish, Activate, RowsTyped, ChunksTyped, indexVars
  <2>. QED
    BY <1>c, <2>1, <2>2, OustedBystander
<1>6. ASSUME NEW w \in Workers, PublishUnindexed(w) PROVE ClaimInv(x)'
  <2>1. w \in Actors /\ Finish(w) /\ Subject(w) \in Sources
    BY <1>6, BusyActors DEF PublishUnindexed
  <2>2. /\ epoch' = epoch
        /\ status' = [status EXCEPT ![Subject(w)] = status'[Subject(w)]]
        /\ status'[Subject(w)] # "running"
        /\ pointer' = [pointer EXCEPT ![Subject(w)] = pointer'[Subject(w)]]
        /\ chunks' = [chunks EXCEPT ![Subject(w)] = chunks'[Subject(w)]]
    BY <1>6, <1>a, <2>1 DEF PublishUnindexed, RecordFailure, RowsTyped, ChunksTyped, indexVars
  <2>. QED
    BY <1>c, <2>1, <2>2, OustedBystander
<1>7. ASSUME NEW w \in Workers, DocumentFails(w) PROVE ClaimInv(x)'
  <2>1. w \in Actors /\ Finish(w) /\ Subject(w) \in Sources
    BY <1>7, BusyActors DEF DocumentFails
  <2>2. /\ epoch' = epoch
        /\ status' = [status EXCEPT ![Subject(w)] = status'[Subject(w)]]
        /\ status'[Subject(w)] # "running"
        /\ pointer' = [pointer EXCEPT ![Subject(w)] = pointer'[Subject(w)]]
        /\ chunks' = [chunks EXCEPT ![Subject(w)] = chunks'[Subject(w)]]
    BY <1>7, <1>a, <2>1 DEF DocumentFails, RecordFailure, EndFailed, RowsTyped, ChunksTyped, indexVars
  <2>. QED
    BY <1>c, <2>1, <2>2, OustedBystander
<1>8. ASSUME NEW w \in Workers, AttemptFails(w) PROVE ClaimInv(x)'
  <2>1. w \in Actors /\ Finish(w) /\ Subject(w) \in Sources
    BY <1>8, BusyActors DEF AttemptFails
  <2>2. /\ epoch' = epoch
        /\ status' = [status EXCEPT ![Subject(w)] = status'[Subject(w)]]
        /\ status'[Subject(w)] # "running"
        /\ pointer' = [pointer EXCEPT ![Subject(w)] = pointer'[Subject(w)]]
        /\ chunks' = [chunks EXCEPT ![Subject(w)] = chunks'[Subject(w)]]
    BY <1>8, <1>a, <2>1 DEF AttemptFails, EndFailed, RowsTyped, ChunksTyped, indexVars
  <2>. QED
    BY <1>c, <2>1, <2>2, OustedBystander
<1>9. ASSUME NEW w \in Workers, NEW s \in Leased, NEW m \in Models, Claim(w, s, m) PROVE ClaimInv(x)'
  <2>. DEFINE new == [step |-> "claimed", source |-> s, model |-> m, epoch |-> epoch[s] + 1,
                        target |-> pointer[s] + 1]
  <2>1. /\ attempt' = [attempt EXCEPT ![w] = new]
        /\ epoch' = [epoch EXCEPT ![s] = @ + 1] /\ status' = [status EXCEPT ![s] = "running"]
        /\ UNCHANGED <<pointer, chunks>>
        /\ pointer[s] < MaxGeneration
    BY <1>9 DEF Claim, Claimable, indexVars
  <2>2. s \in Sources /\ epoch[s] \in Nat /\ pointer[s] \in Nat /\ pointer[s] + 1 \in Generations
    BY <1>a, <2>1 DEF RowsTyped
  <2>3. CASE x = w
    <3>1. attempt'[x] = new
      BY <1>a, <2>1, <2>3 DEF AttemptsTyped
    <3>2. epoch'[s] = epoch[s] + 1 /\ pointer'[s] = pointer[s]
      BY <1>a, <2>1, <2>2 DEF RowsTyped
    <3>. QED
      BY <2>2, <3>1, <3>2 DEF ClaimInv, Current
  <2>4. CASE x # w
    <3>1. attempt'[x] = attempt[x]
      BY <1>a, <2>1, <2>4 DEF AttemptsTyped
    <3>2. CASE ~ At(x, "idle") /\ Subject(x) = s
      <4>1. attempt[x].epoch <= epoch[s] /\ attempt[x].epoch \in Nat
        BY <1>a, <3>2, BusyActors DEF ClaimInv
      <4>2. epoch'[s] = epoch[s] + 1
        BY <1>a, <2>1, <2>2 DEF RowsTyped
      <4>3. ~ Current(x)'
        BY <2>2, <3>1, <3>2, <4>1, <4>2 DEF Current
      <4>. QED
        BY <2>2, <3>1, <3>2, <4>2, <4>3, Bystander
    <3>3. CASE ~ At(x, "idle") /\ Subject(x) # s
      <4>1. Subject(x) \in Sources
        BY <3>3, BusyActors
      <4>2. /\ epoch'[Subject(x)] = epoch[Subject(x)] /\ epoch[Subject(x)] \in Nat
            /\ status'[Subject(x)] = status[Subject(x)]
        BY <1>a, <2>1, <3>3, <4>1 DEF RowsTyped
      <4>. QED
        BY <2>1, <3>1, <3>3, <4>2, Bystander DEF Current
    <3>. QED
      BY <3>1, <3>2, <3>3, Bystander
  <2>. QED
    BY <2>3, <2>4
<1>10. ASSUME NEW i \in Indexers, StageVersion(i) PROVE ClaimInv(x)'
  <2>1. ~ At(i, "idle") /\ StageAllowed(i) /\ StageRows(i) /\ Goto(i, "written") /\ x # i
    BY <1>10 DEF StageVersion
  <2>2. UNCHANGED <<status, epoch, pointer>>
    BY <1>10 DEF StageVersion, rowVars
  <2>3. ~ At(x, "idle") => Subject(x) # Subject(i) /\ Subject(x) \in Sources
    BY <2>1, BusyActors
  <2>4. ~ At(x, "idle") => chunks'[Subject(x)] = chunks[Subject(x)]
    BY ZenonT(60), <2>1, <2>3, StagedRows
  <2>. QED
    BY <1>b, <2>1, <2>2, <2>4, QuietBystander
<1>11. ASSUME NEW i \in Indexers, StageRefused(i) PROVE ClaimInv(x)'
  BY <1>11, <1>b, QuietBystander DEF StageRefused, rowVars, indexVars
<1>12. ASSUME NEW i \in Indexers, VersionEmbeddingFails(i) PROVE ClaimInv(x)'
  BY <1>12, <1>b, QuietBystander DEF VersionEmbeddingFails, rowVars, indexVars
<1>13. ASSUME NEW i \in Indexers, ActivateVersion(i) PROVE ClaimInv(x)'
  <2>1. ~ At(i, "idle") /\ Activate(Subject(i), Target(i)) /\ Finish(i) /\ x # i
    BY <1>13 DEF ActivateVersion
  <2>2. UNCHANGED <<status, epoch>>
    BY <1>13 DEF ActivateVersion, rowVars
  <2>3. ~ At(x, "idle") => Subject(x) # Subject(i) /\ Subject(x) \in Sources
    BY <2>1, BusyActors
  <2>4. ~ At(x, "idle") => /\ chunks'[Subject(x)] = chunks[Subject(x)]
                           /\ pointer'[Subject(x)] = pointer[Subject(x)]
    BY <1>a, <2>1, <2>3, BusyActors DEF Activate, ChunksTyped, RowsTyped
  <2>. QED
    BY <1>c, <2>1, <2>2, <2>4, QuietBystander
<1>14. ASSUME NEW i \in Indexers, ActivateRefused(i) PROVE ClaimInv(x)'
  BY <1>14, <1>b, QuietBystander DEF ActivateRefused, rowVars, indexVars
<1>15. ASSUME NEW i \in Indexers, FailVersion(i) PROVE ClaimInv(x)'
  BY <1>15, <1>c, QuietBystander DEF FailVersion, RecordFailure, rowVars
<1>16. ASSUME NEW i \in Indexers, NEW s \in JobVersions, NEW m \in Models, ReadVersion(i, s, m) PROVE ClaimInv(x)'
  <2>1. attempt'[x] = attempt[x]
    BY <1>16, <1>a DEF ReadVersion, AttemptsTyped
  <2>. QED
    BY <1>16, <2>1, QuietBystander DEF ReadVersion, rowVars, indexVars
<1>17. ASSUME NEW s \in Leased, Lapse(s) PROVE ClaimInv(x)'
  BY <1>17, QuietBystander DEF Lapse, indexVars
<1>18. ASSUME NEW s \in Leased, RequeueDue(s) PROVE ClaimInv(x)'
  <2>1. /\ attempt' = attempt /\ epoch' = epoch
        /\ status' = [status EXCEPT ![s] = status'[s]]
        /\ status'[s] # "running"
        /\ pointer' = [pointer EXCEPT ![s] = pointer'[s]]
        /\ chunks' = [chunks EXCEPT ![s] = chunks'[s]]
    BY <1>18, <1>a DEF RequeueDue, RowsTyped, ChunksTyped, indexVars
  <2>. QED
    BY <2>1, OustedBystander
<1>19. ASSUME NEW s \in Leased, Reopen(s) PROVE ClaimInv(x)'
  <2>1. /\ attempt' = attempt /\ epoch' = epoch
        /\ status' = [status EXCEPT ![s] = status'[s]]
        /\ status'[s] # "running"
        /\ pointer' = [pointer EXCEPT ![s] = pointer'[s]]
        /\ chunks' = [chunks EXCEPT ![s] = chunks'[s]]
    BY <1>19, <1>a DEF Reopen, RowsTyped, ChunksTyped, indexVars
  <2>. QED
    BY <2>1, OustedBystander
<1>20. ASSUME NEW s \in Leased, Deactivate(s) PROVE ClaimInv(x)'
  <2>1. /\ attempt' = attempt /\ epoch' = epoch
        /\ status' = [status EXCEPT ![s] = status'[s]]
        /\ status'[s] # "running"
        /\ pointer' = [pointer EXCEPT ![s] = pointer'[s]]
        /\ chunks' = [chunks EXCEPT ![s] = chunks'[s]]
    BY <1>20, <1>a DEF Deactivate, RowsTyped, ChunksTyped, indexVars
  <2>. QED
    BY <2>1, OustedBystander
<1>21. ASSUME NEW s \in Leased, Delete(s) PROVE ClaimInv(x)'
  <2>1. /\ attempt' = attempt /\ epoch' = epoch
        /\ status' = [status EXCEPT ![s] = status'[s]]
        /\ status'[s] # "running"
        /\ pointer' = [pointer EXCEPT ![s] = pointer'[s]]
        /\ chunks' = [chunks EXCEPT ![s] = chunks'[s]]
    BY <1>21, <1>a DEF Delete, RowsTyped, ChunksTyped, indexVars
  <2>. QED
    BY <2>1, OustedBystander
<1>22. ASSUME NEW a \in Actors, Stop(a) PROVE ClaimInv(x)'
  BY <1>22, <1>c, QuietBystander DEF Stop, rowVars, indexVars
<1>23. ASSUME UNCHANGED vars PROVE ClaimInv(x)'
  BY <1>23, QuietBystander DEF vars, rowVars, indexVars
<1>. QED
  BY <1>1, <1>2, <1>3, <1>4, <1>5, <1>6, <1>7, <1>8, <1>9, <1>10, <1>11, <1>12, <1>13, <1>14, <1>15, <1>16, <1>17, <1>18, <1>19, <1>20, <1>21, <1>22, <1>23 DEF Next, WorkerStep, IndexerStep

\* Claims stay apart: a claim takes an epoch that no attempt on its Source has had.
LEMMA ClaimsStep == ASSUME IInv, [Next]_vars PROVE ClaimsInv'
<1>. SUFFICES \A x, y \in Workers : ClaimsApart(x, y)'
  BY ClaimStep DEF ClaimsInv
<1>. DEFINE Apart == \A x, y \in Workers : ClaimsApart(x, y)'
<1>a. AttemptsTyped /\ RowsTyped
  BY DEF IInv, Typed
<1>b. ASSUME NEW a \in Actors, NEW step, ~ At(a, "idle"), Goto(a, step) PROVE Apart
  <2>1. \A x \in Workers : Continues(x)
    BY <1>a, <1>b, GotoFields DEF Continues
  <2>. QED
    BY <2>1, ClaimsStayApart DEF IInv, ClaimsInv
<1>c. ASSUME NEW a \in Actors, Finish(a) PROVE Apart
  <2>1. \A x \in Workers : Continues(x)
    BY <1>a, <1>c, FinishFields DEF Continues
  <2>. QED
    BY <2>1, ClaimsStayApart DEF IInv, ClaimsInv
<1>d. ASSUME UNCHANGED attempt PROVE Apart
  BY <1>d DEF ClaimsApart, IInv, ClaimsInv
<1>1. ASSUME NEW w \in Workers, Parse(w) PROVE Apart
  BY <1>1, <1>b DEF Parse
<1>2. ASSUME NEW w \in Workers, ReconcileStaging(w) PROVE Apart
  BY <1>2, <1>b DEF ReconcileStaging
<1>3. ASSUME NEW w \in Workers, Stage(w) PROVE Apart
  BY <1>3, <1>b DEF Stage
<1>4. ASSUME NEW w \in Workers, EmbeddingFails(w) PROVE Apart
  BY <1>4, <1>b DEF EmbeddingFails
<1>5. ASSUME NEW w \in Workers, Publish(w) PROVE Apart
  BY <1>5, <1>c DEF Publish
<1>6. ASSUME NEW w \in Workers, PublishUnindexed(w) PROVE Apart
  BY <1>6, <1>c DEF PublishUnindexed
<1>7. ASSUME NEW w \in Workers, DocumentFails(w) PROVE Apart
  BY <1>7, <1>c DEF DocumentFails
<1>8. ASSUME NEW w \in Workers, AttemptFails(w) PROVE Apart
  BY <1>8, <1>c DEF AttemptFails
<1>9. ASSUME NEW w \in Workers, NEW s \in Leased, NEW m \in Models, Claim(w, s, m) PROVE Apart
  <2>. DEFINE new == [step |-> "claimed", source |-> s, model |-> m, epoch |-> epoch[s] + 1,
                        target |-> pointer[s] + 1]
  <2>1. attempt' = [attempt EXCEPT ![w] = new]
    BY <1>9 DEF Claim
  <2>2. attempt'[w] = new /\ \A y \in Workers : y # w => attempt'[y] = attempt[y]
    BY <1>a, <2>1 DEF AttemptsTyped
  <2>3. ASSUME NEW y \in Workers, ~ At(y, "idle"), Subject(y) = s PROVE attempt[y].epoch # epoch[s] + 1
    <3>1. attempt[y].epoch <= epoch[s]
      BY <2>3 DEF ClaimsInv, ClaimInv, IInv
    <3>2. attempt[y].epoch \in 0 .. MaxEpoch
      BY <2>3, BusyActors
    <3>3. epoch[s] \in 0 .. MaxEpoch
      BY <1>a DEF RowsTyped
    <3>. QED
      BY <3>1, <3>2, <3>3
  <2>. QED
    BY <1>a, <2>2, <2>3 DEF ClaimsApart, ClaimsInv, IInv
<1>10. ASSUME NEW i \in Indexers, StageVersion(i) PROVE Apart
  BY <1>10, <1>b DEF StageVersion
<1>11. ASSUME NEW i \in Indexers, StageRefused(i) PROVE Apart
  BY <1>11, <1>b DEF StageRefused
<1>12. ASSUME NEW i \in Indexers, VersionEmbeddingFails(i) PROVE Apart
  BY <1>12, <1>b DEF VersionEmbeddingFails
<1>13. ASSUME NEW i \in Indexers, ActivateVersion(i) PROVE Apart
  BY <1>13, <1>c DEF ActivateVersion
<1>14. ASSUME NEW i \in Indexers, ActivateRefused(i) PROVE Apart
  BY <1>14, <1>b DEF ActivateRefused
<1>15. ASSUME NEW i \in Indexers, FailVersion(i) PROVE Apart
  BY <1>15, <1>c DEF FailVersion
<1>16. ASSUME NEW i \in Indexers, NEW s \in JobVersions, NEW m \in Models, ReadVersion(i, s, m) PROVE Apart
  <2>1. \A x \in Workers : attempt'[x] = attempt[x]
    BY <1>16, <1>a DEF ReadVersion, AttemptsTyped
  <2>. QED
    BY <2>1, ClaimsStayApart DEF Continues, IInv, ClaimsInv
<1>17. ASSUME NEW s \in Leased, Lapse(s) PROVE Apart
  BY <1>17, <1>d DEF Lapse
<1>18. ASSUME NEW s \in Leased, RequeueDue(s) PROVE Apart
  BY <1>18, <1>d DEF RequeueDue
<1>19. ASSUME NEW s \in Leased, Reopen(s) PROVE Apart
  BY <1>19, <1>d DEF Reopen
<1>20. ASSUME NEW s \in Leased, Deactivate(s) PROVE Apart
  BY <1>20, <1>d DEF Deactivate
<1>21. ASSUME NEW s \in Leased, Delete(s) PROVE Apart
  BY <1>21, <1>d DEF Delete
<1>22. ASSUME NEW a \in Actors, Stop(a) PROVE Apart
  BY <1>22, <1>c DEF Stop
<1>23. ASSUME UNCHANGED vars PROVE Apart
  BY <1>23, <1>d DEF vars
<1>. QED
  BY <1>1, <1>2, <1>3, <1>4, <1>5, <1>6, <1>7, <1>8, <1>9, <1>10, <1>11, <1>12, <1>13, <1>14, <1>15, <1>16, <1>17, <1>18, <1>19, <1>20, <1>21, <1>22, <1>23 DEF Next, WorkerStep, IndexerStep

\* Requests and backfills stay with the job version they began.
LEMMA RequestsStep == ASSUME IInv, [Next]_vars PROVE RequestsInv'
<1>. DEFINE Request(j) == ~ At(j, "idle") => /\ Subject(j) \in JobVersions
                                             /\ Target(j) \in Generations
                                             /\ attempt[j].model \in Models
<1>. SUFFICES ASSUME NEW j \in Indexers PROVE Request(j)'
  BY DEF RequestsInv
<1>a. AttemptsTyped /\ RowsTyped /\ Request(j)
  BY DEF IInv, Typed, RequestsInv
<1>1. ASSUME NEW w \in Workers, Parse(w) PROVE Request(j)'
  BY <1>1, <1>a, GotoFields DEF Parse
<1>2. ASSUME NEW w \in Workers, ReconcileStaging(w) PROVE Request(j)'
  BY <1>2, <1>a, GotoFields DEF ReconcileStaging
<1>3. ASSUME NEW w \in Workers, Stage(w) PROVE Request(j)'
  BY <1>3, <1>a, GotoFields DEF Stage
<1>4. ASSUME NEW w \in Workers, EmbeddingFails(w) PROVE Request(j)'
  BY <1>4, <1>a, GotoFields DEF EmbeddingFails
<1>5. ASSUME NEW w \in Workers, Publish(w) PROVE Request(j)'
  BY <1>5, <1>a, FinishFields DEF Publish
<1>6. ASSUME NEW w \in Workers, PublishUnindexed(w) PROVE Request(j)'
  BY <1>6, <1>a, FinishFields DEF PublishUnindexed
<1>7. ASSUME NEW w \in Workers, DocumentFails(w) PROVE Request(j)'
  BY <1>7, <1>a, FinishFields DEF DocumentFails
<1>8. ASSUME NEW w \in Workers, AttemptFails(w) PROVE Request(j)'
  BY <1>8, <1>a, FinishFields DEF AttemptFails
<1>9. ASSUME NEW w \in Workers, NEW s \in Leased, NEW m \in Models, Claim(w, s, m) PROVE Request(j)'
  BY <1>9, <1>a DEF Claim, AttemptsTyped
<1>10. ASSUME NEW i \in Indexers, StageVersion(i) PROVE Request(j)'
  <2>1. CASE j = i
    BY <1>10, <1>a, <2>1, GotoFields DEF StageVersion
  <2>2. CASE j # i
    BY <1>10, <1>a, <2>2, GotoFields DEF StageVersion
  <2>. QED
    BY <2>1, <2>2
<1>11. ASSUME NEW i \in Indexers, StageRefused(i) PROVE Request(j)'
  <2>1. CASE j = i
    BY <1>11, <1>a, <2>1, GotoFields DEF StageRefused
  <2>2. CASE j # i
    BY <1>11, <1>a, <2>2, GotoFields DEF StageRefused
  <2>. QED
    BY <2>1, <2>2
<1>12. ASSUME NEW i \in Indexers, VersionEmbeddingFails(i) PROVE Request(j)'
  <2>1. CASE j = i
    BY <1>12, <1>a, <2>1, GotoFields DEF VersionEmbeddingFails
  <2>2. CASE j # i
    BY <1>12, <1>a, <2>2, GotoFields DEF VersionEmbeddingFails
  <2>. QED
    BY <2>1, <2>2
<1>13. ASSUME NEW i \in Indexers, ActivateVersion(i) PROVE Request(j)'
  <2>1. CASE j = i
    BY <1>13, <1>a, <2>1, FinishFields DEF ActivateVersion
  <2>2. CASE j # i
    BY <1>13, <1>a, <2>2, FinishFields DEF ActivateVersion
  <2>. QED
    BY <2>1, <2>2
<1>14. ASSUME NEW i \in Indexers, ActivateRefused(i) PROVE Request(j)'
  <2>1. CASE j = i
    BY <1>14, <1>a, <2>1, GotoFields DEF ActivateRefused
  <2>2. CASE j # i
    BY <1>14, <1>a, <2>2, GotoFields DEF ActivateRefused
  <2>. QED
    BY <2>1, <2>2
<1>15. ASSUME NEW i \in Indexers, FailVersion(i) PROVE Request(j)'
  <2>1. CASE j = i
    BY <1>15, <1>a, <2>1, FinishFields DEF FailVersion
  <2>2. CASE j # i
    BY <1>15, <1>a, <2>2, FinishFields DEF FailVersion
  <2>. QED
    BY <2>1, <2>2
<1>16. ASSUME NEW i \in Indexers, NEW s \in JobVersions, NEW m \in Models, ReadVersion(i, s, m) PROVE Request(j)'
  <2>. DEFINE new == [step |-> "read", source |-> s, model |-> m, epoch |-> 0, target |-> pointer[s] + 1]
  <2>1. attempt' = [attempt EXCEPT ![i] = new] /\ pointer[s] < MaxGeneration
    BY <1>16 DEF ReadVersion
  <2>2. attempt'[i] = new /\ (j # i => attempt'[j] = attempt[j])
    BY <1>a, <2>1 DEF AttemptsTyped
  <2>3. pointer[s] + 1 \in Generations
    BY <1>a, <2>1 DEF RowsTyped
  <2>. QED
    BY <1>a, <2>2, <2>3
<1>17. ASSUME NEW s \in Leased, Lapse(s) PROVE Request(j)'
  BY <1>17, <1>a DEF Lapse
<1>18. ASSUME NEW s \in Leased, RequeueDue(s) PROVE Request(j)'
  BY <1>18, <1>a DEF RequeueDue
<1>19. ASSUME NEW s \in Leased, Reopen(s) PROVE Request(j)'
  BY <1>19, <1>a DEF Reopen
<1>20. ASSUME NEW s \in Leased, Deactivate(s) PROVE Request(j)'
  BY <1>20, <1>a DEF Deactivate
<1>21. ASSUME NEW s \in Leased, Delete(s) PROVE Request(j)'
  BY <1>21, <1>a DEF Delete
<1>22. ASSUME NEW a \in Actors, Stop(a) PROVE Request(j)'
  <2>1. CASE j = a
    BY <1>22, <1>a, <2>1, FinishFields DEF Stop
  <2>2. CASE j # a
    BY <1>22, <1>a, <2>2, FinishFields DEF Stop
  <2>. QED
    BY <2>1, <2>2
<1>23. ASSUME UNCHANGED vars PROVE Request(j)'
  BY <1>23, <1>a DEF vars
<1>. QED
  BY <1>1, <1>2, <1>3, <1>4, <1>5, <1>6, <1>7, <1>8, <1>9, <1>10, <1>11, <1>12, <1>13, <1>14, <1>15, <1>16, <1>17, <1>18, <1>19, <1>20, <1>21, <1>22, <1>23 DEF Next, WorkerStep, IndexerStep

\* The inductive invariant.
LEMMA Inductive == Spec => []IInv
<1>1. IInv /\ [Next]_vars => IInv'
  BY RowsTypedStep, ChunksTypedStep, AttemptsTypedStep, RowsStep, ClaimsStep, RequestsStep DEF IInv, Typed
<1>. QED
  BY InitHolds, <1>1, PTL DEF Spec

-----------------------------------------------------------------------------
(* Theorems                                                                *)

\* Types, and what it means to be idle.
THEOREM TypeCorrect == Spec => []TypeOK
<1>1. IInv => TypeOK
  BY DEF IInv, Typed, RowsTyped, ChunksTyped, AttemptsTyped, Attempts, TypeOK
<1>. QED
  BY Inductive, <1>1, PTL

\* Readers see one generation of a Source, whichever of flag, pointer and status they
\* filter by.
THEOREM OneGenerationIsLive == Spec => []OneGenerationLive
<1>1. ASSUME IInv, NEW s \in Sources, NEW g \in Generations
      PROVE  (chunks[s][g] # Nothing /\ chunks[s][g].live) <=> (g = pointer[s] /\ Open(s))
  <2>1. CASE chunks[s][g] # Nothing
    BY <1>1, <2>1 DEF IInv, RowsInv, RowInv, GenerationsInv
  <2>2. CASE chunks[s][g] = Nothing
    <3>1. g <= pointer[s] => status[s] = "deleted"
      BY <1>1, <2>2 DEF IInv, RowsInv, RowInv, GenerationsInv
    <3>. QED
      BY <1>1, <2>2, <3>1 DEF IInv, Typed, RowsTyped
  <2>. QED
    BY <2>1, <2>2
<1>2. IInv => OneGenerationLive
  BY <1>1 DEF OneGenerationLive
<1>. QED
  BY Inductive, <1>2, PTL

\* The owner of a lease is not refused by the writer.
THEOREM StagingIsActivatable == Spec => []StagedIsActivatable
<1>1. ASSUME IInv, NEW w \in Workers, ~ At(w, "idle"), Owned(w)
      PROVE  /\ Target(w) = pointer[Subject(w)] + 1
             /\ \A g \in Generations : g > pointer[Subject(w)] /\ chunks[Subject(w)][g] # Nothing =>
                    g = Target(w) /\ ~ chunks[Subject(w)][g].live
             /\ At(w, "staged") => ActivateAllowed(w)
  <2>. DEFINE s == Subject(w)
  <2>1. Current(w) /\ s \in Sources /\ Target(w) \in Generations
    BY <1>1, BusyActors DEF Owned, Current
  <2>2. Target(w) = pointer[s] + 1 /\ pointer[s] \in Nat
    BY <1>1, <2>1 DEF IInv, ClaimsInv, ClaimInv, Typed, RowsTyped
  <2>3. ASSUME NEW g \in Generations, g > pointer[s], chunks[s][g] # Nothing
        PROVE  g = Target(w) /\ ~ chunks[s][g].live
    <3>1. g <= pointer[s] + 1
      BY <1>1, <2>1, <2>3 DEF IInv, RowsInv, RowInv, GenerationsInv
    <3>2. g # pointer[s] /\ g = Target(w)
      BY <2>2, <2>3, <3>1
    <3>. QED
      BY <1>1, <2>1, <2>3, <3>2 DEF IInv, RowsInv, RowInv, GenerationsInv
  <2>4. ASSUME At(w, "staged") PROVE ActivateAllowed(w)
    <3>1. chunks[s][Target(w)] # Nothing /\ chunks[s][Target(w)].model = attempt[w].model
      BY <1>1, <2>1, <2>4 DEF IInv, ClaimsInv, ClaimInv
    <3>2. ~ chunks[s][Target(w)].live
      BY <2>1, <2>2, <2>3, <3>1
    <3>. QED
      BY <2>2, <3>1, <3>2 DEF ActivateAllowed, Replays
  <2>. QED
    BY <2>2, <2>3, <2>4
<1>2. IInv => StagedIsActivatable
  BY <1>1 DEF StagedIsActivatable
<1>. QED
  BY Inductive, <1>2, PTL

\* Nothing of a deleted Source is in the index.
THEOREM DeletedIsGone == Spec => []DeletedHasNoChunks
<1>1. IInv => DeletedHasNoChunks
  BY DEF IInv, RowsInv, RowInv, GenerationsInv, DeletedHasNoChunks
<1>. QED
  BY Inductive, <1>1, PTL

\* The reported status is the index's.
THEOREM StatusIsTrue == Spec => []ReportedAsItIs
<1>1. IInv => ReportedAsItIs
  BY DEF IInv, RowsInv, RowInv, StatusInv, ReportedAsItIs, Typed, RowsTyped
<1>. QED
  BY Inductive, <1>1, PTL

-----------------------------------------------------------------------------
(* Theorems: what a step may never do                                      *)

\* Only the holder of the lease publishes a generation of a leased Source, and it
\* publishes its own rows.
THEOREM WorkIsOwn == Spec => OwnWorkIsPublished
<1>1. ASSUME IInv, [Next]_vars, NEW s \in Leased, pointer'[s] # pointer[s]
      PROVE  /\ chunks'[s][pointer'[s]].by = epoch[s]
             /\ \E w \in Workers : attempt[w].epoch = epoch[s] /\ Subject(w) = s /\ Owned(w)
  <2>1. PICK w \in Workers : Publish(w) /\ Subject(w) = s
    <3>a. RowsTyped
      BY <1>1 DEF IInv, Typed
    <3>b. ASSUME NEW i \in Indexers, ActivateVersion(i) PROVE FALSE
      <4>1. Subject(i) \in JobVersions /\ Subject(i) \in Sources
        BY <1>1, <3>b, BusyActors DEF ActivateVersion
      <4>2. pointer' = [pointer EXCEPT ![Subject(i)] = Target(i)]
        BY <3>b DEF ActivateVersion, Activate
      <4>. QED
        BY <1>1, <3>a, <4>1, <4>2 DEF RowsTyped
    <3>c. ASSUME NEW v \in Workers, Publish(v) PROVE Subject(v) = s
      <4>1. Subject(v) \in Sources
        BY <1>1, <3>c, BusyActors DEF Publish
      <4>2. pointer' = [pointer EXCEPT ![Subject(v)] = Target(v)]
        BY <3>c DEF Publish, Activate
      <4>. QED
        BY <1>1, <3>a, <4>1, <4>2 DEF RowsTyped
    <3>. QED
      BY <1>1, <3>b, <3>c DEF Next, WorkerStep, IndexerStep, vars, rowVars, indexVars, Parse, ReconcileStaging,
         Stage, EmbeddingFails, PublishUnindexed, DocumentFails, AttemptFails, RecordFailure, Claim,
         StageVersion, StageRefused, VersionEmbeddingFails, ActivateRefused, FailVersion, ReadVersion,
         Lapse, RequeueDue, Reopen, Deactivate, Delete, Stop
  <2>2. /\ ~ At(w, "idle") /\ At(w, "staged") /\ Owned(w) /\ Current(w)
        /\ Activate(s, Target(w)) /\ s \in Sources /\ Target(w) \in Generations
    BY <1>1, <2>1, BusyActors DEF Publish, Owned, Current
  <2>3. attempt[w].epoch = epoch[s]
    BY <2>1, <2>2 DEF Current
  <2>4. /\ chunks[s][Target(w)] # Nothing
        /\ chunks[s][Target(w)].by = attempt[w].epoch
    BY <1>1, <2>1, <2>2 DEF IInv, ClaimsInv, ClaimInv
  <2>5. chunks'[s][Target(w)].by = chunks[s][Target(w)].by
    BY <1>1, <2>2, <2>4, ActivatedRows
  <2>6. pointer'[s] = Target(w)
    BY <1>1, <2>2 DEF Activate, IInv, Typed, RowsTyped
  <2>. QED
    BY <2>1, <2>2, <2>3, <2>4, <2>5, <2>6
<1>2. IInv /\ [Next]_vars =>
         [\A s \in Leased : pointer'[s] # pointer[s] =>
             /\ chunks'[s][pointer'[s]].by = epoch[s]
             /\ \E w \in Workers : attempt[w].epoch = epoch[s] /\ Subject(w) = s /\ Owned(w)]_vars
  BY <1>1
<1>. QED
  BY Inductive, <1>2, PTL DEF Spec, OwnWorkIsPublished

\* A published generation is kept.
LEMMA KeptStep ==
    ASSUME IInv, [Next]_vars, NEW x \in Sources, NEW g \in Generations,
           g <= pointer[x], status'[x] # "deleted"
    PROVE  /\ chunks'[x][g] # Nothing
           /\ chunks'[x][g].model = chunks[x][g].model
           /\ chunks'[x][g].by = chunks[x][g].by
<1>. DEFINE Kept == /\ chunks'[x][g] # Nothing
                    /\ chunks'[x][g].model = chunks[x][g].model
                    /\ chunks'[x][g].by = chunks[x][g].by
<1>a. RowsTyped /\ ChunksTyped
  BY DEF IInv, Typed
<1>b. status[x] # "deleted" => /\ chunks[x][g] # Nothing
                               /\ chunks'[x][g] = chunks[x][g] => Kept
  BY DEF IInv, RowsInv, RowInv, GenerationsInv
<1>1. ASSUME NEW w \in Workers, Parse(w) PROVE Kept
  BY <1>1, <1>b DEF Parse, rowVars, indexVars, RowsTyped
<1>2. ASSUME NEW w \in Workers, ReconcileStaging(w) PROVE Kept
  <2>1. Subject(w) \in Sources /\ pointer[x] \in Nat /\ g \in Nat /\ UNCHANGED status
    BY <1>2, <1>a, BusyActors DEF ReconcileStaging, RowsTyped, rowVars
  <2>2. chunks'[x][g] = chunks[x][g]
    BY <1>2, <1>a, <2>1 DEF ReconcileStaging, WithoutStaging, ChunksTyped
  <2>. QED
    BY <1>b, <2>1, <2>2
<1>3. ASSUME NEW w \in Workers, Stage(w) PROVE Kept
  <2>1. ~ At(w, "idle") /\ StageAllowed(w) /\ StageRows(w) /\ UNCHANGED status
    BY <1>3 DEF Stage, rowVars
  <2>2. Subject(w) \in Sources /\ Target(w) = pointer[Subject(w)] + 1 /\ pointer[x] \in Nat
    BY <1>a, <2>1, BusyActors DEF StageAllowed, RowsTyped
  <2>3. x # Subject(w) \/ g # Target(w)
    BY <2>2
  <2>4. chunks'[x][g] = chunks[x][g]
    <3>1. \A y \in Sources : y # Subject(w) => chunks'[y] = chunks[y]
      BY <2>1, StagedRows
    <3>2. \A h \in Generations : h # Target(w) => chunks'[Subject(w)][h] = chunks[Subject(w)][h]
      BY <2>1, StagedRows
    <3>. QED
      BY <2>3, <3>1, <3>2
  <2>. QED
    BY <1>b, <2>1, <2>4
<1>4. ASSUME NEW w \in Workers, EmbeddingFails(w) PROVE Kept
  BY <1>4, <1>b DEF EmbeddingFails, rowVars, indexVars, RowsTyped
<1>5. ASSUME NEW w \in Workers, Publish(w) PROVE Kept
  <2>. DEFINE s == Subject(w)
  <2>1. ~ At(w, "idle") /\ Activate(s, Target(w))
    BY <1>5 DEF Publish
  <2>2. s \in Sources /\ Target(w) \in Generations
    BY <2>1, BusyActors
  <2>3. status[x] # "deleted"
    BY <1>5, <1>a, <2>2 DEF Publish, Owned, RowsTyped, rowVars
  <2>4. /\ x # s => chunks'[x] = chunks[x]
        /\ chunks[s][g] # Nothing => /\ chunks'[s][g] # Nothing
                                     /\ chunks'[s][g].model = chunks[s][g].model
                                     /\ chunks'[s][g].by = chunks[s][g].by
    BY <2>1, <2>2, ActivatedRows
  <2>. QED
    BY <1>b, <2>3, <2>4
<1>6. ASSUME NEW w \in Workers, PublishUnindexed(w) PROVE Kept
  BY <1>6, <1>b, BusyActors DEF PublishUnindexed, Claimable, RecordFailure, EndFailed, Owned, rowVars, indexVars, RowsTyped
<1>7. ASSUME NEW w \in Workers, DocumentFails(w) PROVE Kept
  BY <1>7, <1>b, BusyActors DEF DocumentFails, Claimable, RecordFailure, EndFailed, Owned, rowVars, indexVars, RowsTyped
<1>8. ASSUME NEW w \in Workers, AttemptFails(w) PROVE Kept
  BY <1>8, <1>b, BusyActors DEF AttemptFails, Claimable, RecordFailure, EndFailed, Owned, rowVars, indexVars, RowsTyped
<1>9. ASSUME NEW w \in Workers, NEW s \in Leased, NEW m \in Models, Claim(w, s, m) PROVE Kept
  BY <1>9, <1>b DEF Claim, Claimable, rowVars, indexVars, RowsTyped
<1>10. ASSUME NEW i \in Indexers, StageVersion(i) PROVE Kept
  <2>1. ~ At(i, "idle") /\ StageAllowed(i) /\ StageRows(i) /\ UNCHANGED status
    BY <1>10 DEF StageVersion, rowVars
  <2>2. Subject(i) \in Sources /\ Target(i) = pointer[Subject(i)] + 1 /\ pointer[x] \in Nat
    BY <1>a, <2>1, BusyActors DEF StageAllowed, RowsTyped
  <2>3. x # Subject(i) \/ g # Target(i)
    BY <2>2
  <2>4. chunks'[x][g] = chunks[x][g]
    <3>1. \A y \in Sources : y # Subject(i) => chunks'[y] = chunks[y]
      BY <2>1, StagedRows
    <3>2. \A h \in Generations : h # Target(i) => chunks'[Subject(i)][h] = chunks[Subject(i)][h]
      BY <2>1, StagedRows
    <3>. QED
      BY <2>3, <3>1, <3>2
  <2>. QED
    BY <1>b, <2>1, <2>4
<1>11. ASSUME NEW i \in Indexers, StageRefused(i) PROVE Kept
  BY <1>11, <1>b DEF StageRefused, rowVars, indexVars, RowsTyped
<1>12. ASSUME NEW i \in Indexers, VersionEmbeddingFails(i) PROVE Kept
  BY <1>12, <1>b DEF VersionEmbeddingFails, rowVars, indexVars, RowsTyped
<1>13. ASSUME NEW i \in Indexers, ActivateVersion(i) PROVE Kept
  <2>. DEFINE s == Subject(i)
  <2>1. ~ At(i, "idle") /\ Activate(s, Target(i))
    BY <1>13 DEF ActivateVersion
  <2>2. s \in Sources /\ Target(i) \in Generations
    BY <2>1, BusyActors
  <2>3. status[x] # "deleted"
    BY <1>13, <1>a, <2>2 DEF ActivateVersion, Owned, RowsTyped, rowVars
  <2>4. /\ x # s => chunks'[x] = chunks[x]
        /\ chunks[s][g] # Nothing => /\ chunks'[s][g] # Nothing
                                     /\ chunks'[s][g].model = chunks[s][g].model
                                     /\ chunks'[s][g].by = chunks[s][g].by
    BY <2>1, <2>2, ActivatedRows
  <2>. QED
    BY <1>b, <2>3, <2>4
<1>14. ASSUME NEW i \in Indexers, ActivateRefused(i) PROVE Kept
  BY <1>14, <1>b DEF ActivateRefused, rowVars, indexVars, RowsTyped
<1>15. ASSUME NEW i \in Indexers, FailVersion(i) PROVE Kept
  BY <1>15, <1>b DEF FailVersion, RecordFailure, rowVars, indexVars, RowsTyped
<1>16. ASSUME NEW i \in Indexers, NEW s \in JobVersions, NEW m \in Models, ReadVersion(i, s, m) PROVE Kept
  BY <1>16, <1>b DEF ReadVersion, rowVars, indexVars, RowsTyped
<1>17. ASSUME NEW s \in Leased, Lapse(s) PROVE Kept
  BY <1>17, <1>b DEF Lapse, rowVars, indexVars, RowsTyped
<1>18. ASSUME NEW s \in Leased, RequeueDue(s) PROVE Kept
  BY <1>18, <1>b DEF RequeueDue, rowVars, indexVars, RowsTyped
<1>19. ASSUME NEW s \in Leased, Reopen(s) PROVE Kept
  BY <1>19, <1>b DEF Reopen, rowVars, indexVars, RowsTyped
<1>20. ASSUME NEW s \in Leased, Deactivate(s) PROVE Kept
  <2>1. /\ x # s => chunks'[x] = chunks[x]
        /\ chunks[s][g] # Nothing => /\ chunks'[s][g] # Nothing
                                     /\ chunks'[s][g].model = chunks[s][g].model
                                     /\ chunks'[s][g].by = chunks[s][g].by
    BY <1>20, DeactivatedRows
  <2>2. status[x] # "deleted"
    BY <1>20, <1>a DEF Deactivate, RowsTyped
  <2>. QED
    BY <1>b, <2>1, <2>2
<1>21. ASSUME NEW s \in Leased, Delete(s) PROVE Kept
  <2>1. s \in Sources /\ x # s
    BY <1>21, <1>a DEF Delete, RowsTyped
  <2>2. chunks'[x] = chunks[x] /\ status'[x] = status[x]
    BY <1>21, <1>a, <2>1 DEF Delete, RowsTyped, ChunksTyped
  <2>. QED
    BY <1>b, <2>2
<1>22. ASSUME NEW a \in Actors, Stop(a) PROVE Kept
  BY <1>22, <1>b DEF Stop, rowVars, indexVars, RowsTyped
<1>23. ASSUME UNCHANGED vars PROVE Kept
  BY <1>23, <1>b DEF vars, rowVars, indexVars
<1>. QED
  BY <1>1, <1>2, <1>3, <1>4, <1>5, <1>6, <1>7, <1>8, <1>9, <1>10, <1>11, <1>12, <1>13, <1>14, <1>15, <1>16, <1>17, <1>18, <1>19, <1>20, <1>21, <1>22, <1>23 DEF Next, WorkerStep, IndexerStep

\* Neither reconciliation, nor a replay, nor an activation touches what was published.
THEOREM HistoryStays == Spec => HistoryIsKept
<1>1. IInv /\ [Next]_vars =>
         [\A s \in Sources, g \in Generations :
             g <= pointer[s] /\ status'[s] # "deleted" =>
                 /\ chunks'[s][g] # Nothing
                 /\ chunks'[s][g].model = chunks[s][g].model
                 /\ chunks'[s][g].by = chunks[s][g].by]_vars
  BY KeptStep
<1>. QED
  BY Inductive, <1>1, PTL DEF Spec, HistoryIsKept

-----------------------------------------------------------------------------
(* Why indexing a job version is refused                                   *)

\* What a request or backfill has read is not ahead of the pointer, and what it has staged is
\* there for as long as its generation is next.
NotBehind(i) == ~ At(i, "idle") =>
    /\ Target(i) <= pointer[Subject(i)] + 1
    /\ At(i, "written") /\ Target(i) = pointer[Subject(i)] + 1 =>
          /\ chunks[Subject(i)][Target(i)] # Nothing
          /\ chunks[Subject(i)][Target(i)].model = attempt[i].model

IndexersInv == \A i \in Indexers : NotBehind(i)

\* No step takes rows of a job version away, nor its pointer back.
JobRowsStay(x) == /\ pointer'[x] >= pointer[x]
                  /\ \A g \in Generations : chunks[x][g] # Nothing =>
                         chunks'[x][g] # Nothing /\ chunks'[x][g].model = chunks[x][g].model

LEMMA JobRowsStep == ASSUME IInv, [Next]_vars, NEW x \in JobVersions PROVE JobRowsStay(x)
<1>a. RowsTyped /\ ChunksTyped /\ x \in Sources /\ pointer[x] \in Nat
  BY DEF IInv, Typed, RowsTyped
<1>b. ASSUME NEW s \in Leased, pointer' = [pointer EXCEPT ![s] = pointer'[s]],
             chunks' = [chunks EXCEPT ![s] = chunks'[s]]
      PROVE  JobRowsStay(x)
  <2>1. pointer'[x] = pointer[x] /\ chunks'[x] = chunks[x]
    BY <1>a, <1>b DEF RowsTyped, ChunksTyped
  <2>. QED
    BY <1>a, <2>1 DEF JobRowsStay
<1>c. ASSUME UNCHANGED <<pointer, chunks>> PROVE JobRowsStay(x)
  BY <1>a, <1>c DEF JobRowsStay
<1>d. ASSUME NEW a \in Actors, ~ At(a, "idle"), StageAllowed(a), StageRows(a), UNCHANGED pointer
      PROVE  JobRowsStay(x)
  <2>1. ASSUME NEW g \in Generations, chunks[x][g] # Nothing PROVE chunks'[x][g] = chunks[x][g]
    BY <1>d, <2>1, StagedRows
  <2>. QED
    BY <1>a, <1>d, <2>1 DEF JobRowsStay
<1>e. ASSUME NEW a \in Actors, ~ At(a, "idle"), ActivateAllowed(a), Activate(Subject(a), Target(a))
      PROVE  JobRowsStay(x)
  <2>. DEFINE s == Subject(a)
  <2>1. s \in Sources /\ Target(a) \in Generations /\ Target(a) = pointer[s] + 1
    BY <1>e, BusyActors DEF ActivateAllowed
  <2>2. pointer'[x] >= pointer[x]
    BY <1>a, <1>e, <2>1 DEF Activate, RowsTyped
  <2>3. \A g \in Generations : chunks[x][g] # Nothing =>
            chunks'[x][g] # Nothing /\ chunks'[x][g].model = chunks[x][g].model
    BY <1>a, <1>e, <2>1, ActivatedRows
  <2>. QED
    BY <2>2, <2>3 DEF JobRowsStay
<1>1. ASSUME NEW w \in Workers, WorkerStep(w) PROVE JobRowsStay(x)
  <2>1. CASE ReconcileStaging(w)
    <3>1. Subject(w) \in Leased
      BY <2>1, BusyActors DEF ReconcileStaging
    <3>2. /\ chunks' = [chunks EXCEPT ![Subject(w)] = chunks'[Subject(w)]]
          /\ pointer' = [pointer EXCEPT ![Subject(w)] = pointer'[Subject(w)]]
      BY <1>a, <2>1, <3>1 DEF ReconcileStaging, RowsTyped, ChunksTyped
    <3>. QED
      BY <1>b, <3>1, <3>2
  <2>2. CASE Stage(w)
    BY <1>d, <2>2 DEF Stage
  <2>3. CASE Publish(w)
    BY <1>e, <2>3 DEF Publish
  <2>. QED
    BY <1>1, <1>c, <2>1, <2>2, <2>3 DEF WorkerStep, Parse, EmbeddingFails, PublishUnindexed, DocumentFails,
       AttemptFails, RecordFailure, indexVars
<1>2. ASSUME NEW i \in Indexers, IndexerStep(i) PROVE JobRowsStay(x)
  <2>1. CASE StageVersion(i)
    BY <1>d, <2>1 DEF StageVersion
  <2>2. CASE ActivateVersion(i)
    BY <1>e, <2>2 DEF ActivateVersion
  <2>. QED
    BY <1>2, <1>c, <2>1, <2>2 DEF IndexerStep, StageRefused, VersionEmbeddingFails, ActivateRefused,
       FailVersion, RecordFailure, indexVars
<1>3. ASSUME NEW s \in Leased, Deactivate(s) \/ Delete(s) PROVE JobRowsStay(x)
  <2>1. /\ chunks' = [chunks EXCEPT ![s] = chunks'[s]]
        /\ pointer' = [pointer EXCEPT ![s] = pointer'[s]]
    BY <1>a, <1>3 DEF Deactivate, Delete, RowsTyped, ChunksTyped
  <2>. QED
    BY <1>b, <2>1
<1>4. CASE UNCHANGED vars
  BY <1>4, <1>c DEF vars, indexVars
<1>. QED
  BY <1>1, <1>2, <1>3, <1>4, <1>c DEF Next, Claim, ReadVersion, Lapse, RequeueDue, Reopen, Stop, indexVars

\* What becomes of the attempt of a request or backfill in one step.
LEMMA IndexerTurn ==
    ASSUME IInv, [Next]_vars, NEW j \in Indexers
    PROVE  \/ attempt'[j] = attempt[j]
           \/ attempt'[j] = Idle
           \/ ~ At(j, "idle") /\ Goto(j, "refused")
           \/ StageVersion(j)
           \/ \E s \in JobVersions, m \in Models : ReadVersion(j, s, m)
<1>a. AttemptsTyped
  BY DEF IInv, Typed
<1>1. ASSUME NEW a \in Actors, NEW step, a # j, Goto(a, step) PROVE attempt'[j] = attempt[j]
  BY <1>a, <1>1, GotoFields
<1>2. ASSUME NEW a \in Actors, Finish(a) PROVE attempt'[j] \in {attempt[j], Idle}
  BY <1>a, <1>2, FinishFields
<1>3. ASSUME NEW w \in Workers, WorkerStep(w) PROVE attempt'[j] \in {attempt[j], Idle}
  BY <1>1, <1>2, <1>3 DEF WorkerStep, Parse, ReconcileStaging, Stage, EmbeddingFails, Publish,
     PublishUnindexed, DocumentFails, AttemptFails
<1>4. ASSUME NEW w \in Workers, NEW s \in Leased, NEW m \in Models, Claim(w, s, m)
      PROVE  attempt'[j] = attempt[j]
  BY <1>a, <1>4 DEF Claim, AttemptsTyped
<1>5. ASSUME NEW i \in Indexers, i # j, NEW s \in JobVersions, NEW m \in Models, ReadVersion(i, s, m)
      PROVE  attempt'[j] = attempt[j]
  BY <1>a, <1>5 DEF ReadVersion, AttemptsTyped
<1>6. ASSUME NEW i \in Indexers, i # j, IndexerStep(i) PROVE attempt'[j] = attempt[j]
  <2>1. ASSUME Finish(i) PROVE attempt'[j] = attempt[j]
    BY <1>a, <1>6, <2>1, FinishFields
  <2>. QED
    BY <1>1, <1>6, <2>1 DEF IndexerStep, StageVersion, StageRefused, VersionEmbeddingFails,
       ActivateVersion, ActivateRefused, FailVersion
<1>7. ASSUME IndexerStep(j)
      PROVE  attempt'[j] = Idle \/ (~ At(j, "idle") /\ Goto(j, "refused")) \/ StageVersion(j)
  <2>1. ASSUME Finish(j) PROVE attempt'[j] = Idle
    BY <1>a, <2>1, FinishFields
  <2>. QED
    BY <1>7, <2>1 DEF IndexerStep, StageRefused, VersionEmbeddingFails, ActivateVersion,
       ActivateRefused, FailVersion
<1>8. CASE UNCHANGED attempt
  BY <1>8
<1>. QED
  BY <1>2, <1>3, <1>4, <1>5, <1>6, <1>7, <1>8 DEF Next, vars, Lapse, RequeueDue, Reopen, Deactivate,
     Delete, Stop

LEMMA IndexersStep == ASSUME IInv, IndexersInv, [Next]_vars PROVE IndexersInv'
<1>. SUFFICES ASSUME NEW j \in Indexers PROVE NotBehind(j)'
  BY DEF IndexersInv
<1>a. NotBehind(j) /\ RowsTyped /\ ChunksTyped /\ AttemptsTyped
  BY DEF IInv, Typed, IndexersInv
<1>b. pointer' \in [Sources -> 0 .. MaxGeneration]
  BY RowsTypedStep DEF RowsTyped
<1>c. ASSUME ~ At(j, "idle")
      PROVE  /\ Subject(j) \in JobVersions /\ Subject(j) \in Sources /\ Target(j) \in Generations
             /\ pointer[Subject(j)] \in Nat /\ pointer'[Subject(j)] \in Nat /\ Target(j) \in Nat
             /\ JobRowsStay(Subject(j))
  BY <1>a, <1>b, <1>c, BusyActors, JobRowsStep DEF RowsTyped
<1>1. CASE attempt'[j] = attempt[j]
  <2>. SUFFICES ASSUME ~ At(j, "idle") PROVE NotBehind(j)'
    BY <1>1 DEF NotBehind
  <2>1. Target(j) <= pointer'[Subject(j)] + 1
    BY <1>a, <1>c DEF NotBehind, JobRowsStay
  <2>2. ASSUME At(j, "written"), Target(j) = pointer'[Subject(j)] + 1
        PROVE  /\ chunks'[Subject(j)][Target(j)] # Nothing
               /\ chunks'[Subject(j)][Target(j)].model = attempt[j].model
    <3>1. Target(j) = pointer[Subject(j)] + 1
      BY <1>a, <1>c, <2>2 DEF NotBehind, JobRowsStay
    <3>. QED
      BY <1>a, <1>c, <2>2, <3>1 DEF NotBehind, JobRowsStay
  <2>. QED
    BY <1>1, <2>1, <2>2 DEF NotBehind
<1>2. CASE attempt'[j] = Idle
  BY <1>2 DEF NotBehind
<1>3. CASE ~ At(j, "idle") /\ Goto(j, "refused")
  <2>1. /\ attempt'[j].step = "refused"
        /\ attempt'[j].source = attempt[j].source
        /\ attempt'[j].target = attempt[j].target
    BY <1>3, <1>a, GotoFields
  <2>2. Target(j) <= pointer'[Subject(j)] + 1
    BY <1>3, <1>a, <1>c DEF NotBehind, JobRowsStay
  <2>. QED
    BY <2>1, <2>2 DEF NotBehind
<1>4. CASE StageVersion(j)
  <2>1. ~ At(j, "idle") /\ StageAllowed(j) /\ StageRows(j) /\ Goto(j, "written") /\ UNCHANGED pointer
    BY <1>4 DEF StageVersion
  <2>2. /\ attempt'[j].source = attempt[j].source
        /\ attempt'[j].target = attempt[j].target
        /\ attempt'[j].model = attempt[j].model
    BY <2>1, <1>a, GotoFields
  <2>3. /\ chunks'[Subject(j)][Target(j)] # Nothing
        /\ chunks'[Subject(j)][Target(j)].model = attempt[j].model
    BY <2>1, StagedRows
  <2>4. Target(j) = pointer[Subject(j)] + 1
    BY <2>1 DEF StageAllowed
  <2>. QED
    BY <1>c, <2>1, <2>2, <2>3, <2>4 DEF NotBehind
<1>5. CASE \E s \in JobVersions, m \in Models : ReadVersion(j, s, m)
  <2>1. PICK s \in JobVersions, m \in Models : ReadVersion(j, s, m)
    BY <1>5
  <2>2. /\ attempt'[j] = [step |-> "read", source |-> s, model |-> m, epoch |-> 0,
                          target |-> pointer[s] + 1]
        /\ UNCHANGED pointer
    BY <1>a, <2>1 DEF ReadVersion, AttemptsTyped, indexVars
  <2>3. pointer[s] \in Nat
    BY <1>a DEF RowsTyped
  <2>. QED
    BY <2>2, <2>3 DEF NotBehind
<1>. QED
  BY <1>1, <1>2, <1>3, <1>4, <1>5, IndexerTurn

\* The safety half of BackfillRepairs: a job version that is not searchable can be indexed, for
\* nothing but a publication, or a process of another embedding model, stands in the way.
THEOREM VersionsCanBeIndexed == Spec => []RefusedForAReason
<1>1. ASSUME IInv, IndexersInv, NEW i \in Indexers, At(i, "read") \/ At(i, "written")
      PROVE  LET s == Subject(i)
                 published == pointer[s] >= Target(i) /\ ready[s] = "ready"
                 foreign == /\ chunks[s][Target(i)] # Nothing
                            /\ chunks[s][Target(i)].model # attempt[i].model
             IN /\ At(i, "read") /\ ~ StageAllowed(i) => published \/ foreign
                /\ At(i, "written") /\ ~ ActivateAllowed(i) => published
  <2>. DEFINE s == Subject(i)
  <2>1. /\ s \in JobVersions /\ s \in Sources /\ Target(i) \in Generations
        /\ pointer[s] \in Nat /\ Target(i) \in Nat /\ NotBehind(i)
        /\ GenerationsInv(s) /\ StatusInv(s)
    BY <1>1, BusyActors DEF IInv, IndexersInv, Typed, RowsTyped, RowsInv, RowInv
  <2>2. CASE pointer[s] >= Target(i)
    <3>1. Open(s) /\ pointer[s] > 0
      BY <2>1, <2>2 DEF StatusInv
    <3>2. ready[s] = "ready"
      BY <2>1, <3>1 DEF StatusInv
    <3>. QED
      BY <2>2, <3>2
  <2>3. CASE Target(i) = pointer[s] + 1
    <3>1. chunks[s][Target(i)] # Nothing => ~ chunks[s][Target(i)].live
      BY <2>1, <2>3 DEF GenerationsInv
    <3>2. At(i, "written") => ActivateAllowed(i)
      BY <2>1, <2>3, <3>1 DEF NotBehind, ActivateAllowed, Replays
    <3>3. At(i, "read") /\ ~ StageAllowed(i) => /\ chunks[s][Target(i)] # Nothing
                                                /\ chunks[s][Target(i)].model # attempt[i].model
      BY <2>3, <3>1 DEF StageAllowed, Replays
    <3>. QED
      BY <3>2, <3>3
  <2>. QED
    BY <1>1, <2>1, <2>2, <2>3 DEF NotBehind
<1>2. IInv /\ IndexersInv => RefusedForAReason
  BY <1>1 DEF RefusedForAReason
<1>3. Init => IndexersInv
  BY DEF Init, IndexersInv, NotBehind
<1>4. IInv /\ IndexersInv /\ [Next]_vars => IndexersInv'
  BY IndexersStep
<1>. QED
  BY Inductive, <1>2, <1>3, <1>4, PTL DEF Spec

-----------------------------------------------------------------------------
(* Refinement                                                              *)

\* What readers see is given by pointer and status alone.
Offered(s) == IF Open(s) /\ pointer[s] > 0 THEN {pointer[s]} ELSE {}

LEMMA VisibleIsOffered == ASSUME IInv, NEW s \in Sources PROVE Visible(s) = Offered(s)
<1>1. ASSUME NEW g \in Generations PROVE g \in Visible(s) <=> g = pointer[s] /\ Open(s)
  <2>1. g \in Visible(s) => g = pointer[s] /\ Open(s)
    BY DEF Visible
  <2>2. ASSUME g = pointer[s], Open(s) PROVE g \in Visible(s)
    <3>1. chunks[s][g] # Nothing
      BY <2>2 DEF IInv, RowsInv, RowInv, GenerationsInv
    <3>2. chunks[s][g].live
      BY <2>2, <3>1 DEF IInv, RowsInv, RowInv, GenerationsInv
    <3>3. ready[s] = "ready"
      BY <2>2 DEF IInv, RowsInv, RowInv, StatusInv
    <3>. QED
      BY <2>2, <3>1, <3>2, <3>3 DEF Visible
  <2>. QED
    BY <2>1, <2>2
<1>2. pointer[s] \in 0 .. MaxGeneration /\ Visible(s) \subseteq Generations
  BY DEF IInv, Typed, RowsTyped, Visible
<1>. QED
  BY <1>1, <1>2 DEF Offered

LEMMA VisibleIsOfferedNext == IInv' => (\A s \in Sources : Visible(s) = Offered(s))'
<1>1. IInv => \A s \in Sources : Visible(s) = Offered(s)
  BY VisibleIsOffered
<1>. QED
  BY <1>1, PTL

\* A step moves a pointer by one, or takes a Source away, or leaves readers where they were.
LEMMA IndexStep == ASSUME IInv, IInv', [Next]_vars PROVE [Index!Next]_(Index!vars)
<1>. DEFINE Offers == [s \in Sources |-> Offered(s)]
            Opens  == [s \in Sources |-> Open(s)]
            Seen   == [s \in Sources |-> Visible(s)]
<1>s. Seen = Offers /\ Seen' = Offers'
  BY VisibleIsOffered, VisibleIsOfferedNext
<1>. DEFINE Moves == \/ \E s \in Sources :
                           \/ /\ Opens[s]
                              /\ pointer' = [pointer EXCEPT ![s] = @ + 1]
                              /\ Offers' = [Offers EXCEPT ![s] = {pointer[s] + 1}]
                              /\ Opens' = Opens
                           \/ /\ Opens' = [Opens EXCEPT ![s] = FALSE]
                              /\ Offers' = [Offers EXCEPT ![s] = {}]
                              /\ pointer' = pointer
                     \/ UNCHANGED <<pointer, Offers, Opens>>
<1>a. RowsTyped
  BY DEF IInv, Typed
<1>q. pointer' = pointer /\ (\A s \in Sources : Open(s)' <=> Open(s)) => Moves
  BY DEF Offered
<1>1. ASSUME NEW w \in Workers, Parse(w) PROVE Moves
  BY <1>1, <1>q DEF Parse, rowVars, indexVars
<1>2. ASSUME NEW w \in Workers, ReconcileStaging(w) PROVE Moves
  BY <1>2, <1>q DEF ReconcileStaging, rowVars, indexVars
<1>3. ASSUME NEW w \in Workers, Stage(w) PROVE Moves
  BY <1>3, <1>q DEF Stage, rowVars, indexVars
<1>4. ASSUME NEW w \in Workers, EmbeddingFails(w) PROVE Moves
  BY <1>4, <1>q DEF EmbeddingFails, rowVars, indexVars
<1>5. ASSUME NEW w \in Workers, Publish(w) PROVE Moves
  <2>0. PICK s \in Sources : s = Subject(w)
    BY <1>5, BusyActors DEF Publish
  <2>1. ~ At(w, "idle") /\ Activate(s, Target(w)) /\ Target(w) = pointer[s] + 1
    BY <1>5, <2>0 DEF Publish, ActivateAllowed
  <2>2. s \in Sources /\ Target(w) \in Generations
    BY <2>0, <2>1, BusyActors
  <2>3. pointer' = [pointer EXCEPT ![s] = Target(w)]
    BY <2>1 DEF Activate
  <2>a. status[s] = "running" /\ status' = [status EXCEPT ![s] = "done"]
    BY <1>5, <2>0 DEF Publish, Owned
  <2>4. Open(s) /\ Open(s)' /\ \A x \in Sources : x # s => status'[x] = status[x]
    BY <1>a, <2>2, <2>a DEF RowsTyped
  <2>b. pointer'[s] = pointer[s] + 1 /\ pointer[s] \in Nat /\ \A x \in Sources : x # s => pointer'[x] = pointer[x]
    BY <1>a, <2>1, <2>2, <2>3 DEF RowsTyped
  <2>c. Offered(s)' = {pointer[s] + 1}
    BY <2>4, <2>b DEF Offered
  <2>d. ASSUME NEW x \in Sources, x # s PROVE Offered(x)' = Offered(x)
    BY <2>4, <2>b, <2>d DEF Offered
  <2>5. Offers' = [Offers EXCEPT ![s] = {pointer[s] + 1}]
    BY <2>2, <2>c, <2>d
  <2>e. \A x \in Sources : Open(x)' <=> Open(x)
    BY <2>2, <2>4
  <2>6. Opens' = Opens
    BY <2>e
  <2>7. Opens[s]
    BY <2>2, <2>4
  <2>. HIDE DEF Offers, Opens
  <2>. QED
    BY <2>1, <2>2, <2>3, <2>5, <2>6, <2>7
<1>6. ASSUME NEW w \in Workers, PublishUnindexed(w) PROVE Moves
  <2>1. ~ At(w, "idle") /\ UNCHANGED pointer
    BY <1>6 DEF PublishUnindexed, RecordFailure, indexVars
  <2>2. /\ Open(Subject(w))
        /\ status' = [status EXCEPT ![Subject(w)] = status'[Subject(w)]]
        /\ status'[Subject(w)] \notin {"inactive", "deleted"}
    BY <1>6, <1>a, <2>1, BusyActors DEF PublishUnindexed, RecordFailure, Owned, RowsTyped
  <2>. QED
    BY <1>a, <1>q, <2>1, <2>2, BusyActors DEF RowsTyped
<1>7. ASSUME NEW w \in Workers, DocumentFails(w) PROVE Moves
  <2>1. ~ At(w, "idle") /\ UNCHANGED pointer
    BY <1>7 DEF DocumentFails, RecordFailure, EndFailed, indexVars
  <2>2. /\ Open(Subject(w))
        /\ status' = [status EXCEPT ![Subject(w)] = status'[Subject(w)]]
        /\ status'[Subject(w)] \notin {"inactive", "deleted"}
    BY <1>7, <1>a, <2>1, BusyActors DEF DocumentFails, RecordFailure, EndFailed, Owned, RowsTyped
  <2>. QED
    BY <1>a, <1>q, <2>1, <2>2, BusyActors DEF RowsTyped
<1>8. ASSUME NEW w \in Workers, AttemptFails(w) PROVE Moves
  <2>1. ~ At(w, "idle") /\ UNCHANGED pointer
    BY <1>8 DEF AttemptFails, EndFailed, indexVars
  <2>2. /\ Open(Subject(w))
        /\ status' = [status EXCEPT ![Subject(w)] = status'[Subject(w)]]
        /\ status'[Subject(w)] \notin {"inactive", "deleted"}
    BY <1>8, <1>a, <2>1, BusyActors DEF AttemptFails, EndFailed, Owned, RowsTyped
  <2>. QED
    BY <1>a, <1>q, <2>1, <2>2, BusyActors DEF RowsTyped
<1>9. ASSUME NEW w \in Workers, NEW s \in Leased, NEW m \in Models, Claim(w, s, m) PROVE Moves
  BY <1>9, <1>a, <1>q DEF Claim, Claimable, indexVars, RowsTyped
<1>10. ASSUME NEW i \in Indexers, StageVersion(i) PROVE Moves
  BY <1>10, <1>q DEF StageVersion, rowVars, indexVars
<1>11. ASSUME NEW i \in Indexers, StageRefused(i) PROVE Moves
  BY <1>11, <1>q DEF StageRefused, rowVars, indexVars
<1>12. ASSUME NEW i \in Indexers, VersionEmbeddingFails(i) PROVE Moves
  BY <1>12, <1>q DEF VersionEmbeddingFails, rowVars, indexVars
<1>13. ASSUME NEW i \in Indexers, ActivateVersion(i) PROVE Moves
  <2>0. PICK s \in Sources : s = Subject(i)
    BY <1>13, BusyActors DEF ActivateVersion
  <2>1. ~ At(i, "idle") /\ Activate(s, Target(i)) /\ Target(i) = pointer[s] + 1
    BY <1>13, <2>0 DEF ActivateVersion, ActivateAllowed
  <2>2. s \in Sources /\ Target(i) \in Generations
    BY <2>0, <2>1, BusyActors
  <2>3. pointer' = [pointer EXCEPT ![s] = Target(i)]
    BY <2>1 DEF Activate
  <2>a. status[s] = "queued" /\ status' = status
    BY <1>13, <2>0, <2>1, <2>2, BusyActors DEF ActivateVersion, IInv, RowsInv, RowInv, StatusInv, rowVars
  <2>4. Open(s) /\ Open(s)' /\ \A x \in Sources : x # s => status'[x] = status[x]
    BY <1>a, <2>2, <2>a DEF RowsTyped
  <2>b. pointer'[s] = pointer[s] + 1 /\ pointer[s] \in Nat /\ \A x \in Sources : x # s => pointer'[x] = pointer[x]
    BY <1>a, <2>1, <2>2, <2>3 DEF RowsTyped
  <2>c. Offered(s)' = {pointer[s] + 1}
    BY <2>4, <2>b DEF Offered
  <2>d. ASSUME NEW x \in Sources, x # s PROVE Offered(x)' = Offered(x)
    BY <2>4, <2>b, <2>d DEF Offered
  <2>5. Offers' = [Offers EXCEPT ![s] = {pointer[s] + 1}]
    BY <2>2, <2>c, <2>d
  <2>e. \A x \in Sources : Open(x)' <=> Open(x)
    BY <2>2, <2>4
  <2>6. Opens' = Opens
    BY <2>e
  <2>7. Opens[s]
    BY <2>2, <2>4
  <2>. HIDE DEF Offers, Opens
  <2>. QED
    BY <2>1, <2>2, <2>3, <2>5, <2>6, <2>7
<1>14. ASSUME NEW i \in Indexers, ActivateRefused(i) PROVE Moves
  BY <1>14, <1>q DEF ActivateRefused, rowVars, indexVars
<1>15. ASSUME NEW i \in Indexers, FailVersion(i) PROVE Moves
  BY <1>15, <1>q DEF FailVersion, RecordFailure, rowVars, indexVars
<1>16. ASSUME NEW i \in Indexers, NEW s \in JobVersions, NEW m \in Models, ReadVersion(i, s, m) PROVE Moves
  BY <1>16, <1>q DEF ReadVersion, rowVars, indexVars
<1>17. ASSUME NEW s \in Leased, Lapse(s) PROVE Moves
  BY <1>17, <1>q DEF Lapse, rowVars, indexVars
<1>18. ASSUME NEW s \in Leased, RequeueDue(s) PROVE Moves
  BY <1>18, <1>a, <1>q DEF RequeueDue, indexVars, RowsTyped
<1>19. ASSUME NEW s \in Leased, Reopen(s) PROVE Moves
  BY <1>19, <1>a, <1>q DEF Reopen, indexVars, RowsTyped
<1>20. ASSUME NEW s \in Leased, Deactivate(s) PROVE Moves
  <2>1. s \in Sources /\ UNCHANGED pointer /\ ~ Open(s)' /\ \A x \in Sources : x # s => status'[x] = status[x]
    BY <1>20, <1>a DEF Deactivate, RowsTyped
  <2>2. Offers' = [Offers EXCEPT ![s] = {}]
    BY <2>1 DEF Offered
  <2>3. Opens' = [Opens EXCEPT ![s] = FALSE]
    BY <2>1
  <2>. HIDE DEF Offers, Opens
  <2>. QED
    BY <2>1, <2>2, <2>3
<1>21. ASSUME NEW s \in Leased, Delete(s) PROVE Moves
  <2>1. s \in Sources /\ UNCHANGED pointer /\ ~ Open(s)' /\ \A x \in Sources : x # s => status'[x] = status[x]
    BY <1>21, <1>a DEF Delete, RowsTyped
  <2>2. Offers' = [Offers EXCEPT ![s] = {}]
    BY <2>1 DEF Offered
  <2>3. Opens' = [Opens EXCEPT ![s] = FALSE]
    BY <2>1
  <2>. HIDE DEF Offers, Opens
  <2>. QED
    BY <2>1, <2>2, <2>3
<1>22. ASSUME NEW a \in Actors, Stop(a) PROVE Moves
  BY <1>22, <1>q DEF Stop, rowVars, indexVars
<1>23. ASSUME UNCHANGED vars PROVE Moves
  BY <1>23, <1>q DEF vars, rowVars, indexVars
<1>m. Moves
  BY <1>1, <1>2, <1>3, <1>4, <1>5, <1>6, <1>7, <1>8, <1>9, <1>10, <1>11, <1>12, <1>13, <1>14, <1>15, <1>16, <1>17, <1>18, <1>19, <1>20, <1>21, <1>22, <1>23 DEF Next, WorkerStep, IndexerStep
<1>n. \/ \E s \in Sources :
            \/ /\ Opens[s]
               /\ pointer' = [pointer EXCEPT ![s] = @ + 1]
               /\ Seen' = [Seen EXCEPT ![s] = {pointer[s] + 1}]
               /\ Opens' = Opens
            \/ /\ Opens' = [Opens EXCEPT ![s] = FALSE]
               /\ Seen' = [Seen EXCEPT ![s] = {}]
               /\ pointer' = pointer
      \/ UNCHANGED <<pointer, Seen, Opens>>
  <2>1. Moves
    BY <1>m
  <2>. HIDE DEF Seen, Offers, Opens
  <2>. QED
    BY <1>s, <2>1
<1>. QED
  BY <1>n DEF Index!Next, Index!Publish, Index!Withdraw, Index!vars

\* The index keeps the promises of PublishedIndex.
THEOREM IndexImplementsPublished == Spec => ImplementsIndex
<1>1. Init => Index!Init
  <2>. SUFFICES ASSUME Init PROVE Index!Init
    OBVIOUS
  <2>1. \A s \in Sources : Visible(s) = {} /\ Open(s)
    BY DEF Init, Visible
  <2>. QED
    BY <2>1 DEF Init, Index!Init
<1>2. IInv /\ IInv' /\ [Next]_vars => [Index!Next]_(Index!vars)
  BY IndexStep
<1>. QED
  BY Inductive, <1>1, <1>2, PTL DEF Spec, ImplementsIndex, Index!Spec

=============================================================================
