----------------------- MODULE ArtifactLifecycleProofs -----------------------
(***************************************************************************)
(* Proofs about ArtifactLifecycle, for any number of uploads of a file,    *)
(* request threads and maintenance workers.  IInv is the inductive         *)
(* invariant; its parts say what a process that acts on rows it read       *)
(* before may still rely on.                                               *)
(***************************************************************************)
EXTENDS ArtifactLifecycle, TLAPS

Uploading(p) == task[p].step \in {"put", "put_done", "put_failed"}

\* Whoever has something to do has it to do on a Source that exists.
SubjectsExist == /\ \A p \in Processes : ~ At(p, "idle") => artifact[Subject(p)] # "none"
                 /\ \A c \in late : artifact[c.source] # "none"

\* An upload is one request's, and FAILED is that request's last word on it.
UploadersAlone == /\ \A p, q \in Processes :
                        Uploading(p) /\ Uploading(q) /\ Subject(p) = Subject(q) => p = q
                  /\ \A p \in Processes : Uploading(p) => artifact[Subject(p)] # "FAILED"

\* Who has seen the object can rely on it as long as the Artifact is live.
SeenIsStored == \A p \in Processes :
                    task[p].step \in {"put_done", "intact"} =>
                        stored[Subject(p)] \/ artifact[Subject(p)] \in Tombstones

\* Deletes that are still on their way, and the entries of a page, are for tombstones.
LateDeletesAreDue == /\ \A c \in late : c.op = "delete" => artifact[c.source] \in Tombstones
                     /\ \A m \in Maintainers : \A e \in page[m] :
                            IF e.lane = "pending" THEN artifact[e.source] # "none"
                                                  ELSE artifact[e.source] \in Tombstones

IInv == /\ TypeOK
        /\ OwnersAgree
        /\ AvailableMeansStored
        /\ CleanupMeetsTombstone
        /\ SubjectsExist
        /\ UploadersAlone
        /\ SeenIsStored
        /\ LateDeletesAreDue

USE NothingAssumption, ActorsAssumption
USE DEF Idle, Calls, Lanes, Steps, Statuses, Active, Tombstones, Processes, At, Subject

\* Nothing is uploaded at first.
LEMMA InitHolds == Init => IInv
BY DEF Init, IInv, TypeOK, OwnersAgree, AvailableMeansStored,
   CleanupMeetsTombstone, SubjectsExist, UploadersAlone, SeenIsStored, LateDeletesAreDue, Uploading


\* One step per action; the parts of IInv are what its process may still rely on.
LEMMA StepHolds == IInv /\ [Next]_vars => IInv'
<1> SUFFICES ASSUME IInv, [Next]_vars PROVE IInv'
    OBVIOUS
<1> USE DEF IInv, TypeOK, OwnersAgree, AvailableMeansStored, CleanupMeetsTombstone,
            SubjectsExist, UploadersAlone, SeenIsStored, LateDeletesAreDue, Uploading,
            Mark, Begin, Goto, Finish, rowVars, storeVars
<1>1. ASSUME NEW r \in Requests, NEW s \in Sources, ClaimUpload(r, s) PROVE IInv'
  BY <1>1 DEF ClaimUpload
<1>2. ASSUME NEW r \in Requests, NEW s \in Sources, DeleteSource(r, s) PROVE IInv'
  BY <1>2 DEF DeleteSource, Withdrawn
<1>3. ASSUME NEW r \in Requests, PutSucceeds(r) PROVE IInv'
  BY <1>3 DEF PutSucceeds, MayLinger
<1>4. ASSUME NEW r \in Requests, PutFails(r) PROVE IInv'
  <2>1. PICK now \in {stored[Subject(r)], TRUE} : stored' = [stored EXCEPT ![Subject(r)] = now]
    BY <1>4 DEF PutFails
  <2>2. now \in BOOLEAN /\ (stored[Subject(r)] => now)
    BY ZenonT(60), <1>4 DEF PutFails
  <2> QED
    BY <1>4, <2>1, <2>2 DEF PutFails, MayLinger
<1>5. ASSUME NEW r \in Requests, PublishUpload(r) PROVE IInv'
  BY <1>5 DEF PublishUpload, Publishable
<1>6. ASSUME NEW r \in Requests, CompensateUpload(r) PROVE IInv'
  BY <1>6 DEF CompensateUpload, Publishable
<1>7. ASSUME NEW r \in Requests, RejectUpload(r) PROVE IInv'
  BY <1>7 DEF RejectUpload
<1>8. ASSUME NEW r \in Requests, LeaveUpload(r) PROVE IInv'
  <2>1. CASE artifact[Subject(r)] \in Tombstones
    BY SMTT(30), <1>8, <2>1 DEF LeaveUpload
  <2>2. CASE artifact[Subject(r)] \notin Tombstones
    BY SMTT(30), <1>8, <2>2 DEF LeaveUpload
  <2> QED
    BY <2>1, <2>2
<1>9. ASSUME NEW m \in Maintainers, ReserveBatch(m) PROVE IInv'
  BY <1>9 DEF ReserveBatch, Batch, LaneOf
<1>10. ASSUME NEW m \in Maintainers, NEW e \in page[m], Inspect(m, e) PROVE IInv'
  BY <1>10 DEF Inspect, Takes, Intact
<1>11. ASSUME NEW m \in Maintainers, NEW e \in page[m], InspectUnavailable(m, e) PROVE IInv'
  BY <1>11 DEF InspectUnavailable, Takes
<1>12. ASSUME NEW m \in Maintainers, NEW e \in page[m], Revisit(m, e) PROVE IInv'
  BY <1>12 DEF Revisit, Takes
<1>13. ASSUME NEW m \in Maintainers, RepairUpload(m) PROVE IInv'
  BY <1>13 DEF RepairUpload, Repairable
<1>14. ASSUME NEW m \in Maintainers, InvalidateUpload(m) PROVE IInv'
  BY <1>14 DEF InvalidateUpload, Repairable
<1>15. ASSUME NEW m \in Maintainers, SkipRepair(m) PROVE IInv'
  BY <1>15 DEF SkipRepair, Repairable
<1>16. ASSUME NEW p \in Processes, OpenCleanup(p) PROVE IInv'
  <2>1. artifact[Subject(p)] \in Tombstones /\ Subject(p) \in Sources
    BY <1>16 DEF OpenCleanup
  <2>2. artifact' = [artifact EXCEPT ![Subject(p)] =
                        IF artifact[Subject(p)] = "DELETED" THEN "DELETED" ELSE "CLEANUP_PENDING"]
    BY <1>16, <2>1 DEF OpenCleanup
  <2>3. /\ task' = [task EXCEPT ![p].step = "delete"]
        /\ UNCHANGED <<lifecycle, stored, late, page>>
    BY <1>16, <2>1 DEF OpenCleanup
  <2>4. TypeOK'
    BY <1>16, <2>1, <2>2, <2>3 DEF OpenCleanup
  <2>5. OwnersAgree' /\ CleanupMeetsTombstone'
    BY <1>16, <2>1, <2>2, <2>3 DEF OpenCleanup
  <2>6. AvailableMeansStored' /\ SeenIsStored'
    BY <1>16, <2>1, <2>2, <2>3 DEF OpenCleanup
  <2>7. SubjectsExist' /\ UploadersAlone'
    BY <1>16, <2>1, <2>2, <2>3 DEF OpenCleanup
  <2>8. LateDeletesAreDue'
    BY <1>16, <2>1, <2>2, <2>3 DEF OpenCleanup
  <2> QED
    BY <2>4, <2>5, <2>6, <2>7, <2>8
<1>17. ASSUME NEW p \in Processes, DeleteSucceeds(p) PROVE IInv'
  BY <1>17 DEF DeleteSucceeds, MayLinger
<1>18. ASSUME NEW p \in Processes, DeleteFails(p) PROVE IInv'
  <2>1. PICK now \in {stored[Subject(p)], FALSE} : stored' = [stored EXCEPT ![Subject(p)] = now]
    BY <1>18 DEF DeleteFails
  <2>2. now \in BOOLEAN
    <3>1. Subject(p) \in Sources
      BY <1>18 DEF DeleteFails
    <3>2. stored[Subject(p)] \in BOOLEAN
      BY <3>1
    <3> QED
      BY <2>1, <3>2, Zenon
  <2>3. artifact[Subject(p)] \in Tombstones
    BY <1>18 DEF DeleteFails
  <2>4. TypeOK'
    BY <1>18, <2>1, <2>2, <2>3 DEF DeleteFails, MayLinger
  <2>5. OwnersAgree' /\ CleanupMeetsTombstone'
    BY <1>18, <2>1, <2>2, <2>3 DEF DeleteFails, MayLinger
  <2>6. AvailableMeansStored' /\ SeenIsStored'
    <3>1. \A s \in Sources : stored'[s] = stored[s] \/ artifact[s] \in Tombstones
      BY <2>1, <2>2, <2>3
    <3>2. UNCHANGED artifact /\ task' = [task EXCEPT ![p].step = "undeleted"]
      BY <1>18 DEF DeleteFails
    <3> QED
      BY <3>1, <3>2
  <2>7. SubjectsExist' /\ UploadersAlone'
    BY <1>18, <2>1, <2>2, <2>3 DEF DeleteFails, MayLinger
  <2>8. LateDeletesAreDue'
    BY <1>18, <2>1, <2>2, <2>3 DEF DeleteFails, MayLinger
  <2> QED
    BY <2>4, <2>5, <2>6, <2>7, <2>8
<1>19. ASSUME NEW p \in Processes, RecordCleanup(p) PROVE IInv'
  <2> DEFINE old == artifact[Subject(p)]
             new == Cleaned(old, task[p].step = "deleted")
  <2>1. Subject(p) \in Sources /\ artifact' = [artifact EXCEPT ![Subject(p)] = new]
    BY <1>19 DEF RecordCleanup
  <2>2. old \in Statuses \cup {"none"}
    BY <2>1
  <2>3. new \in Statuses \cup {"none"} /\ (old \in Tombstones => new \in Tombstones) /\ (old \notin Tombstones => new = old)
    BY <2>2 DEF Cleaned
  <2> HIDE DEF new
  <2>4. TypeOK'
    BY <1>19, <2>1, <2>3 DEF RecordCleanup
  <2>5. OwnersAgree' /\ CleanupMeetsTombstone'
    BY <1>19, <2>1, <2>2, <2>3 DEF RecordCleanup
  <2>6. AvailableMeansStored' /\ SeenIsStored'
    BY <1>19, <2>1, <2>2, <2>3 DEF RecordCleanup
  <2>7. SubjectsExist' /\ UploadersAlone'
    BY <1>19, <2>1, <2>2, <2>3 DEF RecordCleanup
  <2>8. LateDeletesAreDue'
    BY <1>19, <2>1, <2>2, <2>3 DEF RecordCleanup
  <2> QED
    BY <2>4, <2>5, <2>6, <2>7, <2>8
<1>20. ASSUME NEW p \in Processes, Crash(p) PROVE IInv'
  BY <1>20 DEF Crash, MayLinger
<1>21. ASSUME NEW c \in late, LateCall(c) PROVE IInv'
  BY <1>21 DEF LateCall
<1>22. CASE UNCHANGED vars
  BY <1>22 DEF vars
<1>23. QED
  BY <1>1, <1>2, <1>3, <1>4, <1>5, <1>6, <1>7, <1>8, <1>9, <1>10, <1>11, <1>12, <1>13, <1>14, <1>15, <1>16, <1>17, <1>18, <1>19, <1>20, <1>21, <1>22
  DEF Next, RequestStep, CleanupStep, Handle, Repair

\* IInv is inductive, and so invariant: claim, upload, deletion, cleanup and maintenance
\* keep it at every step.
THEOREM Invariance == Spec => []IInv
BY InitHolds, StepHolds, PTL DEF Spec

\* Every variable has its type (TypeOK).
THEOREM TypeCorrect == Spec => []TypeOK
<1>1. IInv => TypeOK
  BY DEF IInv
<1> QED
  BY <1>1, Invariance, PTL

\* No AVAILABLE Artifact loses its object (AvailableMeansStored).
THEOREM AvailableIsStored == Spec => []AvailableMeansStored
<1>1. IInv => AvailableMeansStored
  BY DEF IInv
<1> QED
  BY <1>1, Invariance, PTL

\* Source and Artifact are withdrawn together (OwnersAgree).
THEOREM OwnersStayTogether == Spec => []OwnersAgree
<1>1. IInv => OwnersAgree
  BY DEF IInv
<1> QED
  BY <1>1, Invariance, PTL

\* cleanup_location never meets a live Artifact (CleanupMeetsTombstone).
THEOREM CleanupIsNeverRefused == Spec => []CleanupMeetsTombstone
<1>1. IInv => CleanupMeetsTombstone
  BY DEF IInv
<1> QED
  BY <1>1, Invariance, PTL

\* No step takes an Artifact out of DELETED.
LEMMA DeletedStep == IInv /\ [Next]_vars =>
    [\A s \in Sources : artifact[s] = "DELETED" => artifact'[s] = "DELETED"]_vars
<1> SUFFICES ASSUME IInv, [Next]_vars, NEW s \in Sources, artifact[s] = "DELETED"
             PROVE  artifact'[s] = "DELETED"
    OBVIOUS
<1> USE DEF IInv, TypeOK
<1>1. CASE UNCHANGED artifact
  BY <1>1
<1>2. ASSUME NEW t \in Sources, NEW status, Mark(t, status),
             artifact[t] = "DELETED" => status = "DELETED"
      PROVE  artifact'[s] = "DELETED"
  BY <1>2 DEF Mark
<1>3. ASSUME NEW r \in Requests, NEW t \in Sources, ClaimUpload(r, t) \/ DeleteSource(r, t)
      PROVE  artifact'[s] = "DELETED"
  <2>1. artifact[t] = "DELETED" => lifecycle[t] # "none"
    OBVIOUS
  <2> QED
    BY <1>2, <1>3, <2>1 DEF ClaimUpload, DeleteSource, Withdrawn
<1>4. ASSUME NEW r \in Requests, PublishUpload(r) \/ RejectUpload(r)
      PROVE  artifact'[s] = "DELETED"
  BY <1>2, <1>4 DEF PublishUpload, RejectUpload, Publishable
<1>5. ASSUME NEW m \in Maintainers, RepairUpload(m) \/ InvalidateUpload(m)
      PROVE  artifact'[s] = "DELETED"
  BY <1>2, <1>5 DEF RepairUpload, InvalidateUpload, Repairable
<1>6. ASSUME NEW p \in Processes, OpenCleanup(p) \/ RecordCleanup(p)
      PROVE  artifact'[s] = "DELETED"
  BY <1>1, <1>2, <1>6 DEF OpenCleanup, RecordCleanup, Cleaned
<1>7. QED
  BY <1>1, <1>3, <1>4, <1>5, <1>6
  DEF Next, RequestStep, CleanupStep, Handle, Repair, vars, rowVars, PutSucceeds, PutFails,
      CompensateUpload, LeaveUpload, ReserveBatch, Inspect, InspectUnavailable, Revisit,
      SkipRepair, DeleteSucceeds, DeleteFails, Crash, LateCall

\* A tombstone that reached DELETED stays there, whichever cleanup comes back last
\* (DeletedIsTerminal).
THEOREM DeletedStaysDeleted == Spec => DeletedIsTerminal
<1>1. IInv /\ [Next]_vars =>
        [\A s \in Sources : artifact[s] = "DELETED" => artifact'[s] = "DELETED"]_vars
  BY DeletedStep
<1> QED
  BY <1>1, Invariance, PTL DEF Spec, DeletedIsTerminal

-----------------------------------------------------------------------------
(* What is withdrawn stays withdrawn                                       *)

\* No action begins to store the object of a tombstone, or takes the tombstone away; what
\* stores the object is a put that was under way.
LEMMA GoneStep ==
    ASSUME IInv, [Next]_vars, NEW s \in Sources, artifact[s] \in Tombstones
    PROVE  /\ artifact'[s] \in Tombstones
           /\ PutUnderWay(s)' => PutUnderWay(s)
           /\ stored'[s] => stored[s] \/ PutUnderWay(s)
<1> DEFINE Gone == /\ artifact'[s] \in Tombstones
                   /\ PutUnderWay(s)' => PutUnderWay(s)
                   /\ stored'[s] => stored[s] \/ PutUnderWay(s)
<1> USE DEF IInv, TypeOK, rowVars, storeVars
<1>a. lifecycle[s] # "none" /\ artifact[s] # "none"
  OBVIOUS
<1>b. ASSUME NEW p \in Processes, NEW step, step # "put", ~ At(p, "put"), Goto(p, step)
      PROVE  \A q \in Processes : At(q, "put")' => At(q, "put") /\ Subject(q)' = Subject(q)
  BY <1>b DEF Goto
<1>c. ASSUME NEW p \in Processes, NEW t, NEW step, step # "put" \/ t # s, Begin(p, t, step)
      PROVE  \A q \in Processes : At(q, "put")' /\ Subject(q)' = s => At(q, "put") /\ Subject(q) = s
  BY <1>c DEF Begin
<1>d. ASSUME NEW p \in Processes, Finish(p)
      PROVE  \A q \in Processes : At(q, "put")' => At(q, "put") /\ Subject(q)' = Subject(q)
  BY <1>d DEF Finish
<1>e. ASSUME UNCHANGED late,
             \A q \in Processes : At(q, "put")' /\ Subject(q)' = s => At(q, "put") /\ Subject(q) = s
      PROVE  PutUnderWay(s)' => PutUnderWay(s)
  BY <1>e DEF PutUnderWay
\* Uploads
<1>1. ASSUME NEW r \in Requests, NEW t \in Sources, ClaimUpload(r, t) PROVE Gone
  <2>1. t # s
    BY <1>1, <1>a DEF ClaimUpload
  <2> QED
    BY <1>1, <1>c, <1>e, <2>1 DEF ClaimUpload, Mark
<1>2. ASSUME NEW r \in Requests, PutSucceeds(r) \/ PutFails(r) PROVE Gone
  <2>1. /\ At(r, "put") /\ UNCHANGED artifact
        /\ \A q \in Processes : q # r => task'[q] = task[q]
        /\ ~ At(r, "put")'
    BY <1>2 DEF PutSucceeds, PutFails, Goto
  <2>2. PutUnderWay(s)' => PutUnderWay(s)
    BY <1>2, <2>1 DEF PutSucceeds, PutFails, MayLinger, PutUnderWay
  <2>3. stored'[s] => stored[s] \/ PutUnderWay(s)
    BY <1>2, <2>1 DEF PutSucceeds, PutFails, PutUnderWay
  <2> QED
    BY <2>1, <2>2, <2>3
<1>3. ASSUME NEW r \in Requests, PublishUpload(r) \/ RejectUpload(r) PROVE Gone
  <2>1. Subject(r) # s
    BY <1>3, <1>a DEF PublishUpload, RejectUpload, Publishable, OwnersAgree
  <2> QED
    BY <1>3, <1>d, <1>e, <2>1 DEF PublishUpload, RejectUpload, Mark
<1>4. ASSUME NEW r \in Requests, CompensateUpload(r) \/ LeaveUpload(r) PROVE Gone
  BY <1>4, <1>b, <1>d, <1>e DEF CompensateUpload, LeaveUpload
\* Deletions and cleanups
<1>5. ASSUME NEW r \in Requests, NEW t \in Sources, DeleteSource(r, t) PROVE Gone
  <2>1. Withdrawn(artifact[s]) \in Tombstones
    BY DEF Withdrawn
  <2> QED
    BY <1>5, <1>c, <1>e, <2>1 DEF DeleteSource, Mark
<1>6. ASSUME NEW p \in Processes, OpenCleanup(p) PROVE Gone
  <2>1. artifact'[s] \in Tombstones
    BY <1>6 DEF OpenCleanup, Mark
  <2>2. PutUnderWay(s)' => PutUnderWay(s)
    BY <1>6, <1>b, <1>d, <1>e DEF OpenCleanup
  <2> QED
    BY <1>6, <2>1, <2>2 DEF OpenCleanup
<1>7. ASSUME NEW p \in Processes, RecordCleanup(p) PROVE Gone
  <2>1. artifact'[s] \in Tombstones
    BY <1>7 DEF RecordCleanup, Mark, Cleaned
  <2> QED
    BY <1>7, <1>d, <1>e, <2>1 DEF RecordCleanup
<1>8. ASSUME NEW p \in Processes, DeleteSucceeds(p) \/ DeleteFails(p) PROVE Gone
  <2>1. \A q \in Processes : At(q, "put")' => At(q, "put") /\ Subject(q)' = Subject(q)
    BY <1>8, <1>b DEF DeleteSucceeds, DeleteFails
  <2>2. PutUnderWay(s)' => PutUnderWay(s)
    BY <1>8, <2>1 DEF DeleteSucceeds, DeleteFails, MayLinger, PutUnderWay
  <2>3. stored'[s] => stored[s]
    BY <1>8 DEF DeleteSucceeds, DeleteFails
  <2> QED
    BY <1>8, <2>2, <2>3 DEF DeleteSucceeds, DeleteFails
\* Maintenance
<1>9. ASSUME NEW m \in Maintainers, RepairUpload(m) \/ InvalidateUpload(m) PROVE Gone
  <2>1. Subject(m) # s
    BY <1>9 DEF RepairUpload, InvalidateUpload, Repairable
  <2> QED
    BY <1>9, <1>b, <1>d, <1>e, <2>1 DEF RepairUpload, InvalidateUpload, Mark
<1>10. ASSUME NEW m \in Maintainers, NEW e \in page[m],
              SkipRepair(m) \/ Inspect(m, e) \/ Revisit(m, e)
       PROVE  Gone
  BY <1>10, <1>c, <1>d, <1>e DEF SkipRepair, Inspect, Revisit
\* Crashes and calls that come late
<1>11. ASSUME NEW p \in Processes, Crash(p) PROVE Gone
  <2>1. PutUnderWay(s)' => PutUnderWay(s)
    BY <1>11, <1>d DEF Crash, MayLinger, PutUnderWay
  <2> QED
    BY <1>11, <2>1 DEF Crash
<1>12. ASSUME NEW c \in late, LateCall(c) PROVE Gone
  <2>1. PutUnderWay(s)' => PutUnderWay(s)
    BY <1>12 DEF LateCall, PutUnderWay
  <2>2. c.source = s /\ c.op = "put" => c = [op |-> "put", source |-> s]
    OBVIOUS
  <2>3. stored'[s] => stored[s] \/ PutUnderWay(s)
    BY <1>12, <2>2 DEF LateCall, PutUnderWay
  <2> QED
    BY <1>12, <2>1, <2>3 DEF LateCall
<1>13. ASSUME UNCHANGED <<artifact, stored, late, task>> PROVE Gone
  BY <1>13 DEF PutUnderWay
<1> HIDE DEF Gone
<1> QED
  <2>1. ASSUME NEW m \in Maintainers, Repair(m) PROVE Gone
    BY <2>1, <1>9, <1>d, <1>e DEF Repair, SkipRepair, Gone
  <2>2. ASSUME NEW m \in Maintainers, NEW e \in page[m], Handle(m, e) PROVE Gone
    BY <2>2, <1>10, <1>13 DEF Handle, InspectUnavailable
  <2>3. ASSUME NEW r \in Requests, RequestStep(r) PROVE Gone
    BY <2>3, <1>1, <1>2, <1>3, <1>4, <1>5 DEF RequestStep
  <2>4. ASSUME NEW p \in Processes, CleanupStep(p) PROVE Gone
    BY <2>4, <1>6, <1>7, <1>8 DEF CleanupStep
  <2>5. Gone
    BY <2>1, <2>2, <2>3, <2>4, <1>11, <1>12, <1>13 DEF Next, ReserveBatch, vars
  <2> QED
    BY <2>5 DEF Gone

\* The safety half of ErasureCompletes: a withdrawn Artifact is never stored anew, so that
\* each delete that succeeds after the last put has ended is the last word.
THEOREM WithdrawnIsNeverStoredAnew == Spec => GoneStaysGone
<1>1. IInv /\ [Next]_vars =>
         [\A s \in Sources : artifact[s] \in Tombstones =>
             /\ artifact'[s] \in Tombstones
             /\ PutUnderWay(s)' => PutUnderWay(s)
             /\ stored'[s] => stored[s] \/ PutUnderWay(s)]_vars
  BY GoneStep
<1> QED
  BY <1>1, Invariance, PTL DEF Spec, GoneStaysGone

-----------------------------------------------------------------------------
(* ArtifactContract.  A step changes the phase of one copy, or what is     *)
(* kept of one copy, or neither.                                           *)

\* The abstract copies' phases, read off the Artifacts.
Phases == [s \in Sources |-> PhaseOf(artifact[s])]

\* A status that keeps its phase, or changes it as the contract says, is a step of it.
LEMMA MarkImplements ==
    ASSUME TypeOK, NEW s \in Sources, NEW status, Mark(s, status), UNCHANGED stored,
           \/ PhaseOf(status) = PhaseOf(artifact[s])
           \/ artifact[s] = "PENDING" /\ status = "AVAILABLE" /\ stored[s]
           \/ artifact[s] = "PENDING" /\ status = "FAILED"
           \/ artifact[s] \in Active /\ status \in Tombstones
    PROVE  [Contract!Next]_(Contract!vars)
<1>1. Phases' = [Phases EXCEPT ![s] = PhaseOf(status)]
  BY DEF Phases, Mark, TypeOK
<1>2. CASE PhaseOf(status) = PhaseOf(artifact[s])
  <2>1. Phases' = Phases
    BY <1>1, <1>2 DEF Phases
  <2> QED
    BY <2>1 DEF Phases, Contract!vars
<1>3. CASE artifact[s] = "PENDING" /\ status = "AVAILABLE" /\ stored[s]
  <2>1. Contract!Publish(s)
    BY <1>1, <1>3 DEF Phases, Contract!Publish, PhaseOf
  <2> QED
    BY <2>1 DEF Contract!Next
<1>4. CASE artifact[s] = "PENDING" /\ status = "FAILED"
  <2>1. Contract!Fail(s)
    BY <1>1, <1>4 DEF Phases, Contract!Fail, PhaseOf
  <2> QED
    BY <2>1 DEF Contract!Next
<1>5. CASE artifact[s] \in Active /\ status \in Tombstones
  <2>1. Contract!Withdraw(s)
    BY <1>1, <1>5 DEF Phases, Contract!Withdraw, Contract!Held, PhaseOf
  <2> QED
    BY <2>1 DEF Contract!Next
<1> QED
  BY <1>2, <1>3, <1>4, <1>5

\* So is the coming and going of an object, of a tombstone if it goes.
LEMMA StoreImplements ==
    ASSUME TypeOK, NEW s \in Sources, NEW now \in BOOLEAN, UNCHANGED artifact,
           stored' = [stored EXCEPT ![s] = now],
           artifact[s] # "none", now \/ artifact[s] \in Tombstones
    PROVE  [Contract!Next]_(Contract!vars)
<1>1. CASE now = TRUE
  <2>1. Contract!Store(s)
    BY <1>1 DEF Contract!Store, PhaseOf, TypeOK
  <2> QED
    BY <2>1 DEF Contract!Next
<1>2. CASE now = FALSE
  <2>1. Contract!Erase(s)
    BY <1>2 DEF Contract!Erase, PhaseOf, TypeOK
  <2> QED
    BY <2>1 DEF Contract!Next
<1> QED
  BY <1>1, <1>2

\* The step simulation.
LEMMA StepImplements == IInv /\ [Next]_vars => [Contract!Next]_(Contract!vars)
<1> SUFFICES ASSUME IInv, [Next]_vars PROVE [Contract!Next]_(Contract!vars)
    OBVIOUS
<1> USE DEF IInv, TypeOK
<1>1. CASE UNCHANGED <<artifact, stored>>
  BY <1>1 DEF Contract!vars
<1>2. ASSUME NEW r \in Requests, NEW s \in Sources, ClaimUpload(r, s)
      PROVE  [Contract!Next]_(Contract!vars)
  <2>1. Contract!Claim(s)
    BY <1>2 DEF ClaimUpload, HoldsFile, Mark, storeVars, Contract!Claim, Contract!Held, PhaseOf
  <2> QED
    BY <2>1 DEF Contract!Next
<1>3. ASSUME NEW r \in Requests, NEW s \in Sources, DeleteSource(r, s)
      PROVE  [Contract!Next]_(Contract!vars)
  <2>1. artifact[s] \in Active \/ PhaseOf(Withdrawn(artifact[s])) = PhaseOf(artifact[s])
    BY <1>3 DEF DeleteSource, Withdrawn, PhaseOf
  <2>2. artifact[s] \in Active => Withdrawn(artifact[s]) \in Tombstones
    BY DEF Withdrawn
  <2> QED
    BY <1>3, <2>1, <2>2, MarkImplements DEF DeleteSource, storeVars
<1>4. ASSUME NEW r \in Requests, PublishUpload(r)
      PROVE  [Contract!Next]_(Contract!vars)
  <2>1. Subject(r) \in Sources /\ (artifact[Subject(r)] = "PENDING" => stored[Subject(r)])
    BY <1>4 DEF PublishUpload, SeenIsStored
  <2> QED
    BY <1>4, <2>1, MarkImplements DEF PublishUpload, Publishable, storeVars
<1>5. ASSUME NEW r \in Requests, RejectUpload(r)
      PROVE  [Contract!Next]_(Contract!vars)
  BY <1>5, MarkImplements DEF RejectUpload, storeVars
<1>6. ASSUME NEW m \in Maintainers, RepairUpload(m)
      PROVE  [Contract!Next]_(Contract!vars)
  <2>1. Subject(m) \in Sources /\ (artifact[Subject(m)] = "PENDING" => stored[Subject(m)])
    BY <1>6 DEF RepairUpload, SeenIsStored
  <2> QED
    BY <1>6, <2>1, MarkImplements DEF RepairUpload, Repairable, storeVars
<1>7. ASSUME NEW m \in Maintainers, InvalidateUpload(m)
      PROVE  [Contract!Next]_(Contract!vars)
  BY <1>7, MarkImplements DEF InvalidateUpload, Repairable, storeVars
<1>8. ASSUME NEW p \in Processes, OpenCleanup(p) \/ RecordCleanup(p)
      PROVE  [Contract!Next]_(Contract!vars)
  <2>1. Subject(p) \in Sources /\ artifact[Subject(p)] \in Tombstones
    BY <1>8 DEF OpenCleanup, RecordCleanup, CleanupMeetsTombstone
  <2>2. \A status \in Tombstones : PhaseOf(status) = "removed"
    BY DEF PhaseOf
  <2>3. PICK status \in Tombstones : Mark(Subject(p), status)
    BY <1>8, <2>1 DEF OpenCleanup, RecordCleanup, Cleaned
  <2> QED
    BY <1>8, <2>1, <2>2, <2>3, MarkImplements DEF OpenCleanup, RecordCleanup, storeVars
<1>9. ASSUME NEW r \in Requests, PutSucceeds(r) \/ PutFails(r)
      PROVE  [Contract!Next]_(Contract!vars)
  <2>1. Subject(r) \in Sources /\ artifact[Subject(r)] # "none"
    BY <1>9 DEF PutSucceeds, PutFails, SubjectsExist
  <2>2. stored' = [stored EXCEPT ![Subject(r)] = TRUE] \/ UNCHANGED stored
    BY <1>9, <2>1 DEF PutSucceeds, PutFails
  <2> QED
    BY <1>1, <1>9, <2>1, <2>2, StoreImplements DEF PutSucceeds, PutFails, rowVars
<1>10. ASSUME NEW p \in Processes, DeleteSucceeds(p) \/ DeleteFails(p)
       PROVE  [Contract!Next]_(Contract!vars)
  <2>1. Subject(p) \in Sources /\ artifact[Subject(p)] \in Tombstones
    BY <1>10 DEF DeleteSucceeds, DeleteFails, CleanupMeetsTombstone
  <2>2. stored' = [stored EXCEPT ![Subject(p)] = FALSE] \/ UNCHANGED stored
    BY <1>10, <2>1 DEF DeleteSucceeds, DeleteFails
  <2> QED
    BY <1>1, <1>10, <2>1, <2>2, StoreImplements DEF DeleteSucceeds, DeleteFails, rowVars
<1>11. ASSUME NEW c \in late, LateCall(c)
       PROVE  [Contract!Next]_(Contract!vars)
  <2>1. /\ c.source \in Sources /\ artifact[c.source] # "none"
        /\ c.op = "put" \/ artifact[c.source] \in Tombstones
    BY DEF SubjectsExist, LateDeletesAreDue
  <2> QED
    BY <1>11, <2>1, StoreImplements DEF LateCall, rowVars
<1>12. QED
  BY <1>1, <1>2, <1>3, <1>4, <1>5, <1>6, <1>7, <1>8, <1>9, <1>10, <1>11
  DEF Next, RequestStep, CleanupStep, Handle, Repair, vars, rowVars, storeVars,
      CompensateUpload, LeaveUpload, ReserveBatch, Inspect, InspectUnavailable, Revisit,
      SkipRepair, Crash

\* Requests, maintenance and the store implement ArtifactContract: one holder of the
\* file, phases that only go forward, and an object kept while it is offered.
THEOREM LifecycleImplementsContract == Spec => ImplementsContract
<1>1. Init => Contract!Init
  BY DEF Init, Contract!Init, PhaseOf
<1>2. IInv /\ [Next]_vars => [Contract!Next]_(Contract!vars)
  BY StepImplements
<1> QED
  BY <1>1, <1>2, Invariance, PTL DEF Spec, ImplementsContract, Contract!Spec
=============================================================================
