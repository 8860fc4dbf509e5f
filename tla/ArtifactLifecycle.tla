-------------------------- MODULE ArtifactLifecycle --------------------------
(***************************************************************************)
(* The stored original of a Source: the Artifact row PostgreSQL keeps for  *)
(* it, the object in the store, and the three parties that change both --  *)
(* upload requests, deletion requests, and the maintenance task that       *)
(* repairs stale uploads and revisits tombstones.                          *)
(*                                                                         *)
(* Sources are the rows that uploads of one file (a tenant, an owner type, *)
(* a checksum) may create; uploads of different files do not meet.  A      *)
(* Source has one Artifact, which shares its name here.  A transaction     *)
(* locks the Source, then the Artifact, reads both again and commits: one  *)
(* action.  The store is called between transactions, and a call that its  *)
(* client gave up, or had to repeat, may still take effect later.          *)
(***************************************************************************)
EXTENDS Naturals

CONSTANTS
    Sources,      \* the rows that uploads of the file may create
    Requests,     \* threads that serve upload and deletion requests
    Maintainers,  \* workers that run the maintenance task
    Nothing       \* no source

ASSUME ActorsAssumption == Requests \cap Maintainers = {}
ASSUME NothingAssumption == Nothing \notin Sources

VARIABLES
    lifecycle,  \* lifecycle[s]: the Source's lifecycle_status
    artifact,   \* artifact[s]: the Artifact's status
    stored,     \* stored[s]: the object is in the store
    late,       \* store calls whose client has gone on without them
    task,       \* task[p]: what p is doing, and to which source
    page        \* page[m]: entries m has reserved and not handled yet

vars == <<lifecycle, artifact, stored, late, task, page>>

-----------------------------------------------------------------------------
Processes == Requests \cup Maintainers

Statuses   == {"PENDING", "AVAILABLE", "FAILED",
               "CLEANUP_PENDING", "CLEANUP_FAILED", "DELETED"}
\* The statuses of the unique index on tenant, owner type and checksum
Active     == {"PENDING", "AVAILABLE", "FAILED"}
Tombstones == {"CLEANUP_PENDING", "CLEANUP_FAILED", "DELETED"}

Steps == {"idle", "put", "put_done", "put_failed", "intact", "invalid",
          "cleanup", "delete", "deleted", "undeleted"}
Idle  == [step |-> "idle", source |-> Nothing]
Calls == [op : {"put", "delete"}, source : Sources]
Lanes == {"pending", "cleanup", "deleted"}

Init == /\ lifecycle = [s \in Sources |-> "none"]
        /\ artifact = [s \in Sources |-> "none"]
        /\ stored = [s \in Sources |-> FALSE]
        /\ late = {}
        /\ task = [p \in Processes |-> Idle]
        /\ page = [m \in Maintainers |-> {}]

rowVars   == <<lifecycle, artifact>>
storeVars == <<stored, late>>

At(p, step) == task[p].step = step
Subject(p)  == task[p].source

Begin(p, s, step) == task' = [task EXCEPT ![p] = [step |-> step, source |-> s]]
Goto(p, step)     == task' = [task EXCEPT ![p].step = step]
Finish(p)         == task' = [task EXCEPT ![p] = Idle]
Mark(s, status)   == artifact' = [artifact EXCEPT ![s] = status]

-----------------------------------------------------------------------------
(* The object store                                                        *)

\* The client has given a call up, or repeated it: it may take effect later.
MayLinger(op, s) == late' \in {late, late \cup {[op |-> op, source |-> s]}}

PutSucceeds(r) == /\ At(r, "put")
                  /\ stored' = [stored EXCEPT ![Subject(r)] = TRUE]
                  /\ MayLinger("put", Subject(r))
                  /\ Goto(r, "put_done")
                  /\ UNCHANGED <<rowVars, page>>

PutFails(r) == /\ At(r, "put")
               /\ \E now \in {stored[Subject(r)], TRUE} :
                     stored' = [stored EXCEPT ![Subject(r)] = now]
               /\ MayLinger("put", Subject(r))
               /\ Goto(r, "put_failed")
               /\ UNCHANGED <<rowVars, page>>

\* Deleting what is not there succeeds, too.
DeleteSucceeds(p) == /\ At(p, "delete")
                     /\ stored' = [stored EXCEPT ![Subject(p)] = FALSE]
                     /\ MayLinger("delete", Subject(p))
                     /\ Goto(p, "deleted")
                     /\ UNCHANGED <<rowVars, page>>

DeleteFails(p) == /\ At(p, "delete")
                  /\ \E now \in {stored[Subject(p)], FALSE} :
                        stored' = [stored EXCEPT ![Subject(p)] = now]
                  /\ MayLinger("delete", Subject(p))
                  /\ Goto(p, "undeleted")
                  /\ UNCHANGED <<rowVars, page>>

\* A call whose client went on without it reaches the store after all.
LateCall(c) == /\ c \in late
               /\ stored' = [stored EXCEPT ![c.source] = (c.op = "put")]
               /\ late' = late \ {c}
               /\ UNCHANGED <<rowVars, task, page>>

-----------------------------------------------------------------------------
(* Upload                                                                  *)

\* The unique index's condition
HoldsFile(s) == artifact[s] \in Active

\* claim_upload wins the file: Source and Artifact are committed before the put.
\* A request that loses returns the holder's Source and changes nothing.
ClaimUpload(r, s) ==
    /\ task[r] = Idle
    /\ lifecycle[s] = "none"
    /\ \A t \in Sources : ~ HoldsFile(t)
    /\ lifecycle' = [lifecycle EXCEPT ![s] = "active"]
    /\ Mark(s, "PENDING")
    /\ Begin(r, s, "put")
    /\ UNCHANGED <<storeVars, page>>

\* Defect: the request does not expect the maintenance to have published first.
PublishableIfPending(s) == lifecycle[s] = "active" /\ artifact[s] = "PENDING"

\* The locked rows still allow the request to publish what it stored.
Publishable(s) == lifecycle[s] = "active" /\ artifact[s] \in {"PENDING", "AVAILABLE"}

PublishUpload(r) == /\ At(r, "put_done")
                    /\ Publishable(Subject(r))
                    /\ Mark(Subject(r), "AVAILABLE")
                    /\ Finish(r)
                    /\ UNCHANGED <<lifecycle, storeVars, page>>

\* They do not: live compensation, the object just stored is cleaned up.
CompensateUpload(r) == /\ At(r, "put_done")
                       /\ ~ Publishable(Subject(r))
                       /\ Goto(r, "cleanup")
                       /\ UNCHANGED <<rowVars, storeVars, page>>

RejectUpload(r) ==
    /\ At(r, "put_failed")
    /\ lifecycle[Subject(r)] = "active" /\ artifact[Subject(r)] = "PENDING"
    /\ Mark(Subject(r), "FAILED")
    /\ Finish(r)
    /\ UNCHANGED <<lifecycle, storeVars, page>>

\* The put failed on an upload somebody else has ended: cleaned up if withdrawn,
\* left alone if published.
LeaveUpload(r) ==
    /\ At(r, "put_failed")
    /\ ~ (lifecycle[Subject(r)] = "active" /\ artifact[Subject(r)] = "PENDING")
    /\ IF artifact[Subject(r)] \in Tombstones THEN Goto(r, "cleanup") ELSE Finish(r)
    /\ UNCHANGED <<rowVars, storeVars, page>>

-----------------------------------------------------------------------------
(* Deletion                                                                *)

\* Defect: an upload in progress is left for its request to find.
WithdrawnUnlessPending(status) ==
    IF status \in {"AVAILABLE", "FAILED", "CLEANUP_FAILED"} THEN "CLEANUP_PENDING"
                                                            ELSE status

\* PENDING passes through FAILED on its way, in the same transaction.
Withdrawn(status) ==
    IF status \in {"PENDING", "AVAILABLE", "FAILED", "CLEANUP_FAILED"}
    THEN "CLEANUP_PENDING" ELSE status

\* The database first: Source and Artifact in one transaction.  A Source already
\* deleted may be deleted again, which repeats its cleanup.
DeleteSource(r, s) ==
    /\ task[r] = Idle
    /\ lifecycle[s] # "none"
    /\ lifecycle' = [lifecycle EXCEPT ![s] = "deleted"]
    /\ Mark(s, Withdrawn(artifact[s]))
    /\ Begin(r, s, "cleanup")
    /\ UNCHANGED <<storeVars, page>>

-----------------------------------------------------------------------------
(* cleanup_location                                                        *)

\* The first transaction: only a tombstone may be cleaned up, or nothing is changed
\* (ArtifactTransitionError).
OpenCleanup(p) ==
    /\ At(p, "cleanup")
    /\ IF artifact[Subject(p)] \in Tombstones
       THEN /\ Mark(Subject(p), IF artifact[Subject(p)] = "DELETED" THEN "DELETED"
                                                                 ELSE "CLEANUP_PENDING")
            /\ Goto(p, "delete")
       ELSE Finish(p) /\ UNCHANGED artifact
    /\ UNCHANGED <<lifecycle, storeVars, page>>

\* Defect: a failure is recorded over a tombstone that another cleanup completed.
CleanedRegardless(status, ok) == IF status \notin Tombstones THEN status
                                 ELSE IF ok THEN "DELETED" ELSE "CLEANUP_FAILED"

\* The last transaction.  On DELETED it records the error code only, which is not
\* modelled; CLEANUP_FAILED passes through CLEANUP_PENDING; a live status is refused.
Cleaned(status, ok) == IF status \notin Tombstones THEN status
                       ELSE IF ok \/ status = "DELETED" THEN "DELETED" ELSE "CLEANUP_FAILED"

RecordCleanup(p) ==
    /\ At(p, "deleted") \/ At(p, "undeleted")
    /\ Mark(Subject(p), Cleaned(artifact[Subject(p)], At(p, "deleted")))
    /\ Finish(p)
    /\ UNCHANGED <<lifecycle, storeVars, page>>

-----------------------------------------------------------------------------
(* Maintenance                                                             *)

\* Defect: only the tombstones whose last cleanup failed are revisited.
LaneOfWithoutDeleted(s) == IF artifact[s] = "PENDING" THEN {"pending"}
                           ELSE IF artifact[s] \in {"CLEANUP_PENDING", "CLEANUP_FAILED"}
                           THEN {"cleanup"} ELSE {}

\* Defect: the first lane selects the uploads known to have failed.
LaneOfFailed(s) == IF artifact[s] = "FAILED" THEN {"pending"}
                   ELSE IF artifact[s] \in {"CLEANUP_PENDING", "CLEANUP_FAILED"}
                   THEN {"cleanup"} ELSE IF artifact[s] = "DELETED" THEN {"deleted"} ELSE {}

\* The lane an Artifact is selected in, if any.  That a PENDING one must be five
\* minutes old is left out: a put may take longer.
LaneOf(s) == IF artifact[s] = "PENDING" THEN {"pending"}
             ELSE IF artifact[s] \in {"CLEANUP_PENDING", "CLEANUP_FAILED"} THEN {"cleanup"}
             ELSE IF artifact[s] = "DELETED" THEN {"deleted"} ELSE {}

Batch == {e \in [lane : Lanes, source : Sources] : e.lane \in LaneOf(e.source)}

\* One reservation, with a batch large enough for all lanes of the one tenant.
ReserveBatch(m) == /\ task[m] = Idle /\ page[m] = {}
                   /\ Batch # {}
                   /\ page' = [page EXCEPT ![m] = Batch]
                   /\ UNCHANGED <<rowVars, storeVars, task>>

Takes(m, e) == /\ task[m] = Idle /\ e \in page[m]
               /\ page' = [page EXCEPT ![m] = @ \ {e}]

\* Defect: the answer of the inspection is not looked at.
IntactAnyway(s) == TRUE

\* Head and the comparison of size and checksum; the store does not damage objects.
Intact(s) == stored[s]

Inspect(m, e) == /\ Takes(m, e) /\ e.lane = "pending"
                 /\ Begin(m, e.source, IF Intact(e.source) THEN "intact" ELSE "invalid")
                 /\ UNCHANGED <<rowVars, storeVars>>

\* The store cannot be asked: the entry waits for a later sweep.
InspectUnavailable(m, e) == /\ Takes(m, e) /\ e.lane = "pending"
                            /\ UNCHANGED <<rowVars, storeVars, task>>

Revisit(m, e) == /\ Takes(m, e) /\ e.lane \in {"cleanup", "deleted"}
                 /\ Begin(m, e.source, "cleanup")
                 /\ UNCHANGED <<rowVars, storeVars>>

Repairable(s) == lifecycle[s] = "active" /\ artifact[s] = "PENDING"

RepairUpload(m) == /\ At(m, "intact")
                   /\ Repairable(Subject(m))
                   /\ Mark(Subject(m), "AVAILABLE")
                   /\ Finish(m)
                   /\ UNCHANGED <<lifecycle, storeVars, page>>

\* FAILED, then CLEANUP_PENDING, in one transaction; the Source stays, failed.
InvalidateUpload(m) == /\ At(m, "invalid")
                       /\ Repairable(Subject(m))
                       /\ Mark(Subject(m), "CLEANUP_PENDING")
                       /\ Goto(m, "cleanup")
                       /\ UNCHANGED <<lifecycle, storeVars, page>>

SkipRepair(m) == /\ At(m, "intact") \/ At(m, "invalid")
                 /\ ~ Repairable(Subject(m))
                 /\ Finish(m)
                 /\ UNCHANGED <<rowVars, storeVars, page>>

-----------------------------------------------------------------------------
\* A thread dies, or loses the database, between two of its steps.
Crash(p) == /\ task[p] # Idle
            /\ Finish(p)
            /\ \/ At(p, "put") /\ MayLinger("put", Subject(p))
               \/ At(p, "delete") /\ MayLinger("delete", Subject(p))
               \/ task[p].step \notin {"put", "delete"} /\ UNCHANGED late
            /\ page' = [m \in Maintainers |-> IF m = p THEN {} ELSE page[m]]
            /\ UNCHANGED <<rowVars, stored>>

RequestStep(r) == \/ \E s \in Sources : ClaimUpload(r, s) \/ DeleteSource(r, s)
                  \/ PutSucceeds(r) \/ PutFails(r)
                  \/ PublishUpload(r) \/ CompensateUpload(r)
                  \/ RejectUpload(r) \/ LeaveUpload(r)

CleanupStep(p) == \/ OpenCleanup(p) \/ DeleteSucceeds(p) \/ DeleteFails(p)
                  \/ RecordCleanup(p)

Handle(m, e) == Inspect(m, e) \/ InspectUnavailable(m, e) \/ Revisit(m, e)

Repair(m) == RepairUpload(m) \/ InvalidateUpload(m) \/ SkipRepair(m)

Next == \/ \E r \in Requests : RequestStep(r)
        \/ \E m \in Maintainers : \/ ReserveBatch(m) \/ Repair(m)
                                  \/ \E e \in page[m] : Handle(m, e)
        \/ \E p \in Processes : CleanupStep(p) \/ Crash(p)
        \/ \E c \in late : LateCall(c)

Spec == Init /\ [][Next]_vars

\* Beat schedules the maintenance for ever, and a run is bounded.  Neither a crash nor
\* an unavailable store hits every visit to the same source for ever.  Requests are
\* promised nothing, and late calls may never arrive.
Fairness ==
    \A m \in Maintainers :
        /\ WF_vars(ReserveBatch(m))
        /\ WF_vars(\E e \in page[m] : Handle(m, e))
        /\ WF_vars(Repair(m) \/ CleanupStep(m))
        /\ \A s \in Sources :
              /\ SF_vars(\E e \in page[m] : e.source = s /\ (Inspect(m, e) \/ Revisit(m, e)))
              /\ SF_vars(Subject(m) = s /\ Repair(m))
              /\ SF_vars(Subject(m) = s /\ OpenCleanup(m))
              /\ SF_vars(Subject(m) = s /\ DeleteSucceeds(m))

FairSpec == Spec /\ Fairness

-----------------------------------------------------------------------------
(* Properties                                                              *)

\* Every variable has its type, and Source and Artifact are created together.
TypeOK == /\ lifecycle \in [Sources -> {"none", "active", "deleted"}]
          /\ artifact \in [Sources -> Statuses \cup {"none"}]
          /\ \A s \in Sources : lifecycle[s] = "none" <=> artifact[s] = "none"
          /\ stored \in [Sources -> BOOLEAN]
          /\ late \subseteq Calls
          /\ task \in [Processes -> [step : Steps, source : Sources \cup {Nothing}]]
          /\ \A p \in Processes : ~ At(p, "idle") => Subject(p) \in Sources
          /\ page \in [Maintainers -> SUBSET [lane : Lanes, source : Sources]]

\* What is offered to processors can be read: no cleanup, however late its store call,
\* deletes the object of an AVAILABLE Artifact, and none is AVAILABLE without its object.
AvailableMeansStored == \A s \in Sources : artifact[s] = "AVAILABLE" => stored[s]

\* Source and Artifact never disagree across their transactions: a deleted Source has
\* a tombstone, so that its object is found again, and a holder of the file is live, so
\* that a duplicate upload is answered with a Source that exists.
OwnersAgree == \A s \in Sources : lifecycle[s] = "deleted" => artifact[s] \in Tombstones

\* cleanup_location is called, and comes back from the store, on tombstones only: its
\* refusals cannot happen, although it locks anew what its caller saw before.
CleanupMeetsTombstone ==
    \A p \in Processes : task[p].step \in {"cleanup", "delete", "deleted", "undeleted"} =>
        artifact[Subject(p)] \in Tombstones

\* DELETED is terminal: of two cleanups of one location, the one that comes back late,
\* with a failure, does not undo what the other has recorded.
DeletedIsTerminal ==
    [][\A s \in Sources : artifact[s] = "DELETED" => artifact'[s] = "DELETED"]_vars

\* A put of the object is called, or may still take effect.
PutUnderWay(s) == \/ \E p \in Processes : At(p, "put") /\ Subject(p) = s
                  \/ [op |-> "put", source |-> s] \in late

\* Withdrawn is withdrawn: no upload or repair begins to store the object of a tombstone
\* again, so that it is gone for good once it is deleted and no put of it is under way.
GoneStaysGone ==
    [][\A s \in Sources : artifact[s] \in Tombstones =>
          /\ artifact'[s] \in Tombstones
          /\ PutUnderWay(s)' => PutUnderWay(s)
          /\ stored'[s] => stored[s] \/ PutUnderWay(s)]_vars

\* Privacy: once an Artifact is withdrawn its object is gone for good in the end, even
\* if the put that stored it arrives after the first cleanup found nothing.
ErasureCompletes ==
    \A s \in Sources : artifact[s] \in Tombstones ~> [](~ stored[s])

\* An upload whose request is gone does not stay PENDING for ever.
PendingResolves == \A s \in Sources : artifact[s] = "PENDING" ~> artifact[s] # "PENDING"

-----------------------------------------------------------------------------
PhaseOf(status) == CASE status = "none"      -> "unborn"
                     [] status = "PENDING"   -> "pending"
                     [] status = "AVAILABLE" -> "available"
                     [] status = "FAILED"    -> "failed"
                     [] OTHER                -> "removed"

Contract == INSTANCE ArtifactContract WITH
                Copies <- Sources,
                phase  <- [s \in Sources |-> PhaseOf(artifact[s])],
                kept   <- stored

\* Requests, maintenance and the store keep the promises of ArtifactContract.
ImplementsContract == Contract!Spec
=============================================================================
