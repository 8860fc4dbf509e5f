---------------------------- MODULE SourceLease ----------------------------
(***************************************************************************)
(* The processing lease of a Source (a Resume or a KnowledgeDocument): the *)
(* row PostgreSQL keeps for it, the Celery workers that claim, renew and   *)
(* conclude leases on it, the Beat scanners that recover work whose worker *)
(* or message is gone, the API requests and the artifact maintenance that  *)
(* change the same row, and the broker between them.                       *)
(*                                                                         *)
(* One transaction of the code that holds the row lock is one action.      *)
(* clock_timestamp() is sampled under that lock, so a transaction reads    *)
(* one instant.  Instants are kept as what is left of each interval: Tick  *)
(* lets one unit of database time pass, and a timer at 0 has run out.      *)
(***************************************************************************)
EXTENDS Integers, FiniteSets

CONSTANTS
    Sources,             \* rows of resumes and knowledge_documents
    KnowledgeDocuments,  \* the rows of knowledge_documents among them
    Workers,             \* threads of control that run a processor
    Scanners,            \* recovery scanners (Beat's, and a rival's)
    Tokens,              \* recovery_dispatch_token values in use at one time
    NoOne,               \* SQL NULL of an owner, a token or a source
    MaxAttempts,         \* RetryPolicy.max_attempts
    ShortAttempts,       \* failed attempts that are retried on the short delay
    LeaseTime,           \* processing_lease_seconds
    ShortDelay,          \* RetryPolicy.short_seconds
    LongDelay,           \* RetryPolicy.long_seconds
    StaleAge,            \* age at which a queued row counts as forgotten
    Pacing,              \* pause between two recovery dispatches of a row
    MaxReopens,          \* bound: operator cycles started on one row
    MaxMessages,         \* bound: deliverable messages counted per row
    MaxRenewals          \* bound: renewal transactions in flight

ASSUME SourcesAssumption == /\ KnowledgeDocuments \subseteq Sources
                            /\ NoOne \notin Sources
ASSUME ActorsAssumption == NoOne \notin Workers /\ NoOne \notin Tokens
ASSUME BudgetAssumption == MaxAttempts \in Nat \ {0} /\ ShortAttempts \in Nat
\* RetryPolicy.__post_init__ and LeaseRepository._duration refuse anything else
ASSUME TimingAssumption == /\ LeaseTime \in Nat \ {0}
                           /\ ShortDelay \in Nat \ {0}
                           /\ LongDelay \in Nat
                           /\ ShortDelay < LongDelay
                           /\ StaleAge \in Nat
                           /\ Pacing \in Nat
ASSUME BoundsAssumption == /\ MaxReopens \in Nat /\ MaxMessages \in Nat \ {0}
                           /\ MaxRenewals \in Nat

VARIABLES
    row,        \* row[s]: the persisted Source row and its Artifact's status
    reopens,    \* reopens[s]: operator cycles started so far
    uploading,  \* uploading[s]: the upload request is between its commits
    sending,    \* sending[s]: a committed change still has to be dispatched
    msgs,       \* msgs[s]: messages for s the broker may deliver
    job,        \* job[w]: the lease worker w is working under
    renewals,   \* renewal transactions in flight, each for one lease
    scan,       \* scan[n]: snapshots scanner n has still to handle
    resv        \* resv[n]: the reservation scanner n is about to dispatch

vars == <<row, reopens, uploading, sending, msgs, job, renewals, scan, resv>>

-----------------------------------------------------------------------------
(* Values                                                                  *)

Status    == {"queued", "running", "succeeded", "failed", "inactive"}
Artifact  == {"PENDING", "AVAILABLE", "FAILED", "REMOVED"}
\* "transient" stands for TRANSIENT_PROCESSING_CODES, "exhausted" for
\* processing_attempts_exhausted, "dispatch" for task_dispatch_failed
ErrorCode == {"none", "transient", "permanent", "exhausted", "dispatch"}
NoRetry   == -1          \* next_retry_at IS NULL

\* "running" also stands for Knowledge "processing", "queued" for "uploaded" and
\* "succeeded" for "ready".  ttl is what is left of processing_lease_expires_at
\* (0 when NULL), cycle the identity of queued_at and age its distance from now,
\* cool what is left of the pacing after recovery_dispatch_at.
\* result is the epoch of the attempt that wrote the derived data now stored (0:
\* none), dispatchErr the token of the reservation a recorded
\* recovery_dispatch_error_code is about.
Row == [status: Status, lifecycle: {"active", "deleted"}, artifact: Artifact,
        attempts: Nat, epoch: Nat, owner: Workers \cup {NoOne}, ttl: 0..LeaseTime,
        retry: {NoRetry} \cup 0..LongDelay, error: ErrorCode,
        cycle: Nat, age: 0..StaleAge,
        token: Tokens \cup {NoOne}, cool: 0..Pacing,
        dispatchErr: Tokens \cup {NoOne}, result: Nat]

Lease == [source: Sources, epoch: Nat, owner: Workers]
Job   == [source: Sources \cup {NoOne}, epoch: Nat, phase: {"idle", "working", "retry"}]
Idle  == [source |-> NoOne, epoch |-> 0, phase |-> "idle"]

Snapshot == [source: Sources, epoch: Nat, status: Status, cycle: Nat,
             token: Tokens \cup {NoOne}]
NoReservation == [source |-> NoOne]

-----------------------------------------------------------------------------
(* The row's state formulae                                                *)

Active(r)    == r.lifecycle = "active"
Available(r) == r.artifact = "AVAILABLE"
Live(r)      == r.status = "running" /\ r.ttl > 0
RetryDue(r)  == r.retry = NoRetry \/ r.retry = 0

\* Defect: ownership is judged without owner and epoch (the fence is gone).
OwnedUnfenced(r, l) == Active(r) /\ r.status = "running" /\ Available(r) /\ r.ttl > 0

\* Defect: the expiry is left out of the judgement.
OwnedThoughExpired(r, l) == /\ Active(r) /\ r.status = "running" /\ Available(r)
                            /\ r.epoch = l.epoch /\ r.owner = l.owner

\* LeaseRepository._owned: the row still belongs to the lease, and unexpired.
\* The Artifact of a row never changes, so its identity is not compared.
Owned(r, l) == /\ Active(r)
               /\ r.status = "running"
               /\ r.epoch = l.epoch
               /\ r.owner = l.owner
               /\ Available(r)
               /\ r.ttl > 0

\* Defect: a duplicate takes the row from a live holder.
ClaimableThoughLive(r) == /\ Active(r) /\ Available(r) /\ RetryDue(r)
                          /\ r.status \in {"queued", "running"}

\* What claim lets through to the budget check.
Claimable(r) == /\ Active(r)
                /\ r.status \in {"queued", "running"}
                /\ ~ Live(r)
                /\ Available(r)
                /\ RetryDue(r)

\* claim's budget check
BudgetLeft(r) == r.attempts < MaxAttempts

\* RecoveryRepository._locked: nothing a snapshot recorded has changed.
Matches(r, c) == /\ Active(r)
                 /\ r.epoch = c.epoch
                 /\ r.status = c.status
                 /\ r.cycle = c.cycle
                 /\ r.token = c.token
                 /\ Available(r)

\* Defect: whose reservation the row bears is not asked.
StillQueued(r, c) == Matches(r, [c EXCEPT !.token = r.token]) /\ r.status = "queued"

\* What dispatch_failed asks of the row that was reserved.
StillReserved(r, c) == Matches(r, c) /\ r.status = "queued"

\* The three lanes of RecoveryRepository.candidates, and the rows it selects.
ForgottenInQueue(r) == r.status = "queued" /\ r.age = StaleAge
LeaseExpired(r)     == r.status = "running" /\ r.ttl = 0
RetryLane(r)        == /\ r.status = "failed"
                       /\ r.retry # NoRetry
                       /\ r.error = "transient"
                       /\ r.attempts < MaxAttempts

\* Defect: the scan has no lane for the rows of dead workers.
CandidateNeverRunning(r) == /\ Active(r) /\ Available(r) /\ RetryDue(r) /\ r.cool = 0
                            /\ ForgottenInQueue(r) \/ RetryLane(r)

Candidate(r) == /\ Active(r)
                /\ Available(r)
                /\ RetryDue(r)
                /\ r.cool = 0
                /\ ForgottenInQueue(r) \/ LeaseExpired(r) \/ RetryLane(r)

\* What reserve checks again under the row lock, on a row that still matches.
Reservable(r) == /\ RetryDue(r)
                 /\ r.cool = 0
                 /\ ForgottenInQueue(r) \/ LeaseExpired(r) \/ RetryLane(r)

SnapshotOf(s, r) == [source |-> s, epoch |-> r.epoch, status |-> r.status,
                     cycle |-> r.cycle, token |-> r.token]

-----------------------------------------------------------------------------
(* The row's updates                                                       *)

\* a new queued_at
Requeued(r) == [r EXCEPT !.status = "queued", !.cycle = @ + 1, !.age = 0]

Unleased(r) == [r EXCEPT !.owner = NoOne, !.ttl = 0]

\* Defect: a takeover is not counted against the budget.
ClaimedUncounted(r, w) == [r EXCEPT !.status = "running", !.epoch = @ + 1,
                                    !.attempts = IF r.status = "running" THEN @ ELSE @ + 1,
                                    !.owner = w, !.ttl = LeaseTime,
                                    !.retry = NoRetry, !.error = "none"]

Claimed(r, w) == [r EXCEPT !.status = "running", !.attempts = @ + 1, !.epoch = @ + 1,
                           !.owner = w, !.ttl = LeaseTime,
                           !.retry = NoRetry, !.error = "none"]

\* LeaseRepository._failed_row
FailedRow(r, code) == [Unleased(r) EXCEPT !.status = "failed", !.error = code,
                                          !.retry = NoRetry]

\* finalize_owned: the derived data and success, in one transaction
Published(r, epoch) == [Unleased(r) EXCEPT !.status = "succeeded", !.error = "none",
                                           !.retry = NoRetry, !.result = epoch]

RetriesShort(r) == r.attempts < MaxAttempts /\ r.attempts <= ShortAttempts

\* Defect: the long retry is scheduled for the last attempt, too.
RetryScheduledPastBudget(r) ==
    LET failed == FailedRow(r, "transient")
    IN  IF RetriesShort(r) THEN [Requeued(failed) EXCEPT !.retry = ShortDelay]
                           ELSE [failed EXCEPT !.retry = LongDelay]

\* schedule_retry: short retry in the queue, long retry in FAILED, or give up
RetryScheduled(r) ==
    LET failed == FailedRow(r, "transient")
    IN  IF RetriesShort(r)
        THEN [Requeued(failed) EXCEPT !.retry = ShortDelay]
        ELSE IF r.attempts < MaxAttempts
             THEN [failed EXCEPT !.retry = LongDelay]
             ELSE failed

\* A reservation: a failed or expired row goes back to the queue first.
Reserved(r, t) ==
    LET queued == IF r.status = "queued" THEN r ELSE Requeued(Unleased(r))
    IN  [queued EXCEPT !.retry = IF r.status = "failed" THEN NoRetry ELSE @,
                       !.token = t, !.cool = Pacing, !.dispatchErr = NoOne]

\* Knowledge reindex and resume backfill: a new operator cycle, the epoch kept
Reopened(r) == [Requeued(Unleased(r)) EXCEPT !.attempts = 0, !.retry = NoRetry,
                                             !.error = "none"]

Deleted(r) == [r EXCEPT !.lifecycle = "deleted", !.artifact = "REMOVED",
                        !.error = "none", !.result = 0]

Down(n) == IF n > 0 THEN n - 1 ELSE n

\* One unit of time; age is only read, and only counted, while queued.
Ticked(r) == [r EXCEPT !.ttl = Down(@), !.retry = Down(@), !.cool = Down(@),
                       !.age = IF r.status = "queued" /\ @ < StaleAge THEN @ + 1 ELSE @]

-----------------------------------------------------------------------------
(* Initial states: rows just uploaded, their object not yet stored, or     *)
(* RUNNING rows of before the lease migration, which hold no lease.        *)

Uploaded == [status |-> "queued", lifecycle |-> "active", artifact |-> "PENDING",
             attempts |-> 0, epoch |-> 0, owner |-> NoOne, ttl |-> 0,
             retry |-> NoRetry, error |-> "none", cycle |-> 0, age |-> 0,
             token |-> NoOne, cool |-> 0, dispatchErr |-> NoOne, result |-> 0]
Legacy == [Uploaded EXCEPT !.status = "running", !.artifact = "AVAILABLE"]

Init == /\ row \in [Sources -> {Uploaded, Legacy}]
        /\ uploading = [s \in Sources |-> row[s] = Uploaded]
        /\ reopens = [s \in Sources |-> 0]
        /\ sending = [s \in Sources |-> FALSE]
        /\ msgs = [s \in Sources |-> 0]
        /\ job = [w \in Workers |-> Idle]
        /\ renewals = {}
        /\ scan = [n \in Scanners |-> {}]
        /\ resv = [n \in Scanners |-> NoReservation]

apiVars     == <<reopens, uploading, sending>>
workerVars  == <<job, renewals>>
scannerVars == <<scan, resv>>

Put(s, r)  == row' = [row EXCEPT ![s] = r]
Send(s)    == msgs' = [msgs EXCEPT ![s] = IF @ < MaxMessages THEN @ + 1 ELSE @]
Consume(s) == msgs[s] > 0 /\ msgs' = [msgs EXCEPT ![s] = @ - 1]

-----------------------------------------------------------------------------
(* Time and the broker                                                     *)

Tick == /\ row' = [s \in Sources |-> Ticked(row[s])]
        /\ UNCHANGED <<msgs, apiVars, workerVars, scannerVars>>

\* The broker loses a message, or its worker cannot reach the database before
\* the claim commits (PersistenceUnavailable is acknowledged).
DropMessage(s) == /\ Consume(s)
                  /\ UNCHANGED <<row, apiVars, workerVars, scannerVars>>

\* The visibility timeout redelivers the message of a task still running.
DuplicateDelivery(s) == /\ \E w \in Workers : job[w].source = s /\ job[w].phase = "working"
                        /\ Send(s)
                        /\ UNCHANGED <<row, apiVars, workerVars, scannerVars>>

-----------------------------------------------------------------------------
(* Upload requests and the artifact maintenance                            *)

\* Status is rewritten unless the document is inactive.
UnlessInactive(r, changed) == IF r.status = "inactive" THEN r ELSE changed

\* Defect: the late request publishes over a deletion.
MayPublishUnread(r) == TRUE

\* The object is stored; the Source and the Artifact are read again before they
\* are published, and a deletion meanwhile wins.
MayPublishUpload(r) == Active(r) /\ r.artifact \in {"PENDING", "AVAILABLE"}

PublishUpload(s) ==
    /\ uploading[s]
    /\ MayPublishUpload(row[s])
    /\ Put(s, [row[s] EXCEPT !.artifact = "AVAILABLE"])
    /\ uploading' = [uploading EXCEPT ![s] = FALSE]
    /\ sending' = [sending EXCEPT ![s] = @ \/ row[s].status # "inactive"]
    /\ UNCHANGED <<msgs, reopens, workerVars, scannerVars>>

\* The store refuses the object: the row fails if the Artifact is still PENDING.
FailUpload(s) ==
    /\ uploading[s]
    /\ \E code \in {"transient", "permanent"} :
          Put(s, IF Active(row[s]) /\ row[s].artifact = "PENDING"
                 THEN UnlessInactive([row[s] EXCEPT !.artifact = "FAILED"],
                                     [row[s] EXCEPT !.artifact = "FAILED",
                                                    !.status = "failed", !.error = code])
                 ELSE row[s])
    /\ uploading' = [uploading EXCEPT ![s] = FALSE]
    /\ UNCHANGED <<msgs, reopens, sending, workerVars, scannerVars>>

\* The request gives the upload up: it died, or it met a deletion.
AbandonUpload(s) == /\ uploading[s]
                    /\ uploading' = [uploading EXCEPT ![s] = FALSE]
                    /\ UNCHANGED <<row, msgs, reopens, sending, workerVars, scannerVars>>

\* Reconciliation finds the object of a stale PENDING Artifact.
RepairUpload(s) ==
    /\ Active(row[s]) /\ row[s].artifact = "PENDING"
    /\ LET stored == [row[s] EXCEPT !.artifact = "AVAILABLE", !.error = "none"]
       IN  Put(s, UnlessInactive(stored, [Requeued(Unleased(stored)) EXCEPT !.retry = NoRetry]))
    /\ sending' = [sending EXCEPT ![s] = @ \/ row[s].status # "inactive"]
    /\ UNCHANGED <<msgs, reopens, uploading, workerVars, scannerVars>>

\* Reconciliation finds it missing or different.
InvalidateUpload(s) ==
    /\ Active(row[s]) /\ row[s].artifact = "PENDING"
    /\ LET gone == [row[s] EXCEPT !.artifact = "REMOVED", !.error = "permanent"]
       IN  Put(s, UnlessInactive(gone, [gone EXCEPT !.status = "failed"]))
    /\ UNCHANGED <<msgs, apiVars, workerVars, scannerVars>>

\* _dispatch: publish the task after the commit.  The inline processor call of a
\* local deployment or of the backfill is a delivery that follows at once.
SendTask(s) == /\ sending[s]
               /\ Send(s)
               /\ sending' = [sending EXCEPT ![s] = FALSE]
               /\ UNCHANGED <<row, reopens, uploading, workerVars, scannerVars>>

\* The publish fails and is noted on a row that still waits for it; or the
\* process dies before either.
SendTaskFailed(s) ==
    /\ sending[s]
    /\ \/ Active(row[s]) /\ row[s].status = "queued"
          /\ Put(s, [row[s] EXCEPT !.error = "dispatch"])
       \/ UNCHANGED row
    /\ sending' = [sending EXCEPT ![s] = FALSE]
    /\ UNCHANGED <<msgs, reopens, uploading, workerVars, scannerVars>>

-----------------------------------------------------------------------------
(* Operators                                                               *)

\* Knowledge reindex takes any row but an inactive one, whoever holds its lease;
\* the resume backfill takes succeeded ones.
MayReopen(s, r) == /\ Active(r)
                   /\ Available(r)
                   /\ IF s \in KnowledgeDocuments THEN r.status # "inactive"
                                                  ELSE r.status = "succeeded"

Reopen(s) == /\ reopens[s] < MaxReopens
             /\ MayReopen(s, row[s])
             /\ Put(s, Reopened(row[s]))
             /\ reopens' = [reopens EXCEPT ![s] = @ + 1]
             /\ sending' = [sending EXCEPT ![s] = TRUE]
             /\ UNCHANGED <<msgs, uploading, workerVars, scannerVars>>

\* Deactivation leaves the lease columns as they are.
Deactivate(s) == /\ s \in KnowledgeDocuments
                 /\ Active(row[s])
                 /\ Put(s, [row[s] EXCEPT !.status = "inactive"])
                 /\ UNCHANGED <<msgs, apiVars, workerVars, scannerVars>>

Delete(s) == /\ Active(row[s])
             /\ Put(s, Deleted(row[s]))
             /\ UNCHANGED <<msgs, apiVars, workerVars, scannerVars>>

-----------------------------------------------------------------------------
(* Workers                                                                 *)

HeldLease(w) == [source |-> job[w].source, epoch |-> job[w].epoch, owner |-> w]

\* claim, CLAIMED.  The contract takes any owner token: a worker's name, used again
\* at every claim, stands for the processors' fresh uuid4.
ClaimLease(w, s) ==
    /\ job[w] = Idle
    /\ Consume(s)
    /\ Claimable(row[s]) /\ BudgetLeft(row[s])
    /\ Put(s, Claimed(row[s], w))
    /\ job' = [job EXCEPT ![w] = [source |-> s, epoch |-> row[s].epoch + 1,
                                  phase |-> "working"]]
    /\ UNCHANGED <<apiVars, renewals, scannerVars>>

\* claim, TERMINAL with the budget spent: the failure is committed.
ClaimExhausted(w, s) ==
    /\ job[w] = Idle
    /\ Consume(s)
    /\ Claimable(row[s]) /\ ~ BudgetLeft(row[s])
    /\ Put(s, FailedRow(row[s], "exhausted"))
    /\ UNCHANGED <<apiVars, workerVars, scannerVars>>

\* claim, TERMINAL, DUPLICATE_ACTIVE or DEFERRED: acknowledged, nothing changed.
ClaimRefused(w, s) ==
    /\ job[w] = Idle
    /\ Consume(s)
    /\ ~ Claimable(row[s])
    /\ UNCHANGED <<row, apiVars, workerVars, scannerVars>>

\* LeaseRenewer's thread opens a transaction while its processor works ...
StartRenewal(w) == /\ job[w].phase = "working"
                   /\ Cardinality(renewals) < MaxRenewals
                   /\ renewals' = renewals \cup {HeldLease(w)}
                   /\ UNCHANGED <<row, msgs, apiVars, job, scannerVars>>

\* ... which may take effect late, when the processor has gone on or is gone.
FinishRenewal(l) ==
    /\ l \in renewals
    /\ renewals' = renewals \ {l}
    /\ Put(l.source, IF Owned(row[l.source], l)
                     THEN [row[l.source] EXCEPT !.ttl = LeaseTime] ELSE row[l.source])
    /\ UNCHANGED <<msgs, apiVars, job, scannerVars>>

\* The publication guard: w's lease still holds, judged under the row lock.
Holds(w) == job[w].phase = "working" /\ Owned(row[job[w].source], HeldLease(w))

Publish(w) == /\ Holds(w)
              /\ Put(job[w].source, Published(row[job[w].source], job[w].epoch))
              /\ job' = [job EXCEPT ![w] = Idle]
              /\ UNCHANGED <<msgs, apiVars, renewals, scannerVars>>

FailPermanent(w) == /\ Holds(w)
                    /\ Put(job[w].source, FailedRow(row[job[w].source], "permanent"))
                    /\ job' = [job EXCEPT ![w] = Idle]
                    /\ UNCHANGED <<msgs, apiVars, renewals, scannerVars>>

\* finish_failed_attempt with a transient code; RETRY_SHORT leaves a task to publish.
FailTransient(w) ==
    /\ Holds(w)
    /\ Put(job[w].source, RetryScheduled(row[job[w].source]))
    /\ job' = [job EXCEPT ![w] = IF RetriesShort(row[job[w].source])
                                 THEN [@ EXCEPT !.phase = "retry"] ELSE Idle]
    /\ UNCHANGED <<msgs, apiVars, renewals, scannerVars>>

\* The attempt ends without a trace in the row: ownership lost, the database out of
\* reach, or an unexpected fault.  The message is acknowledged.
Abandon(w) == /\ job[w].phase = "working"
              /\ job' = [job EXCEPT ![w] = Idle]
              /\ UNCHANGED <<row, msgs, apiVars, renewals, scannerVars>>

\* The countdown task of RETRY_SHORT, which the broker may deliver early.
Republish(w) == /\ job[w].phase = "retry"
                /\ Send(job[w].source)
                /\ job' = [job EXCEPT ![w] = Idle]
                /\ UNCHANGED <<row, apiVars, renewals, scannerVars>>

\* Its publish is rejected, or the worker dies before it.
RepublishFailed(w) == /\ job[w].phase = "retry"
                      /\ job' = [job EXCEPT ![w] = Idle]
                      /\ UNCHANGED <<row, msgs, apiVars, renewals, scannerVars>>

\* A worker is killed in mid-attempt and its message is delivered again
\* (task_reject_on_worker_lost).
Crash(w) == /\ job[w].phase = "working"
            /\ Send(job[w].source)
            /\ job' = [job EXCEPT ![w] = Idle]
            /\ UNCHANGED <<row, apiVars, renewals, scannerVars>>

-----------------------------------------------------------------------------
(* Recovery scanners: select a page of snapshots without a lock, reserve   *)
(* each one under a lock of its own, dispatch it after the commit.         *)

Candidates == {s \in Sources : Candidate(row[s])}

Select(n) == /\ scan[n] = {} /\ resv[n] = NoReservation
             /\ Candidates # {}
             /\ scan' = [scan EXCEPT ![n] = {SnapshotOf(s, row[s]) : s \in Candidates}]
             /\ UNCHANGED <<row, msgs, apiVars, workerVars, resv>>

\* n turns to the snapshot c of its page.
Takes(n, c) == /\ c \in scan[n] /\ resv[n] = NoReservation
               /\ scan' = [scan EXCEPT ![n] = @ \ {c}]

\* A token no row, page or reservation knows: uuid4 made finite.
FreshTokens == {t \in Tokens :
                   /\ \A s \in Sources : row[s].token # t /\ row[s].dispatchErr # t
                   /\ \A n \in Scanners : /\ \A c \in scan[n] : c.token # t
                                          /\ resv[n] # NoReservation => resv[n].token # t}

\* The row has changed since, or somebody holds its lock (SKIP LOCKED).
ReserveSkip(n, c) == /\ Takes(n, c)
                     /\ UNCHANGED <<row, msgs, apiVars, workerVars, resv>>

ReserveExhausted(n, c) ==
    /\ Takes(n, c)
    /\ Matches(row[c.source], c) /\ Reservable(row[c.source])
    /\ row[c.source].attempts >= MaxAttempts
    /\ Put(c.source, FailedRow(row[c.source], "exhausted"))
    /\ UNCHANGED <<msgs, apiVars, workerVars, resv>>

Reserve(n, c) ==
    /\ Takes(n, c)
    /\ Matches(row[c.source], c) /\ Reservable(row[c.source])
    /\ row[c.source].attempts < MaxAttempts
    /\ FreshTokens # {}
    /\ LET reserved == Reserved(row[c.source], CHOOSE t \in FreshTokens : TRUE)
       IN  /\ Put(c.source, reserved)
           /\ resv' = [resv EXCEPT ![n] = SnapshotOf(c.source, reserved)]
    /\ UNCHANGED <<msgs, apiVars, workerVars>>

Dispatch(n) == /\ resv[n] # NoReservation
               /\ Send(resv[n].source)
               /\ resv' = [resv EXCEPT ![n] = NoReservation]
               /\ UNCHANGED <<row, apiVars, workerVars, scan>>

\* The failure is recorded if the row is still as it was reserved, and its lock is free.
DispatchFailed(n) ==
    /\ resv[n] # NoReservation
    /\ \/ LET r == row[resv[n].source]
          IN  /\ StillReserved(r, resv[n])
              /\ Put(resv[n].source, [r EXCEPT !.dispatchErr = resv[n].token])
       \/ UNCHANGED row
    /\ resv' = [resv EXCEPT ![n] = NoReservation]
    /\ UNCHANGED <<msgs, apiVars, workerVars, scan>>

\* Beat dies and is started again, or loses the database in mid-cycle.
RestartScanner(n) == /\ scan[n] # {} \/ resv[n] # NoReservation
                     /\ scan' = [scan EXCEPT ![n] = {}]
                     /\ resv' = [resv EXCEPT ![n] = NoReservation]
                     /\ UNCHANGED <<row, msgs, apiVars, workerVars>>

-----------------------------------------------------------------------------
ApiStep(s) == \/ PublishUpload(s) \/ FailUpload(s) \/ AbandonUpload(s)
              \/ RepairUpload(s) \/ InvalidateUpload(s)
              \/ SendTask(s) \/ SendTaskFailed(s)
              \/ Reopen(s) \/ Deactivate(s) \/ Delete(s)

Deliver(w, s) == ClaimLease(w, s) \/ ClaimExhausted(w, s) \/ ClaimRefused(w, s)

End(w) == Publish(w) \/ FailPermanent(w) \/ FailTransient(w) \/ Abandon(w) \/ Crash(w)

AfterRetry(w) == Republish(w) \/ RepublishFailed(w)

Handle(n, c) == ReserveSkip(n, c) \/ ReserveExhausted(n, c) \/ Reserve(n, c)

ScannerStep(n) == \/ Select(n) \/ \E c \in scan[n] : Handle(n, c)
                  \/ Dispatch(n) \/ DispatchFailed(n) \/ RestartScanner(n)

Next == \/ Tick
        \/ \E s \in Sources : ApiStep(s) \/ DropMessage(s) \/ DuplicateDelivery(s)
        \/ \E w \in Workers : \/ \E s \in Sources : Deliver(w, s)
                              \/ StartRenewal(w) \/ End(w) \/ AfterRetry(w)
        \/ \E l \in renewals : FinishRenewal(l)
        \/ \E n \in Scanners : ScannerStep(n)

Spec == Init /\ [][Next]_vars

\* What the deployment's scheduling guarantees.  Time passes; a task ends by the hard
\* time limit; the broker's queue is first in, first out, so a message of s cannot be
\* passed over for ever; Beat ticks for ever, so that a scanner, if not always the same
\* one, goes on; a lock is not held at every visit, and a broker that is up again takes the
\* publish.  Nothing is assumed of renewals, requests, operators, or of any fault.
Fairness ==
    /\ WF_vars(Tick)
    /\ \A s \in Sources : SF_vars(\E w \in Workers : Deliver(w, s))
    /\ \A w \in Workers : WF_vars(End(w)) /\ WF_vars(AfterRetry(w))
    /\ WF_vars(\E n \in Scanners : Select(n))
    /\ \A n \in Scanners : WF_vars(\E c \in scan[n] : Handle(n, c))
    /\ \A s \in Sources : SF_vars(\E n \in Scanners : \E c \in scan[n] :
           c.source = s /\ (ReserveExhausted(n, c) \/ Reserve(n, c)))
    /\ SF_vars(\E n \in Scanners : Dispatch(n))

FairSpec == Spec /\ Fairness

-----------------------------------------------------------------------------
(* Properties                                                              *)

\* Every variable has its type; the broker's and the operators' bounds hold, and a
\* row's attempts never exceed the budget RetryPolicy gives them.
TypeOK == /\ row \in [Sources -> Row]
          /\ \A s \in Sources : row[s].attempts <= MaxAttempts
          /\ reopens \in [Sources -> 0..MaxReopens]
          /\ uploading \in [Sources -> BOOLEAN]
          /\ sending \in [Sources -> BOOLEAN]
          /\ msgs \in [Sources -> 0..MaxMessages]
          /\ job \in [Workers -> Job]
          /\ \A w \in Workers : job[w].phase # "idle" => job[w].source \in Sources
          /\ renewals \subseteq Lease
          /\ scan \in [Scanners -> SUBSET Snapshot]
          /\ resv \in [Scanners -> Snapshot \cup {NoReservation}]

\* Automatic recovery is bounded: whatever crashes, duplicates, expiries and scans
\* happen, a row is claimed at most MaxAttempts times per operator cycle, and no
\* claim goes uncounted.
EpochWithinBudget ==
    \A s \in Sources : row[s].epoch <= MaxAttempts * (reopens[s] + 1)

\* A retry that is scheduled will be let through: a FAILED row with a due time has a
\* transient code, an available object and budget left, so that no row waits for a
\* retry that requeue_due refuses for ever.
ScheduledRetryIsClaimable ==
    \A s \in Sources :
        LET r == row[s]
        IN  Active(r) /\ r.status = "failed" /\ r.retry # NoRetry =>
                r.error = "transient" /\ r.attempts < MaxAttempts /\ Available(r)

\* Only RUNNING (or deactivated, or deleted) rows carry a lease: every way out of
\* RUNNING clears the holder, whoever takes it.
LeaseOnlyWhileRunning ==
    \A s \in Sources :
        Active(row[s]) /\ row[s].status \in {"queued", "succeeded", "failed"} =>
            row[s].owner = NoOne /\ row[s].ttl = 0

\* q is r but for its timers.
OnlyTimers(r, q) == q = [r EXCEPT !.ttl = q.ttl, !.retry = q.retry, !.cool = q.cool,
                                  !.age = q.age]

\* The derived data stored for a Source are replaced by those of later attempts only:
\* a worker whose lease was taken over never overwrites its successor's.
ResultsNeverRegress ==
    [][\A s \in Sources : row'[s].result >= row[s].result \/ ~ Active(row'[s])]_vars

\* While a lease is live its row is changed by its holder's conclusion, by an
\* operator or by a deletion, and otherwise only in its timers: duplicates, late
\* renewals of other leases, scanners and requests leave it alone.
LiveLeaseUndisturbed ==
    [][\A s \in Sources :
          Active(row[s]) /\ Live(row[s]) =>
              \/ OnlyTimers(row[s], row'[s])
              \/ \E w \in Workers : /\ row[s].owner = w
                                    /\ job[w].source = s /\ job[w].epoch = row[s].epoch
                                    /\ job'[w] # job[w]
              \/ reopens'[s] > reopens[s]
              \/ row'[s].status = "inactive"
              \/ ~ Active(row'[s])]_vars

\* A reservation consumes the snapshots of the row: once one scanner has reserved a
\* row, no page read before it can reserve it again.
SnapshotConsumedOnce ==
    [][\A s \in Sources : row'[s].token # row[s].token =>
          \A n \in Scanners : \A c \in scan'[n] :
              c.source = s => ~ Matches(row'[s], c)]_vars

FailureCharged(s) ==
    LET old == row[s]  new == row'[s] IN
    /\ new.token # old.token => new.dispatchErr = NoOne
    /\ new.dispatchErr \notin {NoOne, old.dispatchErr} =>
          /\ new.dispatchErr = new.token
          /\ Active(old) /\ Available(old) /\ old.status = "queued"
          /\ \E n \in Scanners : resv[n] = SnapshotOf(s, old) /\ resv'[n] = NoReservation

\* A failed dispatch is charged to the reservation that failed, or to nobody: it is recorded
\* on a row that is queued still as its scanner reserved it, and not on one that meanwhile
\* was reserved again, claimed, concluded, reopened or deleted; a new reservation bears no
\* failure of an earlier one.
DispatchErrorIsCurrent == [][\A s \in Sources : FailureCharged(s)]_vars

\* Privacy deletion is final: no late upload, claim, renewal, conclusion or recovery
\* writes a deleted row again, and its data stay erased.
DeletedStaysErased ==
    [][\A s \in Sources : ~ Active(row[s]) => OnlyTimers(row[s], row'[s])]_vars

\* Work that PostgreSQL knows of and can be done is not forgotten, whatever messages,
\* workers and dispatches are lost: it succeeds, fails for good, or is withdrawn.
Unfinished(r) == /\ Active(r) /\ Available(r)
                 /\ \/ r.status \in {"queued", "running"}
                    \/ r.status = "failed" /\ r.retry # NoRetry
EventuallySettled == \A s \in Sources : Unfinished(row[s]) ~> ~ Unfinished(row[s])

\* The row once its timers have run out and nobody has changed it.
TimersOut(r) == [r EXCEPT !.ttl = 0, !.retry = IF @ = NoRetry THEN @ ELSE 0, !.cool = 0,
                          !.age = IF r.status = "queued" THEN StaleAge ELSE @]

\* No work is lost between the conditions of scan, reservation and claim: unfinished work is
\* selected when its timers have run out, what was selected can be reserved and what was
\* reserved can be claimed, for as long as the row has not changed.
RecoveryIsLetThrough ==
    /\ \A s \in Sources : Unfinished(row[s]) => Candidate(TimersOut(row[s]))
    /\ \A n \in Scanners : \A c \in scan[n] :
           Matches(row[c.source], c) => Reservable(row[c.source])
    /\ \A n \in Scanners :
           resv[n] # NoReservation /\ Matches(row[resv[n].source], resv[n]) =>
               Claimable(row[resv[n].source]) /\ BudgetLeft(row[resv[n].source])

-----------------------------------------------------------------------------
(* The contract this implements                                            *)

Nobody == [holder |-> NoOne]

GrantOf(r) == IF Active(r) /\ Live(r) THEN [holder |-> r.owner, epoch |-> r.epoch]
                                      ELSE Nobody

StandingOf(r) == IF ~ Active(r) THEN "erased"
                 ELSE IF r.status = "inactive" THEN "withdrawn" ELSE "open"

Contract ==
    INSTANCE LeaseContract WITH
        grant    <- [s \in Sources |-> GrantOf(row[s])],
        issued   <- [s \in Sources |-> row[s].epoch],
        spent    <- [s \in Sources |-> row[s].attempts],
        cycles   <- reopens,
        standing <- [s \in Sources |-> StandingOf(row[s])],
        result   <- [s \in Sources |-> row[s].result]

\* The rows, workers and scanners keep the promises of LeaseContract.
ImplementsContract == Contract!Spec
=============================================================================
