------------------------- MODULE SourceLeaseProofs -------------------------
(***************************************************************************)
(* Proofs about SourceLease, for every value of its constants.             *)
(*                                                                         *)
(* The argument turns on the row.  RowChanges lists what one step may do   *)
(* to a Source's row, whoever takes the step; what each of these changes   *)
(* preserves is then proved about rows alone (ChangeKeepsRow), and the     *)
(* theorems about Spec follow; that SourceLease implements LeaseContract   *)
(* is the last of them.                                                    *)
(***************************************************************************)
EXTENDS SourceLease, TLAPS

-----------------------------------------------------------------------------
(* The row's updates keep its type                                         *)

\* A row stays a row when one field takes another value of its kind.
LEMMA SetField ==
    ASSUME NEW r \in Row
    PROVE  /\ \A x \in Status : [r EXCEPT !.status = x] \in Row
           /\ \A x \in {"active", "deleted"} : [r EXCEPT !.lifecycle = x] \in Row
           /\ \A x \in Artifact : [r EXCEPT !.artifact = x] \in Row
           /\ \A x \in Nat : [r EXCEPT !.attempts = x] \in Row
           /\ \A x \in Nat : [r EXCEPT !.epoch = x] \in Row
           /\ \A x \in Workers \cup {NoOne} : [r EXCEPT !.owner = x] \in Row
           /\ \A x \in 0..LeaseTime : [r EXCEPT !.ttl = x] \in Row
           /\ \A x \in {NoRetry} \cup 0..LongDelay : [r EXCEPT !.retry = x] \in Row
           /\ \A x \in ErrorCode : [r EXCEPT !.error = x] \in Row
           /\ \A x \in Nat : [r EXCEPT !.cycle = x] \in Row
           /\ \A x \in 0..StaleAge : [r EXCEPT !.age = x] \in Row
           /\ \A x \in Tokens \cup {NoOne} : [r EXCEPT !.token = x] \in Row
           /\ \A x \in 0..Pacing : [r EXCEPT !.cool = x] \in Row
           /\ \A x \in Tokens \cup {NoOne} : [r EXCEPT !.dispatchErr = x] \in Row
           /\ \A x \in Nat : [r EXCEPT !.result = x] \in Row
BY DEF Row

\* Clearing the holder keeps a row a row.
LEMMA UnleasedType ==
    ASSUME NEW r \in Row
    PROVE  Unleased(r) \in Row
<1> DEFINE a == [r EXCEPT !.owner = NoOne]
           b == [a EXCEPT !.ttl = 0]
<1>1. 0 \in 0..LeaseTime
  BY TimingAssumption
<1>2. a \in Row
  BY SetField, <1>1
<1>3. b \in Row
  BY SetField, <1>1, <1>2
<1> QED BY <1>3 DEF Unleased

\* So does a new queued_at,
LEMMA RequeuedType ==
    ASSUME NEW r \in Row
    PROVE  Requeued(r) \in Row
<1> DEFINE a == [r EXCEPT !.status = "queued"]
           b == [a EXCEPT !.cycle = r.cycle + 1]
           c == [b EXCEPT !.age = 0]
<1>1. "queued" \in Status /\ r.cycle + 1 \in Nat /\ 0 \in 0..StaleAge
  BY TimingAssumption DEF Row, Status
<1>2. a \in Row
  BY SetField, <1>1
<1>3. b \in Row
  BY SetField, <1>1, <1>2
<1>4. c \in Row
  BY SetField, <1>1, <1>3
<1> QED BY <1>4 DEF Requeued

\* a claim,
LEMMA ClaimedType ==
    ASSUME NEW r \in Row, NEW w \in Workers
    PROVE  Claimed(r, w) \in Row
<1> DEFINE a == [r EXCEPT !.status = "running", !.attempts = r.attempts + 1]
           b == [a EXCEPT !.epoch = r.epoch + 1, !.owner = w]
           c == [b EXCEPT !.ttl = LeaseTime, !.retry = NoRetry]
           d == [c EXCEPT !.error = "none"]
<1>1. /\ "running" \in Status /\ "none" \in ErrorCode
      /\ r.attempts + 1 \in Nat /\ r.epoch + 1 \in Nat /\ LeaseTime \in 0..LeaseTime
  BY TimingAssumption DEF Row, Status, ErrorCode
<1>2. a \in Row
  BY SetField, <1>1
<1>3. b \in Row
  BY SetField, <1>1, <1>2
<1>4. c \in Row
  BY SetField, <1>1, <1>3
<1>5. d \in Row
  BY SetField, <1>1, <1>4
<1> QED BY <1>5 DEF Claimed

\* a terminal failure,
LEMMA FailedRowType ==
    ASSUME NEW r \in Row, NEW code \in ErrorCode
    PROVE  FailedRow(r, code) \in Row
<1> DEFINE a == [Unleased(r) EXCEPT !.status = "failed", !.error = code]
           b == [a EXCEPT !.retry = NoRetry]
<1>1. "failed" \in Status
  BY DEF Status
<1>2. a \in Row
  BY SetField, <1>1, UnleasedType
<1>3. b \in Row
  BY SetField, <1>1, <1>2
<1> QED BY <1>3 DEF FailedRow

\* a publication,
LEMMA PublishedType ==
    ASSUME NEW r \in Row, NEW epoch \in Nat
    PROVE  Published(r, epoch) \in Row
<1> DEFINE a == [Unleased(r) EXCEPT !.status = "succeeded", !.error = "none"]
           b == [a EXCEPT !.retry = NoRetry]
           c == [b EXCEPT !.result = epoch]
<1>1. "succeeded" \in Status /\ "none" \in ErrorCode
  BY DEF Status, ErrorCode
<1>2. a \in Row
  BY SetField, <1>1, UnleasedType
<1>3. b \in Row
  BY SetField, <1>1, <1>2
<1>4. c \in Row
  BY SetField, <1>1, <1>3
<1> QED BY <1>4 DEF Published

\* a scheduled retry (the short delay is below the long one),
LEMMA RetryScheduledType ==
    ASSUME NEW r \in Row
    PROVE  RetryScheduled(r) \in Row
<1> DEFINE f == FailedRow(r, "transient")
<1>1. f \in Row /\ Requeued(f) \in Row
  BY FailedRowType, RequeuedType DEF ErrorCode
<1>2. ShortDelay \in 0..LongDelay /\ LongDelay \in 0..LongDelay
  BY TimingAssumption
<1>3. [Requeued(f) EXCEPT !.retry = ShortDelay] \in Row /\ [f EXCEPT !.retry = LongDelay] \in Row
  BY <1>1, <1>2, SetField
<1> QED BY <1>1, <1>3 DEF RetryScheduled

\* a recovery reservation,
LEMMA ReservedType ==
    ASSUME NEW r \in Row, NEW t \in Tokens
    PROVE  Reserved(r, t) \in Row
<1> DEFINE q == IF r.status = "queued" THEN r ELSE Requeued(Unleased(r))
           x == IF r.status = "failed" THEN NoRetry ELSE q.retry
           a == [q EXCEPT !.retry = x]
           b == [a EXCEPT !.token = t, !.cool = Pacing]
<1>1. q \in Row
  BY RequeuedType, UnleasedType
<1>2. x \in {NoRetry} \cup 0..LongDelay
  BY <1>1 DEF Row
<1>3. a \in Row
  BY <1>1, <1>2, SetField
<1>4. b \in Row
  <2>1. Pacing \in 0..Pacing
    BY TimingAssumption
  <2> QED BY <1>3, <2>1, SetField
<1>5. [b EXCEPT !.dispatchErr = NoOne] \in Row
  BY <1>4, SetField
<1> QED BY <1>5 DEF Reserved

\* a new operator cycle,
LEMMA ReopenedType ==
    ASSUME NEW r \in Row
    PROVE  Reopened(r) \in Row
<1> DEFINE a == [Requeued(Unleased(r)) EXCEPT !.attempts = 0, !.retry = NoRetry]
           b == [a EXCEPT !.error = "none"]
<1>1. "none" \in ErrorCode
  BY DEF ErrorCode
<1>2. a \in Row
  BY SetField, <1>1, UnleasedType, RequeuedType
<1>3. b \in Row
  BY SetField, <1>1, <1>2
<1> QED BY <1>3 DEF Reopened

\* a deletion,
LEMMA DeletedType ==
    ASSUME NEW r \in Row
    PROVE  Deleted(r) \in Row
<1> DEFINE a == [r EXCEPT !.lifecycle = "deleted", !.artifact = "REMOVED"]
           b == [a EXCEPT !.error = "none"]
           c == [b EXCEPT !.result = 0]
<1>1. "REMOVED" \in Artifact /\ "none" \in ErrorCode
  BY DEF Artifact, ErrorCode
<1>2. a \in Row
  BY SetField, <1>1
<1>3. b \in Row
  BY SetField, <1>1, <1>2
<1>4. c \in Row
  BY SetField, <1>1, <1>3
<1> QED BY <1>4 DEF Deleted

\* and the passing of time.
LEMMA TickedType ==
    ASSUME NEW r \in Row
    PROVE  Ticked(r) \in Row
<1> DEFINE x == IF r.status = "queued" /\ r.age < StaleAge THEN r.age + 1 ELSE r.age
           a == [r EXCEPT !.ttl = Down(r.ttl), !.retry = Down(r.retry)]
           b == [a EXCEPT !.cool = Down(r.cool)]
<1>1. /\ Down(r.ttl) \in 0..LeaseTime
      /\ Down(r.retry) \in {NoRetry} \cup 0..LongDelay
      /\ Down(r.cool) \in 0..Pacing
      /\ x \in 0..StaleAge
  BY TimingAssumption DEF Down, Row, NoRetry
<1>2. a \in Row
  BY <1>1, SetField
<1>3. b \in Row
  BY <1>1, <1>2, SetField
<1>4. [b EXCEPT !.age = x] \in Row
  BY <1>1, <1>3, SetField
<1> QED BY <1>4 DEF Ticked

-----------------------------------------------------------------------------
(* What a step may do to a row                                             *)

\* The changes of a row, each with the part of its guard that is about the row.
UploadChange(r, q) ==
    \/ MayPublishUpload(r) /\ q = [r EXCEPT !.artifact = "AVAILABLE"]
    \/ /\ Active(r) /\ r.artifact = "PENDING"
       /\ \E code \in {"transient", "permanent"} :
             q = UnlessInactive([r EXCEPT !.artifact = "FAILED"],
                                [r EXCEPT !.artifact = "FAILED", !.status = "failed",
                                          !.error = code])
    \/ /\ Active(r) /\ r.artifact = "PENDING"
       /\ LET stored == [r EXCEPT !.artifact = "AVAILABLE", !.error = "none"]
          IN  q = UnlessInactive(stored, [Requeued(Unleased(stored)) EXCEPT !.retry = NoRetry])
    \/ /\ Active(r) /\ r.artifact = "PENDING"
       /\ LET gone == [r EXCEPT !.artifact = "REMOVED", !.error = "permanent"]
          IN  q = UnlessInactive(gone, [gone EXCEPT !.status = "failed"])

RequestChange(r, q) ==
    \/ Active(r) /\ r.status = "queued" /\ q = [r EXCEPT !.error = "dispatch"]
    \/ Active(r) /\ q = [r EXCEPT !.status = "inactive"]
    \/ Active(r) /\ q = Deleted(r)

WorkerChange(r, q) ==
    \/ Claimable(r) /\ BudgetLeft(r) /\ \E w \in Workers : q = Claimed(r, w)
    \/ Claimable(r) /\ q = FailedRow(r, "exhausted")
    \/ \E l \in Lease : Owned(r, l) /\ q = [r EXCEPT !.ttl = LeaseTime]

ScannerChange(r, q) ==
    /\ Active(r) /\ Available(r)
    /\ \/ Reservable(r) /\ ~ BudgetLeft(r) /\ q = FailedRow(r, "exhausted")
       \/ /\ Reservable(r) /\ BudgetLeft(r)
          /\ \E t \in Tokens : t # r.token /\ q = Reserved(r, t)
       \/ r.status = "queued" /\ q = [r EXCEPT !.dispatchErr = r.token]

Change(r, q) == \/ q = r \/ q = Ticked(r)
                \/ UploadChange(r, q) \/ RequestChange(r, q)
                \/ WorkerChange(r, q) \/ ScannerChange(r, q)

\* The end of an attempt that still owns the row.
Ended(r, q, l) == /\ Owned(r, l)
                  /\ \/ q = Published(r, l.epoch)
                     \/ q = FailedRow(r, "permanent")
                     \/ q = RetryScheduled(r)

HolderEnds(s) == \E w \in Workers : /\ HeldLease(w) \in Lease
                                    /\ job[w].source = s /\ job'[w] # job[w]
                                    /\ Ended(row[s], row'[s], HeldLease(w))

\* Every step changes each row by one of these, or ends an attempt by its holder, or
\* starts a new operator cycle.
RowStep(s) == \/ Change(row[s], row'[s]) /\ reopens'[s] = reopens[s]
              \/ HolderEnds(s) /\ reopens'[s] = reopens[s]
              \/ /\ MayReopen(s, row[s]) /\ row'[s] = Reopened(row[s])
                 /\ reopens'[s] = reopens[s] + 1

\* Writing one row leaves the others alone.
LEMMA PutOne ==
    ASSUME TypeOK, NEW s \in Sources, NEW q, Put(s, q)
    PROVE  row' = [row EXCEPT ![s] = q] /\ row'[s] = q
           /\ \A x \in Sources : x # s => row'[x] = row[x]
BY DEF TypeOK, Put

\* Whoever takes a step, every row takes one of the steps listed in RowStep.
LEMMA RowChanges ==
    ASSUME TypeOK, [Next]_vars, NEW s \in Sources
    PROVE  RowStep(s)
<1>1. CASE UNCHANGED row /\ UNCHANGED reopens
  BY <1>1 DEF RowStep, Change
<1>2. CASE Tick
  BY <1>2 DEF Tick, RowStep, Change, apiVars, TypeOK
<1>3. ASSUME NEW x \in Sources, ApiStep(x)
      PROVE  RowStep(s)
  <2>1. CASE PublishUpload(x)
    BY <2>1, PutOne DEF PublishUpload, RowStep, Change, UploadChange
  <2>2. CASE FailUpload(x)
    BY <2>2, PutOne DEF FailUpload, RowStep, Change, UploadChange
  <2>3. CASE AbandonUpload(x)
    BY <2>3, <1>1 DEF AbandonUpload
  <2>4. CASE RepairUpload(x)
    BY <2>4, PutOne DEF RepairUpload, RowStep, Change, UploadChange
  <2>5. CASE InvalidateUpload(x)
    BY <2>5, PutOne DEF InvalidateUpload, RowStep, Change, UploadChange, apiVars
  <2>6. CASE SendTask(x)
    BY <2>6, <1>1 DEF SendTask
  <2>7. CASE SendTaskFailed(x)
    BY <2>7, PutOne DEF SendTaskFailed, RowStep, Change, RequestChange
  <2>8. CASE Reopen(x)
    BY <2>8, PutOne DEF Reopen, RowStep, Change, TypeOK
  <2>9. CASE Deactivate(x)
    BY <2>9, PutOne DEF Deactivate, RowStep, Change, RequestChange, apiVars
  <2>10. CASE Delete(x)
    BY <2>10, PutOne DEF Delete, RowStep, Change, RequestChange, apiVars
  <2> QED BY <1>3, <2>1, <2>2, <2>3, <2>4, <2>5, <2>6, <2>7, <2>8, <2>9, <2>10 DEF ApiStep
<1>4. ASSUME NEW x \in Sources, DropMessage(x) \/ DuplicateDelivery(x)
      PROVE  RowStep(s)
  BY <1>4, <1>1 DEF DropMessage, DuplicateDelivery, apiVars
<1>5. ASSUME NEW w \in Workers, NEW x \in Sources, Deliver(w, x)
      PROVE  RowStep(s)
  BY <1>5, <1>1, PutOne
     DEF Deliver, ClaimLease, ClaimExhausted, ClaimRefused, RowStep, Change, WorkerChange, apiVars
<1>6. ASSUME NEW w \in Workers, StartRenewal(w) \/ End(w) \/ AfterRetry(w)
      PROVE  RowStep(s)
  <2>1. CASE StartRenewal(w) \/ Abandon(w) \/ Crash(w) \/ AfterRetry(w)
    BY <2>1, <1>1 DEF StartRenewal, Abandon, Crash, AfterRetry, Republish, RepublishFailed, apiVars
  <2>2. ASSUME Holds(w)
        PROVE  /\ job[w].source \in Sources /\ HeldLease(w) \in Lease
               /\ Owned(row[job[w].source], HeldLease(w)) /\ HeldLease(w).epoch = job[w].epoch
    BY <2>2 DEF Holds, HeldLease, Lease, TypeOK, Job
  <2>3. ASSUME Holds(w), job' = [job EXCEPT ![w] = Idle]
        PROVE  job'[w] # job[w]
    BY <2>3 DEF Holds, TypeOK, Idle
  <2>4. CASE Publish(w)
    BY <2>4, <2>2, <2>3, PutOne DEF Publish, RowStep, Change, HolderEnds, Ended, apiVars
  <2>5. CASE FailPermanent(w)
    BY <2>5, <2>2, <2>3, PutOne DEF FailPermanent, RowStep, Change, HolderEnds, Ended, apiVars
  <2>6. CASE FailTransient(w)
    <3>1. job'[w] # job[w]
      BY <2>6 DEF FailTransient, Holds, TypeOK, Job, Idle
    <3> QED BY <2>6, <2>2, <3>1, PutOne
            DEF FailTransient, RowStep, Change, HolderEnds, Ended, apiVars
  <2> QED BY <1>6, <2>1, <2>4, <2>5, <2>6 DEF End
<1>7. ASSUME NEW l \in renewals, FinishRenewal(l)
      PROVE  RowStep(s)
  <2>1. l \in Lease /\ l.source \in Sources
    BY DEF TypeOK, Lease
  <2> QED BY <1>7, <2>1, PutOne DEF FinishRenewal, RowStep, Change, WorkerChange, apiVars
<1>8. ASSUME NEW n \in Scanners, ScannerStep(n)
      PROVE  RowStep(s)
  <2>1. CASE Select(n) \/ Dispatch(n) \/ RestartScanner(n)
    BY <2>1, <1>1 DEF Select, Dispatch, RestartScanner, apiVars
  <2>2. ASSUME NEW c \in scan[n], Handle(n, c)
        PROVE  RowStep(s)
    <3>1. c.source \in Sources
      BY DEF TypeOK, Snapshot
    <3>2. CASE ReserveSkip(n, c)
      BY <3>2, <1>1 DEF ReserveSkip, apiVars
    <3>3. CASE ReserveExhausted(n, c)
      <4>1. ~ BudgetLeft(row[c.source])
        BY <3>1, <3>3, BudgetAssumption DEF ReserveExhausted, BudgetLeft, TypeOK, Row
      <4> QED BY <3>3, <3>1, <4>1, PutOne
              DEF ReserveExhausted, RowStep, Change, ScannerChange, Matches, apiVars
    <3>4. CASE Reserve(n, c)
      <4> DEFINE t == CHOOSE t \in FreshTokens : TRUE
      <4>1. t \in FreshTokens
        BY <3>4 DEF Reserve
      <4>2. t \in Tokens /\ t # row[c.source].token
        BY <3>1, <4>1 DEF FreshTokens
      <4> QED BY <3>4, <4>2, <3>1, PutOne
              DEF Reserve, BudgetLeft, RowStep, Change, ScannerChange, Matches, apiVars
    <3> QED BY <2>2, <3>2, <3>3, <3>4 DEF Handle
  <2>3. CASE DispatchFailed(n)
    <3>1. resv[n] # NoReservation => resv[n].source \in Sources
      BY DEF TypeOK, Snapshot
    <3> QED BY <2>3, <3>1, <1>1, PutOne
        DEF DispatchFailed, StillReserved, RowStep, Change, ScannerChange, Matches, apiVars
  <2> QED BY <1>8, <2>1, <2>2, <2>3 DEF ScannerStep
<1> QED BY <1>1, <1>2, <1>3, <1>4, <1>5, <1>6, <1>7, <1>8 DEF Next, vars

-----------------------------------------------------------------------------
(* The invariant of one row                                                *)

\* k is the number of claims the earlier operator cycles could grant.
Budgeted(r, k)  == r.attempts <= MaxAttempts /\ r.epoch <= k + r.attempts
ResultKnown(r)  == r.result <= r.epoch
LeaseKept(r)    == /\ Active(r) /\ r.status \in {"queued", "succeeded", "failed"} =>
                          r.owner = NoOne /\ r.ttl = 0
                   /\ Active(r) /\ Live(r) => r.owner \in Workers
RetryClaimable(r) == Active(r) /\ r.status = "failed" /\ r.retry # NoRetry =>
                         r.error = "transient" /\ r.attempts < MaxAttempts /\ Available(r)
NotYetStored(r) == Active(r) /\ ~ Available(r) =>
                       r.status \in {"queued", "failed", "inactive"} /\ r.retry = NoRetry
ErrorCurrent(r) == r.dispatchErr \in {NoOne, r.token}

RowInv(r, k) == /\ Budgeted(r, k) /\ ResultKnown(r) /\ LeaseKept(r)
                /\ RetryClaimable(r) /\ NotYetStored(r) /\ ErrorCurrent(r)

\* Every listed change leaves a row.
LEMMA ChangeKeepsType ==
    ASSUME NEW r \in Row, NEW q, Change(r, q)
    PROVE  q \in Row
<1>1. CASE q = r \/ q = Ticked(r)
  BY <1>1, TickedType
<1>2. CASE UploadChange(r, q)
  <2>1. CASE q = [r EXCEPT !.artifact = "AVAILABLE"]
    BY <2>1, SetField DEF Artifact
  <2>2. ASSUME NEW code \in {"transient", "permanent"},
               q = UnlessInactive([r EXCEPT !.artifact = "FAILED"],
                                  [r EXCEPT !.artifact = "FAILED", !.status = "failed",
                                            !.error = code])
        PROVE  q \in Row
    <3> DEFINE a == [r EXCEPT !.artifact = "FAILED"]
               b == [a EXCEPT !.status = "failed"]
    <3>1. a \in Row
      BY SetField DEF Artifact
    <3>2. b \in Row
      BY <3>1, SetField DEF Status
    <3>3. [b EXCEPT !.error = code] \in Row
      BY <3>2, SetField DEF ErrorCode
    <3> QED BY <2>2, <3>1, <3>3 DEF UnlessInactive
  <2>3. ASSUME NEW stored, stored = [r EXCEPT !.artifact = "AVAILABLE", !.error = "none"],
               q = UnlessInactive(stored, [Requeued(Unleased(stored)) EXCEPT !.retry = NoRetry])
        PROVE  q \in Row
    <3>1. stored \in Row
      BY <2>3 DEF Row, Artifact, ErrorCode
    <3>2. Requeued(Unleased(stored)) \in Row
      BY <3>1, RequeuedType, UnleasedType
    <3>3. [Requeued(Unleased(stored)) EXCEPT !.retry = NoRetry] \in Row
      BY <3>2, SetField
    <3> QED BY <2>3, <3>1, <3>3 DEF UnlessInactive
  <2>4. ASSUME NEW gone, gone = [r EXCEPT !.artifact = "REMOVED", !.error = "permanent"],
               q = UnlessInactive(gone, [gone EXCEPT !.status = "failed"])
        PROVE  q \in Row
    <3>1. gone \in Row
      BY <2>4 DEF Row, Artifact, ErrorCode
    <3>2. [gone EXCEPT !.status = "failed"] \in Row
      BY <3>1, SetField DEF Status
    <3> QED BY <2>4, <3>1, <3>2 DEF UnlessInactive
  <2> QED BY <1>2, <2>1, <2>2, <2>3, <2>4 DEF UploadChange
<1>3. CASE RequestChange(r, q)
  BY <1>3, SetField, DeletedType DEF RequestChange, ErrorCode, Status
<1>4. CASE WorkerChange(r, q)
  <2>1. LeaseTime \in 0..LeaseTime
    BY TimingAssumption
  <2> QED BY ZenonT(60), <1>4, <2>1, SetField, ClaimedType, FailedRowType DEF WorkerChange, ErrorCode
<1>5. CASE ScannerChange(r, q)
  <2>1. r.token \in Tokens \cup {NoOne}
    BY DEF Row
  <2> QED BY ZenonT(60), <1>5, <2>1, SetField, FailedRowType, ReservedType DEF ScannerChange, ErrorCode
<1> QED BY <1>1, <1>2, <1>3, <1>4, <1>5 DEF Change

\* Every listed change keeps the row's invariant.
LEMMA ChangeKeepsRow ==
    ASSUME NEW r \in Row, NEW q, NEW k \in Nat, Change(r, q), RowInv(r, k)
    PROVE  RowInv(q, k)
<1> USE BudgetAssumption, TimingAssumption, ActorsAssumption
<1> USE DEF RowInv, Budgeted, ResultKnown, LeaseKept, RetryClaimable, NotYetStored, ErrorCurrent,
            Active, Available, Live
<1>1. CASE q = r
  BY <1>1
<1>2. CASE q = Ticked(r)
  BY <1>2 DEF Ticked, Down, Row, NoRetry
<1>3. CASE UploadChange(r, q)
  <2>1. CASE MayPublishUpload(r) /\ q = [r EXCEPT !.artifact = "AVAILABLE"]
    BY <2>1 DEF MayPublishUpload, Row
  <2>2. ASSUME Active(r), r.artifact = "PENDING", NEW code \in {"transient", "permanent"},
               q = UnlessInactive([r EXCEPT !.artifact = "FAILED"],
                                  [r EXCEPT !.artifact = "FAILED", !.status = "failed",
                                            !.error = code])
        PROVE  RowInv(q, k)
    <3>1. CASE r.status = "inactive"
      BY <2>2, <3>1 DEF UnlessInactive, Row
    <3>2. CASE r.status # "inactive"
      BY <2>2, <3>2 DEF UnlessInactive, Row
    <3> QED BY <3>1, <3>2
  <2>3. ASSUME Active(r), r.artifact = "PENDING", NEW stored,
               stored = [r EXCEPT !.artifact = "AVAILABLE", !.error = "none"],
               q = UnlessInactive(stored, [Requeued(Unleased(stored)) EXCEPT !.retry = NoRetry])
        PROVE  RowInv(q, k)
    <3>1. CASE r.status = "inactive"
      BY <2>3, <3>1 DEF UnlessInactive, Row
    <3>2. CASE r.status # "inactive"
      BY <2>3, <3>2 DEF UnlessInactive, Requeued, Unleased, Row
    <3> QED BY <3>1, <3>2
  <2>4. ASSUME Active(r), r.artifact = "PENDING", NEW gone,
               gone = [r EXCEPT !.artifact = "REMOVED", !.error = "permanent"],
               q = UnlessInactive(gone, [gone EXCEPT !.status = "failed"])
        PROVE  RowInv(q, k)
    <3>1. CASE r.status = "inactive"
      BY <2>4, <3>1 DEF UnlessInactive, Row
    <3>2. CASE r.status # "inactive"
      BY <2>4, <3>2 DEF UnlessInactive, Row
    <3> QED BY <3>1, <3>2
  <2> QED BY <1>3, <2>1, <2>2, <2>3, <2>4 DEF UploadChange
<1>4. CASE RequestChange(r, q)
  <2>1. CASE Active(r) /\ r.status = "queued" /\ q = [r EXCEPT !.error = "dispatch"]
    BY <2>1 DEF Row
  <2>2. CASE Active(r) /\ q = [r EXCEPT !.status = "inactive"]
    BY <2>2 DEF Row
  <2>3. CASE Active(r) /\ q = Deleted(r)
    BY <2>3 DEF Deleted, Row
  <2> QED BY <1>4, <2>1, <2>2, <2>3 DEF RequestChange
<1>5. CASE WorkerChange(r, q)
  <2>1. CASE \E w \in Workers : Claimable(r) /\ BudgetLeft(r) /\ q = Claimed(r, w)
    BY <2>1 DEF Claimable, BudgetLeft, Claimed, Row
  <2>2. CASE Claimable(r) /\ q = FailedRow(r, "exhausted")
    BY <2>2 DEF Claimable, FailedRow, Unleased, Row
  <2>3. ASSUME NEW l \in Lease, Owned(r, l), q = [r EXCEPT !.ttl = LeaseTime]
        PROVE  RowInv(q, k)
    BY <2>3 DEF Owned, Row
  <2> QED BY <1>5, <2>1, <2>2, <2>3 DEF WorkerChange
<1>6. CASE ScannerChange(r, q)
  <2>1. CASE Active(r) /\ Available(r) /\ q = FailedRow(r, "exhausted")
    BY <2>1 DEF FailedRow, Unleased, Row
  <2>2. CASE /\ Active(r) /\ Available(r) /\ r.attempts < MaxAttempts
             /\ \E t \in Tokens : q = Reserved(r, t)
    BY <2>2 DEF Reserved, Requeued, Unleased, Row
  <2>3. CASE r.status = "queued" /\ q = [r EXCEPT !.dispatchErr = r.token]
    BY <2>3 DEF Row
  <2> QED BY <1>6, <2>1, <2>2, <2>3 DEF ScannerChange, BudgetLeft
<1> QED BY <1>1, <1>2, <1>3, <1>4, <1>5, <1>6 DEF Change

\* The holder's conclusion keeps it, too.
LEMMA EndKeepsRow ==
    ASSUME NEW r \in Row, NEW q, NEW k \in Nat, NEW l \in Lease, Ended(r, q, l), RowInv(r, k)
    PROVE  q \in Row /\ RowInv(q, k)
<1> USE BudgetAssumption, TimingAssumption, ActorsAssumption
<1> USE DEF RowInv, Budgeted, ResultKnown, LeaseKept, RetryClaimable, NotYetStored, ErrorCurrent,
            Active, Available, Live
<1>1. q \in Row
  <2>1. l.epoch \in Nat
    BY DEF Lease
  <2> QED BY <2>1, PublishedType, FailedRowType, RetryScheduledType DEF Ended, ErrorCode
<1>2. ASSUME q = Published(r, l.epoch) PROVE RowInv(q, k)
  BY <1>2 DEF Ended, Owned, Published, Unleased, Row
<1>3. ASSUME q = FailedRow(r, "permanent") PROVE RowInv(q, k)
  BY <1>3 DEF Ended, Owned, FailedRow, Unleased, Row
<1>4. ASSUME q = RetryScheduled(r) PROVE RowInv(q, k)
  BY <1>4 DEF Ended, Owned, RetryScheduled, FailedRow, Requeued, RetriesShort, Unleased, Row
<1> QED BY <1>1, <1>2, <1>3, <1>4 DEF Ended

\* A new operator cycle keeps it, with one more budget to draw on.
LEMMA ReopenKeepsRow ==
    ASSUME NEW r \in Row, NEW s \in Sources, NEW k \in Nat, MayReopen(s, r), RowInv(r, k)
    PROVE  Reopened(r) \in Row /\ RowInv(Reopened(r), k + MaxAttempts)
<1> DEFINE q == Reopened(r)
<1>1. /\ q.status = "queued" /\ q.attempts = 0 /\ q.epoch = r.epoch /\ q.result = r.result
      /\ q.owner = NoOne /\ q.ttl = 0 /\ q.artifact = r.artifact
      /\ q.token = r.token /\ q.dispatchErr = r.dispatchErr
  BY DEF Reopened, Requeued, Unleased, Row
<1>2. r.artifact = "AVAILABLE" /\ r.attempts \in Nat /\ r.epoch \in Nat
  BY DEF MayReopen, Available, Row
<1> HIDE DEF q
<1>3. RowInv(q, k + MaxAttempts)
  BY <1>1, <1>2, BudgetAssumption
     DEF RowInv, Budgeted, ResultKnown, LeaseKept, RetryClaimable, NotYetStored, ErrorCurrent,
         Active, Available, Live
<1> QED BY <1>3, ReopenedType DEF q

-----------------------------------------------------------------------------
(* The invariant                                                           *)

Earlier(s) == MaxAttempts * reopens[s]

Inv == TypeOK /\ \A s \in Sources : RowInv(row[s], Earlier(s))

\* Rows just uploaded or migrated satisfy the invariant.
LEMMA InitInv == Init => Inv
<1> SUFFICES ASSUME Init PROVE Inv
  OBVIOUS
<1>1. Uploaded \in Row /\ Legacy \in Row
  <2>1. Uploaded \in Row
    BY TimingAssumption DEF Uploaded, Row, Status, Artifact, ErrorCode
  <2>2. [Uploaded EXCEPT !.status = "running"] \in Row
    BY <2>1, SetField DEF Status
  <2>3. [[Uploaded EXCEPT !.status = "running"] EXCEPT !.artifact = "AVAILABLE"] \in Row
    BY <2>2, SetField DEF Artifact
  <2> QED BY <2>1, <2>3 DEF Legacy
<1>2. RowInv(Uploaded, 0) /\ RowInv(Legacy, 0)
  BY BudgetAssumption
     DEF Uploaded, Legacy, RowInv, Budgeted, ResultKnown, LeaseKept, RetryClaimable,
         NotYetStored, ErrorCurrent, Active, Available, Live
<1>3. \A s \in Sources : row[s] \in Row /\ RowInv(row[s], 0)
  BY <1>1, <1>2 DEF Init
<1>4. \A s \in Sources : Earlier(s) = 0
  <2>1. MaxAttempts * 0 = 0
    BY BudgetAssumption
  <2> QED BY <2>1 DEF Init, Earlier
<1>5. TypeOK
  <2>1. row \in [Sources -> Row] /\ \A s \in Sources : row[s].attempts <= MaxAttempts
    BY <1>1, <1>3 DEF Init, RowInv, Budgeted
  <2>2. Idle \in Job /\ Idle.phase = "idle"
    BY DEF Idle, Job
  <2> QED BY <2>1, <2>2, BoundsAssumption DEF Init, TypeOK
<1> QED BY <1>3, <1>4, <1>5 DEF Inv

\* Publishing and consuming a message respect the bound on messages.
LEMMA SendType ==
    ASSUME TypeOK, NEW s \in Sources
    PROVE  /\ Send(s) => msgs' \in [Sources -> 0..MaxMessages]
           /\ Consume(s) => msgs' \in [Sources -> 0..MaxMessages]
BY BoundsAssumption DEF Send, Consume, TypeOK

\* row keeps its domain.
LEMMA RowIsFunction ==
    ASSUME TypeOK, [Next]_vars
    PROVE  row' = [s \in Sources |-> row'[s]]
<1>1. CASE row' = row \/ row' = [s \in Sources |-> Ticked(row[s])]
  BY <1>1 DEF TypeOK
<1>2. ASSUME NEW s, NEW q, Put(s, q)
      PROVE  row' = [x \in Sources |-> row'[x]]
  BY <1>2 DEF Put, TypeOK
<1>3. ASSUME NEW s \in Sources, ApiStep(s)
      PROVE  row' = [x \in Sources |-> row'[x]]
  BY <1>3, <1>1, <1>2
     DEF ApiStep, PublishUpload, FailUpload, AbandonUpload, RepairUpload, InvalidateUpload,
         SendTask, SendTaskFailed, Reopen, Deactivate, Delete
<1>4. ASSUME NEW w \in Workers, NEW s \in Sources, Deliver(w, s)
      PROVE  row' = [x \in Sources |-> row'[x]]
  BY <1>4, <1>1, <1>2 DEF Deliver, ClaimLease, ClaimExhausted, ClaimRefused
<1>5. ASSUME NEW w \in Workers, StartRenewal(w) \/ End(w) \/ AfterRetry(w)
      PROVE  row' = [x \in Sources |-> row'[x]]
  BY <1>5, <1>1, <1>2
     DEF StartRenewal, End, AfterRetry, Publish, FailPermanent, FailTransient, Abandon, Crash,
         Republish, RepublishFailed
<1>6. ASSUME NEW n \in Scanners, ScannerStep(n)
      PROVE  row' = [x \in Sources |-> row'[x]]
  BY <1>6, <1>1, <1>2
     DEF ScannerStep, Select, Handle, ReserveSkip, ReserveExhausted, Reserve, Dispatch,
         DispatchFailed, RestartScanner
<1> QED BY <1>1, <1>2, <1>3, <1>4, <1>5, <1>6
        DEF Next, vars, Tick, DropMessage, DuplicateDelivery, FinishRenewal

\* The variables beside row keep their types.
OtherTypes == /\ reopens \in [Sources -> 0..MaxReopens]
              /\ uploading \in [Sources -> BOOLEAN]
              /\ sending \in [Sources -> BOOLEAN]
              /\ msgs \in [Sources -> 0..MaxMessages]
              /\ job \in [Workers -> Job]
              /\ \A w \in Workers : job[w].phase # "idle" => job[w].source \in Sources
              /\ renewals \subseteq Lease
              /\ scan \in [Scanners -> SUBSET Snapshot]
              /\ resv \in [Scanners -> Snapshot \cup {NoReservation}]

\* What a scanner notes of a row is a snapshot.
LEMMA SnapshotType ==
    ASSUME NEW s \in Sources, NEW r \in Row
    PROVE  SnapshotOf(s, r) \in Snapshot
BY DEF SnapshotOf, Snapshot, Row

\* Every step keeps the types of the variables beside row.
LEMMA OtherTypesStep ==
    ASSUME TypeOK, [Next]_vars
    PROVE  OtherTypes'
<1> USE DEF OtherTypes
<1>1. OtherTypes
  BY DEF TypeOK
<1>2. CASE UNCHANGED vars
  BY <1>1, <1>2 DEF vars
<1>3. CASE Tick
  BY <1>1, <1>3 DEF Tick, apiVars, workerVars, scannerVars
<1>4. ASSUME NEW s \in Sources, ApiStep(s)
      PROVE  OtherTypes'
  <2>1. CASE \/ PublishUpload(s) \/ FailUpload(s) \/ AbandonUpload(s) \/ RepairUpload(s)
            \/ InvalidateUpload(s) \/ SendTaskFailed(s) \/ Deactivate(s) \/ Delete(s)
    BY <1>1, <2>1 DEF PublishUpload, FailUpload, AbandonUpload, RepairUpload, InvalidateUpload,
                  SendTaskFailed, Deactivate, Delete, apiVars, workerVars, scannerVars
  <2>2. CASE SendTask(s)
    BY <1>1, <2>2, SendType DEF SendTask, workerVars, scannerVars
  <2>3. CASE Reopen(s)
    BY <1>1, <2>3, BoundsAssumption DEF Reopen, workerVars, scannerVars
  <2> QED BY <1>4, <2>1, <2>2, <2>3 DEF ApiStep
<1>5. ASSUME NEW s \in Sources, DropMessage(s) \/ DuplicateDelivery(s)
      PROVE  OtherTypes'
  BY <1>1, <1>5, SendType
     DEF DropMessage, DuplicateDelivery, apiVars, workerVars, scannerVars
<1>6. ASSUME NEW w \in Workers, NEW s \in Sources, Deliver(w, s)
      PROVE  OtherTypes'
  <2>1. CASE ClaimLease(w, s)
    <3>1. [source |-> s, epoch |-> row[s].epoch + 1, phase |-> "working"] \in Job
      BY DEF TypeOK, Row, Job
    <3> QED BY <1>1, <2>1, <3>1, SendType DEF ClaimLease, apiVars, scannerVars
  <2>2. CASE ClaimExhausted(w, s) \/ ClaimRefused(w, s)
    BY <1>1, <2>2, SendType DEF ClaimExhausted, ClaimRefused, apiVars, workerVars, scannerVars
  <2> QED BY <1>6, <2>1, <2>2 DEF Deliver
<1>7. ASSUME NEW w \in Workers, StartRenewal(w) \/ End(w) \/ AfterRetry(w)
      PROVE  OtherTypes'
  <2>1. Idle \in Job /\ Idle.phase = "idle"
    BY DEF Idle, Job
  <2>2. CASE StartRenewal(w)
    <3>1. HeldLease(w) \in Lease
      BY <1>1, <2>2 DEF StartRenewal, HeldLease, Lease, Job
    <3> QED BY <1>1, <2>2, <3>1 DEF StartRenewal, apiVars, scannerVars
  <2>3. CASE Publish(w) \/ FailPermanent(w) \/ Abandon(w) \/ RepublishFailed(w)
    BY <1>1, <2>1, <2>3
       DEF Publish, FailPermanent, Abandon, RepublishFailed, apiVars, scannerVars
  <2>4. CASE FailTransient(w)
    <3>1. [job[w] EXCEPT !.phase = "retry"] \in Job /\ job[w].source \in Sources
      BY <1>1, <2>4 DEF FailTransient, Holds, Job
    <3>2. [job[w] EXCEPT !.phase = "retry"].source = job[w].source
      BY <1>1 DEF Job
    <3> QED BY <1>1, <2>1, <2>4, <3>1, <3>2 DEF FailTransient, apiVars, scannerVars
  <2>5. CASE Crash(w) \/ Republish(w)
    BY <1>1, <2>1, <2>5, SendType DEF Crash, Republish, apiVars, scannerVars
  <2> QED BY <1>7, <2>2, <2>3, <2>4, <2>5 DEF End, AfterRetry
<1>8. ASSUME NEW l \in renewals, FinishRenewal(l)
      PROVE  OtherTypes'
  BY <1>1, <1>8 DEF FinishRenewal, apiVars, scannerVars
<1>9. ASSUME NEW n \in Scanners, ScannerStep(n)
      PROVE  OtherTypes'
  <2>1. CASE Select(n)
    <3>1. {SnapshotOf(s, row[s]) : s \in Candidates} \subseteq Snapshot
      BY SnapshotType DEF TypeOK, Candidates
    <3> QED BY <1>1, <2>1, <3>1 DEF Select, apiVars, workerVars
  <2>2. ASSUME NEW c \in scan[n], Handle(n, c)
        PROVE  OtherTypes'
    <3>1. CASE ReserveSkip(n, c) \/ ReserveExhausted(n, c)
      BY <1>1, <3>1 DEF ReserveSkip, ReserveExhausted, Takes, apiVars, workerVars
    <3>2. CASE Reserve(n, c)
      <4> DEFINE t == CHOOSE t \in FreshTokens : TRUE
                 q == Reserved(row[c.source], t)
      <4>1. c.source \in Sources /\ row[c.source] \in Row
        BY DEF TypeOK, Snapshot
      <4>2. t \in Tokens
        BY <3>2 DEF Reserve, FreshTokens
      <4>3. SnapshotOf(c.source, q) \in Snapshot
        BY <4>1, <4>2, ReservedType, SnapshotType
      <4>4. resv' = [resv EXCEPT ![n] = SnapshotOf(c.source, q)]
        BY <3>2 DEF Reserve
      <4> HIDE DEF q
      <4> QED BY <1>1, <3>2, <4>3, <4>4 DEF Reserve, Takes, apiVars, workerVars
    <3> QED BY <2>2, <3>1, <3>2 DEF Handle
  <2>3. CASE Dispatch(n)
    <3>1. resv[n].source \in Sources
      BY <2>3 DEF Dispatch, TypeOK, Snapshot
    <3> QED BY <1>1, <2>3, <3>1, SendType DEF Dispatch, apiVars, workerVars
  <2>4. CASE DispatchFailed(n) \/ RestartScanner(n)
    BY <1>1, <2>4 DEF DispatchFailed, RestartScanner, apiVars, workerVars
  <2> QED BY <1>9, <2>1, <2>2, <2>3, <2>4 DEF ScannerStep
<1> QED BY <1>2, <1>3, <1>4, <1>5, <1>6, <1>7, <1>8, <1>9 DEF Next

\* What a step makes of one row keeps the row's invariant.
LEMMA RowInvStep ==
    ASSUME Inv, [Next]_vars, NEW s \in Sources
    PROVE  row'[s] \in Row /\ RowInv(row'[s], Earlier(s)')
<1>1. row[s] \in Row /\ RowInv(row[s], Earlier(s)) /\ reopens[s] \in Nat /\ Earlier(s) \in Nat
  BY BudgetAssumption DEF Inv, TypeOK, Earlier
<1>2. RowStep(s)
  BY RowChanges DEF Inv
<1>3. CASE Change(row[s], row'[s]) /\ reopens'[s] = reopens[s]
  <2>1. Earlier(s)' = Earlier(s)
    BY <1>3 DEF Earlier
  <2> QED BY <1>1, <1>3, <2>1, ChangeKeepsType, ChangeKeepsRow
<1>4. CASE HolderEnds(s) /\ reopens'[s] = reopens[s]
  <2>1. Earlier(s)' = Earlier(s)
    BY <1>4 DEF Earlier
  <2> QED BY <1>1, <1>4, <2>1, EndKeepsRow DEF HolderEnds
<1>5. CASE MayReopen(s, row[s]) /\ row'[s] = Reopened(row[s]) /\ reopens'[s] = reopens[s] + 1
  <2>1. MaxAttempts * (reopens[s] + 1) = MaxAttempts * reopens[s] + MaxAttempts
    BY <1>1, BudgetAssumption
  <2>2. Earlier(s)' = Earlier(s) + MaxAttempts
    BY <1>5, <2>1 DEF Earlier
  <2> QED BY <1>1, <1>5, <2>2, ReopenKeepsRow
<1> QED BY <1>2, <1>3, <1>4, <1>5 DEF RowStep

\* The invariant is inductive.
LEMMA InvStep == Inv /\ [Next]_vars => Inv'
<1> SUFFICES ASSUME Inv, [Next]_vars PROVE Inv'
  OBVIOUS
<1>1. \A s \in Sources : row'[s] \in Row /\ RowInv(row'[s], Earlier(s)')
  BY RowInvStep
<1>2. row' \in [Sources -> Row]
  BY <1>1, RowIsFunction DEF Inv
<1>3. \A s \in Sources : row'[s].attempts <= MaxAttempts
  BY <1>1 DEF RowInv, Budgeted
<1>4. OtherTypes'
  BY OtherTypesStep DEF Inv
<1> QED BY <1>1, <1>2, <1>3, <1>4 DEF Inv, TypeOK, OtherTypes

\* The invariant holds in every reachable state.
LEMMA InvHolds == Spec => []Inv
BY InitInv, InvStep, PTL DEF Spec

-----------------------------------------------------------------------------
(* Theorems: state predicates                                              *)

\* Every variable keeps its type, attempts stay within the budget.
THEOREM TypeCorrect == Spec => []TypeOK
BY InvHolds, PTL DEF Inv

\* No schedule of crashes, duplicates, expiries and scans has a row claimed more than
\* MaxAttempts times per operator cycle.
THEOREM BudgetIsKept == Spec => []EpochWithinBudget
<1>1. Inv => EpochWithinBudget
  <2> SUFFICES ASSUME Inv, NEW s \in Sources
               PROVE  row[s].epoch <= MaxAttempts * (reopens[s] + 1)
    BY DEF EpochWithinBudget
  <2>1. /\ row[s].epoch \in Nat /\ row[s].attempts \in Nat /\ reopens[s] \in Nat
        /\ row[s].attempts <= MaxAttempts
        /\ row[s].epoch <= MaxAttempts * reopens[s] + row[s].attempts
    BY DEF Inv, TypeOK, Row, RowInv, Budgeted, Earlier
  <2>2. MaxAttempts * (reopens[s] + 1) = MaxAttempts * reopens[s] + MaxAttempts
    BY <2>1, BudgetAssumption
  <2>3. MaxAttempts * reopens[s] \in Nat
    BY <2>1, BudgetAssumption
  <2> QED BY <2>1, <2>2, <2>3, BudgetAssumption
<1> QED BY <1>1, InvHolds, PTL

\* A FAILED row that waits for a retry can be retried.
THEOREM RetriesAreClaimable == Spec => []ScheduledRetryIsClaimable
<1>1. Inv => ScheduledRetryIsClaimable
  BY DEF Inv, RowInv, RetryClaimable, ScheduledRetryIsClaimable
<1> QED BY <1>1, InvHolds, PTL

\* Whoever ends an attempt clears its lease.
THEOREM LeasesEndWithRunning == Spec => []LeaseOnlyWhileRunning
<1>1. Inv => LeaseOnlyWhileRunning
  BY DEF Inv, RowInv, LeaseKept, LeaseOnlyWhileRunning
<1> QED BY <1>1, InvHolds, PTL

-----------------------------------------------------------------------------
(* Theorems: what a step may never do                                      *)

\* No change but a publication or a deletion touches the stored result.
LEMMA ChangeKeepsResult ==
    ASSUME NEW r \in Row, NEW q, Change(r, q)
    PROVE  q.result >= r.result \/ ~ Active(q)
<1>1. r.result \in Nat
  BY DEF Row
<1>2. CASE q = r \/ q = Ticked(r)
  <2>1. q.result = r.result
    BY <1>2 DEF Ticked, Row
  <2> QED BY <1>1, <2>1
<1>3. CASE UploadChange(r, q)
  <2>1. q.result = r.result
    BY <1>3 DEF UploadChange, UnlessInactive, Requeued, Unleased, Row
  <2> QED BY <1>1, <2>1
<1>4. CASE RequestChange(r, q)
  <2>1. q.result = r.result \/ q.lifecycle = "deleted"
    BY <1>4 DEF RequestChange, Deleted, Row
  <2> QED BY <1>1, <2>1 DEF Active
<1>5. CASE WorkerChange(r, q)
  <2>1. q.result = r.result
    BY <1>5 DEF WorkerChange, Claimed, FailedRow, Unleased, Row
  <2> QED BY <1>1, <2>1
<1>6. CASE ScannerChange(r, q)
  <2>1. q.result = r.result
    BY <1>6 DEF ScannerChange, FailedRow, Reserved, Requeued, Unleased, Row
  <2> QED BY <1>1, <2>1
<1> QED BY <1>2, <1>3, <1>4, <1>5, <1>6 DEF Change

\* A publication stores the epoch of the lease in force, the latest there is.
LEMMA EndKeepsResult ==
    ASSUME NEW r \in Row, NEW q, NEW l \in Lease, Ended(r, q, l), ResultKnown(r)
    PROVE  q.result >= r.result
<1>1. CASE q = Published(r, l.epoch)
  BY <1>1 DEF Ended, Owned, Published, Unleased, Row, ResultKnown
<1>2. CASE q = FailedRow(r, "permanent")
  BY <1>2 DEF FailedRow, Unleased, Row
<1>3. CASE q = RetryScheduled(r)
  BY <1>3 DEF RetryScheduled, FailedRow, Requeued, Unleased, Row
<1> QED BY <1>1, <1>2, <1>3 DEF Ended

\* An overtaken worker never overwrites the data of its successor.
THEOREM NewerResultsStay == Spec => ResultsNeverRegress
<1>1. ASSUME Inv, [Next]_vars, NEW s \in Sources
      PROVE  row'[s].result >= row[s].result \/ ~ Active(row'[s])
  <2>1. row[s] \in Row /\ ResultKnown(row[s])
    BY <1>1 DEF Inv, TypeOK, RowInv
  <2>2. ASSUME row'[s] = Reopened(row[s]) PROVE row'[s].result >= row[s].result
    <3>1. Reopened(row[s]).result = row[s].result /\ row[s].result \in Nat
      BY <2>1 DEF Reopened, Requeued, Unleased, Row
    <3> QED BY <2>2, <3>1
  <2>3. RowStep(s)
    BY <1>1, RowChanges DEF Inv
  <2>4. ASSUME Change(row[s], row'[s])
        PROVE  row'[s].result >= row[s].result \/ ~ Active(row'[s])
    BY <2>1, <2>4, ChangeKeepsResult
  <2>5. ASSUME HolderEnds(s) PROVE row'[s].result >= row[s].result
    BY <2>1, <2>5, EndKeepsResult DEF HolderEnds
  <2> QED BY <2>2, <2>3, <2>4, <2>5 DEF RowStep
<1>2. Inv /\ [Next]_vars => \A s \in Sources : row'[s].result >= row[s].result \/ ~ Active(row'[s])
  BY <1>1
<1> QED BY <1>2, InvHolds, PTL DEF Spec, ResultsNeverRegress

\* The passing of time changes timers only.
LEMMA TickIsTimers ==
    ASSUME NEW r \in Row, NEW q, q = r \/ q = Ticked(r)
    PROVE  OnlyTimers(r, q)
BY DEF OnlyTimers, Ticked, Row

\* Nothing is written to a deleted row again.
THEOREM DeletionIsFinal == Spec => DeletedStaysErased
<1>1. ASSUME Inv, [Next]_vars, NEW s \in Sources, ~ Active(row[s])
      PROVE  row'[s] = row[s] \/ row'[s] = Ticked(row[s])
  <2>1. RowStep(s)
    BY <1>1, RowChanges DEF Inv
  <2> QED BY <1>1, <2>1
          DEF RowStep, Change, HolderEnds, Ended, UploadChange, RequestChange, WorkerChange,
              ScannerChange, MayPublishUpload, MayReopen, Claimable, Owned
<1>2. ASSUME Inv, [Next]_vars, NEW s \in Sources, ~ Active(row[s])
      PROVE  OnlyTimers(row[s], row'[s])
  <2>1. row[s] \in Row
    BY <1>2 DEF Inv, TypeOK
  <2> QED BY <1>1, <1>2, <2>1, TickIsTimers
<1>3. Inv /\ [Next]_vars => \A s \in Sources : ~ Active(row[s]) => OnlyTimers(row[s], row'[s])
  BY <1>2
<1> QED BY <1>3, InvHolds, PTL DEF Spec, DeletedStaysErased

\* A live lease is disturbed by its holder, an operator or a deletion only.
THEOREM LiveLeaseIsUndisturbed == Spec => LiveLeaseUndisturbed
<1> DEFINE Step(s) ==
              \/ OnlyTimers(row[s], row'[s])
              \/ \E w \in Workers : /\ row[s].owner = w
                                    /\ job[w].source = s /\ job[w].epoch = row[s].epoch
                                    /\ job'[w] # job[w]
              \/ reopens'[s] > reopens[s]
              \/ row'[s].status = "inactive"
              \/ ~ Active(row'[s])
<1>1. Inv /\ [Next]_vars => \A s \in Sources : Active(row[s]) /\ Live(row[s]) => Step(s)
  <2> SUFFICES ASSUME Inv, [Next]_vars, NEW s \in Sources, Active(row[s]), Live(row[s])
               PROVE  Step(s)
    OBVIOUS
  <2> DEFINE r == row[s]
             q == row'[s]
  <2>1. /\ r \in Row /\ r.status = "running" /\ r.ttl > 0
        /\ Available(r) /\ reopens[s] \in Nat
    BY DEF Inv, TypeOK, RowInv, NotYetStored, Live
  <2>2. CASE q = r \/ q = Ticked(r)
    BY <2>1, <2>2, TickIsTimers
  <2>3. CASE UploadChange(r, q)
    BY <2>1, <2>3 DEF UploadChange, Available, OnlyTimers, Row
  <2>4. CASE RequestChange(r, q)
    BY <2>1, <2>4 DEF RequestChange, Deleted, Active, Row
  <2>5. CASE WorkerChange(r, q)
    BY <2>1, <2>5 DEF WorkerChange, Claimable, Live, OnlyTimers, Row
  <2>6. CASE ScannerChange(r, q)
    BY <2>1, <2>6 DEF ScannerChange, Reservable, ForgottenInQueue, LeaseExpired, RetryLane
  <2>7. CASE HolderEnds(s)
    BY <2>7 DEF HolderEnds, Ended, Owned, HeldLease
  <2>8. CASE reopens'[s] = reopens[s] + 1
    BY <2>1, <2>8
  <2> QED BY <2>2, <2>3, <2>4, <2>5, <2>6, <2>7, <2>8, RowChanges DEF Inv, RowStep, Change
<1> QED BY <1>1, InvHolds, PTL DEF Spec, LiveLeaseUndisturbed

\* Both rows bear the same reservation, and the same failure of one.
SameTag(q, r) == q.token = r.token /\ q.dispatchErr = r.dispatchErr

\* Whatever writes a row keeps these, but for a reservation and the failure of its dispatch.
LEMMA UpdatesKeepTag ==
    ASSUME NEW r \in Row
    PROVE  /\ SameTag(Unleased(r), r) /\ SameTag(Requeued(r), r)
           /\ \A w \in Workers : SameTag(Claimed(r, w), r)
           /\ \A code \in ErrorCode : SameTag(FailedRow(r, code), r)
           /\ \A epoch \in Nat : SameTag(Published(r, epoch), r)
           /\ SameTag(RetryScheduled(r), r) /\ SameTag(Reopened(r), r)
           /\ SameTag(Deleted(r), r) /\ SameTag(Ticked(r), r)
<1>1. \A epoch \in Nat : SameTag(Published(r, epoch), r)
  BY DEF SameTag, Published, Unleased, Row
<1>2. SameTag(RetryScheduled(r), r) /\ \A code \in ErrorCode : SameTag(FailedRow(r, code), r)
  BY DEF SameTag, RetryScheduled, FailedRow, Requeued, Unleased, Row
<1>3. SameTag(Unleased(r), r) /\ SameTag(Requeued(r), r) /\ SameTag(Reopened(r), r)
  BY DEF SameTag, Reopened, Requeued, Unleased, Row
<1>4. /\ \A w \in Workers : SameTag(Claimed(r, w), r)
      /\ SameTag(Deleted(r), r) /\ SameTag(Ticked(r), r)
  BY DEF SameTag, Claimed, Deleted, Ticked, Row
<1> QED BY <1>1, <1>2, <1>3, <1>4

\* n records that the dispatch of its reservation of s failed.
RecordsFailure(n, s) == /\ DispatchFailed(n)
                        /\ resv[n].source = s /\ StillReserved(row[s], resv[n])
                        /\ row'[s] = [row[s] EXCEPT !.dispatchErr = resv[n].token]

\* No step but these two changes them.
LEMMA TagChanges ==
    ASSUME TypeOK, [Next]_vars, NEW s \in Sources, ~ SameTag(row'[s], row[s])
    PROVE  \E n \in Scanners : \/ \E c \in scan[n] : Reserve(n, c) /\ c.source = s
                              \/ RecordsFailure(n, s)
<1>1. \A x \in Sources : row[x] \in Row
  BY DEF TypeOK
<1>2. ~ UNCHANGED row
  BY DEF SameTag
<1>3. ~ Tick
  BY <1>1, UpdatesKeepTag DEF Tick
<1>4. ASSUME NEW x \in Sources, NEW q, Put(x, q), SameTag(q, row[x])
      PROVE  FALSE
  <2>1. row'[x] = q /\ \A y \in Sources : y # x => row'[y] = row[y]
    BY <1>4, PutOne
  <2> QED BY <1>4, <2>1 DEF SameTag
<1>5. ASSUME NEW x \in Sources, ApiStep(x)
      PROVE  FALSE
  <2> DEFINE r == row[x]
  <2>1. CASE PublishUpload(x)
    BY <1>1, <1>4, <2>1 DEF SameTag, PublishUpload, Row
  <2>2. CASE FailUpload(x)
    BY <1>1, <1>4, <2>2 DEF SameTag, FailUpload, UnlessInactive, Row
  <2>3. CASE RepairUpload(x)
    <3> DEFINE stored == [r EXCEPT !.artifact = "AVAILABLE", !.error = "none"]
               queued == Requeued(Unleased(stored))
    <3>0. stored \in Row
      BY ZenonT(60), <1>1 DEF Row, Artifact, ErrorCode
    <3>1. SameTag(stored, r)
      BY <1>1 DEF SameTag, Row
    <3> HIDE DEF stored
    <3>2. SameTag(queued, stored) /\ queued \in Row
      <4>1. Unleased(stored) \in Row /\ SameTag(Unleased(stored), stored)
        BY <3>0, UpdatesKeepTag, UnleasedType
      <4>2. queued \in Row /\ SameTag(queued, Unleased(stored))
        BY <4>1, UpdatesKeepTag, RequeuedType
      <4> QED BY <4>1, <4>2 DEF SameTag
    <3>3. SameTag([queued EXCEPT !.retry = NoRetry], queued)
      BY <3>2 DEF SameTag, Row
    <3> HIDE DEF queued
    <3>4. SameTag(UnlessInactive(stored, [queued EXCEPT !.retry = NoRetry]), r)
      BY <3>1, <3>2, <3>3 DEF UnlessInactive, SameTag
    <3> QED BY <1>4, <2>3, <3>4 DEF RepairUpload, queued, stored
  <2>4. CASE InvalidateUpload(x)
    BY <1>1, <1>4, <2>4 DEF SameTag, InvalidateUpload, UnlessInactive, Row
  <2>5. CASE SendTaskFailed(x)
    BY <1>1, <1>2, <1>4, <2>5 DEF SameTag, SendTaskFailed, Row
  <2>6. CASE Reopen(x)
    BY <1>1, <1>4, <2>6, UpdatesKeepTag DEF Reopen
  <2>7. CASE Deactivate(x)
    BY <1>1, <1>4, <2>7 DEF SameTag, Deactivate, Row
  <2>8. CASE Delete(x)
    BY <1>1, <1>4, <2>8, UpdatesKeepTag DEF Delete
  <2> QED BY <1>2, <1>5, <2>1, <2>2, <2>3, <2>4, <2>5, <2>6, <2>7, <2>8
          DEF ApiStep, AbandonUpload, SendTask
<1>6. ASSUME NEW w \in Workers, NEW x \in Sources, Deliver(w, x)
      PROVE  FALSE
  BY <1>1, <1>2, <1>4, <1>6, UpdatesKeepTag
     DEF Deliver, ClaimLease, ClaimExhausted, ClaimRefused, ErrorCode
<1>7. ASSUME NEW w \in Workers, StartRenewal(w) \/ End(w) \/ AfterRetry(w)
      PROVE  FALSE
  <2>1. Holds(w) => job[w].source \in Sources /\ job[w].epoch \in Nat
    BY DEF Holds, TypeOK, Job
  <2> QED BY <1>1, <1>2, <1>4, <1>7, <2>1, UpdatesKeepTag
          DEF StartRenewal, End, AfterRetry, Publish, FailPermanent, FailTransient, Abandon,
              Crash, Republish, RepublishFailed, ErrorCode
<1>8. ASSUME NEW l \in renewals, FinishRenewal(l)
      PROVE  FALSE
  <2>1. l.source \in Sources
    BY DEF TypeOK, Lease
  <2> QED BY <1>1, <1>4, <1>8, <2>1 DEF SameTag, FinishRenewal, Row
<1>9. ASSUME NEW n \in Scanners, ScannerStep(n)
      PROVE  (\E c \in scan[n] : Reserve(n, c) /\ c.source = s) \/ RecordsFailure(n, s)
  <2>1. ~ (Select(n) \/ Dispatch(n) \/ RestartScanner(n))
    BY <1>2 DEF Select, Dispatch, RestartScanner
  <2>2. ASSUME NEW c \in scan[n], Handle(n, c)
        PROVE  Reserve(n, c) /\ c.source = s
    <3>1. c.source \in Sources
      BY DEF TypeOK, Snapshot
    <3>2. ~ ReserveSkip(n, c)
      BY <1>2 DEF ReserveSkip
    <3>3. ~ ReserveExhausted(n, c)
      BY <1>1, <1>4, <3>1, UpdatesKeepTag DEF ReserveExhausted, ErrorCode
    <3>4. Reserve(n, c)
      BY <2>2, <3>2, <3>3 DEF Handle
    <3> QED BY <3>1, <3>4, PutOne DEF Reserve, SameTag
  <2>3. ASSUME DispatchFailed(n) PROVE RecordsFailure(n, s)
    <3>1. resv[n] # NoReservation /\ resv[n].source \in Sources
      BY <2>3 DEF DispatchFailed, TypeOK, Snapshot
    <3> DEFINE x == resv[n].source
    <3>2. /\ StillReserved(row[x], resv[n])
          /\ Put(x, [row[x] EXCEPT !.dispatchErr = resv[n].token])
      BY <1>2, <2>3 DEF DispatchFailed
    <3>3. /\ row'[x] = [row[x] EXCEPT !.dispatchErr = resv[n].token]
          /\ \A y \in Sources : y # x => row'[y] = row[y]
      BY <3>1, <3>2, PutOne
    <3>4. x = s
      BY <3>3 DEF SameTag
    <3> QED BY <2>3, <3>2, <3>3, <3>4 DEF RecordsFailure
  <2> QED BY <1>9, <2>1, <2>2, <2>3 DEF ScannerStep
<1> QED BY <1>2, <1>3, <1>5, <1>6, <1>7, <1>8, <1>9
        DEF Next, vars, DropMessage, DuplicateDelivery

\* No step but a reservation changes a token.
LEMMA TokenChanges ==
    ASSUME TypeOK, [Next]_vars, NEW s \in Sources, row'[s].token # row[s].token
    PROVE  \E n \in Scanners : \E c \in scan[n] : Reserve(n, c) /\ c.source = s
<1>1. row[s] \in Row
  BY DEF TypeOK
<1>2. \A n \in Scanners : ~ RecordsFailure(n, s)
  BY <1>1 DEF RecordsFailure, Row
<1> QED BY <1>2, TagChanges DEF SameTag

\* A reservation takes a token that no snapshot and no reservation knows.
LEMMA TokensAreFresh ==
    ASSUME Inv, [Next]_vars, NEW s \in Sources, row'[s].token # row[s].token
    PROVE  /\ \A n \in Scanners : \A c \in scan[n] : c.token # row'[s].token
           /\ \A n \in Scanners : resv[n] # NoReservation => resv[n].token # row'[s].token
<1>1. PICK n \in Scanners : \E c \in scan[n] : Reserve(n, c) /\ c.source = s
  BY TokenChanges DEF Inv
<1>2. PICK c \in scan[n] : Reserve(n, c) /\ c.source = s
  BY <1>1
<1> DEFINE t == CHOOSE t \in FreshTokens : TRUE
<1>3. t \in FreshTokens
  BY <1>2 DEF Reserve
<1>4. row[s] \in Row /\ t \in Tokens
  BY <1>3 DEF Inv, TypeOK, FreshTokens
<1>5. row'[s] = Reserved(row[s], t)
  BY <1>2, PutOne DEF Inv, Reserve
<1> HIDE DEF t
<1>6. Reserved(row[s], t).token = t
  BY <1>4 DEF Reserved, Requeued, Unleased, Row
<1> QED BY <1>3, <1>5, <1>6 DEF FreshTokens

\* No page read before a reservation can reserve the row again.
THEOREM SnapshotsAreConsumed == Spec => SnapshotConsumedOnce
<1>1. ASSUME Inv, [Next]_vars, NEW s \in Sources, row'[s].token # row[s].token,
             NEW m \in Scanners, NEW d \in scan'[m], d.source = s
      PROVE  ~ Matches(row'[s], d)
  <2>1. PICK n \in Scanners : \E c \in scan[n] : Reserve(n, c) /\ c.source = s
    BY <1>1, TokenChanges DEF Inv
  <2>2. d \in scan[m]
    BY <1>1, <2>1 DEF Reserve, Takes, Inv, TypeOK
  <2> QED BY <1>1, <2>2, TokensAreFresh DEF Matches
<1>2. Inv /\ [Next]_vars =>
         \A s \in Sources : row'[s].token # row[s].token =>
            \A n \in Scanners : \A c \in scan'[n] : c.source = s => ~ Matches(row'[s], c)
  BY <1>1
<1> QED BY <1>2, InvHolds, PTL DEF Spec, SnapshotConsumedOnce

\* A reservation bears no failure of an earlier one.
LEMMA ReservedIsClean ==
    ASSUME TypeOK, NEW s \in Sources, NEW n \in Scanners, NEW c \in scan[n], Reserve(n, c), c.source = s
    PROVE  row'[s].dispatchErr = NoOne
<1> DEFINE t == CHOOSE t \in FreshTokens : TRUE
<1>1. row[s] \in Row
  BY DEF TypeOK
<1>2. row'[s] = Reserved(row[s], t)
  BY PutOne DEF Reserve
<1> HIDE DEF t
<1>3. Reserved(row[s], t).dispatchErr = NoOne
  BY <1>1 DEF Reserved, Requeued, Unleased, Row
<1> QED BY <1>2, <1>3

\* What matches a row is the snapshot of it.
LEMMA MatchIsSnapshot ==
    ASSUME NEW r, NEW c \in Snapshot, Matches(r, c) PROVE c = SnapshotOf(c.source, r)
BY DEF Matches, Snapshot, SnapshotOf

\* A failure is charged to the reservation that failed, on the row as it was reserved.
THEOREM DispatchErrorsAreCurrent == Spec => DispatchErrorIsCurrent
<1> DEFINE Charged(s) ==
              \E n \in Scanners : resv[n] = SnapshotOf(s, row[s]) /\ resv'[n] = NoReservation
<1>1. ASSUME Inv, [Next]_vars, NEW s \in Sources
      PROVE  FailureCharged(s)
  <2>0. TypeOK /\ row[s] \in Row
    BY <1>1 DEF Inv, TypeOK
  <2>1. ASSUME row'[s].token # row[s].token PROVE row'[s].dispatchErr = NoOne
    BY <1>1, <2>0, <2>1, TokenChanges, ReservedIsClean
  <2>2. ASSUME row'[s].dispatchErr \notin {NoOne, row[s].dispatchErr}
        PROVE  /\ row'[s].dispatchErr = row'[s].token
               /\ Active(row[s]) /\ Available(row[s]) /\ row[s].status = "queued"
               /\ Charged(s)
    <3>1. PICK n \in Scanners : RecordsFailure(n, s)
      BY <1>1, <2>0, <2>2, TagChanges, ReservedIsClean DEF SameTag
    <3>2. /\ resv[n] \in Snapshot /\ resv[n].source = s /\ Matches(row[s], resv[n])
          /\ row[s].status = "queued" /\ resv'[n] = NoReservation
      BY <2>0, <3>1 DEF RecordsFailure, DispatchFailed, StillReserved, TypeOK
    <3>3. resv[n] = SnapshotOf(s, row[s])
      BY <3>2, MatchIsSnapshot
    <3>4. Active(row[s]) /\ Available(row[s]) /\ resv[n].token = row[s].token
      BY <3>2 DEF Matches
    <3>5. row'[s].dispatchErr = resv[n].token /\ row'[s].token = row[s].token
      BY <2>0, <3>1 DEF RecordsFailure, Row
    <3> QED BY <3>2, <3>3, <3>4, <3>5
  <2> QED BY <2>1, <2>2 DEF FailureCharged
<1>2. Inv /\ [Next]_vars => \A s \in Sources : FailureCharged(s)
  BY <1>1
<1> QED BY <1>2, InvHolds, PTL DEF Spec, DispatchErrorIsCurrent

-----------------------------------------------------------------------------
(* Theorem: what recovery selects and reserves is let through              *)

\* Within one epoch and cycle a status is left for a later one only.
Later(a, b) == \/ b \in {"queued", "running"} /\ a \in {"succeeded", "failed", "inactive"}
               \/ b \in {"succeeded", "failed"} /\ a = "inactive"

SameTurn(r, q) == q.epoch = r.epoch /\ q.cycle = r.cycle

\* What stays good from r to q as long as nothing a snapshot records changes.
StaysGood(r, q) ==
    /\ Reservable(r) => Reservable(q)
    /\ q.status = "queued" /\ RetryDue(r) /\ BudgetLeft(r) => RetryDue(q) /\ BudgetLeft(q)

\* What every step makes of an active row r.
GoesOn(r, q) ==
    Active(q) =>
        /\ Active(r) /\ r.epoch <= q.epoch /\ r.cycle <= q.cycle
        /\ Available(r) /\ SameTurn(r, q) =>
              /\ Available(q)
              /\ q.status = r.status \/ Later(q.status, r.status)
              /\ q.status = r.status /\ q.token = r.token => StaysGood(r, q)

\* Every listed change goes on.
LEMMA ChangeGoesOn ==
    ASSUME NEW r \in Row, NEW q, Change(r, q)
    PROVE  GoesOn(r, q)
<1> USE BudgetAssumption, TimingAssumption, ActorsAssumption
<1> USE DEF GoesOn, SameTurn, StaysGood, Later, Reservable, RetryDue, BudgetLeft, Active,
            Available, ForgottenInQueue, LeaseExpired, RetryLane
<1>1. CASE q = r
  BY <1>1 DEF Row
<1>2. CASE q = Ticked(r)
  BY <1>2 DEF Ticked, Down, Row, NoRetry
<1>3. CASE UploadChange(r, q)
  <2>1. CASE MayPublishUpload(r) /\ q = [r EXCEPT !.artifact = "AVAILABLE"]
    BY <2>1 DEF MayPublishUpload, Row
  <2>2. ASSUME Active(r), r.artifact = "PENDING", NEW code \in {"transient", "permanent"},
               q = UnlessInactive([r EXCEPT !.artifact = "FAILED"],
                                  [r EXCEPT !.artifact = "FAILED", !.status = "failed",
                                            !.error = code])
        PROVE  GoesOn(r, q)
    BY <2>2 DEF UnlessInactive, Row
  <2>3. ASSUME Active(r), r.artifact = "PENDING", NEW stored,
               stored = [r EXCEPT !.artifact = "AVAILABLE", !.error = "none"],
               q = UnlessInactive(stored, [Requeued(Unleased(stored)) EXCEPT !.retry = NoRetry])
        PROVE  GoesOn(r, q)
    <3>1. CASE r.status = "inactive"
      BY <2>3, <3>1 DEF UnlessInactive, Row
    <3>2. CASE r.status # "inactive"
      BY <2>3, <3>2 DEF UnlessInactive, Requeued, Unleased, Row
    <3> QED BY <3>1, <3>2
  <2>4. ASSUME Active(r), r.artifact = "PENDING", NEW gone,
               gone = [r EXCEPT !.artifact = "REMOVED", !.error = "permanent"],
               q = UnlessInactive(gone, [gone EXCEPT !.status = "failed"])
        PROVE  GoesOn(r, q)
    BY <2>4 DEF UnlessInactive, Row
  <2> QED BY <1>3, <2>1, <2>2, <2>3, <2>4 DEF UploadChange
<1>4. CASE RequestChange(r, q)
  <2>1. CASE Active(r) /\ r.status = "queued" /\ q = [r EXCEPT !.error = "dispatch"]
    BY <2>1 DEF Row
  <2>2. CASE Active(r) /\ q = [r EXCEPT !.status = "inactive"]
    BY <2>2 DEF Row, Status
  <2>3. CASE Active(r) /\ q = Deleted(r)
    BY <2>3 DEF Deleted, Row
  <2> QED BY <1>4, <2>1, <2>2, <2>3 DEF RequestChange
<1>5. CASE WorkerChange(r, q)
  <2>1. CASE \E w \in Workers : Claimable(r) /\ BudgetLeft(r) /\ q = Claimed(r, w)
    BY <2>1 DEF Claimable, Claimed, Row
  <2>2. CASE Claimable(r) /\ q = FailedRow(r, "exhausted")
    BY <2>2 DEF Claimable, FailedRow, Unleased, Row
  <2>3. ASSUME NEW l \in Lease, Owned(r, l), q = [r EXCEPT !.ttl = LeaseTime]
        PROVE  GoesOn(r, q)
    BY <2>3 DEF Owned, Row
  <2> QED BY <1>5, <2>1, <2>2, <2>3 DEF WorkerChange
<1>6. CASE ScannerChange(r, q)
  <2>1. CASE Active(r) /\ Reservable(r) /\ ~ BudgetLeft(r) /\ q = FailedRow(r, "exhausted")
    BY <2>1 DEF FailedRow, Unleased, Row
  <2>2. ASSUME Active(r), NEW t \in Tokens, t # r.token, q = Reserved(r, t)
        PROVE  GoesOn(r, q)
    BY <2>2 DEF Reserved, Requeued, Unleased, Row
  <2>3. CASE Active(r) /\ r.status = "queued" /\ q = [r EXCEPT !.dispatchErr = r.token]
    BY <2>3 DEF Row
  <2> QED BY <1>6, <2>1, <2>2, <2>3 DEF ScannerChange
<1> QED BY <1>1, <1>2, <1>3, <1>4, <1>5, <1>6 DEF Change

\* So do the end of an attempt and a new operator cycle.
LEMMA OthersGoOn ==
    ASSUME NEW r \in Row
    PROVE  /\ \A q, l : Ended(r, q, l) => GoesOn(r, q)
           /\ \A s \in Sources : MayReopen(s, r) => GoesOn(r, Reopened(r))
<1>1. ASSUME NEW q, NEW l, Ended(r, q, l)
      PROVE  GoesOn(r, q)
  <2>1. ASSUME q = Published(r, l.epoch) PROVE GoesOn(r, q)
    BY <1>1, <2>1
       DEF Ended, Owned, Published, Unleased, Row, GoesOn, SameTurn, Later, Available, Active
  <2>2. ASSUME q = FailedRow(r, "permanent") PROVE GoesOn(r, q)
    BY <1>1, <2>2
       DEF Ended, Owned, FailedRow, Unleased, Row, GoesOn, SameTurn, Later, Available, Active
  <2>3. ASSUME q = RetryScheduled(r) PROVE GoesOn(r, q)
    BY <1>1, <2>3
       DEF Ended, Owned, RetryScheduled, FailedRow, Requeued, Unleased, Row, GoesOn, SameTurn,
           Later, Available, Active
  <2> QED BY <1>1, <2>1, <2>2, <2>3 DEF Ended
<1>2. ASSUME NEW s \in Sources, MayReopen(s, r)
      PROVE  GoesOn(r, Reopened(r))
  BY <1>2 DEF MayReopen, Reopened, Requeued, Unleased, Row, GoesOn, SameTurn, Active
<1> QED BY <1>1, <1>2

\* Every row goes on in every step.
LEMMA RowGoesOn ==
    ASSUME TypeOK, [Next]_vars, NEW s \in Sources
    PROVE  GoesOn(row[s], row'[s])
<1>1. row[s] \in Row
  BY DEF TypeOK
<1> QED BY <1>1, RowChanges, ChangeGoesOn, OthersGoOn DEF RowStep, HolderEnds

\* The row has not gone back behind what the snapshot recorded.
Known(r, c) ==
    Active(r) => /\ c.epoch <= r.epoch /\ c.cycle <= r.cycle
                 /\ SameTurn(r, c) => /\ Available(r)
                                      /\ r.status = c.status \/ Later(r.status, c.status)

SelectionKept(r, c) == Known(r, c) /\ (Matches(r, c) => Reservable(r))

ReservationKept(r, c) == /\ Known(r, c) /\ c.status = "queued"
                         /\ Matches(r, c) => RetryDue(r) /\ BudgetLeft(r)

\* A row that goes on and still matches a snapshot matched it before.
LEMMA MatchedBefore ==
    ASSUME NEW r \in Row, NEW q \in Row, NEW c \in Snapshot, GoesOn(r, q), Known(r, c),
           q.token = r.token \/ q.token # c.token
    PROVE  /\ Known(q, c)
           /\ Matches(q, c) => Matches(r, c) /\ StaysGood(r, q)
<1>1. /\ r.epoch \in Nat /\ r.cycle \in Nat /\ q.epoch \in Nat /\ q.cycle \in Nat
      /\ c.epoch \in Nat /\ c.cycle \in Nat
  BY DEF Row, Snapshot
<1>2. ASSUME Active(q), SameTurn(q, c)
      PROVE  /\ Active(r) /\ SameTurn(r, c) /\ SameTurn(r, q)
             /\ Available(q) /\ Available(r)
             /\ q.status = r.status \/ Later(q.status, r.status)
             /\ r.status = c.status \/ Later(r.status, c.status)
  BY <1>1, <1>2 DEF GoesOn, Known, SameTurn
<1>3. Known(q, c)
  BY <1>1, <1>2 DEF GoesOn, Known, Later
<1>4. ASSUME Matches(q, c)
      PROVE  Matches(r, c) /\ StaysGood(r, q)
  <2>1. SameTurn(q, c) /\ Active(q) /\ q.status = c.status /\ q.token = c.token
    BY <1>4 DEF Matches, SameTurn
  <2>2. r.status = c.status /\ r.token = c.token
    BY <1>2, <2>1 DEF Later
  <2> QED BY <1>2, <2>1, <2>2 DEF Matches, GoesOn, SameTurn
<1> QED BY <1>3, <1>4

SnapshotsInv == \A n \in Scanners : \A c \in scan[n] : SelectionKept(row[c.source], c)

ReservationsInv == \A n \in Scanners :
                       resv[n] # NoReservation => ReservationKept(row[resv[n].source], resv[n])

\* A snapshot kept, whatever the step does to its row.
LEMMA SnapshotKept ==
    ASSUME Inv, Inv', [Next]_vars, NEW c \in Snapshot,
           row'[c.source].token = row[c.source].token \/ row'[c.source].token # c.token
    PROVE  /\ SelectionKept(row[c.source], c) => SelectionKept(row'[c.source], c)
           /\ ReservationKept(row[c.source], c) => ReservationKept(row'[c.source], c)
<1> DEFINE r == row[c.source]
           q == row'[c.source]
<1>1. r \in Row /\ q \in Row /\ GoesOn(r, q)
  BY RowGoesOn DEF Inv, TypeOK, Snapshot
<1> HIDE DEF r, q
<1>2. q.token = r.token \/ q.token # c.token
  BY DEF r, q
<1>3. ASSUME SelectionKept(r, c) PROVE SelectionKept(q, c)
  BY <1>1, <1>2, <1>3, MatchedBefore DEF SelectionKept, StaysGood
<1>4. ASSUME ReservationKept(r, c) PROVE ReservationKept(q, c)
  <2>1. Known(q, c) /\ (Matches(q, c) => Matches(r, c) /\ StaysGood(r, q))
    BY <1>1, <1>2, <1>4, MatchedBefore DEF ReservationKept
  <2> QED BY <1>4, <2>1 DEF ReservationKept, StaysGood, Matches
<1> QED BY <1>3, <1>4 DEF r, q

\* A page grows by a selection of its scanner only.
LEMMA OnlySelectReads ==
    ASSUME [Next]_vars, TypeOK, NEW m \in Scanners, NEW d \in scan'[m], d \notin scan[m]
    PROVE  Select(m)
<1>1. ~ UNCHANGED scan
  OBVIOUS
<1>2. ASSUME NEW n \in Scanners, ScannerStep(n)
      PROVE  Select(m)
  <2>1. ASSUME NEW c \in scan[n], Handle(n, c)
        PROVE  FALSE
    <3>1. scan' = [scan EXCEPT ![n] = @ \ {c}]
      BY <2>1 DEF Handle, ReserveSkip, ReserveExhausted, Reserve, Takes
    <3> QED BY <3>1 DEF TypeOK
  <2>2. ~ RestartScanner(n)
    BY DEF RestartScanner, TypeOK
  <2>3. Select(n)
    BY <1>1, <1>2, <2>1, <2>2 DEF ScannerStep, Dispatch, DispatchFailed
  <2> QED BY <2>3 DEF Select, TypeOK
<1> QED BY <1>1, <1>2
        DEF Next, vars, Tick, ApiStep, PublishUpload, FailUpload, AbandonUpload, RepairUpload,
            InvalidateUpload, SendTask, SendTaskFailed, Reopen, Deactivate, Delete, DropMessage,
            DuplicateDelivery, Deliver, ClaimLease, ClaimExhausted, ClaimRefused, StartRenewal,
            End, Publish, FailPermanent, FailTransient, Abandon, Crash, AfterRetry, Republish,
            RepublishFailed, FinishRenewal, scannerVars

\* A reservation is made by its own scanner.
LEMMA OnlyReserveReserves ==
    ASSUME [Next]_vars, TypeOK, NEW m \in Scanners,
           resv'[m] # resv[m], resv'[m] # NoReservation
    PROVE  \E c \in scan[m] : Reserve(m, c)
<1>1. ~ UNCHANGED resv
  OBVIOUS
<1>2. ASSUME NEW n \in Scanners, ScannerStep(n)
      PROVE  \E c \in scan[m] : Reserve(m, c)
  <2>1. PICK c \in scan[n] : Reserve(n, c)
    BY <1>1, <1>2
       DEF ScannerStep, Select, Handle, ReserveSkip, ReserveExhausted, Dispatch,
           DispatchFailed, RestartScanner, TypeOK
  <2>2. n = m
    BY <2>1 DEF Reserve, TypeOK
  <2> QED BY <2>1, <2>2
<1> QED BY <1>1, <1>2
        DEF Next, vars, Tick, ApiStep, PublishUpload, FailUpload, AbandonUpload, RepairUpload,
            InvalidateUpload, SendTask, SendTaskFailed, Reopen, Deactivate, Delete, DropMessage,
            DuplicateDelivery, Deliver, ClaimLease, ClaimExhausted, ClaimRefused, StartRenewal,
            End, Publish, FailPermanent, FailTransient, Abandon, Crash, AfterRetry, Republish,
            RepublishFailed, FinishRenewal, scannerVars

\* The pages read keep what they promise.
LEMMA SnapshotsStep == Inv /\ SnapshotsInv /\ [Next]_vars => SnapshotsInv'
<1> SUFFICES ASSUME Inv, SnapshotsInv, [Next]_vars,
                    NEW m \in Scanners, NEW d \in scan'[m]
             PROVE  SelectionKept(row'[d.source], d)
  BY DEF SnapshotsInv
<1>1. Inv'
  BY InvStep
<1>2. ASSUME d \in scan[m]
      PROVE  SelectionKept(row'[d.source], d)
  <2>1. d \in Snapshot /\ d.source \in Sources
    BY <1>2 DEF Inv, TypeOK, Snapshot
  <2>2. row'[d.source].token = row[d.source].token \/ row'[d.source].token # d.token
    BY <1>2, <2>1, TokensAreFresh
  <2> QED BY <1>1, <1>2, <2>1, <2>2, SnapshotKept DEF SnapshotsInv
<1>3. ASSUME d \notin scan[m]
      PROVE  SelectionKept(row'[d.source], d)
  <2>1. Select(m)
    BY <1>3, OnlySelectReads DEF Inv
  <2>2. PICK s \in Candidates : d = SnapshotOf(s, row[s])
    BY <1>3, <2>1 DEF Select, Inv, TypeOK
  <2>3. s \in Sources /\ Candidate(row[s]) /\ row[s] \in Row
    BY <2>2 DEF Candidates, Inv, TypeOK
  <2>4. /\ d.source = s /\ d.epoch = row[s].epoch /\ d.cycle = row[s].cycle
        /\ d.status = row[s].status
    BY <2>2 DEF SnapshotOf
  <2>5. row' = row
    BY <2>1 DEF Select
  <2> QED BY <2>3, <2>4, <2>5 DEF SelectionKept, Known, SameTurn, Candidate, Reservable, Row
<1> QED BY <1>2, <1>3

\* The reservations made keep what they promise.
LEMMA ReservationsStep == Inv /\ ReservationsInv /\ [Next]_vars => ReservationsInv'
<1> SUFFICES ASSUME Inv, ReservationsInv, [Next]_vars,
                    NEW m \in Scanners, resv'[m] # NoReservation
             PROVE  ReservationKept(row'[resv'[m].source], resv'[m])
  BY DEF ReservationsInv
<1>1. Inv'
  BY InvStep
<1>2. ASSUME resv'[m] = resv[m]
      PROVE  ReservationKept(row'[resv'[m].source], resv'[m])
  <2> DEFINE d == resv[m]
  <2>1. d \in Snapshot /\ d.source \in Sources
    BY <1>2 DEF Inv, TypeOK, Snapshot
  <2>2. row'[d.source].token = row[d.source].token \/ row'[d.source].token # d.token
    BY <1>2, <2>1, TokensAreFresh
  <2> QED BY <1>1, <1>2, <2>1, <2>2, SnapshotKept DEF ReservationsInv
<1>3. ASSUME resv'[m] # resv[m]
      PROVE  ReservationKept(row'[resv'[m].source], resv'[m])
  <2>1. PICK c \in scan[m] : Reserve(m, c)
    BY <1>3, OnlyReserveReserves DEF Inv
  <2> DEFINE r == row[c.source]
             t == CHOOSE t \in FreshTokens : TRUE
             q == Reserved(r, t)
  <2>2. c.source \in Sources /\ r \in Row
    BY DEF Inv, TypeOK, Snapshot
  <2>3. t \in Tokens
    BY <2>1 DEF Reserve, FreshTokens
  <2>4. Active(r) /\ Available(r) /\ Reservable(r) /\ r.attempts < MaxAttempts
    BY <2>1 DEF Reserve, Matches
  <2>5. resv'[m] = SnapshotOf(c.source, q) /\ row'[c.source] = q
    BY <2>1, <2>2, PutOne DEF Reserve, Inv, TypeOK
  <2> HIDE DEF t
  <2>6. q \in Row
    BY <2>2, <2>3, ReservedType
  <2>7. q.status = "queued" /\ Available(q) /\ RetryDue(q) /\ BudgetLeft(q)
    BY <2>2, <2>4
       DEF Reserved, Requeued, Unleased, Row, Reservable, RetryDue, BudgetLeft, Available,
           ForgottenInQueue, LeaseExpired, RetryLane
  <2> HIDE DEF q
  <2>8. /\ resv'[m].source = c.source /\ resv'[m].epoch = q.epoch /\ resv'[m].cycle = q.cycle
        /\ resv'[m].status = q.status
    BY <2>5 DEF SnapshotOf
  <2> QED BY <2>5, <2>6, <2>7, <2>8 DEF ReservationKept, Known, SameTurn, Row
<1> QED BY <1>2, <1>3

\* What is selected can be reserved, what is reserved can be claimed, and unfinished work
\* is selected.
THEOREM RecoveryFindsItsWay == Spec => []RecoveryIsLetThrough
<1>1. Init => SnapshotsInv /\ ReservationsInv
  BY DEF Init, SnapshotsInv, ReservationsInv
<1>2. ASSUME Inv, SnapshotsInv, ReservationsInv
      PROVE  RecoveryIsLetThrough
  <2>1. ASSUME NEW s \in Sources, Unfinished(row[s])
        PROVE  Candidate(TimersOut(row[s]))
    <3> DEFINE r == row[s]
    <3>1. r \in Row /\ RetryClaimable(r)
      BY <1>2 DEF Inv, TypeOK, RowInv
    <3> QED BY <2>1, <3>1
            DEF Unfinished, Candidate, TimersOut, RetryClaimable, RetryDue, Active, Available,
                ForgottenInQueue, LeaseExpired, RetryLane, Row, NoRetry
  <2>2. ASSUME NEW n \in Scanners, NEW c \in scan[n], Matches(row[c.source], c)
        PROVE  Reservable(row[c.source])
    BY <1>2, <2>2 DEF SnapshotsInv, SelectionKept
  <2>3. ASSUME NEW n \in Scanners, resv[n] # NoReservation,
               Matches(row[resv[n].source], resv[n])
        PROVE  Claimable(row[resv[n].source]) /\ BudgetLeft(row[resv[n].source])
    <3> DEFINE r == row[resv[n].source]
    <3>1. RetryDue(r) /\ BudgetLeft(r) /\ r.status = "queued" /\ Active(r) /\ Available(r)
      BY <1>2, <2>3 DEF ReservationsInv, ReservationKept, Matches
    <3> QED BY <3>1 DEF Claimable, Live
  <2> QED BY <2>1, <2>2, <2>3 DEF RecoveryIsLetThrough
<1> QED BY <1>1, <1>2, InvHolds, SnapshotsStep, ReservationsStep, PTL DEF Spec

-----------------------------------------------------------------------------
(***************************************************************************)
(* SourceLease implements LeaseContract.                                   *)
(*                                                                         *)
(* One Source's share of the contract's state is a function of its row.    *)
(* CellStep lists what a step may do to that share; the changes of a row   *)
(* listed in RowChanges do nothing else, and but for the passing of time a *)
(* step changes one row only.                                              *)
(***************************************************************************)

-----------------------------------------------------------------------------
(* One Source                                                              *)

Kept(r, q) == /\ q.epoch = r.epoch /\ q.attempts = r.attempts
              /\ StandingOf(q) = StandingOf(r) /\ q.result = r.result

SameCell(r, q)    == Kept(r, q) /\ GrantOf(q) = GrantOf(r)
LapseCell(r, q)   == Kept(r, q) /\ GrantOf(q) = Nobody
GrantCell(r, q)   == /\ StandingOf(r) = "open" /\ GrantOf(r) = Nobody
                     /\ r.attempts < MaxAttempts
                     /\ \E w \in Workers : GrantOf(q) = [holder |-> w, epoch |-> r.epoch + 1]
                     /\ q.epoch = r.epoch + 1 /\ q.attempts = r.attempts + 1
                     /\ StandingOf(q) = StandingOf(r) /\ q.result = r.result
PublishCell(r, q) == /\ GrantOf(r) # Nobody /\ GrantOf(q) = Nobody
                     /\ q.result = GrantOf(r).epoch
                     /\ q.epoch = r.epoch /\ q.attempts = r.attempts
                     /\ StandingOf(q) = StandingOf(r)
WithdrawCell(r, q) == /\ StandingOf(r) = "open" /\ StandingOf(q) = "withdrawn"
                      /\ GrantOf(q) = Nobody
                      /\ q.epoch = r.epoch /\ q.attempts = r.attempts /\ q.result = r.result
EraseCell(r, q)   == /\ StandingOf(r) # "erased" /\ StandingOf(q) = "erased"
                     /\ GrantOf(q) = Nobody /\ q.result = 0
                     /\ q.epoch = r.epoch /\ q.attempts = r.attempts
ReopenCell(r, q)  == /\ StandingOf(r) = "open" /\ StandingOf(q) = "open"
                     /\ GrantOf(q) = Nobody /\ q.attempts = 0
                     /\ q.epoch = r.epoch /\ q.result = r.result

CellStep(r, q) == \/ SameCell(r, q) \/ LapseCell(r, q) \/ GrantCell(r, q)
                  \/ PublishCell(r, q) \/ WithdrawCell(r, q) \/ EraseCell(r, q)

\* Time only lets a grant lapse.
LEMMA TickedCell ==
    ASSUME NEW r \in Row
    PROVE  SameCell(r, Ticked(r)) \/ LapseCell(r, Ticked(r))
<1> DEFINE q == Ticked(r)
<1>1. /\ q.epoch = r.epoch /\ q.attempts = r.attempts /\ q.result = r.result
      /\ q.status = r.status /\ q.lifecycle = r.lifecycle /\ q.owner = r.owner
      /\ q.ttl > 0 => r.ttl > 0
  BY DEF Ticked, Down, Row
<1> HIDE DEF q
<1>2. SameCell(r, q) \/ LapseCell(r, q)
  BY <1>1 DEF SameCell, LapseCell, Kept, GrantOf, StandingOf, Active, Live
<1> QED BY <1>2 DEF q

\* Requests, workers and scanners change a Source's share of the contract as it allows.
LEMMA ChangeIsCellStep ==
    ASSUME NEW r \in Row, NEW q, NEW k \in Nat, Change(r, q), RowInv(r, k)
    PROVE  CellStep(r, q)
<1> USE DEF CellStep, Active, Live, GrantOf, StandingOf
<1>1. CASE q = r
  BY <1>1 DEF SameCell, Kept
<1>2. CASE q = Ticked(r)
  BY <1>2, TickedCell
<1>3. CASE UploadChange(r, q)
  <2>1. /\ q.epoch = r.epoch /\ q.attempts = r.attempts /\ q.result = r.result
        /\ q.lifecycle = r.lifecycle
    BY ZenonT(60), <1>3 DEF UploadChange, UnlessInactive, Requeued, Unleased, Row
  <2>2. \/ q.status = r.status /\ q.ttl = r.ttl /\ q.owner = r.owner
        \/ r.status # "inactive" /\ q.status \in {"queued", "failed"}
    BY ZenonT(60), <1>3 DEF UploadChange, UnlessInactive, Requeued, Unleased, Row
  <2> QED BY <2>1, <2>2 DEF SameCell, LapseCell, Kept
<1>4. CASE RequestChange(r, q)
  <2>1. CASE q = [r EXCEPT !.error = "dispatch"]
    BY <2>1 DEF SameCell, Kept, Row
  <2>2. CASE Active(r) /\ q = [r EXCEPT !.status = "inactive"]
    <3>1. /\ q.epoch = r.epoch /\ q.attempts = r.attempts /\ q.result = r.result
          /\ q.lifecycle = r.lifecycle /\ q.status = "inactive"
      BY <2>2 DEF Row
    <3>2. CASE r.status = "inactive"
      BY <2>2, <3>1, <3>2 DEF SameCell, Kept
    <3>3. CASE r.status # "inactive"
      BY <2>2, <3>1, <3>3 DEF WithdrawCell
    <3> QED BY <3>2, <3>3
  <2>3. CASE Active(r) /\ q = Deleted(r)
    BY <2>3 DEF Deleted, EraseCell, Row
  <2> QED BY <1>4, <2>1, <2>2, <2>3 DEF RequestChange
<1>5. CASE WorkerChange(r, q)
  <2>1. ASSUME NEW w \in Workers, Claimable(r), BudgetLeft(r), q = Claimed(r, w)
        PROVE  CellStep(r, q)
    <3>1. /\ q.epoch = r.epoch + 1 /\ q.attempts = r.attempts + 1 /\ q.result = r.result
          /\ q.lifecycle = r.lifecycle /\ q.status = "running" /\ q.owner = w
          /\ q.ttl = LeaseTime
      BY <2>1 DEF Claimed, Row
    <3>2. LeaseTime > 0
      BY TimingAssumption
    <3> QED BY <2>1, <3>1, <3>2 DEF GrantCell, Claimable, BudgetLeft
  <2>2. CASE Claimable(r) /\ q = FailedRow(r, "exhausted")
    BY <2>2 DEF Claimable, FailedRow, Unleased, LapseCell, Kept, Row
  <2>3. ASSUME NEW l \in Lease, Owned(r, l), q = [r EXCEPT !.ttl = LeaseTime]
        PROVE  CellStep(r, q)
    <3>1. LeaseTime > 0
      BY TimingAssumption
    <3> QED BY <2>3, <3>1 DEF Owned, SameCell, Kept, Row
  <2> QED BY <1>5, <2>1, <2>2, <2>3 DEF WorkerChange
<1>6. CASE ScannerChange(r, q)
  <2>1. CASE Active(r) /\ Reservable(r) /\ q = FailedRow(r, "exhausted")
    BY <2>1 DEF Reservable, ForgottenInQueue, LeaseExpired, RetryLane, FailedRow, Unleased,
                LapseCell, Kept, Row
  <2>2. ASSUME NEW t \in Tokens, Active(r), Reservable(r), q = Reserved(r, t)
        PROVE  CellStep(r, q)
    <3>1. /\ q.epoch = r.epoch /\ q.attempts = r.attempts /\ q.result = r.result
          /\ q.lifecycle = r.lifecycle /\ q.status = "queued"
      BY <2>2 DEF Reserved, Requeued, Unleased, Row
    <3>2. r.status \in {"queued", "running", "failed"}
      BY <2>2 DEF Reservable, ForgottenInQueue, LeaseExpired, RetryLane
    <3> QED BY <2>2, <3>1, <3>2 DEF LapseCell, Kept
  <2>3. CASE q = [r EXCEPT !.dispatchErr = r.token]
    BY <2>3 DEF SameCell, Kept, Row
  <2> QED BY <1>6, <2>1, <2>2, <2>3 DEF ScannerChange
<1> QED BY <1>1, <1>2, <1>3, <1>4, <1>5, <1>6 DEF Change

\* So does the holder's conclusion.
LEMMA EndIsCellStep ==
    ASSUME NEW r \in Row, NEW q, NEW l \in Lease, Ended(r, q, l)
    PROVE  CellStep(r, q)
<1> USE DEF CellStep, Active, Live, GrantOf, StandingOf
<1>1. CASE q = Published(r, l.epoch)
  <2>1. Nobody # [holder |-> r.owner, epoch |-> r.epoch]
    <3>1. r.owner # NoOne
      BY ActorsAssumption DEF Ended, Owned, Lease
    <3>2. Nobody.holder = NoOne /\ [holder |-> r.owner, epoch |-> r.epoch].holder = r.owner
      BY DEF Nobody
    <3> QED BY <3>1, <3>2
  <2>2. /\ q.epoch = r.epoch /\ q.attempts = r.attempts /\ q.result = l.epoch
        /\ q.lifecycle = r.lifecycle /\ q.status = "succeeded"
    BY <1>1 DEF Published, Unleased, Row
  <2> QED BY <2>1, <2>2 DEF PublishCell, Ended, Owned
<1>2. CASE q = FailedRow(r, "permanent")
  BY <1>2 DEF Ended, Owned, FailedRow, Unleased, LapseCell, Kept, Row
<1>3. CASE q = RetryScheduled(r)
  <2>1. /\ q.epoch = r.epoch /\ q.attempts = r.attempts /\ q.result = r.result
        /\ q.lifecycle = r.lifecycle /\ q.status \in {"queued", "failed"}
    BY <1>3 DEF RetryScheduled, FailedRow, Requeued, Unleased, Row
  <2> QED BY <2>1 DEF Ended, Owned, LapseCell, Kept
<1> QED BY <1>1, <1>2, <1>3 DEF Ended

\* And a new operator cycle is the contract's Reopen.
LEMMA ReopenIsCellStep ==
    ASSUME NEW r \in Row, NEW s \in Sources, MayReopen(s, r)
    PROVE  ReopenCell(r, Reopened(r))
<1> DEFINE q == Reopened(r)
<1>1. /\ q.epoch = r.epoch /\ q.attempts = 0 /\ q.result = r.result
      /\ q.lifecycle = r.lifecycle /\ q.status = "queued"
  BY DEF Reopened, Requeued, Unleased, Row
<1>2. Active(r) /\ r.status # "inactive"
  BY DEF MayReopen
<1> HIDE DEF q
<1>3. ReopenCell(r, q)
  BY <1>1, <1>2, SMT DEF ReopenCell, GrantOf, StandingOf, Active, Live
<1> QED BY <1>3 DEF q

-----------------------------------------------------------------------------
(* All Sources                                                             *)

\* s is the one row the step writes.
OneRow(s) == /\ row' = [row EXCEPT ![s] = row'[s]]
             /\ reopens' = [reopens EXCEPT ![s] = reopens'[s]]

\* Time passes for all rows; any other step writes one row at most.
LEMMA OneRowAtATime ==
    ASSUME TypeOK, [Next]_vars
    PROVE  Tick \/ UNCHANGED <<row, reopens>> \/ \E s \in Sources : OneRow(s)
<1>1. ASSUME NEW s \in Sources, NEW q, Put(s, q), UNCHANGED reopens
      PROVE  OneRow(s)
  BY <1>1 DEF OneRow, Put, TypeOK
<1>2. ASSUME NEW s \in Sources, ApiStep(s)
      PROVE  UNCHANGED <<row, reopens>> \/ OneRow(s)
  <2>1. CASE Reopen(s)
    BY <2>1 DEF Reopen, OneRow, Put, TypeOK
  <2> QED BY <1>1, <1>2, <2>1
          DEF ApiStep, PublishUpload, FailUpload, AbandonUpload, RepairUpload, InvalidateUpload,
              SendTask, SendTaskFailed, Deactivate, Delete, apiVars
<1>3. ASSUME NEW w \in Workers, NEW s \in Sources, Deliver(w, s)
      PROVE  UNCHANGED <<row, reopens>> \/ OneRow(s)
  BY <1>1, <1>3 DEF Deliver, ClaimLease, ClaimExhausted, ClaimRefused, apiVars
<1>4. ASSUME NEW w \in Workers, StartRenewal(w) \/ End(w) \/ AfterRetry(w)
      PROVE  UNCHANGED <<row, reopens>> \/ (OneRow(job[w].source) /\ job[w].source \in Sources)
  <2>1. Holds(w) => job[w].source \in Sources
    BY DEF Holds, TypeOK
  <2> QED BY <1>1, <1>4, <2>1
          DEF StartRenewal, End, AfterRetry, Publish, FailPermanent, FailTransient, Abandon,
              Crash, Republish, RepublishFailed, apiVars
<1>5. ASSUME NEW l \in renewals, FinishRenewal(l)
      PROVE  l.source \in Sources /\ OneRow(l.source)
  <2>1. l.source \in Sources
    BY DEF TypeOK, Lease
  <2> QED BY <1>1, <1>5, <2>1 DEF FinishRenewal, apiVars
<1>6. ASSUME NEW n \in Scanners, ScannerStep(n)
      PROVE  UNCHANGED <<row, reopens>> \/ \E s \in Sources : OneRow(s)
  <2>1. CASE Select(n) \/ Dispatch(n) \/ RestartScanner(n)
    BY <2>1 DEF Select, Dispatch, RestartScanner, apiVars
  <2>2. ASSUME NEW c \in scan[n], Handle(n, c)
        PROVE  UNCHANGED <<row, reopens>> \/ (OneRow(c.source) /\ c.source \in Sources)
    <3>1. c.source \in Sources
      BY DEF TypeOK, Snapshot
    <3> QED BY <1>1, <2>2, <3>1 DEF Handle, ReserveSkip, ReserveExhausted, Reserve, apiVars
  <2>3. CASE DispatchFailed(n)
    <3>1. resv[n] # NoReservation => resv[n].source \in Sources
      BY DEF TypeOK, Snapshot
    <3> QED BY <1>1, <2>3, <3>1 DEF DispatchFailed, apiVars
  <2> QED BY <1>6, <2>1, <2>2, <2>3 DEF ScannerStep
<1> QED BY <1>2, <1>3, <1>4, <1>5, <1>6 DEF Next, vars, DropMessage, DuplicateDelivery, apiVars

\* What one row's step means for the contract's functions.
LEMMA OneCell ==
    ASSUME TypeOK, NEW s \in Sources, OneRow(s)
    PROVE  LET grant    == [x \in Sources |-> GrantOf(row[x])]
               issued   == [x \in Sources |-> row[x].epoch]
               spent    == [x \in Sources |-> row[x].attempts]
               standing == [x \in Sources |-> StandingOf(row[x])]
               result   == [x \in Sources |-> row[x].result]
           IN  /\ grant' = [grant EXCEPT ![s] = GrantOf(row'[s])]
               /\ issued' = [issued EXCEPT ![s] = row'[s].epoch]
               /\ spent' = [spent EXCEPT ![s] = row'[s].attempts]
               /\ standing' = [standing EXCEPT ![s] = StandingOf(row'[s])]
               /\ result' = [result EXCEPT ![s] = row'[s].result]
<1>1. \A x \in Sources : x # s => row'[x] = row[x]
  BY DEF OneRow, TypeOK
<1> QED BY <1>1

\* What it leaves alone in that row it leaves alone in the contract's functions.
LEMMA OneCellKept ==
    ASSUME TypeOK, NEW s \in Sources, OneRow(s)
    PROVE  /\ row'[s].epoch = row[s].epoch => UNCHANGED [x \in Sources |-> row[x].epoch]
           /\ row'[s].attempts = row[s].attempts => UNCHANGED [x \in Sources |-> row[x].attempts]
           /\ StandingOf(row'[s]) = StandingOf(row[s]) =>
                  UNCHANGED [x \in Sources |-> StandingOf(row[x])]
           /\ row'[s].result = row[s].result => UNCHANGED [x \in Sources |-> row[x].result]
<1>1. \A x \in Sources : x # s => row'[x] = row[x]
  BY DEF OneRow, TypeOK
<1> QED BY <1>1

\* A step that writes one row, of a Source that it takes no new cycle for.
LEMMA CellStepImplements ==
    ASSUME TypeOK, NEW s \in Sources, OneRow(s), reopens' = reopens,
           CellStep(row[s], row'[s])
    PROVE  Contract!Next \/ UNCHANGED Contract!vars
<1> DEFINE r == row[s]
           q == row'[s]
<1> USE DEF Contract!Next, Contract!Revoke
<1>1. CASE SameCell(r, q)
  <2>1. UNCHANGED [x \in Sources |-> GrantOf(row[x])]
    BY ZenonT(60), <1>1, OneCell DEF SameCell
  <2> QED BY <1>1, <2>1, OneCellKept DEF SameCell, Kept, Contract!vars
<1>2. CASE LapseCell(r, q)
  <2>1. Contract!Lapse({s})
    <3>1. [x \in Sources |-> GrantOf(row[x])]' =
             [x \in Sources |-> IF x \in {s} THEN Nobody
                                ELSE [y \in Sources |-> GrantOf(row[y])][x]]
      BY ZenonT(60), <1>2, OneCell DEF LapseCell
    <3> QED BY <1>2, <3>1, OneCellKept DEF LapseCell, Kept, Contract!Lapse
  <2>2. {s} \in SUBSET Sources
    OBVIOUS
  <2> QED BY <2>1, <2>2
<1>3. CASE GrantCell(r, q)
  <2>1. PICK w \in Workers : GrantOf(q) = [holder |-> w, epoch |-> r.epoch + 1]
    BY <1>3 DEF GrantCell
  <2>2. Contract!Grant(s, w)
    <3>1. [x \in Sources |-> GrantOf(row[x])]' =
             [[x \in Sources |-> GrantOf(row[x])] EXCEPT
                 ![s] = [holder |-> w, epoch |-> [x \in Sources |-> row[x].epoch][s] + 1]]
      BY <2>1, OneCell
    <3>2. /\ [x \in Sources |-> row[x].epoch]' =
                [[x \in Sources |-> row[x].epoch] EXCEPT ![s] = r.epoch + 1]
          /\ [x \in Sources |-> row[x].attempts]' =
                [[x \in Sources |-> row[x].attempts] EXCEPT ![s] = r.attempts + 1]
      BY <1>3, OneCell DEF GrantCell
    <3> QED BY <1>3, <3>1, <3>2, OneCellKept DEF GrantCell, Contract!Grant
  <2> QED BY <2>2
<1>4. CASE PublishCell(r, q)
  <2>1. Contract!Publish(s)
    BY ZenonT(60), <1>4, OneCell DEF PublishCell, Contract!Publish
  <2> QED BY <2>1
<1>5. CASE WithdrawCell(r, q)
  <2>1. Contract!Withdraw(s)
    BY ZenonT(60), <1>5, OneCell DEF WithdrawCell, Contract!Withdraw
  <2> QED BY <2>1
<1>6. CASE EraseCell(r, q)
  <2>1. Contract!Erase(s)
    BY ZenonT(60), <1>6, OneCell DEF EraseCell, Contract!Erase
  <2> QED BY <2>1
<1> QED BY <1>1, <1>2, <1>3, <1>4, <1>5, <1>6 DEF CellStep

\* A step that starts a new operator cycle.
LEMMA ReopenCellImplements ==
    ASSUME TypeOK, NEW s \in Sources, OneRow(s), reopens'[s] = reopens[s] + 1,
           ReopenCell(row[s], row'[s])
    PROVE  Contract!Next
<1>1. Contract!Reopen(s)
  <2>1. reopens' = [reopens EXCEPT ![s] = reopens[s] + 1]
    BY DEF OneRow
  <2>2. Contract!Revoke(s)
    BY OneCell DEF ReopenCell, Contract!Revoke
  <2>3. [x \in Sources |-> row[x].attempts]' = [[x \in Sources |-> row[x].attempts] EXCEPT ![s] = 0]
    BY OneCell DEF ReopenCell
  <2> QED BY <2>1, <2>2, <2>3, OneCellKept DEF ReopenCell, Contract!Reopen
<1> QED BY <1>1 DEF Contract!Next

\* A tick lets some grants lapse.
LEMMA TickImplements ==
    ASSUME TypeOK, Tick
    PROVE  Contract!Next
<1> DEFINE S == {s \in Sources : GrantOf(row'[s]) = Nobody}
<1>1. \A s \in Sources : row'[s] = Ticked(row[s]) /\ row[s] \in Row
  BY DEF Tick, TypeOK
<1>2. \A s \in Sources : /\ Kept(row[s], row'[s])
                         /\ GrantOf(row'[s]) = GrantOf(row[s]) \/ GrantOf(row'[s]) = Nobody
  BY <1>1, TickedCell DEF SameCell, LapseCell
<1>3. Contract!Lapse(S)
  <2>1. reopens' = reopens
    BY DEF Tick, apiVars
  <2> QED BY <1>2, <2>1 DEF Contract!Lapse, Kept
<1> QED BY <1>3 DEF Contract!Next

\* The rows, workers and scanners implement the lease contract.
THEOREM LeaseImplementsContract == Spec => ImplementsContract
<1>1. Init => Contract!Init
  <2> SUFFICES ASSUME Init PROVE Contract!Init
    OBVIOUS
  <2>1. ASSUME NEW r \in {Uploaded, Legacy}
        PROVE  /\ r.epoch = 0 /\ r.attempts = 0 /\ r.result = 0
               /\ GrantOf(r) = Nobody /\ StandingOf(r) = "open"
    <3>1. /\ r.epoch = 0 /\ r.attempts = 0 /\ r.result = 0
          /\ r.lifecycle = "active" /\ r.status # "inactive" /\ r.ttl = 0
      <4>1. CASE r = Uploaded
        BY <4>1 DEF Uploaded
      <4>2. CASE r = Legacy
        BY <4>2 DEF Uploaded, Legacy
      <4> QED BY <4>1, <4>2
    <3> QED BY <3>1 DEF GrantOf, StandingOf, Active, Live
  <2>2. \A s \in Sources : /\ row[s].epoch = 0 /\ row[s].attempts = 0 /\ row[s].result = 0
                           /\ GrantOf(row[s]) = Nobody /\ StandingOf(row[s]) = "open"
    <3>1. \A s \in Sources : row[s] \in {Uploaded, Legacy}
      BY DEF Init
    <3> QED BY <2>1, <3>1
  <2> QED BY <2>2 DEF Init, Contract!Init
<1>2. ASSUME Inv, [Next]_vars
      PROVE  Contract!Next \/ UNCHANGED Contract!vars
  <2>1. TypeOK
    BY <1>2 DEF Inv
  <2>2. ASSUME NEW s \in Sources, OneRow(s)
        PROVE  Contract!Next \/ UNCHANGED Contract!vars
    <3>1. row[s] \in Row /\ RowInv(row[s], Earlier(s)) /\ Earlier(s) \in Nat /\ RowStep(s)
      BY <1>2, <2>1, RowChanges, BudgetAssumption DEF Inv, TypeOK, Earlier
    <3>2. reopens'[s] = reopens[s] => reopens' = reopens
      BY <2>1, <2>2 DEF OneRow, TypeOK
    <3>3. CASE Change(row[s], row'[s]) /\ reopens'[s] = reopens[s]
      BY <2>1, <2>2, <3>1, <3>2, <3>3, ChangeIsCellStep, CellStepImplements
    <3>4. CASE HolderEnds(s) /\ reopens'[s] = reopens[s]
      BY <2>1, <2>2, <3>1, <3>2, <3>4, EndIsCellStep, CellStepImplements DEF HolderEnds
    <3>5. CASE MayReopen(s, row[s]) /\ row'[s] = Reopened(row[s]) /\ reopens'[s] = reopens[s] + 1
      BY <2>1, <2>2, <3>1, <3>5, ReopenIsCellStep, ReopenCellImplements
    <3> QED BY <3>1, <3>3, <3>4, <3>5 DEF RowStep
  <2>3. CASE UNCHANGED <<row, reopens>>
    BY <2>3 DEF Contract!vars
  <2> QED BY <1>2, <2>1, <2>2, <2>3, OneRowAtATime, TickImplements
<1>3. Inv /\ [Next]_vars => [Contract!Next]_(Contract!vars)
  BY <1>2
<1> QED BY <1>1, <1>3, InvHolds, PTL DEF Spec, ImplementsContract, Contract!Spec
=============================================================================
