------------------------------ MODULE JobsProofs ------------------------------
(***************************************************************************)
(* Proofs about the jobs: their versions (JobCatalogue), for any number of *)
(* requests, and their ranking (HybridRanking), for any jobs, weights and  *)
(* scores.  The two specifications share no variable, and no proof here    *)
(* speaks of both.                                                         *)
(*                                                                         *)
(* That versions do not change needs nothing but that an update writes     *)
(* where nothing is.  That no edit is lost needs more: a request reads the *)
(* number and the last version in two statements, so what it builds on     *)
(* lies anywhere between the number it read and the present one; that the  *)
(* number after the one it read is free squeezes both ends together.       *)
(*                                                                         *)
(* That the best are stored rests on the order they are sorted by: places  *)
(* in a strict total order of n jobs are n different numbers from 1 to n,  *)
(* so that every one is taken, and whatever is before a stored job is      *)
(* stored before it.                                                       *)
(***************************************************************************)
EXTENDS JobCatalogue, HybridRanking, TLAPS, FiniteSetTheorems, SequenceTheorems

-----------------------------------------------------------------------------
(* The versions of a job                                                   *)

\* What a request keeps in hand.
Reads == [op : Operations, step : {"idle", "versions", "commit"},
          edit : Edits, status : {"none", "draft", "active", "inactive"},
          current : 0 .. MaxVersion, latest : Versions \cup {Nothing}]

\* What a request has read of the job is not ahead of it.
ReadsArePast == \A p \in Requests : ~ At(p, "idle") => request[p].current \in 1 .. current

\* The version an edit builds on lies between the number it read and the present one.
BasesAreBetween == \A p \in Requests : At(p, "commit") =>
    \E k \in request[p].current .. current : request[p].latest = version[k]

CreatedWithVersion == status = "none" <=> current = 0

IInv == TypeOK /\ HistoryIsGapless /\ ReadsArePast /\ BasesAreBetween /\ CreatedWithVersion

-----------------------------------------------------------------------------
\* The last version there is has the number of the current one.
LEMMA LatestIsCurrent == ASSUME TypeOK, HistoryIsGapless, current # 0 PROVE Latest = current
<1> USE BoundAssumption
<1>1. current \in Numbers /\ version[current] # Nothing
    BY DEF TypeOK, HistoryIsGapless, Numbers
<1>2. \A k \in Numbers : version[k] # Nothing => k <= current
    BY DEF HistoryIsGapless
<1>3. \A n \in Numbers : version[n] # Nothing /\ (\A k \in Numbers : version[k] # Nothing => k <= n)
                            => n = current
    BY <1>1, <1>2 DEF Numbers, TypeOK
<1> QED BY <1>1, <1>2, <1>3 DEF Latest

\* What is edited is a version again.
LEMMA EditedIsVersion == ASSUME NEW v \in Versions, NEW e \in Edits PROVE Edited(v, e) \in Versions
BY TextsAssumption, NothingAssumption DEF Versions, Edits, Edited

\* A request that has read the job can only append the next version, to the present one.
LEMMA UpdateAppends ==
    ASSUME IInv, NEW p \in Requests, Update(p)
    PROVE  /\ current' = current + 1 /\ current \in Numbers /\ current' \in Numbers
           /\ version' = [version EXCEPT ![current + 1] = Edited(version[current], request[p].edit)]
           /\ version[current + 1] = Nothing
           /\ version[current] \in Versions
<1> USE BoundAssumption
<1>1. request[p].current \in 1 .. current
    BY DEF IInv, ReadsArePast, Update, At
<1>2. current \in 1 .. MaxVersion
    BY <1>1 DEF IInv, TypeOK
<1>3. version[request[p].current + 1] = Nothing /\ request[p].current + 1 \in Numbers
    BY DEF Update, NewNumber, Free
<1>4. ~ (request[p].current + 1 <= current)
    BY <1>3 DEF IInv, HistoryIsGapless
<1>5. request[p].current = current
    BY <1>1, <1>2, <1>4
<1>6. PICK k \in request[p].current .. current : request[p].latest = version[k]
    BY DEF IInv, BasesAreBetween, Update
<1>7. k = current
    BY <1>2, <1>5, <1>6
<1>8. version[current] # Nothing /\ version[current] \in Versions
    BY <1>2 DEF IInv, HistoryIsGapless, TypeOK, Numbers
<1> QED BY <1>2, <1>3, <1>5, <1>6, <1>7, <1>8 DEF Update, NewNumber, Numbers

-----------------------------------------------------------------------------
LEMMA InitInv == Init => IInv
<1> SUFFICES ASSUME Init PROVE IInv OBVIOUS
<1> USE BoundAssumption DEF Init
<1>1. TypeOK
    BY DEF TypeOK, Idle, Operations, NoEdit, Edits
<1>2. HistoryIsGapless
    BY DEF HistoryIsGapless, Numbers
<1>3. ReadsArePast /\ BasesAreBetween
    BY DEF ReadsArePast, BasesAreBetween, At, Idle
<1> QED BY <1>1, <1>2, <1>3 DEF IInv, CreatedWithVersion

\* A request that ends is idle again, and nothing it has read matters any more.
LEMMA EndKeepsReads ==
    ASSUME IInv, NEW p \in Requests, request' = [request EXCEPT ![p] = Idle],
           UNCHANGED <<current, version>>
    PROVE  /\ request' \in [Requests -> Reads]
           /\ ReadsArePast' /\ BasesAreBetween' /\ HistoryIsGapless'
<1>1. Idle \in Reads
    BY BoundAssumption DEF Idle, Reads, Operations, NoEdit, Edits
<1>2. Idle.step = "idle"
    BY DEF Idle
<1> QED BY <1>1, <1>2 DEF IInv, TypeOK, Reads, ReadsArePast, BasesAreBetween, HistoryIsGapless, At

LEMMA CreateKeepsInv == ASSUME IInv, Create PROVE IInv'
<1> USE BoundAssumption
<1>1. current = 0 /\ current' = 1 /\ status' = "draft" /\ 1 \in Numbers
    BY DEF IInv, Create, CreatedWithVersion, Numbers
<1>2. PICK v \in Versions : version' = [version EXCEPT ![1] = v]
    BY DEF Create
<1>3. v # Nothing
    BY NothingAssumption DEF Versions
<1>4. TypeOK'
    BY <1>1, <1>2 DEF IInv, TypeOK, Create
<1>5. HistoryIsGapless'
    BY <1>1, <1>2, <1>3 DEF IInv, TypeOK, HistoryIsGapless, Numbers
<1>6. ReadsArePast' /\ BasesAreBetween'
  <2>1. \A p \in Requests : At(p, "idle")
      BY <1>1 DEF IInv, ReadsArePast
  <2> QED BY <2>1 DEF Create, ReadsArePast, BasesAreBetween, At
<1> QED BY <1>1, <1>4, <1>5, <1>6 DEF IInv, CreatedWithVersion

LEMMA ReadJobKeepsInv ==
    ASSUME IInv, NEW p \in Requests, NEW op \in Operations, NEW edit \in Edits, ReadJob(p, op, edit)
    PROVE  IInv'
<1> USE BoundAssumption
<1>1. current \in 1 .. MaxVersion
    BY DEF IInv, TypeOK, ReadJob, CreatedWithVersion
<1> DEFINE read == [Idle EXCEPT !.op = op, !.step = "versions", !.edit = edit,
                                !.status = status, !.current = current]
<1>2. request' = [request EXCEPT ![p] = read]
    BY DEF ReadJob
<1>3. /\ read \in Reads
      /\ read.step = "versions" /\ read.current = current
    BY DEF Idle, Reads, IInv, TypeOK
<1> HIDE DEF read
<1>4. TypeOK'
  <2>1. request' \in [Requests -> Reads]
      BY <1>2, <1>3 DEF IInv, TypeOK, Reads
  <2> QED BY <2>1 DEF IInv, TypeOK, Reads, ReadJob
<1>5. ReadsArePast'
    BY <1>1, <1>2, <1>3 DEF IInv, TypeOK, ReadsArePast, ReadJob, At
<1>6. BasesAreBetween'
    BY <1>2, <1>3 DEF IInv, TypeOK, BasesAreBetween, ReadJob, At
<1> QED BY <1>4, <1>5, <1>6 DEF IInv, HistoryIsGapless, CreatedWithVersion, ReadJob

LEMMA ReadVersionsKeepsInv == ASSUME IInv, NEW p \in Requests, ReadVersions(p) PROVE IInv'
<1> USE BoundAssumption
<1>1. request[p].current \in 1 .. current /\ current \in 1 .. MaxVersion
    BY DEF IInv, TypeOK, ReadsArePast, ReadVersions, At
<1>2. Latest = current
    BY <1>1, LatestIsCurrent DEF IInv
<1>3. request' = [request EXCEPT ![p] = [@ EXCEPT !.step = "commit", !.latest = version[current]]]
    BY <1>2 DEF ReadVersions, IInv, TypeOK
<1>4. version[current] \in Versions \cup {Nothing}
    BY <1>1 DEF IInv, TypeOK, Numbers
<1>5. TypeOK'
  <2>1. request[p] \in Reads
      BY DEF IInv, TypeOK, Reads
  <2>2. [request[p] EXCEPT !.step = "commit", !.latest = version[current]] \in Reads
      BY <1>4, <2>1 DEF Reads
  <2>3. request' \in [Requests -> Reads]
      BY <1>3, <2>2 DEF IInv, TypeOK, Reads
  <2> QED BY <2>3 DEF IInv, TypeOK, Reads, ReadVersions
<1>6. ReadsArePast'
    BY <1>1, <1>3 DEF IInv, TypeOK, ReadsArePast, ReadVersions, At
<1>7. BasesAreBetween'
  <2> SUFFICES ASSUME NEW q \in Requests, At(q, "commit")'
               PROVE  \E k \in request'[q].current .. current : request'[q].latest = version[k]
      BY DEF BasesAreBetween, ReadVersions
  <2>1. CASE q = p
      BY <1>1, <1>3, <2>1 DEF IInv, TypeOK
  <2>2. CASE q # p
      BY <1>3, <2>2 DEF IInv, TypeOK, BasesAreBetween, At
  <2> QED BY <2>1, <2>2
<1> QED BY <1>5, <1>6, <1>7 DEF IInv, HistoryIsGapless, CreatedWithVersion, ReadVersions

LEMMA MatchKeepsInv == ASSUME IInv, NEW p \in Requests, Match(p) PROVE IInv'
<1> USE BoundAssumption
<1>1. request[p].current \in 1 .. current /\ current \in 1 .. MaxVersion
    BY DEF IInv, TypeOK, ReadsArePast, Match, At
<1>2. version[request[p].current] \in Versions
    BY <1>1 DEF IInv, TypeOK, HistoryIsGapless, Numbers
<1>3. matched' \in [number : Numbers, content : Versions, read : Numbers]
    BY <1>1, <1>2 DEF Match, MatchedVersion, Numbers
<1>4. ReadsArePast' /\ BasesAreBetween' /\ HistoryIsGapless' /\ TypeOK'
    BY <1>3, EndKeepsReads DEF Match, IInv, TypeOK, Reads
<1> QED BY <1>4 DEF IInv, CreatedWithVersion, Match

LEMMA UpdateKeepsInv == ASSUME IInv, NEW p \in Requests, Update(p) PROVE IInv'
<1> USE BoundAssumption
<1>1. /\ current' = current + 1 /\ current \in Numbers /\ current' \in Numbers
      /\ version' = [version EXCEPT ![current + 1] = Edited(version[current], request[p].edit)]
      /\ version[current] \in Versions
    BY UpdateAppends
<1>2. Edited(version[current], request[p].edit) \in Versions
    BY <1>1, EditedIsVersion DEF IInv, TypeOK
<1>3. Edited(version[current], request[p].edit) # Nothing
    BY <1>2, NothingAssumption DEF Versions
<1>4. request' = [request EXCEPT ![p] = Idle] /\ UNCHANGED <<status, matched>>
    BY DEF Update
<1>5. Idle \in Reads /\ Idle.step = "idle"
    BY DEF Idle, Reads, Operations, NoEdit, Edits
<1>6. TypeOK'
    BY <1>1, <1>2, <1>4, <1>5 DEF IInv, TypeOK, Reads, Numbers
<1>7. HistoryIsGapless'
    BY <1>1, <1>3 DEF IInv, TypeOK, HistoryIsGapless, Numbers
<1>8. ReadsArePast'
    BY <1>1, <1>4, <1>5 DEF IInv, TypeOK, ReadsArePast, At, Numbers
<1>9. BasesAreBetween'
  <2> SUFFICES ASSUME NEW q \in Requests, At(q, "commit")'
               PROVE  \E k \in request'[q].current .. current' : request'[q].latest = version'[k]
      BY DEF BasesAreBetween
  <2>1. q # p /\ request'[q] = request[q] /\ At(q, "commit")
      BY <1>4, <1>5 DEF IInv, TypeOK, At
  <2>2. PICK k \in request[q].current .. current : request[q].latest = version[k]
      BY <2>1 DEF IInv, BasesAreBetween
  <2>3. request[q].current \in 1 .. current
      BY <2>1 DEF IInv, ReadsArePast, At
  <2>4. version'[k] = version[k] /\ k \in request[q].current .. current'
      BY <1>1, <2>2, <2>3 DEF IInv, TypeOK, Numbers
  <2> QED BY <2>1, <2>2, <2>4
<1> QED BY <1>1, <1>4, <1>6, <1>7, <1>8, <1>9 DEF IInv, CreatedWithVersion, Numbers

LEMMA EndKeepsInv ==
    ASSUME IInv, NEW p \in Requests, Activate(p) \/ Deactivate(p) \/ Fail(p) PROVE IInv'
<1>1. request' = [request EXCEPT ![p] = Idle] /\ UNCHANGED <<current, version, matched>>
    BY DEF Activate, Deactivate, Fail
<1>2. ~ At(p, "idle")
    BY DEF Activate, Deactivate, Fail, At
<1>3. status # "none" /\ current # 0
    BY <1>2 DEF IInv, TypeOK, ReadsArePast, CreatedWithVersion
<1>4. status' \in {"draft", "active", "inactive"}
    BY <1>3 DEF Activate, Deactivate, Fail, SetStatus, IInv, TypeOK
<1>5. ReadsArePast' /\ BasesAreBetween' /\ HistoryIsGapless' /\ TypeOK'
    BY <1>1, <1>4, EndKeepsReads DEF IInv, TypeOK, Reads
<1> QED BY <1>1, <1>3, <1>4, <1>5 DEF IInv, CreatedWithVersion

LEMMA StepInv == IInv /\ [Next]_vars => IInv'
<1> SUFFICES ASSUME IInv, [Next]_vars PROVE IInv' OBVIOUS
<1>1. CASE Create
    BY <1>1, CreateKeepsInv
<1>2. CASE \E p \in Requests : Serve(p)
  <2> PICK p \in Requests : Serve(p)
      BY <1>2
  <2>1. CASE \E edit \in Edits : ReadJob(p, "update", edit)
      BY <2>1, ReadJobKeepsInv DEF Operations
  <2>2. CASE \E op \in {"activate", "deactivate", "match"} : ReadJob(p, op, NoEdit)
      BY <2>2, ReadJobKeepsInv DEF Operations, NoEdit, Edits
  <2>3. CASE ReadVersions(p)
      BY <2>3, ReadVersionsKeepsInv
  <2>4. CASE Match(p)
      BY <2>4, MatchKeepsInv
  <2>5. CASE Update(p)
      BY <2>5, UpdateKeepsInv
  <2>6. CASE Activate(p) \/ Deactivate(p) \/ Fail(p)
      BY <2>6, EndKeepsInv
  <2> QED BY <2>1, <2>2, <2>3, <2>4, <2>5, <2>6 DEF Serve
<1>3. CASE UNCHANGED vars
    BY <1>3 DEF vars, IInv, TypeOK, HistoryIsGapless, ReadsArePast, BasesAreBetween,
                CreatedWithVersion, At
<1> QED BY <1>1, <1>2, <1>3 DEF Next

LEMMA InvHolds == Spec => []IInv
BY InitInv, StepInv, PTL DEF Spec

-----------------------------------------------------------------------------
(* The properties, for every number of requests and versions               *)

\* Every variable has its type; what a match found is a version, never nothing.
THEOREM TypeCorrect == Spec => []TypeOK
<1>1. IInv => TypeOK
    BY DEF IInv
<1> QED BY <1>1, InvHolds, PTL

\* uq_job_version alone keeps the history without gaps.
THEOREM HistoryHasNoGaps == Spec => []HistoryIsGapless
<1>1. IInv => HistoryIsGapless
    BY DEF IInv
<1> QED BY <1>1, InvHolds, PTL

\* No step replaces a version that is there.
LEMMA StepKeepsVersions ==
    IInv /\ [Next]_vars => \A n \in Numbers : version[n] # Nothing => version'[n] = version[n]
<1> SUFFICES ASSUME IInv, [Next]_vars, NEW n \in Numbers, version[n] # Nothing
             PROVE  version'[n] = version[n]
    OBVIOUS
<1>1. CASE Create
    BY <1>1 DEF Create, IInv, TypeOK, HistoryIsGapless, CreatedWithVersion, Numbers
<1>2. CASE \E p \in Requests : Update(p)
    BY <1>2, UpdateAppends DEF IInv, TypeOK
<1>3. CASE UNCHANGED version
    BY <1>3
<1> QED BY <1>1, <1>2, <1>3
        DEF Next, Serve, ReadJob, ReadVersions, Match, Activate, Deactivate, Fail, vars

\* Later edits do not change historical results.
THEOREM VersionsStay == Spec => VersionsAreImmutable
<1>1. IInv /\ [Next]_vars =>
         [\A n \in Numbers : version[n] # Nothing => version'[n] = version[n]]_vars
    BY StepKeepsVersions
<1> QED BY <1>1, InvHolds, PTL DEF Spec, VersionsAreImmutable

\* Every edit is applied to the version that is current when it commits, although it was
\* read long before and nothing was locked.
THEOREM NoEditIsLost == Spec => EditsBuildOnEachOther
<1> DEFINE Builds == current' # current /\ current # 0 =>
          /\ current' = current + 1
          /\ \E p \in Requests :
                /\ request[p].op = "update"
                /\ version'[current'] = Edited(version[current], request[p].edit)
<1>1. IInv /\ [Next]_vars => [Builds]_vars
  <2> SUFFICES ASSUME IInv, [Next]_vars PROVE Builds OBVIOUS
  <2>1. CASE Create
      BY <2>1 DEF Create, IInv, CreatedWithVersion
  <2>2. CASE \E p \in Requests : Update(p)
    <3> PICK p \in Requests : Update(p)
        BY <2>2
    <3>1. /\ current' = current + 1 /\ current' \in Numbers
          /\ version' = [version EXCEPT ![current + 1] = Edited(version[current], request[p].edit)]
        BY UpdateAppends
    <3>2. version'[current'] = Edited(version[current], request[p].edit)
        BY <3>1 DEF IInv, TypeOK
    <3> QED BY <3>1, <3>2 DEF Update
  <2>3. CASE UNCHANGED current
      BY <2>3
  <2> QED BY <2>1, <2>2, <2>3
          DEF Next, Serve, ReadJob, ReadVersions, Match, Activate, Deactivate, Fail, vars
<1> QED BY <1>1, InvHolds, PTL DEF Spec, EditsBuildOnEachOther

\* What a match has found stays what the catalogue calls that version.
THEOREM MatchesStayTrue == Spec => []MatchesFindTheirVersion
<1>1. Init => MatchesFindTheirVersion
    BY DEF Init, MatchesFindTheirVersion
<1>2. IInv /\ MatchesFindTheirVersion /\ [Next]_vars => MatchesFindTheirVersion'
  <2> SUFFICES ASSUME IInv, MatchesFindTheirVersion, [Next]_vars PROVE MatchesFindTheirVersion'
      OBVIOUS
  <2>1. CASE \E p \in Requests : Match(p)
      BY <2>1 DEF Match, MatchedVersion, MatchesFindTheirVersion
  <2>2. CASE UNCHANGED matched
    <3>1. CASE matched = Nothing
        BY <2>2, <3>1 DEF MatchesFindTheirVersion
    <3>2. CASE matched # Nothing
      <4>1. matched.number \in Numbers /\ matched.content \in Versions
          BY <3>2 DEF IInv, TypeOK
      <4>2. version[matched.number] # Nothing
          BY <3>2, <4>1, NothingAssumption DEF MatchesFindTheirVersion, Versions
      <4>3. version'[matched.number] = version[matched.number]
          BY <4>1, <4>2, StepKeepsVersions
      <4> QED BY <2>2, <3>2, <4>3 DEF MatchesFindTheirVersion
    <3> QED BY <3>1, <3>2
  <2> QED BY <2>1, <2>2
          DEF Next, Serve, Create, ReadJob, ReadVersions, Update, Activate, Deactivate, Fail, vars
<1> QED BY <1>1, <1>2, InvHolds, PTL DEF Spec

-----------------------------------------------------------------------------
(* Orders of jobs                                                          *)

\* R puts any two different jobs in one order, and no three in a circle.
TotalOrderOn(R) == /\ \A a \in Jobs : <<a, a>> \notin R
                   /\ \A a, b \in Jobs : a # b => <<a, b>> \in R \/ <<b, a>> \in R
                   /\ \A a, b, c \in Jobs : <<a, b>> \in R /\ <<b, c>> \in R => <<a, c>> \in R

-----------------------------------------------------------------------------
(* Arithmetic                                                              *)

\* A product with a weight grows with its other factor.
LEMMA TimesMonotone == ASSUME NEW w \in Nat, NEW x \in Int, NEW y \in Int, x <= y PROVE w * x <= w * y
OBVIOUS

\* A quotient grows with what is divided.
LEMMA DivMonotone ==
    ASSUME NEW d \in Nat \ {0}, NEW x \in Int, NEW y \in Int, x <= y
    PROVE  x \div d \in Int /\ y \div d \in Int /\ x \div d <= y \div d
<1> DEFINE p == x \div d
           q == y \div d
<1>1. p \in Int /\ q \in Int /\ d * p <= x /\ x < d * p + d /\ d * q <= y /\ y < d * q + d
    OBVIOUS
<1> HIDE DEF p, q
<1>2. p > q => d * p >= d * (q + 1)
    BY <1>1, TimesMonotone
<1>3. d * (q + 1) = d * q + d
    BY <1>1
<1>4. p <= q
    BY <1>1, <1>2, <1>3
<1> QED BY <1>1, <1>4 DEF p, q

\* A quotient is at least what it is a multiple of, and at most.
LEMMA DivBounds ==
    ASSUME NEW d \in Nat \ {0}, NEW x \in Int, NEW u \in Int
    PROVE  /\ d * u <= x => u <= x \div d
           /\ x <= d * u => x \div d <= u
<1>1. (d * u) \div d = u
    OBVIOUS
<1>2. d * u \in Int
    OBVIOUS
<1> QED BY <1>1, <1>2, DivMonotone

\* Rounding keeps the order.
LEMMA RoundedMonotone ==
    ASSUME NEW a \in Int, NEW b \in Int, NEW d \in Nat \ {0}, a <= b
    PROVE  /\ RoundedUp(a, d) <= RoundedUp(b, d) /\ RoundedUp(a, d) \in Int /\ RoundedUp(b, d) \in Int
<1>1. 2 * a + d \in Int /\ 2 * b + d \in Int /\ 2 * a + d <= 2 * b + d /\ 2 * d \in Nat \ {0}
    OBVIOUS
<1> QED BY <1>1, DivMonotone DEF RoundedUp

\* A multiple is rounded to what it is a multiple of.
LEMMA RoundedMultiple == ASSUME NEW d \in Nat \ {0}, NEW u \in Int PROVE RoundedUp(d * u, d) = u
<1> DEFINE n == 2 * d
           x == 2 * (d * u) + d
<1>1. n \in Nat \ {0} /\ x \in Int /\ n * u <= x /\ x < n * (u + 1)
    OBVIOUS
<1>2. n * u \in Int /\ n * (u + 1) \in Int /\ u + 1 \in Int
    OBVIOUS
<1> HIDE DEF n, x
<1>3. u <= x \div n /\ x \div n \in Int
    BY <1>1, DivBounds, DivMonotone
<1>4. n * (x \div n) <= x
    BY <1>1
<1>5. x \div n >= u + 1 => n * (u + 1) <= n * (x \div n)
    BY <1>1, <1>2, <1>3, TimesMonotone
<1>6. n * (x \div n) \in Int
    BY <1>1, <1>3
<1>7. x \div n = u
    BY <1>1, <1>2, <1>3, <1>4, <1>5, <1>6
<1> QED BY <1>7 DEF n, x, RoundedUp

-----------------------------------------------------------------------------
(* Weights of one sign                                                     *)

\* Another skill in the resume covers no less.
LEMMA CoverageGrows ==
    ASSUME NEW items \in SUBSET Names, NEW S \in SUBSET Names, NEW n \in Names
    PROVE  /\ Coverage(items, S) \in Int /\ Coverage(items, S \cup {n}) \in Int
           /\ Coverage(items, S) <= Coverage(items, S \cup {n})
<1> DEFINE met(T) == {m \in items : Key[m] \in Available(T)}
<1>1. IsFiniteSet(items)
    BY NamesAssumption, FS_Subset
<1>2. met(S) \subseteq met(S \cup {n}) /\ met(S \cup {n}) \subseteq items
    BY DEF Available
<1>3. /\ IsFiniteSet(met(S \cup {n})) /\ IsFiniteSet(met(S))
      /\ Cardinality(met(S)) <= Cardinality(met(S \cup {n}))
    BY <1>1, <1>2, FS_Subset
<1>4. Cardinality(met(S)) \in Nat /\ Cardinality(met(S \cup {n})) \in Nat /\ Cardinality(items) \in Nat
    BY <1>1, <1>3, FS_CardinalityType
<1>5. items # {} => Cardinality(items) # 0
    BY <1>1, FS_EmptySet
<1>6. /\ Unit * Cardinality(met(S)) \in Int /\ Unit * Cardinality(met(S \cup {n})) \in Int
      /\ Unit * Cardinality(met(S)) <= Unit * Cardinality(met(S \cup {n}))
    BY <1>3, <1>4 DEF Unit
<1>7. CASE items = {}
    BY <1>7 DEF Coverage, Unit
<1>8. CASE items # {}
  <2>1. Cardinality(items) \in Nat \ {0}
      BY <1>4, <1>5, <1>8
  <2>2. \A T : Coverage(items, T) = (Unit * Cardinality(met(T))) \div Cardinality(items)
      BY <1>8 DEF Coverage
  <2> QED BY <1>6, <2>1, <2>2, DivMonotone
<1> QED BY <1>7, <1>8

\* Coverage is a share.
LEMMA CoverageIsShare == ASSUME NEW items \in SUBSET Names, NEW S PROVE Coverage(items, S) \in 0 .. Unit
<1> DEFINE met == {m \in items : Key[m] \in Available(S)}
<1>1. IsFiniteSet(items) /\ IsFiniteSet(met) /\ Cardinality(met) <= Cardinality(items)
    BY NamesAssumption, FS_Subset
<1>2. Cardinality(items) \in Nat /\ Cardinality(met) \in Nat /\ (items # {} => Cardinality(items) # 0)
    BY <1>1, FS_CardinalityType, FS_EmptySet
<1>3. ASSUME NEW m \in Nat, NEW d \in Nat \ {0}, m <= d PROVE (Unit * m) \div d \in 0 .. Unit
  <2>1. Unit * m \in Int /\ d * 0 <= Unit * m /\ Unit * m <= d * Unit /\ Unit \in Int
      BY <1>3 DEF Unit
  <2>2. (Unit * m) \div d \in Int
      BY <2>1, DivMonotone
  <2> QED BY <2>1, <2>2, DivBounds
<1>4. CASE items = {}
    BY <1>4 DEF Coverage, Unit
<1>5. CASE items # {}
    BY <1>1, <1>2, <1>3, <1>5 DEF Coverage
<1> QED BY <1>4, <1>5

\* More years are no less experience, nor are known ones, from half of those required.
LEMMA ExperienceGrows ==
    ASSUME NEW minimum \in Int, NEW x \in Int \cup {NoScore}, NEW y \in Int,
           IF x = NoScore THEN 2 * y >= minimum ELSE y >= x
    PROVE  /\ Experience(x, minimum) \in Int /\ Experience(y, minimum) \in Int
           /\ Experience(x, minimum) <= Experience(y, minimum)
<1> USE NumbersAssumption
<1>1. CASE minimum <= 0
    BY <1>1 DEF Experience, Unit
<1>2. CASE minimum > 0
  <2>0. minimum \in Nat \ {0} /\ y # NoScore
      BY <1>2
  <2>1. ASSUME NEW z \in Int
        PROVE  /\ (Unit * z) \div minimum \in Int
               /\ z < minimum => (Unit * z) \div minimum <= Unit
    <3>1. z < minimum => Unit * z <= minimum * Unit
        BY DEF Unit
    <3>2. Unit * z \in Int /\ Unit \in Int
        BY DEF Unit
    <3> QED BY <2>0, <3>1, <3>2, DivBounds, DivMonotone
  <2>2. CASE x = NoScore
    <3>1. minimum * 5000 <= Unit * y /\ Unit * y \in Int
        BY <2>2 DEF Unit
    <3>2. 5000 <= (Unit * y) \div minimum
        BY <2>0, <3>1, DivBounds
    <3>3. Unit \div 2 = 5000 /\ Unit \in Int /\ Unit > 5000
        BY DEF Unit
    <3>4. Experience(x, minimum) = 5000
        BY <1>2, <2>2, <3>3 DEF Experience
    <3> QED BY <1>2, <2>0, <2>1, <3>2, <3>3, <3>4 DEF Experience
  <2>3. CASE x # NoScore
    <3>1. Unit * x \in Int /\ Unit * y \in Int /\ Unit * x <= Unit * y /\ x \in Int
        BY <2>3 DEF Unit
    <3>2. (Unit * x) \div minimum <= (Unit * y) \div minimum
        BY <2>0, <3>1, DivMonotone
    <3>3. Unit \in Int
        BY DEF Unit
    <3> QED BY <1>2, <2>0, <2>1, <2>3, <3>1, <3>2, <3>3 DEF Experience
  <2> QED BY <2>2, <2>3
<1> QED BY <1>1, <1>2

\* Experience is a number, and a share where years are not negative.
LEMMA ExperienceIsShare ==
    ASSUME NEW minimum \in Int, NEW x \in Years \cup {NoScore}
    PROVE  /\ Experience(x, minimum) \in Int
           /\ ~ (x # NoScore /\ x < 0) => Experience(x, minimum) \in 0 .. Unit
<1> USE NumbersAssumption
<1>0. CASE minimum <= 0
    BY <1>0 DEF Experience, Unit
<1>1. CASE minimum > 0 /\ x = NoScore
  <2>1. Unit \div 2 \in 0 .. Unit
      BY DEF Unit
  <2> QED BY <1>1, <2>1 DEF Experience
<1>2. CASE minimum > 0 /\ x # NoScore
  <2>1. minimum \in Nat \ {0} /\ x \in Int
      BY <1>2
  <2>2. Unit * x \in Int /\ (x >= 0 => minimum * 0 <= Unit * x)
        /\ (x < minimum => Unit * x <= minimum * Unit) /\ Unit \in Nat
      BY <2>1 DEF Unit
  <2>3. /\ (Unit * x) \div minimum \in Int
        /\ x >= 0 => 0 <= (Unit * x) \div minimum
        /\ x < minimum => (Unit * x) \div minimum <= Unit
      BY <2>1, <2>2, DivBounds, DivMonotone
  <2> QED BY <1>2, <2>1, <2>2, <2>3 DEF Experience
<1> QED BY <1>0, <1>1, <1>2

\* The score, of what it is made of.
Weighted(w, r, p, e) == Rounded(w.skills * ((8 * r + 2 * p) \div 10) + w.experience * e + w.projects * p,
                                Normaliser(w))

\* Weights of one sign make an average with weights that are none below zero.
LEMMA OneSignAverages ==
    ASSUME NEW w \in Weights, OneSign(w)
    PROVE  \E a, b, c \in Nat, d \in Nat \ {0} :
              /\ a + b + c <= d
              /\ \A s, e, p \in Int :
                    Rounded(w.skills * s + w.experience * e + w.projects * p, Normaliser(w))
                      = RoundedUp(a * s + b * e + c * p, d)
<1>1. w.skills \in Int /\ w.experience \in Int /\ w.projects \in Int
    BY DEF Weights
<1> DEFINE Sum(s, e, p) == w.skills * s + w.experience * e + w.projects * p
<1>2. \A s, e, p \in Int : Sum(s, e, p) \in Int
    BY <1>1
<1>3. CASE w.skills >= 0 /\ w.experience >= 0 /\ w.projects >= 0
  <2>1. Normaliser(w) \in Nat \ {0} /\ w.skills + w.experience + w.projects <= Normaliser(w)
      BY <1>1, <1>3 DEF Normaliser
  <2>2. \A s, e, p \in Int : Rounded(Sum(s, e, p), Normaliser(w)) = RoundedUp(Sum(s, e, p), Normaliser(w))
      BY <2>1 DEF Rounded
  <2>3. w.skills \in Nat /\ w.experience \in Nat /\ w.projects \in Nat
      BY <1>1, <1>3
  <2> HIDE DEF Sum
  <2>4. \A s, e, p \in Int : Sum(s, e, p) = w.skills * s + w.experience * e + w.projects * p
      BY DEF Sum
  <2> DEFINE Averages(k, l, m, n) ==
           /\ k + l + m <= n
           /\ \A s, e, p \in Int : Rounded(Sum(s, e, p), Normaliser(w)) = RoundedUp(k * s + l * e + m * p, n)
  <2>5. Averages(w.skills, w.experience, w.projects, Normaliser(w))
      BY <2>1, <2>2, <2>4
  <2> HIDE DEF Averages
  <2>6. \E k, l, m \in Nat, n \in Nat \ {0} : Averages(k, l, m, n)
      BY <2>1, <2>3, <2>5
  <2> QED BY <2>6 DEF Averages, Sum
<1>4. CASE /\ w.skills <= 0 /\ w.experience <= 0 /\ w.projects <= 0
           /\ w.skills + w.experience + w.projects # 0
  <2> DEFINE a == - w.skills
             b == - w.experience
             c == - w.projects
             d == - (w.skills + w.experience + w.projects)
  <2>1. a \in Nat /\ b \in Nat /\ c \in Nat /\ d \in Nat \ {0} /\ a + b + c <= d
      BY <1>1, <1>4
  <2>2. Normaliser(w) = - d /\ ~ (- d > 0) /\ - (- d) = d
      BY <1>1, <1>4 DEF Normaliser
  <2>3. ASSUME NEW s \in Int, NEW e \in Int, NEW p \in Int
        PROVE  - Sum(s, e, p) = a * s + b * e + c * p
    <3>1. /\ a * s = - (w.skills * s) /\ b * e = - (w.experience * e) /\ c * p = - (w.projects * p)
          /\ w.skills * s \in Int /\ w.experience * e \in Int /\ w.projects * p \in Int
        BY <1>1
    <3> QED BY <3>1
  <2> HIDE DEF a, b, c, d, Sum
  <2>4. \A s, e, p \in Int : Rounded(Sum(s, e, p), Normaliser(w)) = RoundedUp(a * s + b * e + c * p, d)
      BY <2>2, <2>3 DEF Rounded
  <2>5. \E k, l, m \in Nat, n \in Nat \ {0} :
           /\ k + l + m <= n
           /\ \A s, e, p \in Int : Rounded(Sum(s, e, p), Normaliser(w)) = RoundedUp(k * s + l * e + m * p, n)
      BY <2>1, <2>4
  <2> QED BY <2>5 DEF Sum
<1>5. ASSUME w.skills <= 0 /\ w.experience <= 0 /\ w.projects <= 0,
             w.skills + w.experience + w.projects = 0
      PROVE  w.skills >= 0 /\ w.experience >= 0 /\ w.projects >= 0
    BY <1>1, <1>5
<1> QED BY <1>3, <1>4, <1>5 DEF OneSign

\* Such a score grows with what it is made of, and is a share of shares.
LEMMA ScoreGrows ==
    ASSUME NEW w \in Weights, OneSign(w),
           NEW r1 \in Int, NEW r2 \in Int, r1 <= r2,
           NEW p1 \in Int, NEW p2 \in Int, p1 <= p2,
           NEW e1 \in Int, NEW e2 \in Int, e1 <= e2
    PROVE  /\ Weighted(w, r1, p1, e1) <= Weighted(w, r2, p2, e2)
           /\ Weighted(w, r1, p1, e1) \in Int /\ Weighted(w, r2, p2, e2) \in Int
<1> DEFINE s1 == (8 * r1 + 2 * p1) \div 10
           s2 == (8 * r2 + 2 * p2) \div 10
<1>1. PICK a, b, c \in Nat, d \in Nat \ {0} :
         /\ a + b + c <= d
         /\ \A s, e, p \in Int :
               Rounded(w.skills * s + w.experience * e + w.projects * p, Normaliser(w))
                 = RoundedUp(a * s + b * e + c * p, d)
    BY OneSignAverages
<1>2. s1 \in Int /\ s2 \in Int /\ s1 <= s2
    OBVIOUS
<1>0. /\ Weighted(w, r1, p1, e1) = Rounded(w.skills * s1 + w.experience * e1 + w.projects * p1, Normaliser(w))
      /\ Weighted(w, r2, p2, e2) = Rounded(w.skills * s2 + w.experience * e2 + w.projects * p2, Normaliser(w))
    BY DEF Weighted
<1> HIDE DEF s1, s2
<1>3. /\ Weighted(w, r1, p1, e1) = RoundedUp(a * s1 + b * e1 + c * p1, d)
      /\ Weighted(w, r2, p2, e2) = RoundedUp(a * s2 + b * e2 + c * p2, d)
  <2> DEFINE Sum(s, e, p) == w.skills * s + w.experience * e + w.projects * p
             Mix(s, e, p) == a * s + b * e + c * p
  <2>1. \A s, e, p \in Int : Rounded(Sum(s, e, p), Normaliser(w)) = RoundedUp(Mix(s, e, p), d)
      BY <1>1
  <2>2. /\ Weighted(w, r1, p1, e1) = Rounded(Sum(s1, e1, p1), Normaliser(w))
        /\ Weighted(w, r2, p2, e2) = Rounded(Sum(s2, e2, p2), Normaliser(w))
      BY <1>0
  <2> HIDE DEF Sum, Mix
  <2>3. /\ Weighted(w, r1, p1, e1) = RoundedUp(Mix(s1, e1, p1), d)
        /\ Weighted(w, r2, p2, e2) = RoundedUp(Mix(s2, e2, p2), d)
      BY <1>2, <2>1, <2>2
  <2> QED BY <2>3 DEF Mix
<1>4. a * s1 <= a * s2 /\ b * e1 <= b * e2 /\ c * p1 <= c * p2
    BY <1>2, TimesMonotone
<1>5. /\ a * s1 \in Int /\ a * s2 \in Int /\ b * e1 \in Int /\ b * e2 \in Int
      /\ c * p1 \in Int /\ c * p2 \in Int
    BY <1>2
<1>6. /\ a * s1 + b * e1 + c * p1 \in Int /\ a * s2 + b * e2 + c * p2 \in Int
      /\ a * s1 + b * e1 + c * p1 <= a * s2 + b * e2 + c * p2
    BY <1>4, <1>5
<1> QED BY <1>3, <1>6, RoundedMonotone

\* The part of the skills is a share.
LEMMA SkillsAreShare ==
    ASSUME NEW r \in 0 .. Unit, NEW p \in 0 .. Unit PROVE (8 * r + 2 * p) \div 10 \in 0 .. Unit
<1>0. Unit \in Int
    BY DEF Unit
<1>1. 8 * r + 2 * p \in Int /\ 10 * 0 <= 8 * r + 2 * p /\ 8 * r + 2 * p <= 10 * Unit /\ Unit \in Int
    BY <1>0
<1>2. (8 * r + 2 * p) \div 10 \in Int
    BY <1>1, DivMonotone
<1> QED BY <1>1, <1>2, DivBounds

\* A share of a weight.
LEMMA PartOfWeight == ASSUME NEW n \in Nat, NEW x \in 0 .. Unit PROVE n * x \in Nat /\ n * x <= n * Unit
<1>1. x \in Nat /\ Unit \in Int /\ x <= Unit
    BY DEF Unit
<1> QED BY <1>1, TimesMonotone

\* A score of shares is a share.
LEMMA ScoreIsShare ==
    ASSUME NEW w \in Weights, OneSign(w), NEW r \in 0 .. Unit, NEW p \in 0 .. Unit, NEW e \in 0 .. Unit
    PROVE  Weighted(w, r, p, e) \in 0 .. Unit
<1> DEFINE s == (8 * r + 2 * p) \div 10
<1>1. PICK a, b, c \in Nat, d \in Nat \ {0} :
         /\ a + b + c <= d
         /\ \A x, y, z \in Int :
               Rounded(w.skills * x + w.experience * y + w.projects * z, Normaliser(w))
                 = RoundedUp(a * x + b * y + c * z, d)
    BY OneSignAverages
<1>2. s \in 0 .. Unit /\ s \in Int /\ e \in Int /\ p \in Int
  <2>1. s \in 0 .. Unit
      BY SkillsAreShare
  <2> HIDE DEF s
  <2> QED BY <2>1
<1>3. Weighted(w, r, p, e) = RoundedUp(a * s + b * e + c * p, d)
    BY <1>1, <1>2 DEF Weighted
<1> HIDE DEF s
<1>4. /\ a * s \in Nat /\ b * e \in Nat /\ c * p \in Nat
      /\ a * s <= a * Unit /\ b * e <= b * Unit /\ c * p <= c * Unit
    BY <1>2, PartOfWeight
<1>5. a + b + c <= d
    BY <1>1
<1>6. a * Unit + b * Unit + c * Unit <= d * Unit /\ d * Unit \in Int /\ d * 0 = 0
    BY <1>5 DEF Unit
<1> DEFINE n == a * s + b * e + c * p
<1>7. n \in Int /\ d * 0 <= n /\ n <= d * Unit /\ d * 0 \in Int
  <2>1. a * Unit \in Int /\ b * Unit \in Int /\ c * Unit \in Int
      BY DEF Unit
  <2> QED BY <1>4, <1>6, <2>1
<1> HIDE DEF n
<1>8. RoundedUp(d * 0, d) = 0 /\ RoundedUp(d * Unit, d) = Unit
    BY RoundedMultiple DEF Unit
<1>9. RoundedUp(d * 0, d) <= RoundedUp(n, d) /\ RoundedUp(n, d) <= RoundedUp(d * Unit, d) /\ RoundedUp(n, d) \in Int
    BY <1>6, <1>7, RoundedMonotone
<1> QED BY <1>3, <1>8, <1>9 DEF n

\* The score of the rules is made of two coverages and the experience.
LEMMA ScoreIsWeighted ==
    ASSUME NEW job, NEW T, NEW y
    PROVE  RuleScore(job, T, y) = Weighted(job.weights, Coverage(job.required, T),
                                           Coverage(job.preferred, T), Experience(y, job.minimum))
BY DEF RuleScore, Weighted

\* In any state: where weights have one sign, more skills or years never lower the score.
LEMMA MoreIsBetter ==
    ASSUME RankingTypeOK, OnlyMixedSignsFail PROVE OneSignIsFair
<1> USE NumbersAssumption
<1> SUFFICES ASSUME NEW j \in Jobs, OneSign(profile[j].weights)
             PROVE  LET score(skills, years) == RuleScore(profile[j], skills, years) IN
                    /\ \A n \in Names :
                          score(resume.skills \cup {n}, resume.years) >= score(resume.skills, resume.years)
                    /\ \A y \in Years : SaysNoLess(y, profile[j]) =>
                          score(resume.skills, y) >= score(resume.skills, resume.years)
    BY DEF OneSignIsFair
<1> DEFINE job == profile[j]
           S == resume.skills
           y0 == resume.years
<1>1. /\ job.required \in SUBSET Names /\ job.preferred \in SUBSET Names
      /\ job.minimum \in Int /\ job.weights \in Weights /\ OneSign(job.weights)
      /\ S \in SUBSET Names /\ y0 \in Years \cup {NoScore}
    BY DEF RankingTypeOK, Profiles, Resumes
<1>2. \A y \in Years : SaysNoLess(y, job) => IF y0 = NoScore THEN 2 * y >= job.minimum ELSE y >= y0
    BY DEF SaysNoLess
<1> HIDE DEF job, S, y0
<1>3. ASSUME NEW r1 \in Int, NEW r2 \in Int, NEW p1 \in Int, NEW p2 \in Int, NEW e1 \in Int, NEW e2 \in Int,
             r1 <= r2, p1 <= p2, e1 <= e2
      PROVE  /\ Weighted(job.weights, r1, p1, e1) <= Weighted(job.weights, r2, p2, e2)
             /\ Weighted(job.weights, r1, p1, e1) \in Int /\ Weighted(job.weights, r2, p2, e2) \in Int
    BY <1>1, <1>3, ScoreGrows
<1>4. ASSUME NEW n \in Names
      PROVE  RuleScore(job, S \cup {n}, y0) >= RuleScore(job, S, y0)
  <2>1. /\ Coverage(job.required, S) \in Int /\ Coverage(job.required, S \cup {n}) \in Int
        /\ Coverage(job.required, S) <= Coverage(job.required, S \cup {n})
        /\ Coverage(job.preferred, S) \in Int /\ Coverage(job.preferred, S \cup {n}) \in Int
        /\ Coverage(job.preferred, S) <= Coverage(job.preferred, S \cup {n})
      BY <1>1, CoverageGrows
  <2>2. Experience(y0, job.minimum) \in Int
      BY <1>1, ExperienceIsShare
  <2> QED BY <1>3, <2>1, <2>2, ScoreIsWeighted
<1>5. ASSUME NEW y \in Years, SaysNoLess(y, job)
      PROVE  RuleScore(job, S, y) >= RuleScore(job, S, y0)
  <2>0. y0 \in Int \cup {NoScore} /\ y \in Int
      BY <1>1
  <2>1. /\ Experience(y0, job.minimum) \in Int /\ Experience(y, job.minimum) \in Int
        /\ Experience(y0, job.minimum) <= Experience(y, job.minimum)
      BY <1>1, <1>2, <1>5, <2>0, ExperienceGrows
  <2>2. Coverage(job.required, S) \in Int /\ Coverage(job.preferred, S) \in Int
    <3>1. \A items \in SUBSET Names : Coverage(items, S) \in 0 .. Unit
        BY <1>1, CoverageIsShare
    <3> QED BY <1>1, <3>1
  <2> QED BY <1>3, <2>1, <2>2, ScoreIsWeighted
<1> QED BY <1>4, <1>5 DEF job, S, y0

\* What the rules find of weights of one sign, and of years that are not negative, is accepted.
LEMMA RulesFailByMixedSigns ==
    ASSUME RankingTypeOK, Rules
    PROVE  OnlyMixedSignsFail'
<1> SUFFICES ASSUME \A j \in Jobs : OneSign(profile[j].weights),
                    ~ (resume.years # NoScore /\ resume.years < 0), NEW j \in Jobs
             PROVE  /\ RuleScore(profile[j], resume.skills, resume.years) \in 0 .. Unit
                    /\ Experience(resume.years, profile[j].minimum) \in 0 .. Unit
    BY DEF OnlyMixedSignsFail, Rules, OneSign
<1> DEFINE job == profile[j]
           S == resume.skills
           y0 == resume.years
<1>1. /\ job.required \in SUBSET Names /\ job.preferred \in SUBSET Names
      /\ job.minimum \in Int /\ job.weights \in Weights /\ OneSign(job.weights)
      /\ y0 \in Years \cup {NoScore} /\ ~ (y0 # NoScore /\ y0 < 0)
    BY DEF RankingTypeOK, Profiles, Resumes
<1> HIDE DEF job, S, y0
<1>2. Coverage(job.required, S) \in 0 .. Unit /\ Coverage(job.preferred, S) \in 0 .. Unit
    BY <1>1, CoverageIsShare
<1>3. Experience(y0, job.minimum) \in 0 .. Unit
    BY <1>1, ExperienceIsShare
<1>4. RuleScore(job, S, y0) \in 0 .. Unit
    BY <1>1, <1>2, <1>3, ScoreIsShare, ScoreIsWeighted
<1> QED BY <1>3, <1>4 DEF job, S, y0

-----------------------------------------------------------------------------
(* Sorting                                                                 *)

\* Places are a matter of order, and all are taken.
LEMMA PlacesAreTaken ==
    ASSUME NEW R, TotalOrderOn(R)
    PROVE  /\ \A j \in Jobs : Place(R, j) \in Jobs
           /\ \A a, b \in Jobs : <<a, b>> \in R => Place(R, a) < Place(R, b)
           /\ \A i \in Jobs : \E j \in Jobs : Place(R, j) = i
<1> USE ListingAssumption
<1> DEFINE before(j) == {k \in Jobs : <<k, j>> \in R}
<1>1. IsFiniteSet(Jobs) /\ Cardinality(Jobs) = JobCount
    BY FS_Interval DEF Jobs
<1>2. \A j \in Jobs : IsFiniteSet(before(j)) /\ Cardinality(before(j)) \in Nat
    BY <1>1, FS_Subset, FS_CardinalityType
<1>3. ASSUME NEW j \in Jobs PROVE Place(R, j) \in Jobs
  <2>1. before(j) \subseteq Jobs \ {j}
      BY DEF TotalOrderOn
  <2>2. IsFiniteSet(Jobs \ {j}) /\ Cardinality(Jobs \ {j}) = JobCount - 1
      BY <1>1, FS_RemoveElement
  <2> DEFINE B == before(j)
             C == Jobs \ {j}
  <2>3. B \in SUBSET C /\ IsFiniteSet(C) /\ Cardinality(C) = JobCount - 1
      BY <2>1, <2>2
  <2>4. Place(R, j) = Cardinality(B) + 1 /\ Cardinality(B) \in Nat
      BY <1>2 DEF Place
  <2> HIDE DEF B, C
  <2>5. Cardinality(B) <= JobCount - 1 /\ JobCount \in Nat
      BY <2>3, FS_Subset
  <2>6. Place(R, j) \in Nat /\ 1 <= Place(R, j) /\ Place(R, j) <= JobCount
      BY <2>4, <2>5
  <2> QED BY <2>5, <2>6 DEF Jobs
<1>4. ASSUME NEW a \in Jobs, NEW b \in Jobs, <<a, b>> \in R PROVE Place(R, a) < Place(R, b)
  <2>1. before(a) \subseteq before(b) /\ a \in before(b) /\ a \notin before(a)
      BY <1>4 DEF TotalOrderOn
  <2> DEFINE A == before(a)
             B == before(b)
  <2>2. A \in SUBSET B /\ A # B /\ IsFiniteSet(B)
      BY <1>2, <2>1
  <2>3. /\ Place(R, a) = Cardinality(A) + 1 /\ Cardinality(A) \in Nat
        /\ Place(R, b) = Cardinality(B) + 1 /\ Cardinality(B) \in Nat
      BY <1>2 DEF Place
  <2> HIDE DEF A, B
  <2>4. Cardinality(A) <= Cardinality(B) /\ Cardinality(A) # Cardinality(B)
      BY <2>2, FS_Subset
  <2> QED BY <2>3, <2>4
<1> DEFINE f == [j \in Jobs |-> Place(R, j)]
<1>5. f \in Injection(Jobs, Jobs)
  <2>1. f \in [Jobs -> Jobs]
      BY <1>3
  <2>2. \A a, b \in Jobs : f[a] = f[b] => a = b
    <3>1. \A a, b \in Jobs : <<a, b>> \in R => ~ (Place(R, a) = Place(R, b))
        BY <1>3, <1>4 DEF Jobs
    <3> QED BY <3>1 DEF TotalOrderOn
  <2> QED BY <2>1, <2>2 DEF Injection, IsInjective
<1>6. f \in Surjection(Jobs, Jobs)
    BY <1>1, <1>5, FS_Injection
<1>7. \A i \in Jobs : \E j \in Jobs : Place(R, j) = i
    BY <1>6 DEF Surjection
<1> QED BY <1>3, <1>4, <1>7

\* Sorted holds every job once, in the order of R.
LEMMA SortedIsOrdered ==
    ASSUME NEW R, TotalOrderOn(R)
    PROVE  /\ Sorted(R) \in [Jobs -> Jobs]
           /\ \A j \in Jobs : \E i \in Jobs : Sorted(R)[i] = j
           /\ \A i, k \in Jobs : i < k => <<Sorted(R)[i], Sorted(R)[k]>> \in R
<1> USE ListingAssumption
<1>1. \A i \in Jobs : Sorted(R)[i] \in Jobs /\ Place(R, Sorted(R)[i]) = i
    BY PlacesAreTaken DEF Sorted
<1>2. Sorted(R) \in [Jobs -> Jobs]
    BY <1>1 DEF Sorted
<1>3. ASSUME NEW a \in Jobs, NEW b \in Jobs, Place(R, a) = Place(R, b) PROVE a = b
  <2>1. Place(R, a) \in Jobs /\ Place(R, b) \in Jobs
      BY PlacesAreTaken
  <2>2. ~ (Place(R, a) < Place(R, b)) /\ ~ (Place(R, b) < Place(R, a))
      BY <1>3, <2>1 DEF Jobs
  <2>3. <<a, b>> \notin R /\ <<b, a>> \notin R
      BY <2>2, PlacesAreTaken
  <2> QED BY <2>3 DEF TotalOrderOn
<1>4. ASSUME NEW j \in Jobs PROVE \E i \in Jobs : Sorted(R)[i] = j
  <2>1. Place(R, j) \in Jobs
      BY PlacesAreTaken
  <2> QED BY <1>1, <1>3, <2>1
<1>5. ASSUME NEW i \in Jobs, NEW k \in Jobs, i < k PROVE <<Sorted(R)[i], Sorted(R)[k]>> \in R
  <2>1. ~ (Place(R, Sorted(R)[k]) < Place(R, Sorted(R)[i]))
      BY <1>1, <1>5 DEF Jobs
  <2>2. <<Sorted(R)[k], Sorted(R)[i]>> \notin R
      BY <1>1, <2>1, PlacesAreTaken
  <2>3. Sorted(R)[i] # Sorted(R)[k]
      BY <1>1, <1>5 DEF Jobs
  <2> QED BY <1>1, <2>2, <2>3 DEF TotalOrderOn
<1> QED BY <1>2, <1>4, <1>5

-----------------------------------------------------------------------------
(* What is stored                                                          *)

\* Every job is listed once.
LEMMA PositionsDiffer ==
    /\ \A j \in Jobs : Position(j) \in Jobs
    /\ \A a, b \in Jobs : Position(a) = Position(b) => a = b
<1>1. \A j \in Jobs : Position(j) \in Jobs /\ Listing[Position(j)] = j
  <2>1. \A j \in Jobs : \E i \in Jobs : Listing[i] = j
      BY ListingAssumption
  <2> QED BY <2>1 DEF Position
<1> QED BY <1>1

\* The order of the rules is strict and total.
LEMMA RuleOrderIsTotal == ASSUME NEW r \in [Jobs -> Int] PROVE TotalOrderOn(RuleOrder(r))
<1> DEFINE P == [j \in Jobs |-> Position(j)]
<1>1. P \in [Jobs -> Int] /\ (\A a, b \in Jobs : P[a] = P[b] => a = b)
    BY PositionsDiffer DEF Jobs
<1>2. \A a, b \in Jobs : <<a, b>> \in RuleOrder(r) <=> r[a] > r[b] \/ (r[a] = r[b] /\ P[a] < P[b])
    BY DEF RuleOrder
<1> HIDE DEF P
<1>3. \A a, b \in Jobs : r[a] \in Int /\ P[a] \in Int
    BY <1>1
<1> QED BY <1>1, <1>2, <1>3 DEF TotalOrderOn

\* The order of the totals is strict and total.
LEMMA TotalOrderIsTotal == ASSUME NEW t \in [Jobs -> Int] PROVE TotalOrderOn(TotalOrder(t))
<1>1. \A a, b \in Jobs : <<a, b>> \in TotalOrder(t) <=> t[a] > t[b] \/ (t[a] = t[b] /\ a < b)
    BY DEF TotalOrder
<1>2. \A a \in Jobs : t[a] \in Int /\ a \in Int
    BY DEF Jobs
<1> QED BY <1>1, <1>2 DEF TotalOrderOn

\* How many are stored.
Room == IF TopK < JobCount THEN TopK ELSE JobCount

\* As many jobs as there is room for, with their totals, in the order of R; and whatever is
\* before one of them is there before it.
CutFrom(S, R, total) ==
    /\ S \in Seq([job : Jobs, total : Int]) /\ Len(S) = Room /\ DOMAIN S = 1 .. Room
    /\ \A i \in 1 .. Room : S[i].job \in Jobs /\ S[i].total = total[S[i].job]
    /\ \A i, k \in 1 .. Room : i < k => <<S[i].job, S[k].job>> \in R
    /\ \A i \in 1 .. Room, j \in Jobs : <<j, S[i].job>> \in R => \E k \in 1 .. i - 1 : S[k].job = j

\* A function on 1 .. n is a sequence of length n.
LEMMA IntervalIsLength == ASSUME NEW n \in Nat, NEW T, NEW s \in [1 .. n -> T] PROVE s \in Seq(T) /\ Len(s) = n
<1>1. s \in Seq(T)
    BY SeqDef
<1>2. Len(s) \in Nat /\ DOMAIN s = 1 .. Len(s) /\ DOMAIN s = 1 .. n
    BY <1>1
<1> QED BY <1>1, <1>2

\* What is recommended is cut from the order it is sorted by.
LEMMA FirstAreRecommended ==
    ASSUME NEW R, TotalOrderOn(R), NEW total \in [Jobs -> Int]
    PROVE  CutFrom(Recommended(First(Sorted(R)), total), R, total)
<1> USE ListingAssumption, NumbersAssumption
<1> DEFINE Q == Sorted(R)
           S == Recommended(First(Q), total)
<1>1. Room \in Nat /\ 1 .. Room \subseteq Jobs
    BY DEF Room, Jobs
<1>2. /\ Q \in [Jobs -> Jobs]
      /\ \A j \in Jobs : \E i \in Jobs : Q[i] = j
      /\ \A i, k \in Jobs : i < k => <<Q[i], Q[k]>> \in R
    BY SortedIsOrdered
<1> HIDE DEF Q
<1>3. First(Q) = [i \in 1 .. Room |-> Q[i]]
    BY DEF First, Room
<1>4. S = [i \in 1 .. Room |-> [job |-> Q[i], total |-> total[Q[i]]]]
    BY <1>3 DEF Recommended
<1>5. \A i \in 1 .. Room : Q[i] \in Jobs /\ total[Q[i]] \in Int
    BY <1>1, <1>2
<1>6. S \in [1 .. Room -> [job : Jobs, total : Int]]
    BY <1>4, <1>5
<1>7. \A i \in 1 .. Room : S[i].job = Q[i] /\ S[i].total = total[Q[i]]
    BY <1>4
<1> HIDE DEF S
<1>8. S \in Seq([job : Jobs, total : Int]) /\ Len(S) = Room /\ DOMAIN S = 1 .. Room
    BY <1>1, <1>6, IntervalIsLength
<1>9. ASSUME NEW i \in 1 .. Room, NEW j \in Jobs, <<j, Q[i]>> \in R
      PROVE  \E k \in 1 .. i - 1 : Q[k] = j
  <2>1. PICK k \in Jobs : Q[k] = j
      BY <1>2
  <2>2. ~ (i < k) /\ i # k
      BY <1>1, <1>2, <1>5, <1>9, <2>1 DEF TotalOrderOn
  <2>3. k \in 1 .. i - 1
      BY <2>2 DEF Jobs
  <2> QED BY <2>1, <2>3
<1>10. \A i \in 1 .. Room, k \in 1 .. Room : i < k => <<Q[i], Q[k]>> \in R
    BY <1>1, <1>2
<1>11. ASSUME NEW i \in 1 .. Room, NEW j \in Jobs, <<j, S[i].job>> \in R
       PROVE  \E k \in 1 .. i - 1 : S[k].job = j
  <2>1. PICK k \in 1 .. i - 1 : Q[k] = j
      BY <1>7, <1>9, <1>11
  <2>2. k \in 1 .. Room
      BY <1>1
  <2> QED BY <1>7, <2>1, <2>2
<1>12. \A i, k \in 1 .. Room : i < k => <<S[i].job, S[k].job>> \in R
    BY <1>7, <1>10
<1>13. \A i \in 1 .. Room : S[i].job \in Jobs /\ S[i].total = total[S[i].job]
    BY <1>5, <1>7
<1> QED BY <1>8, <1>11, <1>12, <1>13 DEF S, Q, CutFrom

\* What the total of a job is the twentieth part of.
Twentyfold(r, s) == 16 * r + (IF s = NoScore THEN 0 ELSE 400 * s) + 10

\* The total of a job, as one quotient.
LEMMA CombinedIsNumber ==
    ASSUME NEW r \in Int, NEW s \in 0 .. 100 \cup {NoScore}
    PROVE  /\ Combined(r, s) \in Int /\ Twentyfold(r, s) \in Int
           /\ Combined(r, s) = Twentyfold(r, s) \div 20
<1> USE NumbersAssumption DEF Twentyfold
<1>1. CASE s = NoScore
    BY <1>1 DEF Combined, Valid, Rounded, RoundedUp, Unit
<1>2. CASE s # NoScore
    BY <1>2 DEF Combined, Valid, Rounded, RoundedUp, Unit
<1> QED BY <1>1, <1>2

\* A quotient by twenty is greater when what is divided is greater by twenty.
LEMMA TwentyMore ==
    ASSUME NEW x \in Int, NEW y \in Int, x >= y + 20
    PROVE  x \div 20 > y \div 20
OBVIOUS

\* A job that the rules score higher by more than the margin has the higher total.
LEMMA MarginDecides ==
    ASSUME NEW q \in Int, NEW r \in Int,
           NEW s \in 0 .. 100 \cup {NoScore}, NEW t \in 0 .. 100 \cup {NoScore}
    PROVE  /\ q > r + (Unit \div 4 + 1) => Combined(q, s) > Combined(r, t)
           /\ s = NoScore /\ t = NoScore /\ q > r + 1 => Combined(q, s) > Combined(r, t)
<1> USE NumbersAssumption
<1>1. /\ Combined(q, s) = Twentyfold(q, s) \div 20 /\ Twentyfold(q, s) \in Int
      /\ Combined(r, t) = Twentyfold(r, t) \div 20 /\ Twentyfold(r, t) \in Int
    BY CombinedIsNumber
<1>2. q > r + (Unit \div 4 + 1) => Twentyfold(q, s) >= Twentyfold(r, t) + 20
    BY DEF Unit, Twentyfold
<1>3. s = NoScore /\ t = NoScore /\ q > r + 1 => Twentyfold(q, s) >= Twentyfold(r, t) + 20
    BY DEF Twentyfold
<1> QED BY <1>1, <1>2, <1>3, TwentyMore

\* Scores are integers.
LEMMA UnitsAreNumbers == ASSUME NEW f \in [Jobs -> 0 .. Unit] PROVE f \in [Jobs -> Int]
<1>1. 0 .. Unit \subseteq Int
    OBVIOUS
<1> QED BY <1>1

\* Totals are integers.
LEMMA TotalsAreNumbers ==
    ASSUME NEW s \in [Jobs -> 0 .. 100 \cup {NoScore}], rule \in [Jobs -> 0 .. Unit]
    PROVE  Totals(s) \in [Jobs -> Int] /\ \A j \in Jobs : Totals(s)[j] = Combined(rule[j], s[j])
<1>1. \A j \in Jobs : rule[j] \in Int /\ s[j] \in 0 .. 100 \cup {NoScore}
  <2>1. rule \in [Jobs -> Int]
      BY UnitsAreNumbers
  <2> QED BY <2>1
<1>2. \A j \in Jobs : Combined(rule[j], s[j]) \in Int
    BY <1>1, CombinedIsNumber
<1> QED BY <1>2 DEF Totals

\* When a match is done, what is stored is cut from the order of the scores that hold then.
DoneIsRanked == stage = "done" =>
    stored = IF mode = "rules" THEN Recommended(First(Sorted(RuleOrder(rule))), rule)
                               ELSE Recommended(Chosen(semantic), Totals(semantic))

Ranked == RankingTypeOK /\ DoneIsRanked /\ OnlyMixedSignsFail

\* Nothing is stored at first.
LEMMA InitIsRanked == RankingInit => Ranked
<1> SUFFICES ASSUME RankingInit PROVE Ranked
    OBVIOUS
<1>1. stored \in Seq([job : Jobs, total : Int])
    BY SeqDef DEF RankingInit
<1> QED BY <1>1, OffersAssumption DEF RankingInit, Ranked, RankingTypeOK, DoneIsRanked, OnlyMixedSignsFail

\* Every step keeps the invariant: the two that store, store what they rank.
LEMMA StepIsRanked == Ranked /\ [RankingNext]_rankingVars => Ranked'
<1> USE NumbersAssumption
<1> SUFFICES ASSUME Ranked, [RankingNext]_rankingVars PROVE Ranked'
    OBVIOUS
<1>1. CASE Rules
  <2>1. OnlyMixedSignsFail'
      BY <1>1, RulesFailByMixedSigns DEF Ranked
  <2>2. RankingTypeOK' /\ DoneIsRanked'
      BY <1>1 DEF Ranked, RankingTypeOK, DoneIsRanked, Rules
  <2> QED BY <2>1, <2>2 DEF Ranked
<1>2. CASE StoreRules
  <2>1. rule \in [Jobs -> Int]
      BY <1>2, UnitsAreNumbers DEF Ranked, RankingTypeOK, StoreRules
  <2>2. stored' \in Seq([job : Jobs, total : Int])
      BY <1>2, <2>1, RuleOrderIsTotal, FirstAreRecommended DEF StoreRules, CutFrom
  <2> QED BY <1>2, <2>2 DEF Ranked, RankingTypeOK, DoneIsRanked, OnlyMixedSignsFail, StoreRules
<1>3. CASE Semantic
  <2>1. PICK a \in [Jobs -> Answers \cup {NoScore}] :
           semantic' = [j \in Jobs |-> IF Valid(a[j]) THEN a[j] ELSE NoScore]
      BY <1>3 DEF Semantic
  <2>2. \A j \in Jobs : (IF Valid(a[j]) THEN a[j] ELSE NoScore) \in 0 .. 100 \cup {NoScore}
      BY DEF Valid
  <2>3. semantic' \in [Jobs -> 0 .. 100 \cup {NoScore}]
      BY <2>1, <2>2
  <2> QED BY <1>3, <2>3 DEF Ranked, RankingTypeOK, DoneIsRanked, OnlyMixedSignsFail, Semantic
<1>4. CASE StoreHybrid
  <2>1. PICK withdrawn \in SUBSET {j \in Jobs : semantic[j] # NoScore} :
           /\ semantic' = [j \in Jobs |-> IF j \in withdrawn THEN NoScore ELSE semantic[j]]
           /\ stored' = Recommended(Chosen(semantic'), Totals(semantic'))
      BY <1>4 DEF StoreHybrid
  <2>2. semantic' \in [Jobs -> 0 .. 100 \cup {NoScore}]
      BY <2>1 DEF Ranked, RankingTypeOK
  <2> DEFINE s == semantic'
  <2>3. rule \in [Jobs -> 0 .. Unit]
      BY <1>4 DEF Ranked, RankingTypeOK, StoreHybrid
  <2>4. Totals(s) \in [Jobs -> Int] /\ stored' = Recommended(First(Sorted(TotalOrder(Totals(s)))), Totals(s))
      BY <2>1, <2>2, <2>3, TotalsAreNumbers DEF Chosen
  <2> HIDE DEF s
  <2>5. stored' \in Seq([job : Jobs, total : Int])
      BY <2>4, TotalOrderIsTotal, FirstAreRecommended DEF CutFrom
  <2>6. Totals(semantic)' = Totals(semantic') /\ Chosen(semantic)' = Chosen(semantic')
      BY <1>4 DEF StoreHybrid, Totals, Chosen
  <2> QED BY <1>4, <2>1, <2>2, <2>5, <2>6
        DEF Ranked, RankingTypeOK, DoneIsRanked, OnlyMixedSignsFail, StoreHybrid
<1>5. CASE UNCHANGED rankingVars
    BY <1>5 DEF Ranked, RankingTypeOK, DoneIsRanked, OnlyMixedSignsFail, OneSign, rankingVars, Totals, Chosen
<1> QED BY <1>1, <1>2, <1>3, <1>4, <1>5 DEF RankingNext

\* Some strict order stands behind what is stored, and the totals stored follow it.
LEMMA DoneIsOrdered ==
    ASSUME Ranked, stage = "done"
    PROVE  \E R \in SUBSET (Jobs \X Jobs), total \in [Jobs -> Int] :
              /\ TotalOrderOn(R)
              /\ \A j \in Jobs : total[j] = IF mode = "rules" THEN rule[j] ELSE Combined(rule[j], semantic[j])
              /\ \A a, b \in Jobs : total[a] > total[b] => <<a, b>> \in R
              /\ \A a, b \in Jobs : <<a, b>> \in R => total[a] >= total[b]
              /\ CutFrom(stored, R, total)
<1>1. rule \in [Jobs -> 0 .. Unit] /\ rule \in [Jobs -> Int] /\ semantic \in [Jobs -> 0 .. 100 \cup {NoScore}]
    BY UnitsAreNumbers DEF Ranked, RankingTypeOK
<1> DEFINE Behind(R, t) ==
              /\ TotalOrderOn(R)
              /\ \A j \in Jobs : t[j] = IF mode = "rules" THEN rule[j] ELSE Combined(rule[j], semantic[j])
              /\ \A a, b \in Jobs : t[a] > t[b] => <<a, b>> \in R
              /\ \A a, b \in Jobs : <<a, b>> \in R => t[a] >= t[b]
              /\ CutFrom(stored, R, t)
<1>2. CASE mode = "rules"
  <2>1. TotalOrderOn(RuleOrder(rule))
      BY <1>1, RuleOrderIsTotal
  <2>2. \A a, b \in Jobs : /\ rule[a] > rule[b] => <<a, b>> \in RuleOrder(rule)
                           /\ <<a, b>> \in RuleOrder(rule) => rule[a] >= rule[b]
      BY <1>1 DEF RuleOrder
  <2>3. CutFrom(stored, RuleOrder(rule), rule)
      BY <1>1, <1>2, <2>1, FirstAreRecommended DEF Ranked, DoneIsRanked
  <2>4. Behind(RuleOrder(rule), rule) /\ RuleOrder(rule) \in SUBSET (Jobs \X Jobs)
      BY <1>2, <2>1, <2>2, <2>3 DEF RuleOrder
  <2> HIDE DEF Behind
  <2>5. \E R \in SUBSET (Jobs \X Jobs), t \in [Jobs -> Int] : Behind(R, t)
      BY <1>1, <2>4
  <2> QED BY <2>5 DEF Behind
<1>3. CASE mode # "rules"
  <2> DEFINE t == Totals(semantic)
  <2>1. t \in [Jobs -> Int] /\ \A j \in Jobs : t[j] = Combined(rule[j], semantic[j])
      BY <1>1, TotalsAreNumbers
  <2>2. stored = Recommended(First(Sorted(TotalOrder(t))), t)
      BY <1>3 DEF Ranked, DoneIsRanked, Chosen
  <2> HIDE DEF t
  <2>3. TotalOrderOn(TotalOrder(t)) /\ CutFrom(stored, TotalOrder(t), t)
      BY <2>1, <2>2, TotalOrderIsTotal, FirstAreRecommended
  <2>4. \A a, b \in Jobs : /\ t[a] > t[b] => <<a, b>> \in TotalOrder(t)
                           /\ <<a, b>> \in TotalOrder(t) => t[a] >= t[b]
      BY <2>1 DEF TotalOrder
  <2>5. Behind(TotalOrder(t), t) /\ TotalOrder(t) \in SUBSET (Jobs \X Jobs)
      BY <1>3, <2>1, <2>2, <2>3, <2>4 DEF TotalOrder
  <2> HIDE DEF Behind
  <2>6. \E R \in SUBSET (Jobs \X Jobs), u \in [Jobs -> Int] : Behind(R, u)
      BY <2>1, <2>5
  <2> QED BY <2>6 DEF Behind
<1> QED BY <1>2, <1>3

\* What is cut from a total order of all jobs holds the best of them.
LEMMA DoneIsBest == Ranked => BestAreStored
<1> USE NumbersAssumption, ListingAssumption
<1> SUFFICES ASSUME Ranked, stage = "done" PROVE BestAreStored
    BY DEF BestAreStored
<1> DEFINE final(j) == IF mode = "rules" THEN rule[j] ELSE Combined(rule[j], semantic[j])
           kept == {stored[i].job : i \in DOMAIN stored}
<1>1. PICK R \in SUBSET (Jobs \X Jobs), total \in [Jobs -> Int] :
         /\ TotalOrderOn(R)
         /\ \A j \in Jobs : total[j] = final(j)
         /\ \A a, b \in Jobs : total[a] > total[b] => <<a, b>> \in R
         /\ \A a, b \in Jobs : <<a, b>> \in R => total[a] >= total[b]
         /\ CutFrom(stored, R, total)
    BY DoneIsOrdered
<1> HIDE DEF final
<1> DEFINE job == [i \in 1 .. Room |-> stored[i].job]
<1>2. /\ Len(stored) = Room /\ DOMAIN stored = 1 .. Room
      /\ job \in [1 .. Room -> Jobs]
      /\ \A i \in 1 .. Room : stored[i].total = total[job[i]] /\ stored[i].job = job[i]
      /\ \A i, k \in 1 .. Room : i < k => <<job[i], job[k]>> \in R
      /\ \A i \in 1 .. Room, j \in Jobs : <<j, job[i]>> \in R => \E k \in 1 .. i - 1 : stored[k].job = j
    BY <1>1 DEF CutFrom
<1>3. Room \in Nat /\ Room <= TopK /\ (Room = TopK \/ Room = JobCount)
    BY DEF Room
<1>4. kept = {job[i] : i \in 1 .. Room}
    BY <1>2
<1> HIDE DEF job, kept
<1>5. /\ IsFiniteSet(Jobs) /\ Cardinality(Jobs) = JobCount
      /\ IsFiniteSet(1 .. Room) /\ Cardinality(1 .. Room) = Room
    BY <1>3, FS_Interval DEF Jobs
<1>6. kept \in SUBSET Jobs
    BY <1>2, <1>4
<1>7. Cardinality(kept) = Room /\ IsFiniteSet(kept)
  <2>1. IsFiniteSet(kept)
      BY <1>5, <1>6, FS_Subset
  <2>2. job \in [1 .. Room -> kept]
      BY <1>2, <1>4
  <2>3. \A i, k \in 1 .. Room : job[i] = job[k] => i = k
    <3>1. \A i, k \in 1 .. Room : i < k => job[i] # job[k]
        BY <1>1, <1>2 DEF TotalOrderOn
    <3> QED BY <1>3, <3>1
  <2>4. \A x \in kept : \E i \in 1 .. Room : job[i] = x
      BY <1>4
  <2>5. job \in Injection(1 .. Room, kept) /\ job \in Surjection(1 .. Room, kept)
      BY <2>2, <2>3, <2>4 DEF Injection, IsInjective, Surjection
  <2>6. Cardinality(1 .. Room) = Cardinality(kept)
      BY <2>1, <2>5, FS_Injection
  <2> QED BY <1>5, <2>1, <2>6
<1>8. Room = TopK \/ kept = Jobs
    BY <1>3, <1>5, <1>6, <1>7, FS_Subset
<1>9. ASSUME NEW i \in 1 .. Room, NEW j \in Jobs \ kept PROVE stored[i].total >= final(j)
  <2>1. \A k \in 1 .. Room : job[k] # j
      BY <1>4
  <2>2. ASSUME NEW k \in 1 .. Room PROVE stored[k].job # j
    <3>1. stored[k].job = job[k]
        BY <1>2
    <3> QED BY <2>1, <3>1
  <2>3. ~ \E k \in 1 .. i - 1 : stored[k].job = j
      BY <1>3, <2>2
  <2>7. <<j, job[i]>> \notin R
      BY <1>2, <2>3
  <2>4. job[i] \in Jobs /\ job[i] # j
      BY <1>2, <2>1
  <2>5. <<job[i], j>> \in R
      BY <1>1, <2>4, <2>7 DEF TotalOrderOn
  <2>6. total[job[i]] >= total[j]
      BY <1>1, <2>4, <2>5
  <2> QED BY <1>1, <1>2, <2>6
<1>10. ASSUME NEW i \in 1 .. Room, NEW k \in 1 .. Room, i < k PROVE stored[i].total >= stored[k].total
  <2>1. <<job[i], job[k]>> \in R /\ job[i] \in Jobs /\ job[k] \in Jobs
      BY <1>2, <1>10
  <2>2. total[job[i]] >= total[job[k]]
      BY <1>1, <2>1
  <2> QED BY <1>2, <2>2
<1> QED
  <2>1. /\ Cardinality(kept) = Len(stored)
        /\ Len(stored) <= TopK /\ (Len(stored) = TopK \/ kept = Jobs)
        /\ \A i \in DOMAIN stored : \A j \in Jobs \ kept : stored[i].total >= final(j)
        /\ \A i, k \in DOMAIN stored : i < k => stored[i].total >= stored[k].total
      BY <1>2, <1>3, <1>7, <1>8, <1>9, <1>10
  <2> QED BY <2>1 DEF BestAreStored, final, kept

\* A job ahead by more than the margin is before the other in that order.
LEMMA DoneFollowsRules == Ranked => RulesPrevail
<1> SUFFICES ASSUME Ranked, stage = "done", NEW a \in Jobs, NEW i \in DOMAIN stored,
                    rule[a] > rule[stored[i].job] + IF semantic = [j \in Jobs |-> NoScore]
                                                    THEN 1 ELSE Unit \div 4 + 1
             PROVE  \E k \in 1 .. i - 1 : stored[k].job = a
    BY DEF RulesPrevail
<1> DEFINE b == stored[i].job
<1>0. rule \in [Jobs -> 0 .. Unit] /\ semantic \in [Jobs -> 0 .. 100 \cup {NoScore}]
    BY DEF Ranked, RankingTypeOK
<1>1. PICK R \in SUBSET (Jobs \X Jobs), total \in [Jobs -> Int] :
         /\ TotalOrderOn(R)
         /\ \A j \in Jobs : total[j] = IF mode = "rules" THEN rule[j] ELSE Combined(rule[j], semantic[j])
         /\ \A x, y \in Jobs : total[x] > total[y] => <<x, y>> \in R
         /\ \A x, y \in Jobs : <<x, y>> \in R => total[x] >= total[y]
         /\ CutFrom(stored, R, total)
    BY DoneIsOrdered
<1>2. /\ b \in Jobs
      /\ <<a, b>> \in R => \E k \in 1 .. i - 1 : stored[k].job = a
  <2>1. /\ DOMAIN stored = 1 .. Room
        /\ \A m \in 1 .. Room : stored[m].job \in Jobs
        /\ \A m \in 1 .. Room, j \in Jobs : <<j, stored[m].job>> \in R => \E k \in 1 .. m - 1 : stored[k].job = j
      BY <1>1 DEF CutFrom
  <2> QED BY <2>1
<1> HIDE DEF b
<1>3. /\ rule[a] \in Int /\ rule[b] \in Int
      /\ semantic[a] \in 0 .. 100 \cup {NoScore} /\ semantic[b] \in 0 .. 100 \cup {NoScore}
  <2>1. rule \in [Jobs -> Int]
      BY <1>0, UnitsAreNumbers
  <2> QED BY <1>0, <1>2, <2>1
<1>4. /\ rule[a] > rule[b]
      /\ \/ rule[a] > rule[b] + (Unit \div 4 + 1)
         \/ semantic = [j \in Jobs |-> NoScore] /\ rule[a] > rule[b] + 1
    BY <1>3 DEF Unit, b
<1>5. semantic = [j \in Jobs |-> NoScore] => semantic[a] = NoScore /\ semantic[b] = NoScore
    BY <1>2
<1>6. Combined(rule[a], semantic[a]) > Combined(rule[b], semantic[b])
  <2> DEFINE q == rule[a]
             r == rule[b]
             u == semantic[a]
             v == semantic[b]
  <2>1. q \in Int /\ r \in Int /\ u \in 0 .. 100 \cup {NoScore} /\ v \in 0 .. 100 \cup {NoScore}
      BY <1>3
  <2>2. q > r + (Unit \div 4 + 1) \/ (u = NoScore /\ v = NoScore /\ q > r + 1)
      BY <1>4, <1>5
  <2> HIDE DEF q, r, u, v
  <2>3. Combined(q, u) > Combined(r, v)
      BY <2>1, <2>2, MarginDecides
  <2> QED BY <2>3 DEF q, r, u, v
<1>7. total[a] > total[b]
    BY <1>1, <1>2, <1>4, <1>6
<1> QED BY <1>1, <1>2, <1>7

-----------------------------------------------------------------------------
(* The theorems                                                            *)

\* The invariant of the ranking holds in every state.
LEMMA RankedAlways == RankingSpec => []Ranked
BY InitIsRanked, StepIsRanked, PTL DEF RankingSpec

\* Every variable has its type, and a score that is used its range.
THEOREM RankingTypeCorrect == RankingSpec => []RankingTypeOK
<1>1. Ranked => RankingTypeOK
    BY DEF Ranked
<1> QED BY <1>1, RankedAlways, PTL

\* For any jobs, weights and scores: the best are stored, best first, and none twice.
THEOREM TheBestAreStored == RankingSpec => []BestAreStored
BY DoneIsBest, RankedAlways, PTL

\* Models cannot put a job before another that the rules find better by more than the margin.
THEOREM RulesStayAhead == RankingSpec => []RulesPrevail
BY DoneFollowsRules, RankedAlways, PTL

\* Where weights have one sign, a resume that shows more never scores lower and none ends the
\* match, but by negative years: whatever is zero, empty or unknown.
THEOREM WeightsOfOneSignAreFair == RankingSpec => []OneSignIsFair
<1>1. Ranked => OneSignIsFair
    BY MoreIsBetter DEF Ranked
<1> QED BY <1>1, RankedAlways, PTL
=============================================================================
