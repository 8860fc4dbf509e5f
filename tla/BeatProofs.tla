------------------------------ MODULE BeatProofs ------------------------------
(***************************************************************************)
(* Proofs about what Beat keeps going, for any constants that the two      *)
(* modules admit: heartbeats and gauges (OperationsHealth), then the       *)
(* turns of its two bounded scans (BeatTurns).                             *)
(*                                                                         *)
(* The argument of the first part is one of ages.  Every clock of the      *)
(* model advances by one in Clock, and none by more, so an inequality      *)
(* between two of them can only be disturbed where one of them is set      *)
(* back: a pulse, a finished round of work, a fault.  IInv relates each    *)
(* clock that is read by somebody to the one that it stands for.           *)
(*                                                                         *)
(* That of the second is one of places: a page is filled by rank, and in   *)
(* a finite strict order every rank is taken by one member (RanksAreTaken),*)
(* so what is not on the page is behind all of it.                         *)
(***************************************************************************)
EXTENDS OperationsHealth, BeatTurns, TLAPS, FiniteSetTheorems, SequenceTheorems

Age == Nat \cup {Nothing}
WorkerStates == [life : {"new", "running", "stopped", "dead"}, call : BOOLEAN, since : Nat]
RequestStates == [step : {"idle", "redis", "bucket", "heartbeats"}, ok : BOOLEAN, down : SUBSET Deps]
Histories == [calm : Nat, alive : Nat, scanned : Nat, clean : SUBSET Workers, poll : [Families -> Age]]

\* Bounds that the waiting of Clock keeps.
Ages == /\ \A w \in Workers : worker[w].since <= MaxGap
        /\ beat.since <= MaxGap
        /\ \A p \in Workers \cup {Beat} : stuck[p] # Nothing => stuck[p] <= MaxStuck
        /\ \A w \in Workers : seen[w] # Nothing => kept <= seen[w]
        /\ history.calm <= 2 * MaxGap + 1

\* Only a running worker has a pulse under way; Redis keeps no command of a worker whose
\* calls it all answered, unless the worker was killed.
CallsAreOwn == \A w \in Workers :
    /\ worker[w].call => Alive(w)
    /\ worker[w].life = "new" => stuck[w] = Nothing
    /\ w \in history.clean /\ worker[w].life # "dead" => stuck[w] = Nothing

\* A worker that finished a pulse since the last trouble is seen, and no older than that.
WorkersAreSeen == \A w \in Workers :
    Alive(w) /\ worker[w].since < history.calm =>
        seen[w] # Nothing /\ seen[w] <= worker[w].since

\* Beat pulses in the middle of a tick.  Before that, what is seen is of the tick before,
\* which began MaxGap earlier at most.
Grace == IF beat.step \in {"database", "redis"} THEN 0 ELSE MaxGap

BeatIsSeen == beat.step # "down" /\ beat.since + Grace < history.calm =>
                  beatSeen # Nothing /\ beatSeen <= beat.since + Grace

\* A heartbeat is no younger than the command that made it, and that no younger than its worker.
SeenHaveLived == \A w \in Workers :
    /\ Alive(w) => history.alive = 0
    /\ stuck[w] # Nothing => history.alive <= stuck[w]
    /\ seen[w] # Nothing => history.alive <= seen[w] + MaxStuck

\* Likewise for Beat, whose tick sends a pulse only after it scanned.
SeenHaveScanned ==
    /\ beat.step \in {"dispatch", "pulse"} => history.scanned <= beat.since
    /\ stuck[Beat] # Nothing => history.scanned <= stuck[Beat] + MaxGap
    /\ beatSeen # Nothing => history.scanned <= beatSeen + MaxStuck + MaxGap

\* The dependencies that a report has asked, by its step.
Asked(at) == {d \in Deps : \/ at # "idle" /\ d \in {"database", "schema", "vector"}
                           \/ at \in {"bucket", "heartbeats"} /\ d = "redis"
                           \/ at = "heartbeats" /\ d = "bucket"}

\* What was down all the while is down, and the report has noticed if it has asked.
ReportsNotice == \A c \in Clients :
    /\ \A d \in request[c].down : ~ up[d]
    /\ request[c].down \cap Asked(request[c].step) # {} => ~ request[c].ok

MeasurementsAgree == gauge = history.poll

IInv == /\ TypeOK /\ Ages /\ CallsAreOwn /\ StoppedIsGone
        /\ WorkersAreSeen /\ BeatIsSeen /\ SeenHaveLived /\ SeenHaveScanned
        /\ ReportsNotice /\ MeasurementsAgree

-----------------------------------------------------------------------------
(* Types                                                                   *)

\* The records that the actions write.
LEMMA WorkerRecords ==
    ASSUME NEW r \in WorkerStates
    PROVE  /\ [r EXCEPT !.call = TRUE] \in WorkerStates
           /\ [r EXCEPT !.call = FALSE, !.since = 0] \in WorkerStates
           /\ [r EXCEPT !.life = "dead", !.call = FALSE] \in WorkerStates
           /\ \A n \in Nat : [r EXCEPT !.since = n] \in WorkerStates
BY DEF WorkerStates

LEMMA RequestRecords ==
    ASSUME NEW r \in RequestStates
    PROVE  /\ \A next \in {"bucket", "heartbeats"}, ok \in BOOLEAN :
                 [r EXCEPT !.step = next, !.ok = ok] \in RequestStates
           /\ \A D \in SUBSET Deps : [r EXCEPT !.down = D] \in RequestStates
BY DEF RequestStates

LEMMA HistoryRecords ==
    ASSUME NEW h \in Histories
    PROVE  /\ [h EXCEPT !.calm = 0] \in Histories /\ [h EXCEPT !.alive = 0] \in Histories
           /\ \A W \in SUBSET Workers : [h EXCEPT !.clean = W] \in Histories
           /\ \A p \in [Families -> Age] : [h EXCEPT !.poll = p] \in Histories
BY DEF Histories

LEMMA WorkersKeepType ==
    ASSUME TypeOK, NEW w \in Workers, WorkerStep(w)
    PROVE  worker' \in [Workers -> WorkerStates]
<1> USE DEF TypeOK, WorkerStates
<1>1. worker \in [Workers -> WorkerStates] /\ worker[w] \in WorkerStates
    OBVIOUS
<1>2. CASE StartWorker(w)
    BY <1>2 DEF StartWorker
<1>3. CASE StopWorker(w)
    BY <1>3 DEF StopWorker
<1> HIDE DEF TypeOK, WorkerStates
<1>4. CASE BeginPulse(w)
  <2>1. worker' = [worker EXCEPT ![w] = [worker[w] EXCEPT !.call = TRUE]]
      BY <1>4 DEF BeginPulse
  <2> QED BY <1>1, <2>1, WorkerRecords
<1>5. CASE EndPulse(w) \/ PulseFails(w)
  <2>1. worker' = [worker EXCEPT ![w] = [worker[w] EXCEPT !.call = FALSE, !.since = 0]]
      BY <1>5 DEF EndPulse, PulseFails
  <2> QED BY <1>1, <2>1, WorkerRecords
<1>6. CASE KillWorker(w)
  <2>1. worker' = [worker EXCEPT ![w] = [worker[w] EXCEPT !.life = "dead", !.call = FALSE]]
      BY <1>6 DEF KillWorker
  <2> QED BY <1>1, <2>1, WorkerRecords
<1> QED BY <1>2, <1>3, <1>4, <1>5, <1>6 DEF WorkerStep

LEMMA RequestsKeepType ==
    ASSUME TypeOK, NEW c \in Clients, Serve(c)
    PROVE  request' \in [Clients -> RequestStates]
<1>1. request \in [Clients -> RequestStates] /\ request[c] \in RequestStates /\ up \in [Deps -> BOOLEAN]
    BY DEF TypeOK, RequestStates
<1>2. CASE Ask(c)
    BY <1>1, <1>2 DEF Ask, DatabaseAnswer, RequestStates, Deps
<1>3. CASE Report(c)
    BY <1>1, <1>3 DEF Report, NoRequest, RequestStates
<1>4. ASSUME NEW d \in Deps, NEW next \in {"bucket", "heartbeats"}, Probe(c, d, next)
      PROVE  request' \in [Clients -> RequestStates]
  <2> DEFINE ok == request[c].ok /\ up[d]
  <2>1. ok \in BOOLEAN
      OBVIOUS
  <2>2. request' = [request EXCEPT ![c] = [request[c] EXCEPT !.step = next, !.ok = ok]]
      BY <1>4 DEF Probe, AllProbes
  <2> HIDE DEF ok
  <2>3. [request[c] EXCEPT !.step = next, !.ok = ok] \in RequestStates
      BY <1>1, <2>1, RequestRecords
  <2> QED BY <1>1, <2>2, <2>3
<1> QED BY <1>2, <1>3, <1>4 DEF Serve, Deps

LEMMA MendKeepsType ==
    ASSUME TypeOK, NEW d \in Deps, Mend(d)
    PROVE  request' \in [Clients -> RequestStates]
<1>1. request \in [Clients -> RequestStates]
    BY DEF TypeOK, RequestStates
<1>2. \A c \in Clients : [request[c] EXCEPT !.down = request[c].down \ {d}] \in RequestStates
  <2> TAKE c \in Clients
  <2>1. request[c] \in RequestStates /\ request[c].down \ {d} \in SUBSET Deps
      BY <1>1 DEF RequestStates
  <2> QED BY <2>1, RequestRecords
<1> QED BY <1>2 DEF Mend

LEMMA ClockKeepsType ==
    ASSUME TypeOK, Clock
    PROVE  worker' \in [Workers -> WorkerStates] /\ history' \in Histories
<1>1. ASSUME NEW w \in Workers
      PROVE  [worker[w] EXCEPT !.since = IF Alive(w) THEN worker[w].since + 1 ELSE 0] \in WorkerStates
  <2>1. worker[w] \in WorkerStates /\ worker[w].since \in Nat
      BY DEF TypeOK, WorkerStates
  <2>2. (IF Alive(w) THEN worker[w].since + 1 ELSE 0) \in Nat
      BY <2>1
  <2> QED BY <2>1, <2>2, WorkerRecords
<1>2. worker' \in [Workers -> WorkerStates]
    BY <1>1 DEF Clock
<1>3. \A age \in Nat : Later(age) \in Nat
    BY AgesAssumption DEF Later, Cap
<1>4. history \in Histories
    BY DEF TypeOK, Histories, Age
<1> DEFINE poll == [f \in Families |-> IF history.poll[f] = Nothing THEN Nothing ELSE Later(history.poll[f])]
<1>5. poll \in [Families -> Age]
    BY <1>3, <1>4 DEF Histories, Age
<1> HIDE DEF poll
<1>6. \A calm, scanned, alive \in Nat :
          [history EXCEPT !.calm = calm, !.scanned = scanned, !.alive = alive, !.poll = poll] \in Histories
    BY <1>4, <1>5 DEF Histories
<1>7. /\ (IF history.calm > 2 * MaxGap THEN history.calm ELSE history.calm + 1) \in Nat
      /\ Later(history.scanned) \in Nat
      /\ (IF \E w \in Workers : Alive(w) THEN 0 ELSE Later(history.alive)) \in Nat
    BY <1>3, <1>4 DEF Histories
<1>8. history' \in Histories
    BY <1>6, <1>7 DEF Clock, poll
<1> QED BY <1>2, <1>8

-----------------------------------------------------------------------------
(* What workers and Beat leave alone                                       *)

LEMMA WorkerLeaves ==
    ASSUME TypeOK, NEW w \in Workers, WorkerStep(w)
    PROVE  /\ UNCHANGED <<up, beat, beatSeen, gauge, request>>
           /\ stuck'[Beat] = stuck[Beat]
           /\ history'.calm \in {0, history.calm}
           /\ history'.scanned = history.scanned /\ history'.poll = history.poll
<1> USE WorkersAssumption DEF TypeOK, timeVars, Beat
<1>1. CASE StartWorker(w)
    BY <1>1 DEF StartWorker, Troubled
<1>2. CASE BeginPulse(w) \/ EndPulse(w)
    BY <1>2 DEF BeginPulse, EndPulse, PulseOf
<1>3. CASE PulseFails(w)
    BY <1>3 DEF PulseFails, GiveUp, Troubled
<1>4. CASE StopWorker(w)
  <2>1. history' = Troubled \/ history' = [Troubled EXCEPT !.clean = @ \ {w}]
      BY <1>4 DEF StopWorker
  <2>2. /\ history'.calm = 0
        /\ history'.scanned = history.scanned /\ history'.poll = history.poll
      BY <2>1 DEF Troubled
  <2> QED BY <1>4, <2>2 DEF StopWorker
<1>5. CASE KillWorker(w)
    BY <1>5 DEF KillWorker, GiveUp, Troubled
<1> QED BY <1>1, <1>2, <1>3, <1>4, <1>5 DEF WorkerStep

LEMMA BeatLeaves ==
    ASSUME TypeOK, StartBeat \/ Tick \/ BeatEnds
    PROVE  /\ UNCHANGED <<up, worker, seen, kept, request>>
           /\ \A w \in Workers : stuck'[w] = stuck[w]
           /\ history'.calm \in {0, history.calm}
           /\ history'.alive = history.alive /\ history'.clean = history.clean
<1> USE WorkersAssumption DEF TypeOK, timeVars, Beat
<1>1. CASE StartBeat
    BY <1>1 DEF StartBeat, Troubled
<1>2. CASE Scan \/ Dispatch
    BY <1>2 DEF Scan, Dispatch
<1>3. CASE ScanFails
    BY <1>3 DEF ScanFails, Troubled
<1>4. CASE PulseBeat
    BY <1>4 DEF PulseBeat, PulseOfBeat, GiveUp, Troubled
<1>5. CASE Poll("database", "redis") \/ Poll("redis", "scan")
    BY <1>5 DEF Poll
<1>6. CASE BeatEnds
    BY <1>6 DEF BeatEnds, GiveUp, Troubled
<1> QED BY <1>1, <1>2, <1>3, <1>4, <1>5, <1>6 DEF Tick

LEMMA TypeKept == ASSUME TypeOK, Next PROVE TypeOK'
<1> USE AgesAssumption, FailingAssumption, NothingAssumption, WorkersAssumption
    DEF TypeOK, timeVars, Beat, Deps
<1>1. ASSUME NEW w \in Workers, WorkerStep(w) PROVE TypeOK'
  <2>1. worker' \in [Workers -> WorkerStates] /\ UNCHANGED <<up, beat, beatSeen, gauge, request>>
      BY <1>1, WorkersKeepType, WorkerLeaves
  <2>2. stuck' = stuck \/ stuck' = [stuck EXCEPT ![w] = 0]
      BY <1>1 DEF WorkerStep, StartWorker, BeginPulse, EndPulse, PulseFails, StopWorker,
                  KillWorker, GiveUp
  <2>3. stuck' \in [Workers \cup {Beat} -> Age]
      BY <2>2 DEF Age
  <2>4. \/ UNCHANGED <<seen, kept>>
        \/ seen' = [seen EXCEPT ![w] = Nothing] /\ kept' = kept
        \/ PulseOf(w)
      BY <1>1 DEF WorkerStep, StartWorker, BeginPulse, EndPulse, PulseFails, StopWorker, KillWorker
  <2>5. seen' \in [Workers -> Age] /\ kept' \in Nat
      BY <2>4 DEF PulseOf, Age
  <2>6. \/ history' = history \/ history' = Troubled \/ history' = [Troubled EXCEPT !.alive = 0]
        \/ history' = [Troubled EXCEPT !.clean = @ \ {w}]
      BY <1>1 DEF WorkerStep, StartWorker, BeginPulse, EndPulse, PulseFails, StopWorker, KillWorker
  <2>7. history \in Histories /\ Troubled \in Histories /\ Troubled.clean \ {w} \in SUBSET Workers
    <3>1. history \in Histories
        BY DEF Histories, Age
    <3> QED BY <3>1, HistoryRecords DEF Troubled, Histories
  <2>8. history' \in Histories
    <3>1. [Troubled EXCEPT !.alive = 0] \in Histories
        BY <2>7, HistoryRecords
    <3>2. ASSUME history' = [Troubled EXCEPT !.clean = @ \ {w}] PROVE history' \in Histories
      <4> DEFINE W == Troubled.clean \ {w}
      <4>1. W \in SUBSET Workers
          BY <2>7
      <4> HIDE DEF W
      <4>2. [Troubled EXCEPT !.clean = W] \in Histories
          BY <2>7, <4>1, HistoryRecords
      <4> QED BY <3>2, <4>2 DEF W
    <3> QED BY <2>6, <2>7, <3>1, <3>2
  <2> QED BY <2>1, <2>3, <2>5, <2>8 DEF WorkerStates, Histories, Age
<1>2. CASE StartBeat \/ Tick \/ BeatEnds
  <2>1. CASE StartBeat
    BY <2>1 DEF StartBeat, Troubled
  <2>2. CASE Scan
    BY <2>2 DEF Scan, Steps
  <2>3. CASE ScanFails
    BY <2>3 DEF ScanFails, Steps, Troubled, AfterFailedScan
  <2>4. CASE Dispatch
    BY <2>4 DEF Dispatch, Steps, AfterDispatch
  <2>5. CASE PulseBeat
    BY <2>5 DEF PulseBeat, Steps, PulseOfBeat, GiveUp, Troubled
  <2>6. CASE Poll("database", "redis")
    <3>1. PICK poll \in [Families -> Age] : history' = [history EXCEPT !.poll = poll]
        BY <2>6 DEF Poll, Age
    <3>2. history \in Histories
        BY DEF Histories, Age
    <3>3. history' \in Histories
        BY <3>1, <3>2, HistoryRecords
    <3>4. gauge' \in [Families -> Age]
        BY <2>6 DEF Poll, Replaced, Age
    <3>5. beat' \in [step : {"down", "scan", "dispatch", "pulse", "database", "redis"}, since : Nat]
        BY <2>6 DEF Poll
    <3> QED BY <2>6, <3>3, <3>4, <3>5 DEF Poll, Histories, Age
  <2>7. CASE Poll("redis", "scan")
    <3>1. PICK poll \in [Families -> Age] : history' = [history EXCEPT !.poll = poll]
        BY <2>7 DEF Poll, Age
    <3>2. history \in Histories
        BY DEF Histories, Age
    <3>3. history' \in Histories
        BY <3>1, <3>2, HistoryRecords
    <3>4. gauge' \in [Families -> Age]
        BY <2>7 DEF Poll, Replaced, Age
    <3>5. beat' \in [step : {"down", "scan", "dispatch", "pulse", "database", "redis"}, since : Nat]
        BY <2>7 DEF Poll
    <3> QED BY <2>7, <3>3, <3>4, <3>5 DEF Poll, Histories, Age
  <2>8. CASE BeatEnds
    <3>1. history' \in Histories
        BY <2>8 DEF BeatEnds, Troubled, Histories, Age
    <3> QED BY <2>8, <3>1 DEF BeatEnds, GiveUp, Histories, Age
  <2> QED BY <1>2, <2>1, <2>2, <2>3, <2>4, <2>5, <2>6, <2>7, <2>8 DEF Tick
<1>3. ASSUME NEW c \in Clients, Serve(c) PROVE TypeOK'
  <2>1. request' \in [Clients -> RequestStates]
      BY <1>3, RequestsKeepType
  <2> QED BY <1>3, <2>1 DEF Serve, Ask, Probe, Report, RequestStates
<1>4. ASSUME NEW p \in Workers \cup {Beat}, Late(p) \/ Drop(p) PROVE TypeOK'
  <2>1. stuck' \in [Workers \cup {Beat} -> Age]
      BY <1>4 DEF Late, Drop, Age
  <2>2. seen' \in [Workers -> Age] /\ kept' \in Nat /\ beatSeen' \in Age
    <3>1. \/ UNCHANGED <<seen, kept, beatSeen>>
          \/ beatSeen' = 0 /\ UNCHANGED <<seen, kept>>
          \/ \E w \in Workers : PulseOf(w)
        BY <1>4 DEF Late, PulseBy, PulseOfBeat, Drop, timeVars
    <3> QED BY <3>1 DEF PulseOf, Age
  <2> QED BY <1>4, <2>1, <2>2 DEF Late, Drop, Age
<1>5. ASSUME NEW d \in Deps, Break(d) PROVE TypeOK'
    BY <1>5 DEF Break, Troubled
<1>6. ASSUME NEW d \in Deps, Mend(d) PROVE TypeOK'
  <2>1. request' \in [Clients -> RequestStates]
      BY <1>6, MendKeepsType
  <2>2. up' \in [Deps -> BOOLEAN] /\ history' \in Histories
      BY <1>6 DEF Mend, Troubled, Histories, Age
  <2>3. seen' \in [Workers -> Age] /\ kept' \in Nat /\ beatSeen' \in Age
      BY <1>6 DEF Mend, Age
  <2> QED BY <1>6, <2>1, <2>2, <2>3 DEF Mend, RequestStates, Histories, Age
<1>7. CASE Clock
  <2>1. worker' \in [Workers -> WorkerStates] /\ history' \in Histories
      BY <1>7, ClockKeepsType
  <2>2. gauge' \in [Families -> Age] /\ beat' \in [step : {"down", "scan", "dispatch", "pulse",
                                                         "database", "redis"}, since : Nat]
      BY <1>7 DEF Clock, Age, Later, Cap
  <2>3. seen' \in [Workers -> Age] /\ kept' \in Nat /\ beatSeen' \in Age
      BY <1>7 DEF Clock, Age, BeatExpires
  <2>4. stuck' \in [Workers \cup {Beat} -> Age]
      BY <1>7 DEF Clock, Age
  <2> QED BY <1>7, <2>1, <2>2, <2>3, <2>4 DEF Clock, WorkerStates, Histories, Age
<1> HIDE DEF Beat, Deps
<1> QED BY <1>1, <1>2, <1>3, <1>4, <1>5, <1>6, <1>7, FailingAssumption DEF Next, Deps

-----------------------------------------------------------------------------
(* Each part of IInv is kept                                               *)

LEMMA AgesKept == ASSUME IInv, Next PROVE Ages'
<1> USE AgesAssumption, FailingAssumption, NothingAssumption, WorkersAssumption
    DEF TypeOK, Ages, timeVars, Alive, Beat, Deps
<1> SUFFICES ASSUME TypeOK, Ages PROVE Ages'
    BY DEF IInv
<1>1. ASSUME NEW w \in Workers, WorkerStep(w) PROVE Ages'
  <2>1. CASE StartWorker(w)
    BY <2>1 DEF StartWorker, Troubled
  <2>2. CASE BeginPulse(w)
    BY <2>2 DEF BeginPulse
  <2>3. CASE EndPulse(w)
    BY <2>3 DEF EndPulse, PulseOf, Purged
  <2>4. CASE PulseFails(w)
    BY <2>4 DEF PulseFails, GiveUp, Troubled
  <2>5. CASE StopWorker(w)
    <3>1. CASE seen' = [seen EXCEPT ![w] = Nothing] /\ history' = Troubled
        BY <2>5, <3>1 DEF StopWorker, Troubled, MayStop
    <3>2. CASE history' = [Troubled EXCEPT !.clean = @ \ {w}] /\ UNCHANGED seen
        BY <2>5, <3>2 DEF StopWorker, Troubled, MayStop
    <3> QED BY <2>5, <3>1, <3>2 DEF StopWorker
  <2>6. CASE KillWorker(w)
    BY <2>6 DEF KillWorker, GiveUp, Troubled
  <2> QED BY <1>1, <2>1, <2>2, <2>3, <2>4, <2>5, <2>6 DEF WorkerStep
<1>2. CASE StartBeat \/ Tick \/ BeatEnds
  <2>1. CASE StartBeat
    BY <2>1 DEF StartBeat, Troubled
  <2>2. CASE Scan
    BY <2>2 DEF Scan, Steps
  <2>3. CASE ScanFails
    BY <2>3 DEF ScanFails, Steps, Troubled, AfterFailedScan
  <2>4. CASE Dispatch
    BY <2>4 DEF Dispatch, Steps, AfterDispatch
  <2>5. CASE PulseBeat
    BY <2>5 DEF PulseBeat, Steps, PulseOfBeat, GiveUp, Troubled
  <2>6. CASE Poll("database", "redis")
    BY <2>6 DEF Poll, Replaced
  <2>7. CASE Poll("redis", "scan")
    BY <2>7 DEF Poll, Replaced
  <2>8. CASE BeatEnds
    BY <2>8 DEF BeatEnds, GiveUp, Troubled
  <2> QED BY <1>2, <2>1, <2>2, <2>3, <2>4, <2>5, <2>6, <2>7, <2>8 DEF Tick
<1>3. ASSUME NEW c \in Clients, Serve(c) PROVE Ages'
    BY <1>3 DEF Serve, Ask, DatabaseAnswer, Probe, AllProbes, Report, NoRequest
<1>4. ASSUME NEW p \in Workers \cup {Beat}, Late(p) \/ Drop(p) PROVE Ages'
    BY <1>4 DEF Late, PulseBy, PulseOf, PulseOfBeat, Purged, Drop
<1>5. ASSUME NEW d \in Deps, Break(d) \/ Mend(d) PROVE Ages'
    BY <1>5 DEF Break, Troubled, Mend
<1>6. CASE Clock
    BY <1>6 DEF Clock, Later, BeatExpires, Cap
<1> HIDE DEF Beat, Deps
<1> QED BY <1>1, <1>2, <1>3, <1>4, <1>5, <1>6, FailingAssumption
        DEF Next, Deps, TypeOK

LEMMA CallsAreOwnKept == ASSUME IInv, Next PROVE CallsAreOwn'
<1> USE AgesAssumption, FailingAssumption, NothingAssumption, WorkersAssumption
    DEF TypeOK, CallsAreOwn, timeVars, Alive, Beat, Deps
<1> SUFFICES ASSUME TypeOK, CallsAreOwn PROVE CallsAreOwn'
    BY DEF IInv
<1>1. ASSUME NEW w \in Workers, WorkerStep(w) PROVE CallsAreOwn'
  <2>1. CASE StartWorker(w)
    BY <2>1 DEF StartWorker, Troubled
  <2>2. CASE BeginPulse(w)
    BY <2>2 DEF BeginPulse
  <2>3. CASE EndPulse(w)
    BY <2>3 DEF EndPulse, PulseOf, Purged
  <2>4. CASE PulseFails(w)
    BY <2>4 DEF PulseFails, GiveUp, Troubled
  <2>5. CASE StopWorker(w)
    <3>1. CASE seen' = [seen EXCEPT ![w] = Nothing] /\ history' = Troubled
        BY <2>5, <3>1 DEF StopWorker, Troubled, MayStop
    <3>2. CASE history' = [Troubled EXCEPT !.clean = @ \ {w}] /\ UNCHANGED seen
        BY <2>5, <3>2 DEF StopWorker, Troubled, MayStop
    <3> QED BY <2>5, <3>1, <3>2 DEF StopWorker
  <2>6. CASE KillWorker(w)
    BY <2>6 DEF KillWorker, GiveUp, Troubled
  <2> QED BY <1>1, <2>1, <2>2, <2>3, <2>4, <2>5, <2>6 DEF WorkerStep
<1>2. CASE StartBeat \/ Tick \/ BeatEnds
    BY <1>2, BeatLeaves
<1>3. ASSUME NEW c \in Clients, Serve(c) PROVE CallsAreOwn'
    BY <1>3 DEF Serve, Ask, DatabaseAnswer, Probe, AllProbes, Report, NoRequest
<1>4. ASSUME NEW p \in Workers \cup {Beat}, Late(p) \/ Drop(p) PROVE CallsAreOwn'
    BY <1>4 DEF Late, PulseBy, PulseOf, PulseOfBeat, Purged, Drop
<1>5. ASSUME NEW d \in Deps, Break(d) \/ Mend(d) PROVE CallsAreOwn'
    BY <1>5 DEF Break, Troubled, Mend
<1>6. CASE Clock
    BY <1>6 DEF Clock, Later, BeatExpires, Cap
<1> HIDE DEF Beat, Deps
<1> QED BY <1>1, <1>2, <1>3, <1>4, <1>5, <1>6, FailingAssumption
        DEF Next, Deps, TypeOK

\* Whoever stops has the lock that a pulse would hold, and no command left in Redis.
LEMMA StoppedIsGoneKept == ASSUME IInv, Next PROVE StoppedIsGone'
<1> USE AgesAssumption, FailingAssumption, NothingAssumption, WorkersAssumption
    DEF TypeOK, CallsAreOwn, StoppedIsGone, timeVars, Alive, Beat, Deps
<1> SUFFICES ASSUME TypeOK, CallsAreOwn, StoppedIsGone PROVE StoppedIsGone'
    BY DEF IInv
<1>1. ASSUME NEW w \in Workers, WorkerStep(w) PROVE StoppedIsGone'
  <2>1. CASE StartWorker(w)
    BY <2>1 DEF StartWorker, Troubled
  <2>2. CASE BeginPulse(w)
    BY <2>2 DEF BeginPulse
  <2>3. CASE EndPulse(w)
    BY <2>3 DEF EndPulse, PulseOf, Purged
  <2>4. CASE PulseFails(w)
    BY <2>4 DEF PulseFails, GiveUp, Troubled
  <2>5. CASE StopWorker(w)
    <3>1. CASE seen' = [seen EXCEPT ![w] = Nothing] /\ history' = Troubled
        BY <2>5, <3>1 DEF StopWorker, Troubled, MayStop
    <3>2. CASE history' = [Troubled EXCEPT !.clean = @ \ {w}] /\ UNCHANGED seen
        BY <2>5, <3>2 DEF StopWorker, Troubled, MayStop
    <3> QED BY <2>5, <3>1, <3>2 DEF StopWorker
  <2>6. CASE KillWorker(w)
    BY <2>6 DEF KillWorker, GiveUp, Troubled
  <2> QED BY <1>1, <2>1, <2>2, <2>3, <2>4, <2>5, <2>6 DEF WorkerStep
<1>2. CASE StartBeat \/ Tick \/ BeatEnds
    BY <1>2, BeatLeaves
<1>3. ASSUME NEW c \in Clients, Serve(c) PROVE StoppedIsGone'
    BY <1>3 DEF Serve, Ask, DatabaseAnswer, Probe, AllProbes, Report, NoRequest
<1>4. ASSUME NEW p \in Workers \cup {Beat}, Late(p) \/ Drop(p) PROVE StoppedIsGone'
    BY <1>4 DEF Late, PulseBy, PulseOf, PulseOfBeat, Purged, Drop
<1>5. ASSUME NEW d \in Deps, Break(d) \/ Mend(d) PROVE StoppedIsGone'
    BY <1>5 DEF Break, Troubled, Mend
<1>6. CASE Clock
    BY <1>6 DEF Clock, Later, BeatExpires, Cap
<1> HIDE DEF Beat, Deps
<1> QED BY <1>1, <1>2, <1>3, <1>4, <1>5, <1>6, FailingAssumption
        DEF Next, Deps, TypeOK

\* While nothing fails, only the end of a pulse sets a worker's clock back.
LEMMA WorkersAreSeenKept == ASSUME IInv, Next PROVE WorkersAreSeen'
<1> USE AgesAssumption, FailingAssumption, NothingAssumption, WorkersAssumption
    DEF TypeOK, Ages, WorkersAreSeen, timeVars, Alive, Beat, Deps
<1> SUFFICES ASSUME TypeOK, Ages, WorkersAreSeen PROVE WorkersAreSeen'
    BY DEF IInv
<1>1. ASSUME NEW w \in Workers, WorkerStep(w) PROVE WorkersAreSeen'
  <2>1. CASE StartWorker(w)
    BY <2>1 DEF StartWorker, Troubled
  <2>2. CASE BeginPulse(w)
    BY <2>2 DEF BeginPulse
  <2>3. CASE EndPulse(w)
    BY <2>3 DEF EndPulse, PulseOf, Purged
  <2>4. CASE PulseFails(w)
    BY <2>4 DEF PulseFails, GiveUp, Troubled
  <2>5. CASE StopWorker(w)
    <3>1. CASE seen' = [seen EXCEPT ![w] = Nothing] /\ history' = Troubled
        BY <2>5, <3>1 DEF StopWorker, Troubled, MayStop
    <3>2. CASE history' = [Troubled EXCEPT !.clean = @ \ {w}] /\ UNCHANGED seen
        BY <2>5, <3>2 DEF StopWorker, Troubled, MayStop
    <3> QED BY <2>5, <3>1, <3>2 DEF StopWorker
  <2>6. CASE KillWorker(w)
    BY <2>6 DEF KillWorker, GiveUp, Troubled
  <2> QED BY <1>1, <2>1, <2>2, <2>3, <2>4, <2>5, <2>6 DEF WorkerStep
<1>2. CASE StartBeat \/ Tick \/ BeatEnds
    BY <1>2, BeatLeaves
<1>3. ASSUME NEW c \in Clients, Serve(c) PROVE WorkersAreSeen'
    BY <1>3 DEF Serve, Ask, DatabaseAnswer, Probe, AllProbes, Report, NoRequest
<1>4. ASSUME NEW p \in Workers \cup {Beat}, Late(p) \/ Drop(p) PROVE WorkersAreSeen'
    BY <1>4 DEF Late, PulseBy, PulseOf, PulseOfBeat, Purged, Drop
<1>5. ASSUME NEW d \in Deps, Break(d) \/ Mend(d) PROVE WorkersAreSeen'
    BY <1>5 DEF Break, Troubled, Mend
<1>6. CASE Clock
    BY <1>6 DEF Clock, Later, BeatExpires, Cap
<1> HIDE DEF Beat, Deps
<1> QED BY <1>1, <1>2, <1>3, <1>4, <1>5, <1>6, FailingAssumption
        DEF Next, Deps, TypeOK

\* A tick that nothing disturbed since it began has pulsed when it measures.
LEMMA BeatIsSeenKept == ASSUME IInv, Next PROVE BeatIsSeen'
<1> USE AgesAssumption, FailingAssumption, NothingAssumption, WorkersAssumption
    DEF TypeOK, Ages, BeatIsSeen, Grace, timeVars, Alive, Beat, Deps
<1> SUFFICES ASSUME TypeOK, Ages, BeatIsSeen PROVE BeatIsSeen'
    BY DEF IInv
<1>1. ASSUME NEW w \in Workers, WorkerStep(w) PROVE BeatIsSeen'
    BY <1>1, WorkerLeaves
<1>2. CASE StartBeat \/ Tick \/ BeatEnds
  <2>1. CASE StartBeat
    BY <2>1 DEF StartBeat, Troubled
  <2>2. CASE Scan
    BY <2>2 DEF Scan, Steps
  <2>3. CASE ScanFails
    BY <2>3 DEF ScanFails, Steps, Troubled, AfterFailedScan
  <2>4. CASE Dispatch
    BY <2>4 DEF Dispatch, Steps, AfterDispatch
  <2>5. CASE PulseBeat
    BY <2>5 DEF PulseBeat, Steps, PulseOfBeat, GiveUp, Troubled
  <2>6. CASE Poll("database", "redis")
    BY <2>6 DEF Poll, Replaced
  <2>7. CASE Poll("redis", "scan")
    BY <2>7 DEF Poll, Replaced
  <2>8. CASE BeatEnds
    BY <2>8 DEF BeatEnds, GiveUp, Troubled
  <2> QED BY <1>2, <2>1, <2>2, <2>3, <2>4, <2>5, <2>6, <2>7, <2>8 DEF Tick
<1>3. ASSUME NEW c \in Clients, Serve(c) PROVE BeatIsSeen'
    BY <1>3 DEF Serve, Ask, DatabaseAnswer, Probe, AllProbes, Report, NoRequest
<1>4. ASSUME NEW p \in Workers \cup {Beat}, Late(p) \/ Drop(p) PROVE BeatIsSeen'
    BY <1>4 DEF Late, PulseBy, PulseOf, PulseOfBeat, Purged, Drop
<1>5. ASSUME NEW d \in Deps, Break(d) \/ Mend(d) PROVE BeatIsSeen'
    BY <1>5 DEF Break, Troubled, Mend
<1>6. CASE Clock
    BY <1>6 DEF Clock, Later, BeatExpires, Cap
<1> HIDE DEF Beat, Deps
<1> QED BY <1>1, <1>2, <1>3, <1>4, <1>5, <1>6, FailingAssumption
        DEF Next, Deps, TypeOK

\* A command is dated when Redis executes it, MaxStuck after it was sent at most.
LEMMA SeenHaveLivedKept == ASSUME IInv, Next PROVE SeenHaveLived'
<1> USE AgesAssumption, FailingAssumption, NothingAssumption, WorkersAssumption
    DEF TypeOK, Ages, CallsAreOwn, SeenHaveLived, timeVars, Alive, Beat, Deps
<1> SUFFICES ASSUME TypeOK, Ages, CallsAreOwn, SeenHaveLived PROVE SeenHaveLived'
    BY DEF IInv
<1>1. ASSUME NEW w \in Workers, WorkerStep(w) PROVE SeenHaveLived'
  <2>1. CASE StartWorker(w)
    BY <2>1 DEF StartWorker, Troubled
  <2>2. CASE BeginPulse(w)
    BY <2>2 DEF BeginPulse
  <2>3. CASE EndPulse(w)
    BY <2>3 DEF EndPulse, PulseOf, Purged
  <2>4. CASE PulseFails(w)
    BY <2>4 DEF PulseFails, GiveUp, Troubled
  <2>5. CASE StopWorker(w)
    <3>1. CASE seen' = [seen EXCEPT ![w] = Nothing] /\ history' = Troubled
        BY <2>5, <3>1 DEF StopWorker, Troubled, MayStop
    <3>2. CASE history' = [Troubled EXCEPT !.clean = @ \ {w}] /\ UNCHANGED seen
        BY <2>5, <3>2 DEF StopWorker, Troubled, MayStop
    <3> QED BY <2>5, <3>1, <3>2 DEF StopWorker
  <2>6. CASE KillWorker(w)
    BY <2>6 DEF KillWorker, GiveUp, Troubled
  <2> QED BY <1>1, <2>1, <2>2, <2>3, <2>4, <2>5, <2>6 DEF WorkerStep
<1>2. CASE StartBeat \/ Tick \/ BeatEnds
    BY <1>2, BeatLeaves
<1>3. ASSUME NEW c \in Clients, Serve(c) PROVE SeenHaveLived'
    BY <1>3 DEF Serve, Ask, DatabaseAnswer, Probe, AllProbes, Report, NoRequest
<1>4. ASSUME NEW p \in Workers \cup {Beat}, Late(p) \/ Drop(p) PROVE SeenHaveLived'
    BY <1>4 DEF Late, PulseBy, PulseOf, PulseOfBeat, Purged, Drop
<1>5. ASSUME NEW d \in Deps, Break(d) \/ Mend(d) PROVE SeenHaveLived'
    BY <1>5 DEF Break, Troubled, Mend
<1>6. CASE Clock
    BY <1>6 DEF Clock, Later, BeatExpires, Cap
<1> HIDE DEF Beat, Deps
<1> QED BY <1>1, <1>2, <1>3, <1>4, <1>5, <1>6, FailingAssumption
        DEF Next, Deps, TypeOK

LEMMA SeenHaveScannedKept == ASSUME IInv, Next PROVE SeenHaveScanned'
<1> USE AgesAssumption, FailingAssumption, NothingAssumption, WorkersAssumption
    DEF TypeOK, Ages, SeenHaveScanned, timeVars, Alive, Beat, Deps
<1> SUFFICES ASSUME TypeOK, Ages, SeenHaveScanned PROVE SeenHaveScanned'
    BY DEF IInv
<1>1. ASSUME NEW w \in Workers, WorkerStep(w) PROVE SeenHaveScanned'
    BY <1>1, WorkerLeaves
<1>2. CASE StartBeat \/ Tick \/ BeatEnds
  <2>1. CASE StartBeat
    BY <2>1 DEF StartBeat, Troubled
  <2>2. CASE Scan
    BY <2>2 DEF Scan, Steps
  <2>3. CASE ScanFails
    BY <2>3 DEF ScanFails, Steps, Troubled, AfterFailedScan
  <2>4. CASE Dispatch
    BY <2>4 DEF Dispatch, Steps, AfterDispatch
  <2>5. CASE PulseBeat
    BY <2>5 DEF PulseBeat, Steps, PulseOfBeat, GiveUp, Troubled
  <2>6. CASE Poll("database", "redis")
    BY <2>6 DEF Poll, Replaced
  <2>7. CASE Poll("redis", "scan")
    BY <2>7 DEF Poll, Replaced
  <2>8. CASE BeatEnds
    BY <2>8 DEF BeatEnds, GiveUp, Troubled
  <2> QED BY <1>2, <2>1, <2>2, <2>3, <2>4, <2>5, <2>6, <2>7, <2>8 DEF Tick
<1>3. ASSUME NEW c \in Clients, Serve(c) PROVE SeenHaveScanned'
    BY <1>3 DEF Serve, Ask, DatabaseAnswer, Probe, AllProbes, Report, NoRequest
<1>4. ASSUME NEW p \in Workers \cup {Beat}, Late(p) \/ Drop(p) PROVE SeenHaveScanned'
    BY <1>4 DEF Late, PulseBy, PulseOf, PulseOfBeat, Purged, Drop
<1>5. ASSUME NEW d \in Deps, Break(d) \/ Mend(d) PROVE SeenHaveScanned'
    BY <1>5 DEF Break, Troubled, Mend
<1>6. CASE Clock
    BY <1>6 DEF Clock, Later, BeatExpires, Cap
<1> HIDE DEF Beat, Deps
<1> QED BY <1>1, <1>2, <1>3, <1>4, <1>5, <1>6, FailingAssumption
        DEF Next, Deps, TypeOK

\* Mend takes what comes back from the list of what was down all the while.
LEMMA ReportsNoticeKept == ASSUME IInv, Next PROVE ReportsNotice'
<1> USE AgesAssumption, FailingAssumption, NothingAssumption, WorkersAssumption
    DEF TypeOK, ReportsNotice, Asked, timeVars, Alive, Beat, Deps
<1> SUFFICES ASSUME TypeOK, ReportsNotice PROVE ReportsNotice'
    BY DEF IInv
<1>1. ASSUME NEW w \in Workers, WorkerStep(w) PROVE ReportsNotice'
  <2>1. UNCHANGED <<up, request>>
      BY <1>1, WorkerLeaves
  <2> QED BY <2>1
<1>2. CASE StartBeat \/ Tick \/ BeatEnds
  <2>1. UNCHANGED <<up, request>>
      BY <1>2, BeatLeaves
  <2> QED BY <2>1
<1>3. ASSUME NEW c \in Clients, Serve(c) PROVE ReportsNotice'
    BY <1>3 DEF Serve, Ask, DatabaseAnswer, Probe, AllProbes, Report, NoRequest
<1>4. ASSUME NEW p \in Workers \cup {Beat}, Late(p) \/ Drop(p) PROVE ReportsNotice'
  <2>1. CASE Late(p)
    BY <2>1 DEF Late, PulseBy, PulseOf, PulseOfBeat, Purged
  <2>2. CASE Drop(p)
    BY <2>2 DEF Drop
  <2> QED BY <1>4, <2>1, <2>2
<1>5. ASSUME NEW d \in Deps, Break(d) \/ Mend(d) PROVE ReportsNotice'
    BY <1>5 DEF Break, Troubled, Mend
<1>6. CASE Clock
    BY <1>6 DEF Clock, Later, BeatExpires, Cap
<1> HIDE DEF Beat, Deps
<1> QED BY <1>1, <1>2, <1>3, <1>4, <1>5, <1>6, FailingAssumption
        DEF Next, Deps, TypeOK

LEMMA MeasurementsAgreeKept == ASSUME IInv, Next PROVE MeasurementsAgree'
<1> USE AgesAssumption, FailingAssumption, NothingAssumption, WorkersAssumption
    DEF TypeOK, MeasurementsAgree, timeVars, Alive, Beat, Deps
<1> SUFFICES ASSUME TypeOK, MeasurementsAgree PROVE MeasurementsAgree'
    BY DEF IInv
<1>1. ASSUME NEW w \in Workers, WorkerStep(w) PROVE MeasurementsAgree'
    BY <1>1, WorkerLeaves
<1>2. CASE StartBeat \/ Tick \/ BeatEnds
  <2>1. CASE StartBeat
    BY <2>1 DEF StartBeat, Troubled
  <2>2. CASE Scan
    BY <2>2 DEF Scan, Steps
  <2>3. CASE ScanFails
    BY <2>3 DEF ScanFails, Steps, Troubled, AfterFailedScan
  <2>4. CASE Dispatch
    BY <2>4 DEF Dispatch, Steps, AfterDispatch
  <2>5. CASE PulseBeat
    BY <2>5 DEF PulseBeat, Steps, PulseOfBeat, GiveUp, Troubled
  <2>6. CASE Poll("database", "redis")
    BY <2>6 DEF Poll, Replaced
  <2>7. CASE Poll("redis", "scan")
    BY <2>7 DEF Poll, Replaced
  <2>8. CASE BeatEnds
    BY <2>8 DEF BeatEnds, GiveUp, Troubled
  <2> QED BY <1>2, <2>1, <2>2, <2>3, <2>4, <2>5, <2>6, <2>7, <2>8 DEF Tick
<1>3. ASSUME NEW c \in Clients, Serve(c) PROVE MeasurementsAgree'
    BY <1>3 DEF Serve, Ask, DatabaseAnswer, Probe, AllProbes, Report, NoRequest
<1>4. ASSUME NEW p \in Workers \cup {Beat}, Late(p) \/ Drop(p) PROVE MeasurementsAgree'
    BY <1>4 DEF Late, PulseBy, PulseOf, PulseOfBeat, Purged, Drop
<1>5. ASSUME NEW d \in Deps, Break(d) \/ Mend(d) PROVE MeasurementsAgree'
    BY <1>5 DEF Break, Troubled, Mend
<1>6. CASE Clock
    BY <1>6 DEF Clock, Later, BeatExpires, Cap
<1> HIDE DEF Beat, Deps
<1> QED BY <1>1, <1>2, <1>3, <1>4, <1>5, <1>6, FailingAssumption
        DEF Next, Deps, TypeOK

-----------------------------------------------------------------------------
(* The theorems                                                            *)

LEMMA InitInv == Init => IInv
<1> SUFFICES ASSUME Init PROVE IInv
    OBVIOUS
<1> USE AgesAssumption, NothingAssumption
    DEF Init, Beat, Deps, Alive, NoRequest
<1>1. TypeOK
    BY DEF TypeOK, Cap
<1>2. Ages /\ CallsAreOwn /\ StoppedIsGone /\ WorkersAreSeen /\ BeatIsSeen
    BY DEF Ages, CallsAreOwn, StoppedIsGone, WorkersAreSeen, BeatIsSeen
<1>3. SeenHaveLived /\ SeenHaveScanned /\ ReportsNotice /\ MeasurementsAgree
    BY DEF SeenHaveLived, SeenHaveScanned, ReportsNotice, MeasurementsAgree
<1> QED BY <1>1, <1>2, <1>3 DEF IInv

LEMMA NextInv == IInv /\ [Next]_vars => IInv'
<1>1. ASSUME IInv, Next PROVE IInv'
    BY <1>1, TypeKept, AgesKept, CallsAreOwnKept, StoppedIsGoneKept, WorkersAreSeenKept,
       BeatIsSeenKept, SeenHaveLivedKept, SeenHaveScannedKept, ReportsNoticeKept,
       MeasurementsAgreeKept DEF IInv
<1>2. ASSUME IInv, UNCHANGED vars PROVE IInv'
  <2> USE <1>2 DEF vars, timeVars, Alive, Beat
  <2>1. TypeOK' /\ Ages' /\ CallsAreOwn' /\ StoppedIsGone'
      BY DEF IInv, TypeOK, Ages, CallsAreOwn, StoppedIsGone
  <2>2. WorkersAreSeen' /\ BeatIsSeen' /\ SeenHaveLived' /\ SeenHaveScanned'
      BY DEF IInv, WorkersAreSeen, BeatIsSeen, Grace, SeenHaveLived, SeenHaveScanned
  <2>3. ReportsNotice' /\ MeasurementsAgree'
      BY DEF IInv, ReportsNotice, MeasurementsAgree, Asked
  <2> QED BY <2>1, <2>2, <2>3 DEF IInv
<1> QED BY <1>1, <1>2

LEMMA InvHolds == Spec => []IInv
BY InitInv, NextInv, PTL DEF Spec

\* Every variable keeps its type.
THEOREM TypeCorrect == Spec => []TypeOK
<1>1. IInv => TypeOK
    BY DEF IInv
<1> QED BY <1>1, InvHolds, PTL

\* When nothing has failed for two periods, every worker that runs and Beat, if it runs, have
\* a heartbeat that HealthService counts as fresh: two periods fit in Fresh.
THEOREM RunningStaysFresh == Spec => []RunningIsFresh
<1>1. ASSUME IInv, history.calm > 2 * MaxGap
      PROVE  /\ \A w \in Workers : Alive(w) => Counts(seen[w])
             /\ beat.step # "down" => BeatFresh
  <2> USE AgesAssumption
  <2>1. TypeOK /\ Ages /\ WorkersAreSeen /\ BeatIsSeen
      BY <1>1 DEF IInv
  <2>2. ASSUME NEW w \in Workers, Alive(w) PROVE Counts(seen[w])
    <3>1. worker[w].since \in Nat /\ worker[w].since <= MaxGap /\ history.calm \in Nat
        BY <2>1 DEF TypeOK, Ages
    <3>2. seen[w] # Nothing /\ seen[w] <= worker[w].since
        BY <1>1, <2>1, <2>2, <3>1 DEF WorkersAreSeen
    <3> QED BY <2>1, <3>1, <3>2 DEF Counts, TypeOK
  <2>3. ASSUME beat.step # "down" PROVE BeatFresh
    <3>1. beat.since \in Nat /\ beat.since <= MaxGap /\ history.calm \in Nat
        BY <2>1 DEF TypeOK, Ages
    <3>2. beatSeen # Nothing /\ beatSeen <= beat.since + Grace
        BY <1>1, <2>1, <2>3, <3>1 DEF BeatIsSeen, Grace
    <3> QED BY <2>1, <3>1, <3>2 DEF BeatFresh, Counts, TypeOK, Grace
  <2> QED BY <2>2, <2>3
<1>2. IInv => RunningIsFresh
    BY <1>1 DEF RunningIsFresh
<1> QED BY <1>2, InvHolds, PTL

\* A worker that stopped in good order is not seen again: no timer and no late command of its
\* own brings its heartbeat back.
THEOREM StoppedStaysGone == Spec => []StoppedIsGone
<1>1. IInv => StoppedIsGone
    BY DEF IInv
<1> QED BY <1>1, InvHolds, PTL

\* What a health report says of workers, of Beat and of the dependencies is so, however long
\* the report took and however late Redis executed a pulse.
THEOREM ReportsAreTrue == Spec => []ReportIsTrue
<1>1. ASSUME IInv, NEW c \in Clients, Reporting(c)
      PROVE  /\ WorkedLately(IF Reported(WorkerFresh) THEN history.alive ELSE 0,
                             IF Reported(BeatFresh) THEN history.scanned ELSE 0)
             /\ request[c].down # {} => Overall(c) = "unavailable"
  <2> USE AgesAssumption, NothingAssumption
  <2>1. TypeOK /\ SeenHaveLived /\ SeenHaveScanned /\ ReportsNotice
      BY <1>1 DEF IInv
  <2>2. WorkerFresh => history.alive <= Fresh + MaxStuck
      BY <2>1 DEF WorkerFresh, Counts, SeenHaveLived, TypeOK
  <2>3. BeatFresh => history.scanned <= Fresh + MaxStuck + MaxGap
      BY <2>1 DEF BeatFresh, Counts, SeenHaveScanned, TypeOK
  <2>4. request[c].down \subseteq Asked(request[c].step)
      BY <1>1, <2>1 DEF Reporting, TypeOK, Asked, Deps
  <2>5. request[c].down # {} => ~ request[c].ok
      BY <2>1, <2>4 DEF ReportsNotice
  <2> QED BY <2>2, <2>3, <2>5 DEF WorkedLately, Reported, Overall
<1>2. IInv => ReportIsTrue
    BY <1>1 DEF ReportIsTrue
<1> QED BY <1>2, InvHolds, PTL

\* A gauge shows the last measurement of its family, or none if that failed or is too old.
THEOREM ShownAreMeasured == Spec => []ShownIsMeasured
<1>1. IInv => ShownIsMeasured
    BY DEF IInv, MeasurementsAgree, ShownIsMeasured, Shown
<1> QED BY <1>1, InvHolds, PTL

-----------------------------------------------------------------------------
(* The turns of Beat: places in an order                                   *)

\* R puts any two members of S in one order, and no three in a circle.
StrictOn(R, S) == /\ \A a \in S : <<a, a>> \notin R
                  /\ \A a, b \in S : a # b => <<a, b>> \in R \/ <<b, a>> \in R
                  /\ \A a, b, c \in S : <<a, b>> \in R /\ <<b, c>> \in R => <<a, c>> \in R

\* How many are before x.
Rank(R, S, x) == Cardinality({y \in S : <<y, x>> \in R})

\* Ranks follow the order, and each from 0 on has its member.
LEMMA RanksAreTaken ==
    ASSUME NEW S, IsFiniteSet(S), NEW R, StrictOn(R, S)
    PROVE  /\ \A a \in S : Rank(R, S, a) \in Nat /\ Rank(R, S, a) < Cardinality(S)
           /\ \A a, b \in S : <<a, b>> \in R <=> Rank(R, S, a) < Rank(R, S, b)
           /\ \A a, b \in S : Rank(R, S, a) = Rank(R, S, b) => a = b
           /\ \A i \in 1 .. Cardinality(S) : \E a \in S : Rank(R, S, a) = i - 1
<1> DEFINE before(x) == {y \in S : <<y, x>> \in R}
           n == Cardinality(S)
<1>0. n \in Nat
    BY FS_CardinalityType
<1>1. \A a \in S : IsFiniteSet(before(a)) /\ Cardinality(before(a)) \in Nat
    BY FS_Subset, FS_CardinalityType
<1>2. ASSUME NEW a \in S PROVE Rank(R, S, a) \in Nat /\ Rank(R, S, a) < n
  <2> DEFINE B == before(a)
             C == S \ {a}
  <2>1. B \in SUBSET C
      BY DEF StrictOn
  <2>2. IsFiniteSet(C) /\ Cardinality(C) = n - 1
      BY FS_RemoveElement
  <2>3. Rank(R, S, a) = Cardinality(B) /\ Cardinality(B) \in Nat
      BY <1>1 DEF Rank
  <2> HIDE DEF B, C, n
  <2>4. Cardinality(B) <= n - 1
      BY <2>1, <2>2, FS_Subset
  <2> QED BY <1>0, <2>3, <2>4
<1>3. ASSUME NEW a \in S, NEW b \in S, <<a, b>> \in R PROVE Rank(R, S, a) < Rank(R, S, b)
  <2> DEFINE A == before(a)
             B == before(b)
  <2>1. A \in SUBSET B /\ A # B /\ IsFiniteSet(B)
      BY <1>1, <1>3 DEF StrictOn
  <2>2. /\ Rank(R, S, a) = Cardinality(A) /\ Cardinality(A) \in Nat
        /\ Rank(R, S, b) = Cardinality(B) /\ Cardinality(B) \in Nat
      BY <1>1 DEF Rank
  <2> HIDE DEF A, B
  <2>3. Cardinality(A) <= Cardinality(B) /\ Cardinality(A) # Cardinality(B)
      BY <2>1, FS_Subset
  <2> QED BY <2>2, <2>3
<1> DEFINE g == [a \in S |-> Rank(R, S, a)]
<1>4. \A a \in S : g[a] = Rank(R, S, a) /\ g[a] \in Nat /\ g[a] < n
    BY <1>2
<1>5. \A a, b \in S : <<a, b>> \in R => g[a] < g[b]
    BY <1>3
<1> HIDE DEF g, n
<1>6. ASSUME NEW a \in S, NEW b \in S
      PROVE  (g[a] < g[b] => <<a, b>> \in R) /\ (g[a] = g[b] => a = b)
  <2>1. a = b \/ <<a, b>> \in R \/ <<b, a>> \in R
      BY DEF StrictOn
  <2>2. g[a] \in Nat /\ g[b] \in Nat
      BY <1>4
  <2>3. (<<a, b>> \in R => g[a] < g[b]) /\ (<<b, a>> \in R => g[b] < g[a])
      BY <1>5
  <2> QED BY <2>1, <2>2, <2>3
<1> DEFINE f == [a \in S |-> g[a] + 1]
<1>8. f \in Injection(S, 1 .. n)
  <2>1. f \in [S -> 1 .. n]
      BY <1>0, <1>4
  <2>2. ASSUME NEW a \in S, NEW b \in S, f[a] = f[b] PROVE a = b
    <3>1. g[a] \in Nat /\ g[b] \in Nat /\ g[a] + 1 = g[b] + 1
        BY <1>4, <2>2
    <3>2. g[a] = g[b]
        BY <3>1
    <3> QED BY <1>6, <3>2
  <2> QED BY <2>1, <2>2 DEF Injection, IsInjective
<1>9. IsFiniteSet(1 .. n) /\ Cardinality(1 .. n) = n
    BY <1>0, FS_Interval
<1>10. f \in Surjection(S, 1 .. n)
  <2> HIDE DEF f
  <2> QED BY <1>8, <1>9, FS_Injection DEF n
<1>11. \A i \in 1 .. n : \E a \in S : f[a] = i
    BY <1>10 DEF Surjection
<1>12. \A i \in 1 .. n : \E a \in S : g[a] = i - 1
    BY <1>4, <1>11
<1> QED BY <1>4, <1>5, <1>6, <1>12 DEF n, g

-----------------------------------------------------------------------------
(* Recovery                                                                *)

\* Whoever was queued has a place in the line.
LineIsOrder == /\ \A s \in Sources : <<s, s>> \notin line
               /\ \A a, b, c \in Sources : <<a, b>> \in line /\ <<b, c>> \in line => <<a, c>> \in line
               /\ \A a \in waiting \cup sent, b \in Sources : a # b => <<a, b>> \in line \/ <<b, a>> \in line

TurnsInv == TurnsTypeOK /\ LineIsOrder

\* A row that goes to the end of the line gets its place, and the others keep theirs.
LEMMA EndIsPlace ==
    ASSUME TurnsInv, NEW s \in Sources,
           line' = Recovery!ToTheEnd(s), waiting' \cup sent' \subseteq waiting \cup sent \cup {s}
    PROVE  LineIsOrder'
<1>1. \A a, b \in Sources : <<a, b>> \in line' <=> (a # s /\ <<a, b>> \in line) \/ (b = s /\ a # s)
    BY DEF Recovery!ToTheEnd
<1>2. \A a \in Sources : <<a, a>> \notin line'
    BY <1>1 DEF TurnsInv, LineIsOrder
<1>3. \A a, b, c \in Sources : <<a, b>> \in line' /\ <<b, c>> \in line' => <<a, c>> \in line'
    BY <1>1 DEF TurnsInv, LineIsOrder
<1>4. \A a \in waiting' \cup sent', b \in Sources : a # b => <<a, b>> \in line' \/ <<b, a>> \in line'
  <2>1. waiting' \cup sent' \subseteq Sources
      BY DEF TurnsInv, TurnsTypeOK
  <2> QED BY <1>1, <2>1 DEF TurnsInv, LineIsOrder
<1> QED BY <1>2, <1>3, <1>4 DEF LineIsOrder

\* The invariant holds at first.
LEMMA TurnsStart == TurnsInit => TurnsInv
<1> SUFFICES ASSUME TurnsInit PROVE TurnsInv
    OBVIOUS
<1> USE RowsAssumption, TenantsAssumption DEF TurnsInit, Recovery!Init, Maintenance!Init
<1>1. page \in Seq([row : Sources, same : BOOLEAN])
    BY SeqDef
<1>2. after \in [1 .. TenantCount -> [Lanes -> 0 .. RowCount]]
    BY DEF Maintenance!Tenants
<1>3. lane \in [Rows -> {"none", "pending", "cleanup", "deleted"}]
    BY DEF Maintenance!Rows, Rows
<1>4. asked \in BOOLEAN
    OBVIOUS
<1>5. TurnsTypeOK
    BY <1>1, <1>2, <1>3, <1>4 DEF TurnsTypeOK
<1>6. LineIsOrder
    BY DEF LineIsOrder
<1> QED BY <1>5, <1>6 DEF TurnsInv

\* What was read of a row is marked, and pages stay pages.
LEMMA PagesStay ==
    ASSUME TurnsTypeOK, NEW s
    PROVE  /\ Recovery!Outdated(s) \in Seq([row : Sources, same : BOOLEAN])
           /\ page # <<>> => /\ Tail(page) \in Seq([row : Sources, same : BOOLEAN])
                             /\ Tail(Recovery!Outdated(s)) \in Seq([row : Sources, same : BOOLEAN])
<1> DEFINE T == [row : Sources, same : BOOLEAN]
           o == Recovery!Outdated(s)
<1>1. page \in Seq(T) /\ Len(page) \in Nat /\ DOMAIN page = 1 .. Len(page)
    BY DEF TurnsTypeOK
<1> HIDE DEF T
<1>0. \A i \in DOMAIN page : page[i] \in T
    BY <1>1
<1>2. ASSUME NEW i \in DOMAIN page PROVE [page[i] EXCEPT !.same = @ /\ page[i].row # s] \in T
    BY <1>0 DEF T
<1>3. o = [i \in 1 .. Len(page) |-> [page[i] EXCEPT !.same = @ /\ page[i].row # s]]
    BY <1>1 DEF Recovery!Outdated
<1>4. o \in [1 .. Len(page) -> T]
    BY <1>1, <1>2, <1>3
<1> HIDE DEF o
<1>5. o \in Seq(T)
    BY <1>1, <1>4, SeqDef
<1>6. page # <<>> => o # <<>>
  <2>1. page # <<>> => Len(page) # 0
      BY <1>1
  <2>2. Len(page) # 0 => 1 \in DOMAIN o
      BY <1>1, <1>4
  <2> QED BY <2>1, <2>2
<1>7. \A p \in Seq(T) : p # <<>> => Tail(p) \in Seq(T)
    OBVIOUS
<1> QED BY <1>1, <1>5, <1>6, <1>7 DEF o, T

\* The instance counts as this module does.
LEMMA CountsAlike == \A S : Recovery!Cardinality(S) = Cardinality(S)
BY DEF Recovery!Cardinality, Cardinality

\* What a scan reads: as many different rows as are due or fit, the first of the line, in its order.
LEMMA ScanReadsDue ==
    ASSUME TurnsInv, Select
    PROVE  /\ Recovery!PageSize \in Nat /\ Len(page') = Recovery!PageSize /\ DOMAIN page' = 1 .. Recovery!PageSize
           /\ page' \in Seq([row : Sources, same : BOOLEAN])
           /\ \A i \in DOMAIN page' : page'[i].row \in due /\ Rank(line, due, page'[i].row) = i - 1
           /\ StrictOn(line, due) /\ IsFiniteSet(due)
<1> USE RowsAssumption, BatchAssumption
<1>1. due \subseteq Sources /\ IsFiniteSet(due) /\ Cardinality(due) \in Nat
    BY FS_Subset, FS_CardinalityType DEF TurnsInv, TurnsTypeOK
<1>2. StrictOn(line, due)
    BY DEF StrictOn, TurnsInv, TurnsTypeOK, LineIsOrder
<1> DEFINE n == Recovery!PageSize
           In(i) == Recovery!InLine(i)
<1>3. n \in Nat /\ n <= Cardinality(due)
    BY <1>1, CountsAlike DEF Recovery!PageSize
<1> HIDE DEF n
<1>4. ASSUME NEW i \in 1 .. n PROVE In(i) \in due /\ Rank(line, due, In(i)) = i - 1
  <2>1. i \in 1 .. Cardinality(due)
      BY <1>1, <1>3
  <2>2. \E a \in due : Rank(line, due, a) = i - 1
      BY <1>1, <1>2, <2>1, RanksAreTaken
  <2>3. \A a : Rank(line, due, a) = Cardinality(Recovery!Ahead(a))
      BY DEF Rank, Recovery!Ahead
  <2>4. In(i) = CHOOSE a \in due : Rank(line, due, a) = i - 1
      BY <2>3, CountsAlike DEF Recovery!InLine
  <2> HIDE DEF In
  <2> QED BY <2>2, <2>4
<1>5. page' = [i \in 1 .. n |-> [row |-> In(i), same |-> TRUE]]
    BY DEF Select, Recovery!Select, n
<1> HIDE DEF In
<1>6. page' \in [1 .. n -> [row : Sources, same : BOOLEAN]]
    BY <1>1, <1>4, <1>5
<1>7. DOMAIN page' = 1 .. n /\ \A i \in 1 .. n : page'[i].row = In(i)
    BY <1>5
<1> HIDE DEF Select
<1>8. page' \in Seq([row : Sources, same : BOOLEAN]) /\ Len(page') = n
  <2>1. \A T, p : p \in [1 .. n -> T] => p \in Seq(T)
      BY <1>3, SeqDef
  <2>2. page' \in Seq([row : Sources, same : BOOLEAN])
      BY <1>6, <2>1
  <2> DEFINE p == page'
  <2>3. DOMAIN p = 1 .. Len(p) /\ Len(p) \in Nat /\ DOMAIN p = 1 .. n
      BY <1>7, <2>2
  <2> HIDE DEF p
  <2>4. Len(p) = n
    <3>1. \A a, b \in Nat : 1 .. a = 1 .. b => a = b
        OBVIOUS
    <3> QED BY <1>3, <2>3, <3>1
  <2> QED BY <2>2, <2>4 DEF p
<1> QED BY <1>1, <1>2, <1>3, <1>4, <1>7, <1>8 DEF n

\* What happens to a row beside the scan keeps the invariant.
LEMMA ChangesKeepTurns ==
    ASSUME TurnsInv, NEW s \in Sources, Recovery!Change(s), UNCHANGED <<maintenanceVars, step, asked>>
    PROVE  TurnsInv'
<1> USE DEF maintenanceVars
<1>1. /\ sent' = sent /\ waiting' \subseteq waiting \cup {s} /\ due' \subseteq waiting'
      /\ page' \in {page, Recovery!Outdated(s)}
      /\ \/ line' = line /\ waiting' \cup sent' \subseteq waiting \cup sent
         \/ line' = Recovery!ToTheEnd(s)
  <2>1. CASE Recovery!Queue(s)
      BY <2>1 DEF Recovery!Queue, TurnsInv, TurnsTypeOK
  <2>2. CASE Recovery!Ripen(s)
      BY <2>2 DEF Recovery!Ripen, TurnsInv, TurnsTypeOK
  <2>3. CASE Recovery!Work(s)
      BY <2>3 DEF Recovery!Work, TurnsInv, TurnsTypeOK
  <2>4. CASE Recovery!Settle(s)
      BY <2>4 DEF Recovery!Settle, TurnsInv, TurnsTypeOK
  <2> QED BY <2>1, <2>2, <2>3, <2>4 DEF Recovery!Change
<1>2. line' \subseteq Sources \X Sources
  <2>1. Recovery!ToTheEnd(s) \subseteq Sources \X Sources
      BY DEF Recovery!ToTheEnd, TurnsInv, TurnsTypeOK
  <2> QED BY <1>1, <2>1 DEF TurnsInv, TurnsTypeOK
<1>3. page' \in Seq([row : Sources, same : BOOLEAN])
    BY <1>1, PagesStay DEF TurnsInv, TurnsTypeOK
<1>4. asked' \in BOOLEAN
    BY DEF TurnsInv, TurnsTypeOK
<1>5. TurnsTypeOK'
    BY <1>1, <1>2, <1>3, <1>4 DEF TurnsInv, TurnsTypeOK, Rows
<1>6. LineIsOrder'
  <2>1. CASE line' = line /\ waiting' \cup sent' \subseteq waiting \cup sent
      BY <2>1 DEF TurnsInv, LineIsOrder
  <2>2. CASE line' = Recovery!ToTheEnd(s)
    <3>1. waiting' \cup sent' \subseteq waiting \cup sent \cup {s}
        BY <1>1
    <3> QED BY <2>2, <3>1, EndIsPlace
  <2> QED BY <1>1, <2>1, <2>2
<1> QED BY <1>5, <1>6 DEF TurnsInv

\* So do the steps of a scan.
LEMMA ScanKeepsTurns ==
    ASSUME TurnsInv, BeatStep
    PROVE  TurnsInv'
<1> USE RowsAssumption, BatchAssumption DEF maintenanceVars, recoveryVars, Goes
<1> DEFINE Pages == Seq([row : Sources, same : BOOLEAN])
<1>0. asked' \in BOOLEAN
    BY DEF BeatStep, Select, Recover, Skip, ScanEnds, ScanGivesUp, AskMaintenance, AsksNobody, TurnsInv, TurnsTypeOK
<1>1. CASE Select
  <2>1. page' \in Pages
      BY <1>1, ScanReadsDue DEF Select, TurnsInv
  <2> QED BY <1>0, <1>1, <2>1 DEF Select, Recovery!Select, TurnsInv, TurnsTypeOK, LineIsOrder, Rows
<1>2. ASSUME NEW s \in Sources, Recover(s) PROVE TurnsInv'
  <2>1. /\ line' = Recovery!ToTheEnd(s) /\ sent' = sent \cup {s} /\ due' = due \ {s} /\ waiting' = waiting
        /\ page' = Tail(Recovery!Outdated(s)) /\ page # <<>>
      BY <1>2 DEF Recover, Recovery!ReserveRow, Recovery!Reserve, Recovery!Redispatched
  <2>2. page' \in Pages
      BY <2>1, PagesStay DEF TurnsInv
  <2>3. line' \subseteq Sources \X Sources
      BY <2>1 DEF Recovery!ToTheEnd, TurnsInv, TurnsTypeOK
  <2>4. UNCHANGED maintenanceVars /\ step' = "page"
      BY <1>2 DEF Recover
  <2>5. TurnsTypeOK'
      BY <1>0, <2>1, <2>2, <2>3, <2>4 DEF TurnsInv, TurnsTypeOK, Rows
  <2>6. LineIsOrder'
      BY <2>1, EndIsPlace
  <2> QED BY <2>5, <2>6 DEF TurnsInv
<1>3. CASE Skip
  <2>1. page' \in Pages
      BY <1>3, PagesStay DEF Skip, Recovery!Skip, TurnsInv
  <2> QED BY <1>0, <1>3, <2>1 DEF Skip, Recovery!Skip, TurnsInv, TurnsTypeOK, LineIsOrder, Rows
<1>4. CASE ScanGivesUp
  <2>1. page' \in Pages
      BY <1>4, SeqDef DEF ScanGivesUp, Recovery!Abandon
  <2> QED BY <1>0, <1>4, <2>1 DEF ScanGivesUp, Recovery!Abandon, TurnsInv, TurnsTypeOK, LineIsOrder, Rows
<1>5. CASE ScanEnds \/ AskMaintenance \/ AsksNobody
    BY <1>0, <1>5 DEF ScanEnds, AskMaintenance, AsksNobody, TurnsInv, TurnsTypeOK, LineIsOrder, Rows
<1> QED BY <1>1, <1>2, <1>3, <1>4, <1>5 DEF BeatStep

-----------------------------------------------------------------------------
(* Maintenance                                                             *)

\* Cardinality is the same operator in the instances.
LEMMA CountsAlikeToo == \A S : Maintenance!Cardinality(S) = Cardinality(S)
BY DEF Maintenance!Cardinality, Cardinality

\* A page holds the first rows behind the cursor: all of them, or as many as fit; and then
\* the cursor goes to the last.
LEMMA PageIsFirst ==
    ASSUME NEW t \in 1 .. TenantCount, NEW l \in Lanes, after[t][l] \in 0 .. RowCount
    PROVE  LET P == Maintenance!Page(t, l)
               B == Maintenance!Behind(t, l)
               cursor == Maintenance!NewCursor(t, l)
           IN  /\ P \subseteq B /\ B \subseteq Rows
               /\ P = B \/ (cursor \in P /\ \A r \in B : r \in P \/ r > cursor)
               /\ (cursor = 0 /\ P = B) \/ cursor \in P
<1> USE RowsAssumption, LimitAssumption
<1> DEFINE P == Maintenance!Page(t, l)
           B == Maintenance!Behind(t, l)
           cursor == Maintenance!NewCursor(t, l)
           less == {p \in Rows \X Rows : p[1] < p[2]}
<1>1. IsFiniteSet(Rows) /\ B \in SUBSET Rows /\ Rows \subseteq Nat \ {0}
  <2>1. IsFiniteSet(Rows)
      BY FS_Interval DEF Rows
  <2>2. B \in SUBSET Rows
      BY DEF Maintenance!Behind, Maintenance!Waiting, Maintenance!Rows, Rows
  <2>3. Rows \subseteq Nat \ {0}
      BY DEF Rows
  <2> QED BY <2>1, <2>2, <2>3
<1>2. P = {r \in B : Cardinality({s \in B : s < r}) < Limit}
    BY CountsAlikeToo DEF Maintenance!Page
<1>3. cursor = IF Cardinality(P) = Limit THEN Maintenance!Max(P) ELSE 0
    BY CountsAlikeToo DEF Maintenance!NewCursor
<1> HIDE DEF B, P, cursor
<1>4. P \in SUBSET B /\ IsFiniteSet(B) /\ IsFiniteSet(P) /\ Cardinality(P) \in Nat
  <2>1. IsFiniteSet(B)
      BY <1>1, FS_Subset
  <2>2. P \in SUBSET B
      BY <1>2
  <2>3. IsFiniteSet(P)
      BY <2>1, <2>2, FS_Subset
  <2> QED BY <2>1, <2>2, <2>3, FS_CardinalityType
<1>0. \A r, s \in B : <<r, s>> \in less <=> r < s
    BY <1>1
<1>5. StrictOn(less, B) /\ StrictOn(less, P)
    BY <1>1, <1>4 DEF StrictOn
<1> HIDE DEF less
<1>6. \A r \in B : Rank(less, B, r) = Cardinality({s \in B : s < r})
  <2>1. \A r \in B : {s \in B : <<s, r>> \in less} = {s \in B : s < r}
      BY <1>0
  <2> QED BY <2>1 DEF Rank
<1>7. \A r \in B : r \in P <=> Rank(less, B, r) < Limit
    BY <1>2, <1>6
<1> DEFINE rank(r) == Rank(less, B, r)
<1>8. /\ \A r \in B : rank(r) \in Nat /\ rank(r) < Cardinality(B)
      /\ \A r, s \in B : r < s <=> rank(r) < rank(s)
      /\ \A r, s \in B : rank(r) = rank(s) => r = s
      /\ \A i \in 1 .. Cardinality(B) : \E r \in B : rank(r) = i - 1
  <2>1. /\ \A r \in B : Rank(less, B, r) \in Nat /\ Rank(less, B, r) < Cardinality(B)
        /\ \A r, s \in B : <<r, s>> \in less <=> Rank(less, B, r) < Rank(less, B, s)
        /\ \A r, s \in B : Rank(less, B, r) = Rank(less, B, s) => r = s
        /\ \A i \in 1 .. Cardinality(B) : \E r \in B : Rank(less, B, r) = i - 1
      BY <1>4, <1>5, RanksAreTaken
  <2> HIDE DEF less
  <2> QED BY <1>0, <2>1
<1> HIDE DEF rank
<1>9. P = B \/ Cardinality(P) = Limit
  <2> SUFFICES ASSUME NEW r \in B, r \notin P PROVE Cardinality(P) = Limit
      BY <1>4
  <2>1. rank(r) >= Limit
      BY <1>7, <1>8 DEF rank
  <2> DEFINE f == [s \in P |-> rank(s) + 1]
  <2>2. f \in [P -> 1 .. Limit]
      BY <1>4, <1>7, <1>8 DEF rank
  <2>3. ASSUME NEW s \in P, NEW u \in P, f[s] = f[u] PROVE s = u
    <3>1. s \in B /\ u \in B /\ rank(s) \in Nat /\ rank(u) \in Nat
        BY <1>4, <1>8
    <3>2. rank(s) = rank(u)
        BY <2>3, <3>1
    <3> QED BY <1>8, <3>1, <3>2
  <2>4. ASSUME NEW i \in 1 .. Limit PROVE \E s \in P : f[s] = i
    <3>1. i \in 1 .. Cardinality(B)
        BY <1>4, <1>8, <2>1, FS_CardinalityType
    <3>2. PICK s \in B : rank(s) = i - 1
        BY <1>8, <3>1
    <3>3. s \in P
        BY <1>7, <3>2 DEF rank
    <3> QED BY <3>2, <3>3
  <2> HIDE DEF f
  <2>5. f \in Injection(P, 1 .. Limit) /\ f \in Surjection(P, 1 .. Limit)
      BY <2>2, <2>3, <2>4 DEF Injection, IsInjective, Surjection
  <2>6. IsFiniteSet(1 .. Limit) /\ Cardinality(1 .. Limit) = Limit
    <3>1. 1 \in Int /\ Limit \in Int /\ ~ (1 > Limit) /\ Limit - 1 + 1 = Limit
        OBVIOUS
    <3> QED BY <3>1, FS_Interval
  <2> QED BY <2>5, <2>6, FS_Injection
<1>10. ASSUME Cardinality(P) = Limit PROVE cursor \in P /\ \A s \in P : s <= cursor
  <2>0. \A i \in 1 .. Cardinality(P) : \E r \in P : Rank(less, P, r) = i - 1
      BY <1>4, <1>5, RanksAreTaken
  <2>1. PICK m \in P : Rank(less, P, m) = Limit - 1
      BY <1>10, <2>0
  <2>2. ASSUME NEW s \in P PROVE s <= m
    <3>1. ~ (Rank(less, P, m) < Rank(less, P, s))
        BY <1>4, <1>5, <1>10, <2>1, RanksAreTaken
    <3>2. <<m, s>> \notin less
        BY <1>4, <1>5, <2>1, <3>1, RanksAreTaken
    <3> QED BY <1>0, <1>1, <1>4, <3>2
  <2>3. \E x \in P : \A s \in P : x >= s
      BY <1>1, <1>4, <2>2
  <2>4. cursor = CHOOSE x \in P : \A s \in P : x >= s
      BY <1>3, <1>10 DEF Maintenance!Max
  <2>5. cursor \in P /\ \A s \in P : cursor >= s
      BY <2>3, <2>4
  <2> QED BY <1>1, <1>4, <2>5
<1>11. ASSUME cursor \in P, NEW r \in B, r \notin P PROVE r > cursor
  <2>1. ~ (rank(r) < Limit) /\ rank(cursor) < Limit /\ cursor \in B
      BY <1>4, <1>7, <1>11 DEF rank
  <2>2. rank(cursor) < rank(r)
      BY <1>8, <2>1
  <2> QED BY <1>1, <1>8, <2>1, <2>2
<1>12. (cursor = 0 /\ P = B) \/ cursor \in P
    BY <1>3, <1>9, <1>10
<1> QED
  <2>1. P = B \/ (cursor \in P /\ \A r \in B : r \in P \/ r > cursor)
      BY <1>11, <1>12
  <2> QED BY <1>1, <1>4, <1>12, <2>1 DEF P, B, cursor

\* A turn moves the cursors of its tenant, each as far as its page went.
LEMMA TurnMovesCursors ==
    ASSUME TurnsTypeOK, Maintenance!Reserve
    PROVE  /\ tenant' \in 1 .. TenantCount /\ tenant' = Maintenance!NextTenant(tenant)
           /\ after' \in [1 .. TenantCount -> [Lanes -> 0 .. RowCount]]
           /\ \A t \in 1 .. TenantCount, l \in Lanes :
                 after'[t][l] = IF t = tenant' THEN Maintenance!NewCursor(t, l) ELSE after[t][l]
<1> USE RowsAssumption
<1> DEFINE u == Maintenance!NextTenant(tenant)
<1>1. u \in 1 .. TenantCount /\ tenant' = u
    BY DEF TurnsTypeOK, Maintenance!NextTenant, Maintenance!Reserve
<1>2. after' = [after EXCEPT ![u] = [l \in Lanes |-> Maintenance!NewCursor(u, l)]]
    BY DEF Maintenance!Reserve
<1>3. after \in [1 .. TenantCount -> [Lanes -> 0 .. RowCount]]
    BY DEF TurnsTypeOK
<1> HIDE DEF u
<1>4. ASSUME NEW l \in Lanes PROVE Maintenance!NewCursor(u, l) \in 0 .. RowCount
  <2>1. after[u][l] \in 0 .. RowCount
      BY <1>1, <1>3
  <2>2. \/ Maintenance!NewCursor(u, l) = 0
        \/ Maintenance!NewCursor(u, l) \in Rows
      BY <1>1, <2>1, PageIsFirst
  <2> QED BY <2>2 DEF Rows
<1>5. [l \in Lanes |-> Maintenance!NewCursor(u, l)] \in [Lanes -> 0 .. RowCount]
    BY <1>4
<1> QED BY <1>1, <1>2, <1>3, <1>5 DEF u

\* Every step keeps the invariant.
LEMMA TurnsStep == TurnsInv /\ [TurnsNext]_turnVars => TurnsInv'
<1> SUFFICES ASSUME TurnsInv, [TurnsNext]_turnVars PROVE TurnsInv'
    OBVIOUS
<1> USE DEF turnVars, recoveryVars, maintenanceVars
<1>1. CASE BeatStep
    BY <1>1, ScanKeepsTurns
<1>2. CASE Maintain
  <2>1. TurnsTypeOK /\ LineIsOrder /\ asked' \in BOOLEAN
      BY <1>2 DEF TurnsInv, Maintain
  <2>2. /\ tenant' \in 1 .. TenantCount /\ after' \in [1 .. TenantCount -> [Lanes -> 0 .. RowCount]]
        /\ lane' = lane
      BY <1>2, <2>1, TurnMovesCursors DEF Maintain, Maintenance!Reserve
  <2>3. tenant' \in 0 .. TenantCount
      BY <2>2
  <2> QED BY <1>2, <2>1, <2>2, <2>3 DEF TurnsInv, TurnsTypeOK, LineIsOrder, Maintain, Rows
<1>3. CASE RequestExpires
  <2>1. asked' \in BOOLEAN
      BY <1>3 DEF RequestExpires
  <2> QED BY <1>3, <2>1 DEF RequestExpires, TurnsInv, TurnsTypeOK, LineIsOrder, Rows
<1>4. CASE Others /\ UNCHANGED <<step, asked>>
  <2>1. CASE (\E s \in Sources : Recovery!Change(s)) /\ UNCHANGED maintenanceVars
      BY <1>4, <2>1, ChangesKeepTurns
  <2>2. ASSUME NEW r \in Rows, Maintenance!Move(r), UNCHANGED recoveryVars PROVE TurnsInv'
    <3>1. asked' \in BOOLEAN
        BY <1>4 DEF TurnsInv, TurnsTypeOK
    <3>2. lane' \in [Rows -> {"none", "pending", "cleanup", "deleted"}]
      <4>1. PICK l \in Lanes \cup {"none"} : lane' = [lane EXCEPT ![r] = l]
          BY <2>2 DEF Maintenance!Move
      <4>2. l \in {"none", "pending", "cleanup", "deleted"}
          BY LanesAssumption
      <4> QED BY <4>1, <4>2 DEF TurnsInv, TurnsTypeOK
    <3> QED BY <1>4, <2>2, <3>1, <3>2 DEF Maintenance!Move, TurnsInv, TurnsTypeOK, LineIsOrder, Rows
  <2> QED BY <1>4, <2>1, <2>2 DEF Others, Rows
<1>5. CASE UNCHANGED turnVars
  <2>1. asked' \in BOOLEAN
      BY <1>5 DEF TurnsInv, TurnsTypeOK
  <2> QED BY <1>5, <2>1 DEF TurnsInv, TurnsTypeOK, LineIsOrder, Rows
<1> QED BY <1>1, <1>2, <1>3, <1>4, <1>5 DEF TurnsNext

\* So it holds in every behaviour.
LEMMA TurnsAlways == TurnsSpec => []TurnsInv
BY TurnsStart, TurnsStep, PTL DEF TurnsSpec

-----------------------------------------------------------------------------
(* The theorems                                                            *)

\* Every variable of the two scans has its type.
THEOREM TurnsTypeCorrect == TurnsSpec => []TurnsTypeOK
<1>1. TurnsInv => TurnsTypeOK
    BY DEF TurnsInv
<1> QED BY <1>1, TurnsAlways, PTL

\* Nobody due falls back in the line of the recovery; whatever is reserved is behind.
THEOREM DueRowsMoveUp == TurnsSpec => NobodyFallsBack
<1> DEFINE Up == \A s \in due \cap due' :
                    /\ Before(s)' \subseteq Before(s)
                    /\ \A q \in Sources : Recover(q) => q \notin Before(s)'
<1>1. ASSUME TurnsInv, [TurnsNext]_turnVars PROVE Up
  <2> SUFFICES ASSUME NEW s \in due \cap due'
               PROVE  /\ Before(s)' \subseteq Before(s)
                      /\ \A q \in Sources : Recover(q) => q \notin Before(s)'
      OBVIOUS
  <2>1. s \in Sources
      BY <1>1 DEF TurnsInv, TurnsTypeOK
  <2>2. ASSUME NEW q \in Sources, q # s, line' = Recovery!ToTheEnd(q)
        PROVE  Before(s)' \subseteq Before(s) /\ q \notin Before(s)'
      BY <2>1, <2>2 DEF Before, Recovery!ToTheEnd
  <2>3. ASSUME NEW q \in Sources, Recover(q) PROVE q # s /\ line' = Recovery!ToTheEnd(q)
      BY <2>3 DEF Recover, Recovery!ReserveRow, Recovery!Reserve, Recovery!Redispatched
  <2>4. ASSUME NEW q \in Sources, Recovery!Change(q)
        PROVE  line' = line \/ (line' = Recovery!ToTheEnd(q) /\ q # s)
      BY <2>4 DEF Recovery!Change, Recovery!Queue, Recovery!Ripen, Recovery!Work, Recovery!Settle
  <2>5. line' = line \/ \E q \in Sources : q # s /\ line' = Recovery!ToTheEnd(q)
    <3> USE DEF turnVars, recoveryVars, maintenanceVars, Goes
    <3>1. CASE BeatStep
        BY <2>3, <3>1 DEF BeatStep, Select, Recovery!Select, Skip, Recovery!Skip, ScanEnds,
                          ScanGivesUp, Recovery!Abandon, AskMaintenance, AsksNobody
    <3>2. CASE Maintain \/ RequestExpires \/ UNCHANGED turnVars
        BY <3>2 DEF Maintain, RequestExpires
    <3>3. CASE Others
        BY <2>4, <3>3 DEF Others
    <3> QED BY <1>1, <3>1, <3>2, <3>3 DEF TurnsNext
  <2>6. line' = line => Before(s)' \subseteq Before(s)
      BY DEF Before
  <2> QED BY <2>2, <2>3, <2>5, <2>6
<1>2. TurnsInv /\ [TurnsNext]_turnVars => [Up]_turnVars
    BY <1>1
<1> HIDE DEF Up
<1>3. TurnsSpec => [][Up]_turnVars
    BY <1>2, TurnsAlways, PTL DEF TurnsSpec
<1> QED BY <1>3 DEF NobodyFallsBack, Up

\* A page holds those who are first in the line.
THEOREM FirstAreTaken == TurnsSpec => ScansTakeTheFirst
<1> DEFINE First == Select =>
               /\ \A i, k \in DOMAIN page' : i < k => page'[i].row \in Before(page'[k].row)
               /\ \A s \in due : \/ \E i \in DOMAIN page' : page'[i].row = s
                                 \/ /\ Len(page') = BatchSize
                                    /\ \A i \in DOMAIN page' : page'[i].row \in due \cap Before(s)
<1>1. ASSUME TurnsInv, Select
      PROVE  /\ \A i, k \in DOMAIN page' : i < k => page'[i].row \in Before(page'[k].row)
             /\ \A s \in due : \/ \E i \in DOMAIN page' : page'[i].row = s
                               \/ /\ Len(page') = BatchSize
                                  /\ \A i \in DOMAIN page' : page'[i].row \in due \cap Before(s)
  <2> DEFINE n == Recovery!PageSize
             p == page'
  <2>1. /\ n \in Nat /\ Len(p) = n /\ DOMAIN p = 1 .. n
        /\ \A i \in DOMAIN p : p[i].row \in due /\ Rank(line, due, p[i].row) = i - 1
        /\ StrictOn(line, due) /\ IsFiniteSet(due)
      BY <1>1, ScanReadsDue
  <2>2. /\ \A a \in due : Rank(line, due, a) \in Nat /\ Rank(line, due, a) < Cardinality(due)
        /\ \A a, b \in due : <<a, b>> \in line <=> Rank(line, due, a) < Rank(line, due, b)
        /\ \A a, b \in due : Rank(line, due, a) = Rank(line, due, b) => a = b
      BY <2>1, RanksAreTaken
  <2>3. n = IF Cardinality(due) < BatchSize THEN Cardinality(due) ELSE BatchSize
      BY CountsAlike DEF Recovery!PageSize
  <2>4. due \subseteq Sources
      BY <1>1 DEF TurnsInv, TurnsTypeOK
  <2> HIDE DEF n, p
  <2>5. ASSUME NEW i \in DOMAIN p, NEW k \in DOMAIN p, i < k PROVE p[i].row \in Before(p[k].row)
    <3>1. Rank(line, due, p[i].row) < Rank(line, due, p[k].row)
        BY <2>1, <2>5
    <3> QED BY <2>1, <2>2, <2>4, <3>1 DEF Before
  <2>6. ASSUME NEW s \in due, \A i \in DOMAIN p : p[i].row # s
        PROVE  Len(p) = BatchSize /\ \A i \in DOMAIN p : p[i].row \in due \cap Before(s)
    <3>1. ~ (Rank(line, due, s) + 1 \in 1 .. n)
      <4> SUFFICES ASSUME Rank(line, due, s) + 1 \in 1 .. n PROVE FALSE
          OBVIOUS
      <4> DEFINE k == Rank(line, due, s) + 1
      <4>1. p[k].row \in due /\ Rank(line, due, p[k].row) = k - 1 /\ k \in DOMAIN p
          BY <2>1
      <4>2. Rank(line, due, p[k].row) = Rank(line, due, s)
          BY <2>2, <4>1
      <4> QED BY <2>2, <2>6, <4>1, <4>2
    <3>2. n <= Rank(line, due, s)
        BY <2>1, <2>2, <3>1
    <3>3. n = BatchSize
        BY <2>1, <2>2, <2>3, <3>2, FS_CardinalityType
    <3>4. ASSUME NEW i \in DOMAIN p PROVE p[i].row \in due \cap Before(s)
      <4>1. Rank(line, due, p[i].row) < Rank(line, due, s)
          BY <2>1, <2>2, <3>2
      <4> QED BY <2>1, <2>2, <2>4, <4>1 DEF Before
    <3> QED BY <2>1, <3>3, <3>4
  <2> QED BY <2>5, <2>6 DEF p
<1>2. TurnsInv => First
    BY <1>1
<1>3. TurnsInv /\ [TurnsNext]_turnVars => [First]_turnVars
    BY <1>2
<1> HIDE DEF First
<1>4. TurnsSpec => [][First]_turnVars
    BY <1>3, TurnsAlways, PTL DEF TurnsSpec
<1> QED BY <1>4 DEF ScansTakeTheFirst, First

\* No row is passed over by the cursors of the maintenance.
THEOREM CursorsPassNobody == TurnsSpec => NobodyIsPassedOver
<1> USE RowsAssumption
<1> DEFINE Fair(t, l) ==
        IF Maintain /\ tenant' = t
        THEN /\ after'[t][l] = 0 \/ after'[t][l] > after[t][l]
             /\ \A r \in Rows : TenantOf[r] = t /\ lane[r] = l /\ r > after[t][l] =>
                   r \in Maintenance!Turn \/ (after'[t][l] > after[t][l] /\ r > after'[t][l])
        ELSE after'[t][l] = after[t][l]
<1>1. ASSUME TurnsInv, [TurnsNext]_turnVars, NEW t \in 1 .. TenantCount, NEW l \in Lanes PROVE Fair(t, l)
  <2>0. TurnsTypeOK /\ after[t][l] \in 0 .. RowCount
      BY <1>1 DEF TurnsInv, TurnsTypeOK
  <2>1. CASE Maintain /\ tenant' = t
    <3>1. after'[t][l] = Maintenance!NewCursor(t, l) /\ t = Maintenance!NextTenant(tenant)
        BY <2>0, <2>1, TurnMovesCursors DEF Maintain
    <3> DEFINE P == Maintenance!Page(t, l)
               B == Maintenance!Behind(t, l)
               cursor == Maintenance!NewCursor(t, l)
    <3>2. /\ P \subseteq B /\ B \subseteq Rows
          /\ P = B \/ (cursor \in P /\ \A r \in B : r \in P \/ r > cursor)
          /\ (cursor = 0 /\ P = B) \/ cursor \in P
        BY <2>0, PageIsFirst
    <3>3. \A r \in B : r > after[t][l]
        BY DEF Maintenance!Behind
    <3>4. \A r \in Rows : TenantOf[r] = t /\ lane[r] = l /\ r > after[t][l] => r \in B
        BY DEF Maintenance!Behind, Maintenance!Waiting, Maintenance!Rows, Rows
    <3>5. P \subseteq Maintenance!Turn
        BY <3>1 DEF Maintenance!Turn
    <3> HIDE DEF P, B, cursor
    <3>6. cursor = 0 \/ cursor > after[t][l]
        BY <3>2, <3>3
    <3>7. \A r \in B : r \in P \/ (cursor > after[t][l] /\ r > cursor)
        BY <3>2, <3>3
    <3> QED BY <2>1, <3>1, <3>4, <3>5, <3>6, <3>7 DEF cursor
  <2>2. CASE ~ (Maintain /\ tenant' = t)
    <3>1. CASE Maintain
        BY <2>0, <2>2, <3>1, TurnMovesCursors DEF Maintain
    <3>2. CASE ~ Maintain
      <4>1. after' = after
          BY <1>1, <3>2 DEF TurnsNext, BeatStep, Select, Recover, Skip, ScanEnds, ScanGivesUp, AskMaintenance,
                            AsksNobody, RequestExpires, Others, Maintenance!Move, Goes, maintenanceVars, turnVars
      <4> QED BY <2>2, <4>1
    <3> QED BY <3>1, <3>2
  <2> QED BY <2>1, <2>2
<1> DEFINE All == \A t \in 1 .. TenantCount, l \in Lanes : Fair(t, l)
<1>2. TurnsInv /\ [TurnsNext]_turnVars => [All]_turnVars
    BY <1>1
<1> HIDE DEF All
<1>3. TurnsSpec => [][All]_turnVars
    BY <1>2, TurnsAlways, PTL DEF TurnsSpec
<1> QED BY <1>3 DEF NobodyIsPassedOver, All
=============================================================================
