-------------------------- MODULE OperationsHealth --------------------------
(***************************************************************************)
(* Heartbeats in Redis, the health report, and the gauges of Beat.         *)
(*                                                                         *)
(* Worker processes and Beat pulse; Redis dates a pulse when it executes   *)
(* it, which may be after the client gave up waiting.  A report checks the *)
(* dependencies one after the other and reads the heartbeats last.  Beat   *)
(* measures at the end of each tick what its exporter thread goes on       *)
(* showing in between.  Time passes in units of one period.                *)
(***************************************************************************)
EXTENDS Naturals, FiniteSets

CONSTANTS
    Workers,       \* identities of worker processes, each of which lives once
    Clients,       \* requests for the health report
    Families,      \* gauges, by the dependency that they are measured from
    Fresh,         \* a heartbeat counts up to this age
    Expire,        \* Redis drops a heartbeat at this age
    GaugeLife,     \* a measurement is shown up to this age
    Failing,       \* dependencies that may fail
    MaxGap,        \* bound: a running process works at least this often
    MaxStuck,      \* bound: Redis executes a command at most so late
    Nothing

ASSUME AgesAssumption == /\ {Fresh, Expire, GaugeLife, MaxGap, MaxStuck} \subseteq Nat
                         /\ 0 < MaxGap /\ 2 * MaxGap <= Fresh /\ Fresh < Expire
ASSUME FailingAssumption == Failing \subseteq {"database", "schema", "vector", "redis", "bucket"}
ASSUME NothingAssumption == Nothing \notin Nat
ASSUME WorkersAssumption == "beat" \notin Workers    \* Beat is none of them

VARIABLES
    up,         \* up[d]: the dependency answers, and is compatible
    worker,     \* worker[w]: its life, whether a pulse is under way, its last work
    beat,       \* Beat: its step, and its last tick
    seen,       \* seen[w]: age of the worker's heartbeat in Redis
    kept,       \* age of the last pulse of any worker, which keeps the set of them
    beatSeen,   \* age of Beat's heartbeat in Redis
    stuck,      \* stuck[p]: age of a command of p that Redis may yet execute
    gauge,      \* gauge[f]: age of the measurement that is shown
    request,    \* request[c]: how far a report is, and what it found
    history     \* what the properties need to know of the past

timeVars == <<seen, kept, beatSeen>>
vars == <<up, worker, beat, timeVars, stuck, gauge, request, history>>

-----------------------------------------------------------------------------
Deps == {"database", "schema", "vector", "redis", "bucket"}
Beat == "beat"
Cap  == Fresh + MaxStuck + MaxGap + 1    \* ages above it are all alike to the properties

NoRequest == [step |-> "idle", ok |-> TRUE, down |-> {}]

Init == /\ up = [d \in Deps |-> TRUE]
        /\ worker = [w \in Workers |-> [life |-> "new", call |-> FALSE, since |-> 0]]
        /\ beat = [step |-> "down", since |-> 0]
        /\ seen = [w \in Workers |-> Nothing] /\ kept = 0 /\ beatSeen = Nothing
        /\ stuck = [p \in Workers \cup {Beat} |-> Nothing]
        /\ gauge = [f \in Families |-> Nothing]
        /\ request = [c \in Clients |-> NoRequest]
        /\ history = [calm |-> 0, alive |-> Cap, scanned |-> Cap,
                      clean |-> Workers, poll |-> [f \in Families |-> Nothing]]

Troubled == [history EXCEPT !.calm = 0]

Later(age) == IF age < Cap THEN age + 1 ELSE Cap

-----------------------------------------------------------------------------
(* Redis                                                                   *)

\* ZREMRANGEBYSCORE: members of the age of the whole set's expiry go.
Purged(age) == age # Nothing /\ age >= Expire

\* _PULSE_WORKER, atomic, dated by the clock of Redis.
PulseOf(w) == /\ seen' = [v \in Workers |-> IF v = w THEN 0 ELSE
                                             IF Purged(seen[v]) THEN Nothing ELSE seen[v]]
              /\ kept' = 0 /\ UNCHANGED beatSeen

\* EX
BeatExpires(age) == age >= Expire

\* _PULSE_BEAT
PulseOfBeat == beatSeen' = 0 /\ UNCHANGED <<seen, kept>>

PulseBy(p) == IF p = Beat THEN PulseOfBeat ELSE PulseOf(p)

\* _SNAPSHOT: ZCOUNT over the fresh, and the age of Beat's key.
Counts(age) == age # Nothing /\ age <= Fresh

WorkerFresh == \E w \in Workers : Counts(seen[w])
BeatFresh   == Counts(beatSeen)

\* The client gave up: its command is lost, or executed later.
GiveUp(p) == \/ UNCHANGED stuck
             \/ stuck[p] = Nothing /\ stuck' = [stuck EXCEPT ![p] = 0]

Late(p) == /\ stuck[p] # Nothing /\ up["redis"]
           /\ PulseBy(p)
           /\ stuck' = [stuck EXCEPT ![p] = Nothing]
           /\ UNCHANGED <<up, worker, beat, gauge, request, history>>

Drop(p) == /\ stuck[p] # Nothing
           /\ stuck' = [stuck EXCEPT ![p] = Nothing]
           /\ UNCHANGED <<up, worker, beat, timeVars, gauge, request, history>>

-----------------------------------------------------------------------------
(* WorkerHeartbeatStep                                                     *)

\* start and terminate; the first pulse follows at once.
StartWorker(w) == /\ worker[w].life = "new"
                  /\ worker' = [worker EXCEPT ![w] = [life |-> "running", call |-> TRUE, since |-> 0]]
                  /\ history' = [Troubled EXCEPT !.alive = 0]
                  /\ UNCHANGED <<up, beat, timeVars, stuck, gauge, request>>

\* The timer takes the lock, and pulses unless the worker was stopped.
BeginPulse(w) == /\ worker[w].life = "running" /\ ~ worker[w].call
                 /\ worker' = [worker EXCEPT ![w].call = TRUE]
                 /\ UNCHANGED <<up, beat, timeVars, stuck, gauge, request, history>>

EndPulse(w) == /\ worker[w].call /\ up["redis"]
               /\ worker' = [worker EXCEPT ![w].call = FALSE, ![w].since = 0]
               /\ PulseOf(w)
               /\ UNCHANGED <<up, beat, stuck, gauge, request, history>>

PulseFails(w) == /\ worker[w].call
                 /\ worker' = [worker EXCEPT ![w].call = FALSE, ![w].since = 0]
                 /\ GiveUp(w)
                 /\ history' = [Troubled EXCEPT !.clean = @ \ {w}]
                 /\ UNCHANGED <<up, beat, timeVars, gauge, request>>

\* Defect: the worker stops without the lock.
MayStopAlways(w) == TRUE

\* stop takes the lock that a pulse holds.
MayStop(w) == ~ worker[w].call

StopWorker(w) == /\ worker[w].life = "running" /\ MayStop(w)
                 /\ worker' = [worker EXCEPT ![w].life = "stopped"]
                 /\ \/ /\ up["redis"]
                       /\ seen' = [seen EXCEPT ![w] = Nothing]
                       /\ history' = Troubled
                    \/ /\ history' = [Troubled EXCEPT !.clean = @ \ {w}]
                       /\ UNCHANGED seen
                 /\ UNCHANGED <<up, beat, kept, beatSeen, stuck, gauge, request>>

\* The process is killed; what it has sent may be executed.
KillWorker(w) == /\ worker[w].life = "running"
                 /\ worker' = [worker EXCEPT ![w].life = "dead", ![w].call = FALSE]
                 /\ IF worker[w].call THEN GiveUp(w) ELSE UNCHANGED stuck
                 /\ history' = Troubled
                 /\ UNCHANGED <<up, beat, timeVars, gauge, request>>

-----------------------------------------------------------------------------
(* RecoveryScheduler.tick                                                  *)

Steps(s, t) == beat.step = s /\ beat' = [beat EXCEPT !.step = t]

StartBeat == /\ beat.step = "down"
             /\ beat' = [step |-> "scan", since |-> 0]
             /\ history' = Troubled
             /\ UNCHANGED <<up, worker, timeVars, stuck, gauge, request>>

Scan == /\ Steps("scan", "dispatch") /\ up["database"]
        /\ history' = [history EXCEPT !.scanned = 0]
        /\ UNCHANGED <<up, worker, timeVars, stuck, gauge, request>>

\* Defect: Beat pulses although it could not scan.
PulsesAnyway == "pulse"

\* After PersistenceUnavailable the tick ends, with its measurements.
AfterFailedScan == "database"

ScanFails == /\ Steps("scan", AfterFailedScan)
             /\ history' = Troubled
             /\ UNCHANGED <<up, worker, timeVars, stuck, gauge, request>>

\* Defect: a failed dispatch ends the tick.
PulseIfDispatched(sent) == IF sent THEN "pulse" ELSE "database"

\* Whether the maintenance was due and its task sent: the pulse follows.
AfterDispatch(sent) == "pulse"

Dispatch == /\ \E sent \in BOOLEAN : Steps("dispatch", AfterDispatch(sent))
            /\ UNCHANGED <<up, worker, timeVars, stuck, gauge, request, history>>

PulseBeat == /\ Steps("pulse", "database")
             /\ \/ /\ up["redis"] /\ PulseOfBeat
                   /\ UNCHANGED <<stuck, history>>
                \/ /\ GiveUp(Beat)
                   /\ history' = Troubled
                   /\ UNCHANGED timeVars
             /\ UNCHANGED <<up, worker, gauge, request>>

\* Defect: a failed measurement leaves the last one in place.
KeptOnFailure(f, ok) == IF ok THEN 0 ELSE gauge[f]

\* replace_gauges: the whole family, and nothing of it after a failure.
Replaced(f, ok) == IF ok THEN 0 ELSE Nothing

\* OperationalMetrics.poll: one family after the other, on every way out of a tick.
Poll(f, next) == /\ beat.step = f
                 /\ beat' = [step |-> next, since |-> IF next = "scan" THEN 0 ELSE beat.since]
                 /\ \E ok \in {up[f], FALSE} :
                       /\ gauge' = [g \in Families |-> IF g = f THEN Replaced(f, ok) ELSE gauge[g]]
                       /\ history' = [history EXCEPT !.poll =
                             [g \in Families |-> IF g # f THEN @[g] ELSE IF ok THEN 0 ELSE Nothing]]
                 /\ UNCHANGED <<up, worker, timeVars, stuck, request>>

\* The gauges live in the process.
BeatEnds == /\ beat.step # "down"
            /\ beat' = [step |-> "down", since |-> 0]
            /\ IF beat.step = "pulse" THEN GiveUp(Beat) ELSE UNCHANGED stuck
            /\ gauge' = [f \in Families |-> Nothing]
            /\ history' = [Troubled EXCEPT !.poll = [f \in Families |-> Nothing]]
            /\ UNCHANGED <<up, worker, timeVars, request>>

\* _observe_gauge
Shown(f) == gauge[f] # Nothing /\ gauge[f] <= GaugeLife

-----------------------------------------------------------------------------
(* HealthService                                                           *)

\* Defect: what a later probe finds stands for all.
LastProbe(found, answer) == answer

\* Every probe must answer.
AllProbes(found, answer) == found /\ answer

\* PostgreSQLProbe: one connection, which the other two answers need.
DatabaseAnswer == up["database"] /\ up["schema"] /\ up["vector"]

Ask(c) == /\ request[c].step = "idle"
          /\ request' = [request EXCEPT ![c] = [step |-> "redis", ok |-> DatabaseAnswer,
                                                  down |-> {d \in Deps : ~ up[d]}]]
          /\ UNCHANGED <<up, worker, beat, timeVars, stuck, gauge, history>>

Probe(c, d, next) ==
    /\ request[c].step = d
    /\ request' = [request EXCEPT ![c].step = next, ![c].ok = AllProbes(@, up[d])]
    /\ UNCHANGED <<up, worker, beat, timeVars, stuck, gauge, history>>

\* Defect: heartbeats that cannot be read are not held against anybody.
UnlessStale(fresh) == up["redis"] => fresh

\* "fresh", and neither "stale" nor "unknown".
Reported(fresh) == up["redis"] /\ fresh

Overall(c) == IF ~ request[c].ok THEN "unavailable"
              ELSE IF Reported(WorkerFresh) /\ Reported(BeatFresh) THEN "ok" ELSE "degraded"

\* The heartbeats are read, and Overall(c) answered.
Report(c) == /\ request[c].step = "heartbeats"
             /\ request' = [request EXCEPT ![c] = NoRequest]
             /\ UNCHANGED <<up, worker, beat, timeVars, stuck, gauge, history>>

-----------------------------------------------------------------------------
(* The world                                                               *)

\* Bound: one dependency fails at a time.
Break(d) == /\ \A e \in Deps : up[e]
            /\ up' = [up EXCEPT ![d] = FALSE]
            /\ history' = Troubled
            /\ UNCHANGED <<worker, beat, timeVars, stuck, gauge, request>>

\* Redis may come back empty.
Mend(d) == /\ ~ up[d]
           /\ up' = [up EXCEPT ![d] = TRUE]
           /\ request' = [c \in Clients |-> [request[c] EXCEPT !.down = @ \ {d}]]
           /\ \/ UNCHANGED timeVars
              \/ /\ d = "redis" /\ beatSeen' = Nothing
                 /\ seen' = [w \in Workers |-> Nothing] /\ UNCHANGED kept
           /\ history' = Troubled
           /\ UNCHANGED <<worker, beat, stuck, gauge>>

Alive(w) == worker[w].life = "running"

\* A unit passes.  No running process is idle for longer than MaxGap, and Redis holds
\* no command back for longer than MaxStuck.
Clock == /\ \A w \in Workers : Alive(w) => worker[w].since < MaxGap
         /\ beat.step # "down" => beat.since < MaxGap
         /\ \A p \in DOMAIN stuck : stuck[p] # Nothing => stuck[p] < MaxStuck
         /\ worker' = [w \in Workers |-> [worker[w] EXCEPT !.since = IF Alive(w) THEN @ + 1 ELSE 0]]
         /\ beat' = [beat EXCEPT !.since = IF beat.step = "down" THEN 0 ELSE @ + 1]
         /\ stuck' = [p \in DOMAIN stuck |-> IF stuck[p] = Nothing THEN Nothing ELSE stuck[p] + 1]
         /\ kept' = IF kept < Expire THEN kept + 1 ELSE kept
         /\ seen' = [w \in Workers |-> IF seen[w] = Nothing \/ kept' >= Expire THEN Nothing ELSE seen[w] + 1]
         /\ beatSeen' = IF beatSeen = Nothing \/ BeatExpires(beatSeen + 1) THEN Nothing ELSE beatSeen + 1
         /\ gauge' = [f \in Families |-> IF gauge[f] = Nothing THEN Nothing ELSE Later(gauge[f])]
         /\ history' = [history EXCEPT
                !.calm = IF @ > 2 * MaxGap THEN @ ELSE @ + 1, !.scanned = Later(@),
                !.alive = IF \E w \in Workers : Alive(w) THEN 0 ELSE Later(@),
                !.poll = [f \in Families |-> IF @[f] = Nothing THEN Nothing ELSE Later(@[f])]]
         /\ UNCHANGED <<up, request>>

-----------------------------------------------------------------------------
WorkerStep(w) == StartWorker(w) \/ BeginPulse(w) \/ EndPulse(w) \/ PulseFails(w)
                    \/ StopWorker(w) \/ KillWorker(w)

Tick == \/ Scan \/ ScanFails \/ Dispatch \/ PulseBeat
        \/ Poll("database", "redis") \/ Poll("redis", "scan")

Serve(c) == \/ Ask(c) \/ Probe(c, "redis", "bucket") \/ Probe(c, "bucket", "heartbeats")
            \/ Report(c)

Next == \/ \E w \in Workers : WorkerStep(w)
        \/ StartBeat \/ Tick \/ BeatEnds
        \/ \E c \in Clients : Serve(c)
        \/ \E p \in DOMAIN stuck : Late(p) \/ Drop(p)
        \/ \E d \in Failing : Break(d) \/ Mend(d)
        \/ Clock

Spec == Init /\ [][Next]_vars

-----------------------------------------------------------------------------
(* Properties                                                              *)

\* Every variable has its type.
TypeOK == LET Age == Nat \cup {Nothing} IN
    /\ up \in [Deps -> BOOLEAN]
    /\ worker \in [Workers -> [life : {"new", "running", "stopped", "dead"},
                               call : BOOLEAN, since : Nat]]
    /\ beat \in [step : {"down", "scan", "dispatch", "pulse", "database", "redis"}, since : Nat]
    /\ seen \in [Workers -> Age] /\ kept \in Nat /\ beatSeen \in Age
    /\ stuck \in [Workers \cup {Beat} -> Age]
    /\ gauge \in [Families -> Age]
    /\ request \in [Clients -> [step : {"idle", "redis", "bucket", "heartbeats"},
                                ok : BOOLEAN, down : SUBSET Deps]]
    /\ history \in [calm : Nat, alive : Nat, scanned : Nat, clean : SUBSET Workers,
                    poll : [Families -> Age]]

WorkedLately(alive, scanned) == /\ alive <= Fresh + MaxStuck
                                /\ scanned <= Fresh + MaxStuck + MaxGap

\* When nothing has failed for a while, whatever runs is reported as running; failing
\* dispatches do not make Beat look dead.
RunningIsFresh == history.calm > 2 * MaxGap =>
                    /\ \A w \in Workers : Alive(w) => Counts(seen[w])
                    /\ beat.step # "down" => BeatFresh

\* A worker that stopped, and whose calls Redis all answered, has left no heartbeat: its own
\* timer does not bring it back.
StoppedIsGone == \A w \in history.clean : worker[w].life = "stopped" => seen[w] = Nothing

Reporting(c) == request[c].step = "heartbeats"

\* What a report says is so.  A component is called fresh only if, until Fresh and the lateness
\* of a command ago, a worker was running, or Beat not only ran but completed a scan of the
\* database, and "ok" rests on both; a dependency that is down from the beginning to the end of
\* the report makes it "unavailable".
ReportIsTrue == \A c \in Clients : Reporting(c) =>
    /\ WorkedLately(IF Reported(WorkerFresh) THEN history.alive ELSE 0,
                    IF Reported(BeatFresh) THEN history.scanned ELSE 0)
    /\ request[c].down # {} => Overall(c) = "unavailable"

\* A family is shown if and only if its last measurement succeeded, in this life of Beat and
\* no longer ago than GaugeLife; the failure of one hides neither more nor less.
ShownIsMeasured == \A f \in Families :
    Shown(f) <=> history.poll[f] # Nothing /\ history.poll[f] <= GaugeLife
=============================================================================
