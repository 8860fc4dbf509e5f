------------------------------ MODULE BeatTurns ------------------------------
(***************************************************************************)
(* Nobody is forgotten by the two bounded scans that Beat keeps going.     *)
(*                                                                         *)
(* Every tick of Beat scans for rows to recover (RecoveryPaging) and then, *)
(* once a minute, asks a worker through the broker for a turn of the       *)
(* artifact maintenance (MaintenanceCursors).  A scan without the database *)
(* ends the tick; a request that cannot be sent is not repeated before the *)
(* minute is over, and one that is not served within it expires.  Heart-   *)
(* beats and gauges, the rest of a tick, are OperationsHealth.             *)
(***************************************************************************)
EXTENDS Naturals, FiniteSets, Sequences

CONSTANTS
    Sources, BatchSize,                     \* resumes and documents, rows of a page
    RowCount, TenantCount, TenantOf,        \* Artifacts and their tenants
    Lanes, Limit                            \* their lanes, rows of a page

ASSUME RowsAssumption == IsFiniteSet(Sources) /\ RowCount \in Nat /\ TenantCount \in Nat \ {0}
ASSUME BatchAssumption == BatchSize \in Nat \ {0}
ASSUME TenantsAssumption == TenantOf \in [1 .. RowCount -> 1 .. TenantCount]
ASSUME LanesAssumption == Lanes \subseteq {"cleanup", "deleted", "pending"}
ASSUME LimitAssumption == Limit \in Nat \ {0}

VARIABLES
    line, sent, waiting, due, page,  \* of RecoveryPaging
    lane, tenant, after,             \* of MaintenanceCursors
    step,                            \* Beat: "scan", "page" or "dispatch"
    asked                            \* a request for maintenance is in the broker

Recovery    == INSTANCE RecoveryPaging WITH Rows <- Sources
Maintenance == INSTANCE MaintenanceCursors

recoveryVars    == <<line, sent, waiting, due, page>>
maintenanceVars == <<lane, tenant, after>>
turnVars == <<recoveryVars, maintenanceVars, step, asked>>

-----------------------------------------------------------------------------
TurnsInit == /\ Recovery!Init /\ Maintenance!Init
        /\ step = "scan" /\ asked = FALSE

Goes(s, t) == step = s /\ step' = t /\ UNCHANGED maintenanceVars

Select == Goes("scan", "page") /\ Recovery!Select /\ UNCHANGED asked

Recover(s) == Goes("page", "page") /\ Recovery!ReserveRow(s) /\ UNCHANGED asked

Skip == Goes("page", "page") /\ Recovery!Skip /\ UNCHANGED asked

ScanEnds == Goes("page", "dispatch") /\ page = <<>> /\ UNCHANGED <<recoveryVars, asked>>

\* PersistenceUnavailable, or the end of Beat, which is started again.
ScanGivesUp == /\ step \in {"scan", "page"} /\ step' = "scan"
             /\ Recovery!Abandon
             /\ UNCHANGED <<maintenanceVars, asked>>

AskMaintenance == Goes("dispatch", "scan") /\ asked' = TRUE /\ UNCHANGED recoveryVars

\* Not due yet, or the broker does not answer.
AsksNobody == Goes("dispatch", "scan") /\ UNCHANGED <<recoveryVars, asked>>

\* A worker serves the request: the Artifacts whose turn it is are looked after.
Maintain == /\ asked /\ asked' = FALSE
            /\ Maintenance!Reserve
            /\ UNCHANGED <<recoveryVars, step>>

RequestExpires == /\ asked /\ asked' = FALSE
          /\ UNCHANGED <<recoveryVars, maintenanceVars, step>>

BeatStep == \/ Select \/ (\E s \in Sources : Recover(s)) \/ Skip \/ ScanEnds \/ ScanGivesUp
            \/ AskMaintenance \/ AsksNobody

Others == \/ (\E s \in Sources : Recovery!Change(s)) /\ UNCHANGED maintenanceVars
          \/ (\E r \in 1 .. RowCount : Maintenance!Move(r)) /\ UNCHANGED recoveryVars

TurnsNext == BeatStep \/ Maintain \/ RequestExpires \/ (Others /\ UNCHANGED <<step, asked>>)

TurnsSpec == TurnsInit /\ [][TurnsNext]_turnVars

\* Beat ticks on; database, broker and workers do not fail every time, and a row that is
\* tried is not locked or changed under the scan every time.
Tries(n) == Len(page) = n /\ (Skip \/ \E s \in Sources : Recover(s))

Fairness == /\ WF_turnVars(BeatStep) /\ SF_turnVars(Select) /\ SF_turnVars(ScanEnds)
            /\ SF_turnVars(AskMaintenance) /\ SF_turnVars(Maintain)
            /\ \A n \in 1 .. BatchSize : SF_turnVars(Tries(n))
            /\ \A s \in Sources : SF_turnVars(Recover(s))

FairTurns == TurnsSpec /\ Fairness

-----------------------------------------------------------------------------
(* Properties                                                              *)

Rows == 1 .. RowCount

\* Every variable has its type, and rows are due only while they wait.
TurnsTypeOK ==
    /\ line \subseteq Sources \X Sources
    /\ sent \subseteq Sources /\ waiting \subseteq Sources /\ due \subseteq waiting
    /\ page \in Seq([row : Sources, same : BOOLEAN])
    /\ lane \in [Rows -> {"none", "pending", "cleanup", "deleted"}]
    /\ tenant \in 0 .. TenantCount /\ after \in [1 .. TenantCount -> [Lanes -> 0 .. RowCount]]
    /\ step \in {"scan", "page", "dispatch"} /\ asked \in BOOLEAN

Before(s) == {q \in Sources : <<q, s>> \in line}

\* A row that stays due never falls back in the line, and whatever is reserved is behind it then.
NobodyFallsBack == [][\A s \in due \cap due' :
    /\ Before(s)' \subseteq Before(s)
    /\ \A q \in Sources : Recover(q) => q \notin Before(s)']_turnVars

\* A scan reads a page of different rows, in the order of the line: a row that is due is among
\* them, or behind all of a full page.
ScansTakeTheFirst == [][Select =>
    /\ \A i, k \in DOMAIN page' : i < k => page'[i].row \in Before(page'[k].row)
    /\ \A s \in due : \/ \E i \in DOMAIN page' : page'[i].row = s
                      \/ /\ Len(page') = BatchSize
                         /\ \A i \in DOMAIN page' : page'[i].row \in due \cap Before(s)]_turnVars

\* A cursor moves in a turn of its tenant only, forward or back to the start, and a row before
\* which it stands has its turn with that, or has the cursor before it still.
NobodyIsPassedOver == [][\A t \in 1 .. TenantCount, l \in Lanes :
    IF Maintain /\ tenant' = t
    THEN /\ after'[t][l] = 0 \/ after'[t][l] > after[t][l]
         /\ \A r \in Rows : TenantOf[r] = t /\ lane[r] = l /\ r > after[t][l] =>
               r \in Maintenance!Turn \/ (after'[t][l] > after[t][l] /\ r > after'[t][l])
    ELSE after'[t][l] = after[t][l]]_turnVars

\* Rows at the front of the line do not starve those behind it: a row that stays due is
\* reserved some time, however few fit on a page.
DueRowsAreReserved == \A s \in Sources : s \in due ~> s \notin due

\* Every Artifact that stays in its lane gets a turn, again and again, whatever enters and
\* leaves the lane before it and however long the other lanes and tenants are.
EveryRowHasItsTurn == \A r \in Rows : \A l \in Lanes :
    []<>(lane[r] # l) \/ []<><<Maintain /\ r \in Maintenance!Turn>>_turnVars
=============================================================================
