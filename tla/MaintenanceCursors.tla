------------------------- MODULE MaintenanceCursors -------------------------
(***************************************************************************)
(* Which rows the artifact maintenance takes, turn by turn.                *)
(*                                                                         *)
(* A turn serves one tenant, the one after the tenant of the turn before,  *)
(* and takes a page of each of its lanes from where the page before ended. *)
(* All of it is one transaction under the locks of the cursors, so turns   *)
(* of several runs follow one another.  Rows enter and leave lanes at any  *)
(* time, and ids say nothing about when.  What is done to the rows taken   *)
(* is ArtifactLifecycle; who asks for a turn is BeatTurns.                 *)
(***************************************************************************)
EXTENDS Integers, FiniteSets, FiniteSetsExt

CONSTANTS
    RowCount,     \* rows are 1 .. RowCount, in the order of their ids
    TenantCount,  \* tenants are 1 .. TenantCount, likewise
    TenantOf,     \* TenantOf[r]
    Lanes,        \* those served, of "cleanup", "deleted" and "pending"
    Limit         \* rows of a page

Rows    == 1 .. RowCount
Tenants == 1 .. TenantCount

VARIABLES
    lane,       \* lane[r]: where the row is, or "none"
    tenant,     \* the global cursor: the tenant of the last turn, or 0
    after       \* after[t][l]: the last row of a full page, or 0

vars == <<lane, tenant, after>>

-----------------------------------------------------------------------------
Init == /\ lane = [r \in Rows |-> "none"]
        /\ tenant = 0 /\ after = [t \in Tenants |-> [l \in Lanes |-> 0]]

\* Defect: the tenants do not start over.
NoNextTenant(t) == IF t < TenantCount THEN t + 1 ELSE t

\* Tenant.id > after_id, or the first of all.
NextTenant(t) == IF t < TenantCount THEN t + 1 ELSE 1

\* The rows of a lane behind the cursor, as many as fit.
Waiting(t, l)  == {r \in Rows : TenantOf[r] = t /\ lane[r] = l}
Behind(t, l)   == {r \in Waiting(t, l) : r > after[t][l]}
Page(t, l)     == {r \in Behind(t, l) : Cardinality({s \in Behind(t, l) : s < r}) < Limit}

\* Defect: a lane always starts from its first row.
CursorReset(t, l) == 0

\* After a page that is not full the lane starts over.
NewCursor(t, l) == IF Cardinality(Page(t, l)) = Limit THEN Max(Page(t, l)) ELSE 0

\* reserve_reconciliation_batch
Reserve == LET t == NextTenant(tenant) IN
           /\ tenant' = t
           /\ after' = [after EXCEPT ![t] = [l \in Lanes |-> NewCursor(t, l)]]
           /\ UNCHANGED lane

\* The rows of the turn that is next.
Turn == UNION {Page(NextTenant(tenant), l) : l \in Lanes}

\* An upload grows old, an object is to be removed, a removal succeeds: a row waits in
\* another lane, or in none.  What is deleted stays.
Moves == {<<"none", "pending">>, <<"none", "cleanup">>, <<"pending", "none">>,
          <<"pending", "cleanup">>, <<"cleanup", "deleted">>}

Move(r) == /\ \E l \in Lanes \cup {"none"} : <<lane[r], l>> \in Moves /\ lane' = [lane EXCEPT ![r] = l]
           /\ UNCHANGED <<tenant, after>>
=============================================================================
