--------------------------- MODULE RecoveryPaging ---------------------------
(***************************************************************************)
(* Which rows a recovery scan takes, and who waits behind whom.            *)
(*                                                                         *)
(* A scan reads a page of the rows that can be recovered, those first      *)
(* whose last dispatch, or else upload, is longest ago, and reserves them  *)
(* one by one: a row that is locked, or changed since it was read, is      *)
(* skipped; one that is reserved goes to the end of the line.  What makes  *)
(* a row recoverable, what a reservation writes, and scanners that overlap *)
(* are SourceLease; who scans, and when, is BeatTurns.                     *)
(***************************************************************************)
EXTENDS Naturals, FiniteSets, Sequences

CONSTANTS Rows, BatchSize

VARIABLES
    line,       \* pairs of rows, the first dated before the second: by recovery_dispatch_at or else queued_at
    sent,       \* rows that have a recovery_dispatch_at, which nothing clears
    waiting,    \* rows that are not settled
    due,        \* those that have waited long enough: stale, expired, or to be retried
    page        \* what was read and not tried yet, and whether it is as it was

vars == <<line, sent, waiting, due, page>>

-----------------------------------------------------------------------------
Init == /\ line = {} /\ sent = {} /\ waiting = {} /\ due = {} /\ page = <<>>

\* What was read of the row is no longer what it is: another status, epoch, time or token.
Outdated(r) == [i \in DOMAIN page |-> [page[i] EXCEPT !.same = @ /\ page[i].row # r]]

\* recovery_dispatch_at is now, or queued_at of a row without it.
ToTheEnd(r) == {p \in line : p[1] # r} \cup {<<q, r>> : q \in Rows \ {r}}

\* An upload, a reindex: the row is queued now.
Queue(r) == /\ line' = IF r \in sent THEN line ELSE ToTheEnd(r)
            /\ waiting' = waiting \cup {r}
            /\ due' = due \ {r}
            /\ page' = Outdated(r)
            /\ UNCHANGED sent

\* Time passes for a row: pacing, stale age, expiry of the lease, due time of the retry.
Ripen(r) == /\ r \in waiting \ due
            /\ due' = due \cup {r}
            /\ UNCHANGED <<line, sent, waiting, page>>

\* A worker claims, renews or fails the row, which must then wait again in its place.
Work(r) == /\ r \in due
           /\ due' = due \ {r}
           /\ page' = Outdated(r)
           /\ UNCHANGED <<line, sent, waiting>>

\* A worker concludes it, its attempts are used up, or it is deleted.
Settle(r) == /\ r \in waiting
             /\ waiting' = waiting \ {r}
             /\ due' = due \ {r}
             /\ page' = Outdated(r)
             /\ UNCHANGED <<line, sent>>

Change(r) == Queue(r) \/ Ripen(r) \/ Work(r) \/ Settle(r)

-----------------------------------------------------------------------------
Ahead(r)  == {q \in due : <<q, r>> \in line}
InLine(i) == CHOOSE r \in due : Cardinality(Ahead(r)) = i - 1
PageSize  == IF Cardinality(due) < BatchSize THEN Cardinality(due) ELSE BatchSize

\* candidates: those of the rows due that are first in the line
Select == /\ page = <<>>
          /\ page' = [i \in 1 .. PageSize |-> [row |-> InLine(i), same |-> TRUE]]
          /\ UNCHANGED <<line, sent, waiting, due>>

\* Defect: a reserved row keeps its place.
KeepsPlace(r) == line

\* The reservation is dated, and with it the place.
Redispatched(r) == ToTheEnd(r)

\* Snapshot and times are those that were read.
Reservable(c) == c.row \in due /\ c.same

Reserve == LET c == Head(page) IN
           /\ page # <<>> /\ Reservable(c)
           /\ line' = Redispatched(c.row)
           /\ sent' = sent \cup {c.row}
           /\ due' = due \ {c.row}
           /\ page' = Tail(Outdated(c.row))
           /\ UNCHANGED waiting

\* The row is no more what was read, or some other transaction holds its lock.
Skip == /\ page # <<>>
        /\ page' = Tail(page)
        /\ UNCHANGED <<line, sent, waiting, due>>

\* The scan ends early, with its process or for want of the database.
Abandon == page' = <<>> /\ UNCHANGED <<line, sent, waiting, due>>

ReserveRow(r) == page # <<>> /\ Head(page).row = r /\ Reserve
=============================================================================
