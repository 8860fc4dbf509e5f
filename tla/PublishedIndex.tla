--------------------------- MODULE PublishedIndex ---------------------------
(***************************************************************************)
(* What the index promises to its readers: of every Source they see one    *)
(* generation, complete, or none; generations follow each other without a  *)
(* gap and replace each other at once; nothing but an operator's decision  *)
(* takes a published generation away, and what was withdrawn or erased     *)
(* does not come back.                                                     *)
(***************************************************************************)
EXTENDS Naturals

CONSTANT Sources

VARIABLES
    version,   \* version[s]: the newest generation ever published (0: none)
    offered,   \* offered[s]: generations whose chunks a search can return
    open       \* open[s]: neither withdrawn nor erased

vars == <<version, offered, open>>

Init == /\ version = [s \in Sources |-> 0]
        /\ offered = [s \in Sources |-> {}]
        /\ open = [s \in Sources |-> TRUE]

Publish(s) == /\ open[s]
              /\ version' = [version EXCEPT ![s] = @ + 1]
              /\ offered' = [offered EXCEPT ![s] = {version[s] + 1}]
              /\ UNCHANGED open

Withdraw(s) == /\ open' = [open EXCEPT ![s] = FALSE]
               /\ offered' = [offered EXCEPT ![s] = {}]
               /\ UNCHANGED version

Next == \E s \in Sources : Publish(s) \/ Withdraw(s)

Spec == Init /\ [][Next]_vars
=============================================================================
