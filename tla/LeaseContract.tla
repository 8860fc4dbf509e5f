--------------------------- MODULE LeaseContract ---------------------------
(***************************************************************************)
(* What the processing lease promises (docs/adr/0005-processing-lease-     *)
(* contract.md), without rows, messages, scanners or clocks: a Source is   *)
(* granted to one worker at a time, under an epoch never used before and   *)
(* at most MaxAttempts times per operator cycle; a grant that lapsed never *)
(* comes back; only the standing grant decides what derived data is        *)
(* stored; and only an operator takes a standing grant away.               *)
(***************************************************************************)
EXTENDS Naturals

CONSTANTS Sources, Workers, MaxAttempts, Nobody

VARIABLES
    grant,     \* grant[s]: who holds s under which epoch, or Nobody
    issued,    \* issued[s]: epochs handed out
    spent,     \* spent[s]: grants of the present operator cycle
    cycles,    \* cycles[s]: operator cycles started
    standing,  \* standing[s]: open to processing, withdrawn, or erased
    result     \* result[s]: epoch whose data is stored (0: none)

vars == <<grant, issued, spent, cycles, standing, result>>

Init == /\ grant = [s \in Sources |-> Nobody]
        /\ issued = [s \in Sources |-> 0]
        /\ spent = [s \in Sources |-> 0]
        /\ cycles = [s \in Sources |-> 0]
        /\ standing = [s \in Sources |-> "open"]
        /\ result = [s \in Sources |-> 0]

Revoke(s) == grant' = [grant EXCEPT ![s] = Nobody]

Grant(s, w) == /\ standing[s] = "open"
               /\ grant[s] = Nobody
               /\ spent[s] < MaxAttempts
               /\ grant' = [grant EXCEPT ![s] = [holder |-> w, epoch |-> issued[s] + 1]]
               /\ issued' = [issued EXCEPT ![s] = @ + 1]
               /\ spent' = [spent EXCEPT ![s] = @ + 1]
               /\ UNCHANGED <<cycles, standing, result>>

\* The holder ends its grant, with data stored under its epoch ...
Publish(s) == /\ grant[s] # Nobody
              /\ Revoke(s)
              /\ result' = [result EXCEPT ![s] = grant[s].epoch]
              /\ UNCHANGED <<issued, spent, cycles, standing>>

\* ... or without; or the time of some grants runs out.
Lapse(S) == /\ grant' = [s \in Sources |-> IF s \in S THEN Nobody ELSE grant[s]]
            /\ UNCHANGED <<issued, spent, cycles, standing, result>>

Reopen(s) == /\ standing[s] = "open"
             /\ Revoke(s)
             /\ cycles' = [cycles EXCEPT ![s] = @ + 1]
             /\ spent' = [spent EXCEPT ![s] = 0]
             /\ UNCHANGED <<issued, standing, result>>

Withdraw(s) == /\ standing[s] = "open"
               /\ Revoke(s)
               /\ standing' = [standing EXCEPT ![s] = "withdrawn"]
               /\ UNCHANGED <<issued, spent, cycles, result>>

Erase(s) == /\ standing[s] # "erased"
            /\ Revoke(s)
            /\ standing' = [standing EXCEPT ![s] = "erased"]
            /\ result' = [result EXCEPT ![s] = 0]
            /\ UNCHANGED <<issued, spent, cycles>>

Next == \/ \E s \in Sources : \/ \E w \in Workers : Grant(s, w)
                              \/ Publish(s) \/ Reopen(s) \/ Withdraw(s) \/ Erase(s)
        \/ \E S \in SUBSET Sources : Lapse(S)

Spec == Init /\ [][Next]_vars
=============================================================================
