-------------------------- MODULE ArtifactContract --------------------------
(***************************************************************************)
(* What the artifact lifecycle promises the rest of the system about the   *)
(* copies that uploads of one file create, without requests, maintenance   *)
(* or an object store: one copy holds the file at a time; a copy becomes   *)
(* readable once, and what it offers to read is kept for as long as it is  *)
(* offered; a copy that is withdrawn never comes back.  SourceLease takes  *)
(* the four phases below as the states of a row's artifact.                *)
(***************************************************************************)
CONSTANTS Copies

VARIABLES phase, kept   \* kept[c]: the object of copy c can be read

vars == <<phase, kept>>

Held == {"pending", "available", "failed"}

Init == /\ phase = [c \in Copies |-> "unborn"]
        /\ kept = [c \in Copies |-> FALSE]

Claim(c) == /\ phase[c] = "unborn"
            /\ \A d \in Copies : phase[d] \notin Held
            /\ phase' = [phase EXCEPT ![c] = "pending"]
            /\ UNCHANGED kept

Publish(c) == /\ phase[c] = "pending" /\ kept[c]
              /\ phase' = [phase EXCEPT ![c] = "available"]
              /\ UNCHANGED kept

Fail(c) == /\ phase[c] = "pending"
           /\ phase' = [phase EXCEPT ![c] = "failed"]
           /\ UNCHANGED kept

Withdraw(c) == /\ phase[c] \in Held
               /\ phase' = [phase EXCEPT ![c] = "removed"]
               /\ UNCHANGED kept

Store(c) == /\ phase[c] # "unborn"
            /\ kept' = [kept EXCEPT ![c] = TRUE]
            /\ UNCHANGED phase

Erase(c) == /\ phase[c] = "removed"
            /\ kept' = [kept EXCEPT ![c] = FALSE]
            /\ UNCHANGED phase

Next == \E c \in Copies : \/ Claim(c) \/ Publish(c) \/ Fail(c) \/ Withdraw(c)
                          \/ Store(c) \/ Erase(c)

Spec == Init /\ [][Next]_vars
=============================================================================
