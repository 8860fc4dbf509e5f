----------------------------- MODULE MCBeatTurns -----------------------------
(* TLC's instance of BeatTurns: all Artifacts are those of the first tenant. *)
EXTENDS BeatTurns

FirstTenant == [r \in 1 .. RowCount |-> 1]
=============================================================================
