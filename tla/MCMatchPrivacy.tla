-------------------------- MODULE MCMatchPrivacy --------------------------
(* TLC's instance of MatchPrivacy: its requests are interchangeable.       *)
EXTENDS MatchPrivacy, TLC

\* Nothing in MatchPrivacy tells one request from another, its properties included.
RequestSymmetry == Permutations(Requests)
=============================================================================
