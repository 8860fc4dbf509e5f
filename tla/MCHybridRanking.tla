-------------------------- MODULE MCHybridRanking --------------------------
(* TLC's instance of HybridRanking: names of skills, a listing, profiles.  *)
EXTENDS HybridRanking

\* Both names are the same key, "c".
TwoNames == {"C", "C++"}
TwoKeys  == [n \in TwoNames |-> "c"]

ThreeListed == <<2, 3, 1>>

\* Years below zero come from a model: their evidence is checked, and not their sign.
SomeYears == {1, 2, -1}

Weighing(s, e, p) == [skills |-> s, experience |-> e, projects |-> p]

\* The weights of a profile whose recruiter raised that of the skills only; none; negative
\* ones; and ones of both signs, whose sum is positive, zero and negative.
Default == Weighing(10, 3, 2)
Unusual == {Default, Weighing(0, 0, 0), Weighing(-5, 0, -3),
            Weighing(5, -1, 2), Weighing(5, -5, 0), Weighing(1, -3, 0)}

\* One job may ask for anything, with any weights; the others are of the usual kind.
AnyProfile   == [required : SUBSET TwoNames, preferred : SUBSET TwoNames,
                 minimum : {0, 2}, weights : Unusual]
UsualProfile == [required : {{}, {"C"}}, preferred : {{"C++"}}, minimum : {2}, weights : {Default}]

OfferedProfiles == {<<a, b, c>> : a \in AnyProfile, b, c \in UsualProfile}
=============================================================================
