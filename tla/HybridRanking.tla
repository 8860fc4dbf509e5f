---------------------------- MODULE HybridRanking ----------------------------
(***************************************************************************)
(* From a resume and the published jobs to the recommendations stored.     *)
(*                                                                         *)
(* The rules score every job; models may add a semantic score, which the   *)
(* lookup of its citations may withdraw again; only then are the first     *)
(* TopK kept.  Scores are in units of the fourth decimal, to which the     *)
(* code rounds; weights are in tenths.  What models answer and which       *)
(* citations hold is GroundedGuidance.                                     *)
(***************************************************************************)
EXTENDS Integers, FiniteSets, Sequences

CONSTANTS
    Names,       \* names of skills, as resumes and jobs write them
    Key,         \* Key[n]: what is left of a name without case and punctuation
    JobCount,    \* jobs are 1 .. JobCount, in the order of their ids
    Listing,     \* the same jobs, in the order of their titles
    Years,       \* years of experience, in resumes
    Offers,      \* the profiles jobs have, all jobs together
    Answers,     \* semantic scores that models give
    TopK,
    NoScore      \* no semantic score, or no known years

Jobs == 1 .. JobCount
Unit == 10000

ASSUME NamesAssumption == IsFiniteSet(Names) /\ DOMAIN Key = Names
ASSUME ListingAssumption == JobCount \in Nat /\ Listing \in [Jobs -> Jobs] /\ {Listing[i] : i \in Jobs} = Jobs
ASSUME NumbersAssumption == Years \subseteq Int /\ NoScore \notin Int /\ TopK \in Nat \ {0}

\* Nothing is demanded of the numbers in a profile: the API stores the one it is given.
Weights  == [skills : Int, experience : Int, projects : Int]
Profiles == [required : SUBSET Names, preferred : SUBSET Names, minimum : Int, weights : Weights]

ASSUME OffersAssumption == Offers \subseteq [Jobs -> Profiles]

VARIABLES
    mode,       \* "rules" or "hybrid"
    stage,      \* "start", "ruled", "judged", "done" or "failed"
    resume,     \* its skills, and its years, if they are known
    profile,    \* profile[j]: what the job asks for
    rule,       \* rule[j]: score of the rules
    semantic,   \* semantic[j]: semantic score, if there is one
    stored      \* the recommendations, best first

rankingVars == <<mode, stage, resume, profile, rule, semantic, stored>>

-----------------------------------------------------------------------------
(* rules-v1                                                                *)

Resumes == [skills : SUBSET Names, years : Years \cup {NoScore}]

\* Nearest integer.  (Halves, which floating point rounds either way, go up.)
RoundedUp(a, b) == (2 * a + b) \div (2 * b)
Rounded(a, b)   == IF b > 0 THEN RoundedUp(a, b) ELSE RoundedUp(-a, -b)

Available(skills) == {Key[n] : n \in skills}

\* Defect: the share of the resume's skills that are asked for.
ShareOfResume(items, skills) ==
    IF items = {} \/ skills = {} THEN Unit
    ELSE (Unit * Cardinality({n \in items : Key[n] \in Available(skills)})) \div Cardinality(skills)

\* What is asked for and available; everything, where nothing is asked for.
Coverage(items, skills) ==
    IF items = {} THEN Unit
    ELSE (Unit * Cardinality({n \in items : Key[n] \in Available(skills)})) \div Cardinality(items)

Experience(years, minimum) ==
    IF minimum <= 0 THEN Unit
    ELSE IF years = NoScore THEN Unit \div 2
    ELSE IF years >= minimum THEN Unit ELSE (Unit * years) \div minimum

\* Defect: a sum below zero counts for none, too.
NormaliserAboveZero(w) == LET sum == w.skills + w.experience + w.projects
                          IN  IF sum <= 0 THEN 10 ELSE sum

\* The sum of the weights; one, where it is zero.
Normaliser(w) == LET sum == w.skills + w.experience + w.projects
                 IN  IF sum = 0 THEN 10 ELSE sum

RuleScore(job, skills, years) ==
    LET preferred == Coverage(job.preferred, skills)
        w == job.weights
    IN  Rounded(  w.skills * ((8 * Coverage(job.required, skills) + 2 * preferred) \div 10)
                + w.experience * Experience(years, job.minimum)
                + w.projects * preferred,
                Normaliser(w))

-----------------------------------------------------------------------------
(* hybrid-v1                                                               *)

Valid(score) == score # NoScore /\ score \in 0 .. 100

\* Defect: the weights of rules and models are exchanged.
ModelsPrevail(ruled, score) ==
    Rounded(2 * ruled + 8 * (IF Valid(score) THEN (Unit \div 100) * score ELSE 0), 10)

Combined(ruled, score) ==
    Rounded(8 * ruled + 2 * (IF Valid(score) THEN (Unit \div 100) * score ELSE 0), 10)

\* The jobs in the order of R, a strict and total one: each has its place behind those before it.
Place(R, j) == Cardinality({k \in Jobs : <<k, j>> \in R}) + 1
Sorted(R)   == [i \in Jobs |-> CHOOSE j \in Jobs : Place(R, j) = i]

Position(j) == CHOOSE i \in Jobs : Listing[i] = j

\* The rules leave equals as they are listed; the hybrid ranking orders them by id.
RuleOrder(r)  == {p \in Jobs \X Jobs : \/ r[p[1]] > r[p[2]]
                                       \/ r[p[1]] = r[p[2]] /\ Position(p[1]) < Position(p[2])}
TotalOrder(t) == {p \in Jobs \X Jobs : t[p[1]] > t[p[2]] \/ (t[p[1]] = t[p[2]] /\ p[1] < p[2])}

\* Defect: nothing is cut.
Everything(seq) == seq

First(seq) == [i \in 1 .. (IF TopK < JobCount THEN TopK ELSE JobCount) |-> seq[i]]

Totals(s) == [j \in Jobs |-> Combined(rule[j], s[j])]

\* Defect: the first are chosen before citations are looked up.
ChosenEarly(s) == First(Sorted(TotalOrder(Totals(semantic))))

\* What is stored, once s are the scores whose citations hold.
Chosen(s) == First(Sorted(TotalOrder(Totals(s))))

Recommended(seq, total) == [i \in DOMAIN seq |-> [job |-> seq[i], total |-> total[seq[i]]]]

-----------------------------------------------------------------------------
RankingInit == /\ mode \in {"rules", "hybrid"} /\ stage = "start" /\ stored = <<>>
               /\ resume \in Resumes /\ profile \in Offers
               /\ rule = [j \in Jobs |-> 0] /\ semantic = [j \in Jobs |-> NoScore]

\* A score out of range is not accepted by MatchRecommendation, nor one of the experience by
\* DimensionScores: that ends the match, for all its jobs.
Rules == /\ stage = "start"
         /\ rule' = [j \in Jobs |-> RuleScore(profile[j], resume.skills, resume.years)]
         /\ stage' = IF \A j \in Jobs : /\ rule'[j] \in 0 .. Unit
                                       /\ Experience(resume.years, profile[j].minimum) \in 0 .. Unit
                     THEN "ruled" ELSE "failed"
         /\ UNCHANGED <<mode, resume, profile, semantic, stored>>

\* In the mode rules-v1 that is all.
StoreRules == /\ stage = "ruled" /\ mode = "rules"
              /\ stored' = Recommended(First(Sorted(RuleOrder(rule))), rule)
              /\ stage' = "done"
              /\ UNCHANGED <<mode, resume, profile, rule, semantic>>

\* Models answer for every job, or for some, or give what is no score.
Semantic == /\ stage = "ruled" /\ mode = "hybrid"
            /\ \E a \in [Jobs -> Answers \cup {NoScore}] :
                  semantic' = [j \in Jobs |-> IF Valid(a[j]) THEN a[j] ELSE NoScore]
            /\ stage' = "judged"
            /\ UNCHANGED <<mode, resume, profile, rule, stored>>

\* Scores whose citations no longer hold are withdrawn, and the jobs ranked again.
StoreHybrid ==
    /\ stage = "judged"
    /\ \E withdrawn \in SUBSET {j \in Jobs : semantic[j] # NoScore} :
          LET s == [j \in Jobs |-> IF j \in withdrawn THEN NoScore ELSE semantic[j]] IN
          /\ semantic' = s
          /\ stored' = Recommended(Chosen(s), Totals(s))
    /\ stage' = "done"
    /\ UNCHANGED <<mode, resume, profile, rule>>

RankingNext == Rules \/ StoreRules \/ Semantic \/ StoreHybrid

RankingSpec == RankingInit /\ [][RankingNext]_rankingVars

-----------------------------------------------------------------------------
(* Properties                                                              *)

\* Every variable has its type, and a score that is used its range.
RankingTypeOK ==
    /\ mode \in {"rules", "hybrid"} /\ stage \in {"start", "ruled", "judged", "done", "failed"}
    /\ resume \in Resumes /\ profile \in [Jobs -> Profiles]
    /\ stage \in {"ruled", "judged", "done"} => rule \in [Jobs -> 0 .. Unit]
    /\ semantic \in [Jobs -> 0 .. 100 \cup {NoScore}]
    /\ stored \in Seq([job : Jobs, total : Int])

OneSign(w) == LET parts == {w.skills, w.experience, w.projects}
              IN  (\A p \in parts : p >= 0) \/ (\A p \in parts : p <= 0)

\* y years say no less than those of the resume do; unknown ones are taken for half of what is
\* required.
SaysNoLess(y, job) == IF resume.years = NoScore THEN 2 * y >= job.minimum ELSE y >= resume.years

\* A match fails by a job whose weights have both signs, or by a resume of negative years.
OnlyMixedSignsFail == stage = "failed" => \/ \E j \in Jobs : ~ OneSign(profile[j].weights)
                                          \/ resume.years # NoScore /\ resume.years < 0

\* Whatever is zero, negative, empty or unknown in profiles and resumes: where the weights of
\* a job have one sign, more skills or years never lower its score, and no match fails but by
\* a job whose weights have both, or by a resume of negative years.
OneSignIsFair ==
    /\ \A j \in Jobs : OneSign(profile[j].weights) =>
          LET score(skills, years) == RuleScore(profile[j], skills, years) IN
          /\ \A n \in Names :
                score(resume.skills \cup {n}, resume.years) >= score(resume.skills, resume.years)
          /\ \A y \in Years : SaysNoLess(y, profile[j]) =>
                score(resume.skills, y) >= score(resume.skills, resume.years)
    /\ OnlyMixedSignsFail

\* The best are stored, best first, and as many as there is room for: no job is stored twice,
\* and no job left out, and none stored behind, has a better total than one stored, by
\* the scores that still hold at the end.
BestAreStored == stage = "done" =>
    LET final(j) == IF mode = "rules" THEN rule[j] ELSE Combined(rule[j], semantic[j])
        kept == {stored[i].job : i \in DOMAIN stored}
    IN  /\ Cardinality(kept) = Len(stored)
        /\ Len(stored) <= TopK /\ (Len(stored) = TopK \/ kept = Jobs)
        /\ \A i \in DOMAIN stored : \A j \in Jobs \ kept : stored[i].total >= final(j)
        /\ \A i, k \in DOMAIN stored : i < k => stored[i].total >= stored[k].total

\* Models decide between jobs that the rules find close, at most: a job that is better by more
\* than a quarter is stored before the other, and where models give no score at all, by more
\* than rounding hides.
RulesPrevail == stage = "done" =>
    \A a \in Jobs : \A i \in DOMAIN stored :
        LET b == stored[i].job
            margin == IF semantic = [j \in Jobs |-> NoScore] THEN 1 ELSE Unit \div 4 + 1
        IN  rule[a] > rule[b] + margin => \E k \in 1 .. i - 1 : stored[k].job = a
=============================================================================
