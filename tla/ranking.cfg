\* Three jobs, listed in an order that is not that of their ids; two are stored.
SPECIFICATION RankingSpec
CONSTANTS
    Names <- TwoNames
    Key <- TwoKeys
    JobCount = 3
    Listing <- ThreeListed
    Years <- SomeYears
    Offers <- OfferedProfiles
    Answers = {100, 150}
    TopK = 2
    NoScore = NoScore
INVARIANTS BestAreStored RulesPrevail OneSignIsFair
CHECK_DEADLOCK FALSE
