\* Six matches of four teams, at most one of them not played as planned;
\* the form shows two results instead of five.
CONSTANTS
    Fixtures <- MCFixtures
    Scores <- MCScores
    MaxUnusual = 1
    FormLength = 2
SPECIFICATION Spec
INVARIANTS TypeOK StreaksRight FormEndsInStreak HeadToHeadAgrees StatsConserve
INVARIANTS FinalTableRight
