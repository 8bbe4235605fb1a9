\* As Marts.cfg.
CONSTANTS
    Fixtures <- MCFixtures
    Scores <- MCScores
    MaxUnusual = 1
    FormLength = 2
SPECIFICATION Spec
INVARIANTS MatchesAddUp
