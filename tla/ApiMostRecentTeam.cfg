\* The instance of Api.cfg: the cup's season has an id between those of the
\* league's seasons, and begins after both.
\* Five matches of four teams; a page holds two rows, the form two results,
\* and the leaders are those of rank one.
CONSTANTS
    Fixtures <- MCFixtures
    Scores <- MCScores
    MaxUnusual = 1
    FormLength = 2
    Players = {1, 2}
    Tallies <- MCTallies
    Backfilled = {11, 12}
    Stages <- MCStages
    MaxLoads = 3
    PageLimit = 2
    MaxRank = 1
SPECIFICATION WarehouseSpec
INVARIANTS MostRecentTeam
\* The instance ends when its loads are used up.
CHECK_DEADLOCK FALSE
