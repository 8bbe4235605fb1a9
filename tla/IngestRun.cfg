\* One run over two competitions and two season years: the tables of seasons.
CONSTANTS
    Codes <- MCCodes
    Teams = {"A", "B"}
    Players = {}
    Entrants <- MCEntrants
    MaxYear = 2
    Resources = {"seasons", "matches", "standings"}
    Backfills <- MCBackfills
    MaxRuns = 1
    MaxChanges = 2
    MaxDay = 0
SPECIFICATION Spec
INVARIANTS TypeOK OncePerUrl SeasonsResolve NewestSeasonLoaded
PROPERTIES RunEnds
\* The instance ends when its runs are used up.
CHECK_DEADLOCK FALSE
