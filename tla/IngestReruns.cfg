\* Two runs: nightly ones and a backfill, a night apart or after a crash.
CONSTANTS
    Codes <- MCCodes
    Teams = {"A", "B"}
    Players = {"p"}
    Entrants <- MCEntrants
    MaxYear = 2
    Resources = {"matches", "players", "squad_observations"}
    Backfills <- MCBackfills
    MaxRuns = 2
    MaxChanges = 1
    MaxDay = 1
SPECIFICATION Spec
INVARIANTS ClubObserved
PROPERTIES ClubHistoryKept HistoryKept
\* The instance ends when its runs are used up.
CHECK_DEADLOCK FALSE
