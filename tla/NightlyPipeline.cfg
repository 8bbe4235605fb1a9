\* Two raw tables, three models, two attempts of each job.
CONSTANTS
    Sources = {"matches", "teams"}
    Models = {"fct_matches", "mart_head_to_head", "dim_teams"}
    Upstream <- MCUpstream
    Attempts = 2
    MaxVersion = 2
    MaxFaults = 3
SPECIFICATION Spec
INVARIANTS BuiltFromWholeLoads
PROPERTIES KeepsNightlyData CatchesUp
