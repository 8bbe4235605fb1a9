------------------------- MODULE MCNightlyPipeline -------------------------
(* A fact and a mart on top of it, and a dimension that is built beside     *)
(* them from two raw tables (dim_teams.sql, fct_matches.sql,                *)
(* mart_head_to_head.sql).                                                  *)
EXTENDS NightlyPipeline

MCUpstream ==
    [m \in {"fct_matches", "mart_head_to_head", "dim_teams"} |->
        CASE m = "fct_matches"       -> {"matches"}
          [] m = "mart_head_to_head" -> {"fct_matches"}
          [] m = "dim_teams"         -> {"teams", "matches"}]

=============================================================================
