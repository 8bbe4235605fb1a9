------------------------------ MODULE MCMarts ------------------------------
(* Four teams: two matchdays of a league phase, a knockout match whose      *)
(* matchday is 1 again, and the first match of the next season, in a group. *)
EXTENDS Marts

Fixture(home, away, season, stage, group, matchday, day, late) ==
    [home |-> home, away |-> away, competition |-> "CL", season |-> season,
     stage |-> stage, group |-> group, matchday |-> matchday,
     day |-> day, late |-> late]

MCFixtures == <<
    Fixture(1, 2, 1, "LEAGUE_STAGE", "null", 1, 1, 4),
    Fixture(3, 4, 1, "LEAGUE_STAGE", "null", 1, 1, 4),
    Fixture(2, 1, 1, "LEAGUE_STAGE", "null", 2, 2, 4),
    Fixture(4, 3, 1, "LEAGUE_STAGE", "null", 2, 2, 4),
    Fixture(1, 2, 1, "FINAL", "null", 1, 3, 5),
    Fixture(2, 1, 2, "GROUP_STAGE", "Group A", 1, 6, 7)>>

\* The matches of teams 1 and 2 may end either way, the knockout match not in
\* a draw; those of 3 and 4 fill the table.
MCScores ==
    [m \in DOMAIN MCFixtures |-> CASE m = 2 -> {<<1, 1>>}
                                   [] m = 4 -> {<<1, 0>>}
                                   [] m = 5 -> {<<2, 1>>, <<0, 1>>}
                                   [] m = 6 -> {<<1, 1>>, <<0, 1>>}
                                   [] OTHER -> {<<2, 1>>, <<0, 1>>, <<1, 1>>}]

ASSUME CalendarOfTheInstance == SeasonsInOrder /\ OneMatchPerMatchday

=============================================================================
