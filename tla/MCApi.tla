------------------------------- MODULE MCApi -------------------------------
(* A league with a backfilled and a current season, from which team 3 was   *)
(* relegated, and a cup with a season id between those of the league, with  *)
(* a team of its own.                                                       *)
EXTENDS Api

MCFixture(home, away, competition, season, stage, day, late) ==
    [home |-> home, away |-> away, competition |-> competition, season |-> season,
     stage |-> stage, group |-> "null", matchday |-> 1, day |-> day, late |-> late]

MCFixtures == <<
    MCFixture(1, 3, "PL", 11, "REGULAR_SEASON", 1, 3),
    MCFixture(3, 1, "PL", 11, "REGULAR_SEASON", 2, 4),
    MCFixture(1, 2, "PL", 14, "REGULAR_SEASON", 6, 9),
    MCFixture(2, 1, "PL", 14, "REGULAR_SEASON", 8, 11),
    MCFixture(1, 4, "CL", 12, "LEAGUE_STAGE", 7, 10)>>

MCScores == [m \in DOMAIN MCFixtures |-> IF m = 2 THEN {<<0, 1>>} ELSE {<<2, 1>>}]

MCStages == [y \in {11, 12, 14} |->
                IF y = 12 THEN {"LEAGUE_STAGE", "LAST_16"} ELSE {"REGULAR_SEASON"}]

Tally(goals, assists, played) == [goals |-> goals, assists |-> assists, played |-> played]

\* The one with more goals has no count of assists.
MCTallies == {Tally(2, <<>>, 3), Tally(1, <<2>>, 3)}

ASSUME CalendarOfTheInstance == OneMatchAtATime

=============================================================================
