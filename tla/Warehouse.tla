----------------------------- MODULE Warehouse -----------------------------
(***************************************************************************)
(* The raw tables that one night after another loads, and the dimensions    *)
(* and facts that dbt builds from them (transform/models).                  *)
(*                                                                         *)
(* A load puts the rows of one payload in one table.  The tables refer to   *)
(* each other only as far as the source lets them: every season that a      *)
(* match, a scorer or a table names is loaded (SeasonsResolve of            *)
(* IngestRun), but the teams and players are those of the current squads,   *)
(* so a match or a scorer may name others, and the rows of a team that has  *)
(* changed its name carry both names.  No raw row is ever deleted.          *)
(* Names, crests and the other display columns of a team are one name here; *)
(* a payload of standings holds one table, of type TOTAL                    *)
(* (_staging.yml:80-94).                                                    *)
(***************************************************************************)
EXTENDS Marts

CONSTANTS
    Players,
    Tallies,      \* goals, assists and matches a scorer row may carry
    Backfilled,   \* the seasons loaded by the first run, all matches played
    Stages,       \* per season: the stages its table is published for
    MaxLoads      \* bound: loads after the first

ASSUME WarehouseAssumption ==
    /\ MaxLoads \in Nat
    /\ Players \subseteq Nat /\ Backfilled \subseteq Seasons
    /\ \A tally \in Tallies :
          /\ tally.goals \in Nat /\ tally.played \in Nat
          /\ tally.assists = <<>> \/ tally.assists[1] \in Nat   \* null
    /\ \A m, n \in MatchIds : Fixtures[m].season = Fixtures[n].season
                                => Fixtures[m].competition = Fixtures[n].competition

VARIABLES
    seasons,     \* raw.seasons
    scheduled,   \* the seasons whose matches raw.matches holds
    teams,       \* raw.teams: the teams of the current squads
    names,       \* the names that the rows of matches and scorers give a team
    players,     \* raw.players: the team of each, or Null
    scorers,     \* raw.scorers
    standings,   \* raw.standings
    loads        \* how many loads there were (a bound)

rawTables == <<matches, seasons, scheduled, teams, names, players, scorers, standings>>
warehouseVars == <<rawTables, loads>>

Null == 0          \* no id and no name is 0
OldName == 1
CurrentName == 2

MatchesOf(y) == {m \in MatchIds : Fixtures[m].season = y}
CompetitionOf(y) == (CHOOSE f \in {Fixtures[m] : m \in MatchesOf(y)} : TRUE).competition
Entrants(y) == UNION {{Fixtures[m].home, Fixtures[m].away} : m \in MatchesOf(y)}
StartDate(y) == Min({Fixtures[m].day : m \in MatchesOf(y)})

-----------------------------------------------------------------------------
(* The raw tables *)

WarehouseInit ==
    /\ matches = [m \in MatchIds |->
                     IF Fixtures[m].season \in Backfilled
                     THEN Row("FINISHED", WinnerOf(AScore(m)), AScore(m), Fixtures[m].day)
                     ELSE AsPlanned(m)]
    /\ seasons = Backfilled /\ scheduled = Backfilled
    /\ teams = {} /\ names = [t \in Teams |-> {OldName}]
    /\ players = [p \in Players |-> Null]
    /\ scorers = {} /\ standings = {}
    /\ loads = 0

\* The seasons harvested from a payload, and the matches of one of them.
LoadSeason(y) ==
    /\ y \notin seasons /\ seasons' = seasons \cup {y}
    /\ UNCHANGED <<matches, scheduled, teams, names, players, scorers, standings>>

LoadMatches(y) ==
    /\ y \in seasons \ scheduled /\ scheduled' = scheduled \cup {y}
    /\ UNCHANGED <<matches, seasons, teams, names, players, scorers, standings>>

\* A row of a match that is merged over the one before.
LoadMatch(m) ==
    /\ Fixtures[m].season \in scheduled
    /\ Play(m) \/ Disrupt(m) \/ Replan(m)
    /\ UNCHANGED <<seasons, scheduled, teams, names, players, scorers, standings>>

\* The squads of a season: its teams, and the players they list now.
LoadTeams(y) ==
    /\ y \in seasons /\ teams' = teams \cup Entrants(y)
    /\ UNCHANGED <<matches, seasons, scheduled, names, players, scorers, standings>>

LoadPlayer(p) ==
    /\ \E t \in teams : players' = [players EXCEPT ![p] = t]
    /\ UNCHANGED <<matches, seasons, scheduled, teams, names, scorers, standings>>

\* From some row on, matches and scorers carry the team's new name.
Rename(t) ==
    /\ names' = [names EXCEPT ![t] = {OldName, CurrentName}]
    /\ UNCHANGED <<matches, seasons, scheduled, teams, players, scorers, standings>>

(* Mutant: the team is a part of the key: a player who moved has two rows. *)
LoadScorerPerTeam(y, p) ==
    /\ y \in seasons
    /\ \E t \in Entrants(y), tally \in Tallies :
          scorers' = {s \in scorers : <<s.season, s.player, s.team>> # <<y, p, t>>}
                     \cup {[competition |-> CompetitionOf(y), season |-> y,
                            player |-> p, team |-> t, tally |-> tally]}
    /\ UNCHANGED <<matches, seasons, scheduled, teams, names, players, standings>>

\* A scorer's row of a season, merged on (competition_code, season_id, player_id).
LoadScorer(y, p) ==
    /\ y \in seasons
    /\ \E t \in Entrants(y), tally \in Tallies :
          scorers' = {s \in scorers : <<s.season, s.player>> # <<y, p>>}
                     \cup {[competition |-> CompetitionOf(y), season |-> y,
                            player |-> p, team |-> t, tally |-> tally]}
    /\ UNCHANGED <<matches, seasons, scheduled, teams, names, players, standings>>

\* Today's table of a season, merged on (competition_code, season_id, team_id,
\* snapshot_date), whether or not its teams are in raw.teams.
LoadStandings(y) ==
    /\ y \in seasons
    /\ \E stage \in Stages[y], today \in {loads, loads + 1} :
          standings' = {s \in standings : <<s.season, s.date>> # <<y, today>>}
                       \cup {[competition |-> CompetitionOf(y), season |-> y,
                              team |-> t, date |-> today, stage |-> stage] :
                                 t \in Entrants(y)}
    /\ UNCHANGED <<matches, seasons, scheduled, teams, names, players, scorers>>

WarehouseNext ==
    /\ loads < MaxLoads /\ loads' = loads + 1
    /\ \/ \E y \in Seasons : \/ LoadSeason(y) \/ LoadMatches(y)
                             \/ LoadTeams(y) \/ LoadStandings(y)
       \/ \E m \in MatchIds : LoadMatch(m)
       \/ \E t \in Teams : Rename(t)
       \/ \E p \in Players : LoadPlayer(p) \/ \E y \in Seasons : LoadScorer(y, p)

WarehouseSpec == WarehouseInit /\ [][WarehouseNext]_warehouseVars

-----------------------------------------------------------------------------
(* The dimensions and facts.  The marts are functions of the facts.         *)

TeamRow(t, name, is_derived) ==
    [team_id |-> t, team_name |-> name, is_derived |-> is_derived]

(* Mutant: without row_number, a derived row per name. *)
EveryName(o, observed) == TRUE

\* row_number() over (partition by team_id order by team_name) = 1
FirstName(o, observed) ==
    \A q \in observed : q.team_id = o.team_id => o.team_name <= q.team_name

dim_teams ==
    LET inMatches == UNION {Entrants(y) : y \in scheduled}
        inScorers == {s.team : s \in scorers}
        observed == {o \in [team_id : inMatches \cup inScorers,
                            team_name : {OldName, CurrentName}] :
                        o.team_name \in names[o.team_id]}
    IN  {TeamRow(t, CurrentName, FALSE) : t \in teams}
        \cup {TeamRow(o.team_id, o.team_name, TRUE) :
                 o \in {q \in observed : q.team_id \notin teams /\ FirstName(q, observed)}}

PlayerRow(p, t, is_derived) ==
    [player_id |-> p, team_id |-> t, is_derived |-> is_derived]

(* Mutant: the partition by player is gone. *)
NewestOfAll(s, missing) == \A q \in missing : q.season <= s.season

\* row_number() over (partition by player_id order by season_id desc) = 1
Newest(s, missing) ==
    \A q \in missing : q.player = s.player => q.season <= s.season

dim_players ==
    LET missing == {s \in scorers : players[s.player] = Null}
    IN  {PlayerRow(p, players[p], FALSE) : p \in {q \in Players : players[q] # Null}}
        \cup {PlayerRow(s.player, s.team, TRUE) :
                 s \in {q \in missing : Newest(q, missing)}}

\* What a connection reads.
Tables ==
    [dim_competitions |-> Competitions,
     dim_seasons      |-> {[season |-> y, competition |-> CompetitionOf(y)] : y \in seasons},
     dim_teams        |-> dim_teams,
     dim_players      |-> dim_players,
     fct_matches      |-> {[match_id |-> m, match |-> fct_matches(m)] :
                              m \in UNION {MatchesOf(y) : y \in scheduled}},
     fct_team_matches |-> {r \in fct_team_matches : r.season \in scheduled},
     fct_scorers      |-> scorers,
     fct_standings_snapshot |-> standings]

-----------------------------------------------------------------------------
(* What holds between the raw tables after every load: rows refer to loaded *)
(* seasons, a scorer has one row per season, and a table of a day is that   *)
(* of all the season's teams, once each and in one stage (the primary keys  *)
(* and the merge of football_data_source.py, the tests of _staging.yml).    *)
WarehouseTypeOK ==
    /\ TypeOK
    /\ scheduled \subseteq seasons /\ seasons \subseteq Seasons
    /\ teams \subseteq Teams
    /\ names \in [Teams -> {{OldName}, {OldName, CurrentName}}]
    /\ players \in [Players -> teams \cup {Null}]
    /\ loads \in 0 .. MaxLoads
    /\ scorers \subseteq [competition : Competitions, season : seasons,
                         player : Players, team : Teams, tally : Tallies]
    /\ \A s \in scorers : s.competition = CompetitionOf(s.season)
                         /\ s.team \in Entrants(s.season)
    /\ \A r, s \in scorers : r.season = s.season /\ r.player = s.player => r = s
    /\ IsFiniteSet(scorers)
    /\ standings \subseteq [competition : Competitions, season : seasons, team : Teams,
                           date : Nat, stage : UNION {Stages[y] : y \in seasons}]
    /\ \A s \in standings :
          /\ s.competition = CompetitionOf(s.season)
          /\ {r \in standings : r.season = s.season /\ r.date = s.date}
                = {[s EXCEPT !.team = t] : t \in Entrants(s.season)}
=============================================================================
