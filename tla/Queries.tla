------------------------------ MODULE Queries ------------------------------
(***************************************************************************)
(* warehouse/queries.py: what each query returns, read from the tables      *)
(* `con`.  A data frame is the set of its rows, reduced to the columns that *)
(* identify them and a name for the columns of dim_teams; where the order   *)
(* is of interest, a sequence.  A query that cuts its list may have to cut  *)
(* among rows of the same time: it is the set of the lists it may return.   *)
(***************************************************************************)
EXTENDS Warehouse

CONSTANTS
    PageLimit,   \* limit 10
    MaxRank      \* qualify rank <= 20

ASSUME QueriesAssumption == PageLimit \in Nat \ {0} /\ MaxRank \in Nat \ {0}

\* join and left join dim_teams: one row per row of the team.
Names(con, t) == {d.team_name : d \in {e \in con.dim_teams : e.team_id = t}}
LeftNames(con, t) == IF Names(con, t) = {} THEN {Null} ELSE Names(con, t)

TeamRows(con, ids) ==
    UNION {{[team_id |-> t, team_name |-> n] : n \in Names(con, t)} : t \in ids}
LeftTeamRows(con, ids) ==
    UNION {{[team_id |-> t, team_name |-> n] : n \in LeftNames(con, t)} : t \in ids}

\* order by .. limit
Cut(rows, Before(_, _)) ==
    {page \in kSubset(Min({PageLimit, Cardinality(rows)}), rows) :
        \A r \in page, q \in rows \ page : ~ Before(q, r)}

Soonest(rows) == Cut(rows, LAMBDA q, r : q.kickoff < r.kickoff)
MostRecent(rows) == Cut(rows, LAMBDA q, r : q.kickoff > r.kickoff)

UpcomingStatuses == {"SCHEDULED", "TIMED"}   \* _UPCOMING_STATUSES

-----------------------------------------------------------------------------
(* Seasons *)

SeasonsOf(con, c) ==
    {s.season : s \in {d \in con.dim_seasons : d.competition = c}}

get_competitions(con) == con.dim_competitions

(* Mutant: the newest season of any competition. *)
NewestSeasonId(con, c) == MaxOr0({s.season : s \in con.dim_seasons})

get_current_season_id(con, c) == MaxOr0(SeasonsOf(con, c))   \* 0 is Null

get_competition_seasons(con, c) == SeasonsOf(con, c)

MatchesIn(con, c, y) ==
    {f \in con.fct_matches : /\ Fixtures[f.match_id].competition = c
                             /\ Fixtures[f.match_id].season = y}

SidesOf(fs) ==
    UNION {{Fixtures[f.match_id].home, Fixtures[f.match_id].away} : f \in fs}

get_teams_in_season(con, c, y) == SidesOf(MatchesIn(con, c, y))

get_teams_for_league(con, c, y) == LeftTeamRows(con, SidesOf(MatchesIn(con, c, y)))

\* The matches of each competition's newest season, by a subquery per match.
CurrentMatches(con) ==
    {f \in con.fct_matches :
        LET of == SeasonsOf(con, Fixtures[f.match_id].competition)
        IN  of # {} /\ Fixtures[f.match_id].season = Max(of)}

get_current_teams(con) == TeamRows(con, SidesOf(CurrentMatches(con)))

get_team_competitions(con, t) ==
    {[competition |-> Fixtures[f.match_id].competition,
      season |-> Fixtures[f.match_id].season] :
        f \in {g \in CurrentMatches(con) : t \in SidesOf({g})}}

-----------------------------------------------------------------------------
(* Tables *)

LeagueTableStages == StandingsPhaseStages
StageOrder == <<"GROUP_STAGE", "LAST_16", "LEAGUE_STAGE", "REGULAR_SEASON">>

NoTable(message) == [table |-> {}, message |-> message]

get_standings(con, c, y) ==
    LET of == {f \in con.fct_standings_snapshot : f.competition = c /\ f.season = y}
        latest == {f \in of : \A g \in of : g.date <= f.date}
        stages == {i \in DOMAIN StageOrder : \E f \in latest : f.stage = StageOrder[i]}
        stage == StageOrder[Min(stages)]   \* order by stage, the first row
        form(t) == last_5_results(t, c, y, con.fct_team_matches)
    IN  CASE of = {} -> NoTable("none yet")
          [] of # {} /\ stage \notin LeagueTableStages -> NoTable("knockout")
          [] OTHER -> [table |-> UNION {{[team_id |-> f.team, team_name |-> n,
                                          form |-> form(f.team)] :
                                            n \in Names(con, f.team)} :
                                         f \in {g \in latest : g.stage = stage}},
                       message |-> ""]

StandingsOverTime(con, c, y) ==
    {s \in mart_standings_over_time(con.fct_team_matches) :
        s.row.competition = c /\ s.row.season = y}

get_league_position_history(con, c, y) ==
    UNION {{[team_id |-> s.row.team, team_name |-> n, matchday |-> Matchday(s.row),
             position |-> s.position] : n \in Names(con, s.row.team)} :
             s \in StandingsOverTime(con, c, y)}

get_team_position_history(con, t, c, y) ==
    {[matchday |-> Matchday(s.row), position |-> s.position] :
        s \in {r \in StandingsOverTime(con, c, y) : r.row.team = t}}

final_standings(con, c, y) ==
    UNION {{[team_id |-> s.row.team, team_name |-> n, position |-> s.position] :
               n \in Names(con, s.row.team)} :
              s \in get_reconstructed_final_standings(c, y, con.fct_team_matches)}

get_streaks(con, c) ==
    UNION {{[team_id |-> t, team_name |-> n,
             streaks |-> mart_streaks(t, c, con.fct_team_matches)] : n \in Names(con, t)} :
             t \in {r.team : r \in {q \in Decided(con.fct_team_matches) :
                                       q.competition = c}}}

\* The record of a pair that has met, or none.
get_head_to_head(t, u) ==
    IF PairRecord(t, u).matches_played = 0 THEN {} ELSE {PairRecord(t, u)}

get_cross_league_stats(con) ==
    {[competition |-> c,
      stats |-> mart_cross_league_stats(c, MaxOr0(SeasonsOf(con, c)),
                                        con.fct_team_matches)] :
        c \in con.dim_competitions}

-----------------------------------------------------------------------------
(* Matches *)

MatchRows(con, fs) ==
    UNION {{[match_id |-> f.match_id, kickoff |-> f.match.kickoff,
             home |-> h, away |-> a] :
               h \in LeftNames(con, Fixtures[f.match_id].home),
               a \in LeftNames(con, Fixtures[f.match_id].away)} : f \in fs}

get_league_fixtures(con, c, y) ==
    Soonest(MatchRows(con, {f \in MatchesIn(con, c, y) :
                               f.match.status \in UpcomingStatuses}))

get_league_recent_results(con, c, y) ==
    MostRecent(MatchRows(con, {f \in MatchesIn(con, c, y) :
                                  f.match.status \in FinishedStatuses}))

\* The first row of the match with both its teams, if there is one.
get_match_detail(con, m) ==
    UNION {{[match_id |-> m, home |-> h, away |-> a] :
               h \in Names(con, Fixtures[m].home), a \in Names(con, Fixtures[m].away)} :
              f \in {g \in con.fct_matches : g.match_id = m}}

get_head_to_head_matches(con, t, u) ==
    UNION {{[match_id |-> f.match_id, competition |-> c, home |-> h, away |-> a] :
               c \in {d \in con.dim_competitions :
                         d = Fixtures[f.match_id].competition},
               h \in Names(con, Fixtures[f.match_id].home),
               a \in Names(con, Fixtures[f.match_id].away)} :
              f \in {g \in con.fct_matches : IsMeeting(g.match_id, g.match, t, u)}}

\* The rows of a team, with the opponent's name.
TeamMatchRows(con, t, statuses) ==
    UNION {{[side |-> r, kickoff |-> r.day, opponent |-> n] :
               n \in LeftNames(con, r.opponent)} :
              r \in {q \in con.fct_team_matches : q.team = t /\ q.status \in statuses}}

(* Mutant: the awarded matches are missing. *)
FormOfFinished(con, t) == MostRecent(TeamMatchRows(con, t, {"FINISHED"}))

get_team_recent_form(con, t) == MostRecent(TeamMatchRows(con, t, FinishedStatuses))
get_team_upcoming(con, t)    == Soonest(TeamMatchRows(con, t, UpcomingStatuses))

-----------------------------------------------------------------------------
(* Scorers *)

Assists(s) == IF s.tally.assists = <<>> THEN 0 ELSE s.tally.assists[1]   \* coalesce
Goals(s)   == s.tally.goals
GoalsKey(s)   == <<Goals(s), Assists(s), - s.tally.played>>
AssistsKey(s) == <<Assists(s), Goals(s), - s.tally.played>>

\* fct_scorers left join dim_teams: one row per row of the scorer's team.
ScorerRow(s, n) == [of |-> s, player |-> s.player, team |-> s.team, crest |-> n]

ScorersOf(con, c, y) ==
    {s \in con.fct_scorers : s.competition = c /\ s.season = y}
ScorerRows(con, c, y) ==
    UNION {{ScorerRow(s, n) : n \in LeftNames(con, s.team)} : s \in ScorersOf(con, c, y)}

(* Mutant: row_number() instead of rank(). *)
RowNumber(s, keys) ==
    1 + Cardinality({q \in DOMAIN keys :
            \/ Ahead(keys[q], keys[s])
            \/ keys[q] = keys[s] /\ q.player < s.player})

\* rank() over (order by ...)
Rank(s, keys) == 1 + Cardinality({q \in DOMAIN keys : Ahead(keys[q], keys[s])})

\* Ties are listed by the player's name; the rows of one player, if a team had
\* two, by crest here.  Each row is where as many rows are before it.
ListedBefore(q, s) == q.player < s.player \/ (q.player = s.player /\ q.crest < s.crest)

Listed(rows, key) ==
    LET before(s) == {q \in rows : \/ Ahead(key[q], key[s])
                                   \/ key[q] = key[s] /\ ListedBefore(q, s)}
    IN  [i \in 1 .. Cardinality(rows) |->
            CHOOSE s \in rows : Cardinality(before(s)) = i - 1]

Leaders(key) ==
    LET list == Listed({s \in DOMAIN key : Rank(s, key) <= MaxRank}, key)
        row(s) == [rank |-> Rank(s, key), player |-> s.player, team |-> s.team,
                   goals |-> Goals(s.of), assists |-> Assists(s.of)]
    IN  [i \in DOMAIN list |-> row(list[i])]

get_top_scorers(con, c, y) ==
    Leaders([s \in ScorerRows(con, c, y) |-> GoalsKey(s.of)])
get_top_assists(con, c, y) ==
    Leaders([s \in ScorerRows(con, c, y) |-> AssistsKey(s.of)])

PlayersListed(t, key) ==
    LET list == Listed({s \in DOMAIN key : s.team = t}, key)
    IN  [i \in DOMAIN list |-> list[i].player]

get_team_scorers(con, t, c, y) ==
    PlayersListed(t, [s \in ScorerRows(con, c, y) |-> GoalsKey(s.of)])

\* Without the goals between the assists and the matches.
get_team_assists(con, t, c, y) ==
    PlayersListed(t, [s \in ScorerRows(con, c, y) |->
                         <<Assists(s.of), - s.of.tally.played, 0>>])

-----------------------------------------------------------------------------
(* Players *)

get_players_directory(con) ==
    UNION {{[player_id |-> p.player_id, team_name |-> n] :
               n \in LeftNames(con, p.team_id)} : p \in con.dim_players}

get_player_bio(con, p) ==
    UNION {{[team_name |-> n] : n \in LeftNames(con, d.team_id)} :
              d \in {e \in con.dim_players : e.player_id = p}}

\* left join dim_competitions, left join dim_seasons: by their keys.
get_player_scoring_history(con, p) ==
    LET orNull(found) == IF found = {} THEN {Null} ELSE found IN
    UNION {{[competition |-> c, season |-> y, goals |-> Goals(s), assists |-> Assists(s)] :
               c \in orNull({d \in con.dim_competitions : d = s.competition}),
               y \in orNull({d.season : d \in {e \in con.dim_seasons :
                                                   e.season = s.season}})} :
              s \in {q \in con.fct_scorers : q.player = p}}

=============================================================================
