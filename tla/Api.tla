-------------------------------- MODULE Api --------------------------------
(***************************************************************************)
(* The HTTP API (backend/main.py, backend/routers): which query answers a   *)
(* request and what becomes of its result, and the pages that a client puts *)
(* together from several answers.                                           *)
(*                                                                         *)
(* A response is a status and a body; a request has the set of responses it *)
(* may get, more than one only where the query cuts its list.  A body holds *)
(* the rows and columns of the query's answer: how records() and record()   *)
(* turn the values of a frame into JSON (backend/serialization.py) is left  *)
(* out.  The cache between handlers and queries is QueryCache.              *)
(***************************************************************************)
EXTENDS Queries

Response(status, body) == [status |-> status, body |-> body]
Ok(body)               == Response(200, body)
NotFound               == Response(404, {})

\* A query that found no row is None; record() takes the first row.
FirstRow(rows, none) == IF rows = {} THEN {none} ELSE {Ok(r) : r \in rows}
Frames(pages)        == {Ok(page) : page \in pages}

-----------------------------------------------------------------------------
(* The routers *)

\* create_app's own route.
competitions(con) == {Ok(get_competitions(con))}

\* The declared return type is dict[str, int]: FastAPI cannot serialize a
\* competition without a season.
current_season(con, c) ==
    IF get_current_season_id(con, c) = Null THEN {Response(500, {})}
    ELSE {Ok(get_current_season_id(con, c))}

match_detail(con, m) == FirstRow(get_match_detail(con, m), NotFound)

LeaguesRouter(con, path, c, y) ==
    CASE path = "seasons"          -> {Ok(get_competition_seasons(con, c))}
      [] path = "current-season"   -> current_season(con, c)
      [] path = "teams-in-season"  -> {Ok(get_teams_in_season(con, c, y))}
      [] path = "standings"        -> {Ok(get_standings(con, c, y))}
      [] path = "reconstructed-standings" -> {Ok(final_standings(con, c, y))}
      [] path = "results"          -> Frames(get_league_recent_results(con, c, y))
      [] path = "fixtures"         -> Frames(get_league_fixtures(con, c, y))
      [] path = "scorers"          -> {Ok(get_top_scorers(con, c, y))}
      [] path = "assists"          -> {Ok(get_top_assists(con, c, y))}
      [] path = "position-history" -> {Ok(get_league_position_history(con, c, y))}

\* A row of the standings, picked by the team's id.
team_stats(con, t, c, y) ==
    LET result == get_standings(con, c, y)
        row == {r \in result.table : r.team_id = t}
    IN  CASE result.message # "" -> {Ok([stats |-> {}, message |-> result.message])}
          [] result.message = "" /\ row = {} ->
                 {Ok([stats |-> {}, message |-> "no stats for this team"])}
          [] OTHER -> {Ok([stats |-> {r}, message |-> ""]) : r \in row}

TeamsRouter(con, path, t, u, c, y) ==
    CASE path = "teams"            -> {Ok(get_teams_for_league(con, c, y))}
      [] path = "teams/all"        -> {Ok(get_current_teams(con))}
      [] path = "form"             -> Frames(get_team_recent_form(con, t))
      [] path = "upcoming"         -> Frames(get_team_upcoming(con, t))
      [] path = "stats"            -> team_stats(con, t, c, y)
      [] path = "team-scorers"     -> {Ok(get_team_scorers(con, t, c, y))}
      [] path = "team-assists"     -> {Ok(get_team_assists(con, t, c, y))}
      [] path = "team-position-history" ->
             {Ok(get_team_position_history(con, t, c, y))}
      [] path = "head-to-head"     -> {Ok(get_head_to_head(t, u))}   \* none is null
      [] path = "head-to-head/matches" -> {Ok(get_head_to_head_matches(con, t, u))}

player_bio(con, p) == FirstRow(get_player_bio(con, p), NotFound)

PlayersRouter(con, path, p) ==
    CASE path = "players"         -> {Ok(get_players_directory(con))}
      [] path = "bio"             -> player_bio(con, p)
      [] path = "scoring-history" -> {Ok(get_player_scoring_history(con, p))}

-----------------------------------------------------------------------------
(* Properties *)

League(con, path, c, y) == {r.body : r \in LeaguesRouter(con, path, c, y)}
Team(con, path, t)      == {r.body : r \in TeamsRouter(con, path, t, Null, "", Null)}

Codes(con) == UNION {r.body : r \in competitions(con)}
Current(con, c) == {r.body : r \in {s \in current_season(con, c) : s.status = 200}}

\* What the listings of the leagues, of each season the picker offers, link to.
LinkedSeasons(con, c) == (UNION League(con, "seasons", c, Null)) \cup Current(con, c)
LinkedMatches(con) ==
    {r.match_id : r \in UNION UNION UNION {
        {League(con, path, c, y) :
            path \in {"results", "fixtures"}, y \in LinkedSeasons(con, c)} :
        c \in Codes(con)}}
LinkedPlayers(con) == {r.player_id : r \in get_players_directory(con)}

\* Exactly one answer, and none of its columns from a team that is not there.
Resolves(responses) == Cardinality(responses) = 1 /\ \A r \in responses : r.status = 200
Named(rows, ids) ==
    /\ {r.team_id : r \in rows} = ids
    /\ \A r, q \in rows : r.team_id = q.team_id => r = q /\ r.team_name # Null

(* Every id that a listing hands out has one answer and every team that one *)
(* shows has one name: the inner joins of the details lose no row and no    *)
(* join doubles one, although squads know neither relegated teams nor       *)
(* former players and the raw rows may name a team twice                    *)
(* (dim_teams.sql, dim_players.sql, routers/leagues.py:57-64).  A table may *)
(* come before the matches of its season, which bring its teams: until then *)
(* the join of get_standings may lose some.                                 *)
LinksResolve ==
    LET con == Tables IN
    /\ \A m \in LinkedMatches(con) : Resolves(match_detail(con, m))
    /\ \A p \in LinkedPlayers(con) : Resolves(player_bio(con, p))
    /\ {s.player : s \in con.fct_scorers} \subseteq LinkedPlayers(con)
    /\ \A c \in Codes(con) : \A y \in LinkedSeasons(con, c) :
          LET sides == get_teams_in_season(con, c, y)
              standing == get_standings(con, c, y).table
          IN  /\ Named(get_teams_for_league(con, c, y), sides)
              /\ standing # {} /\ sides # {} => Named(standing, Entrants(y))
              /\ \A t \in sides :
                    Resolves(TeamsRouter(con, "stats", t, Null, c, y))

StayValid(before, after) ==
    /\ \A m \in LinkedMatches(before) : Resolves(match_detail(after, m))
    /\ \A p \in LinkedPlayers(before) : Resolves(player_bio(after, p))
    /\ \A c \in Codes(before) :
          /\ LinkedSeasons(before, c) \subseteq LinkedSeasons(after, c)
          /\ Current(before, c) # {} => Current(after, c) # {}

(* A link that a page has handed out still resolves after whatever is       *)
(* loaded and rebuilt before it is followed: the newest season moves on,    *)
(* teams and players pass from derived rows to squads, but none is lost.    *)
LinksStayValid ==
    [][\A before \in {Tables}, after \in {Tables'} : StayValid(before, after)]_warehouseVars

(* A player who is in no squad is shown at the most recent team of his      *)
(* scorer rows, as the comment says (dim_players.sql:26-27).  Season ids    *)
(* stand in for dates there, and their order does not follow the calendar   *)
(* from one competition to another (warehouse/queries.py:509-511).          *)
MostRecentTeam ==
    \A d \in {e \in dim_players : e.is_derived} :
        \E s \in scorers :
            /\ s.player = d.player_id /\ s.team = d.team_id
            /\ \A q \in scorers : q.player = d.player_id
                                     => StartDate(q.season) <= StartDate(s.season)

(* The two lists of scorers, of a league and of a team, agree: the league's *)
(* never cuts a group of equals (warehouse/queries.py:371-374), and of each *)
(* team it names the first ones of the team's own list, in that order.      *)
LeadersAgree ==
    LET con == Tables IN
    \A y \in Seasons :
        LET c == CompetitionOf(y)
            top == get_top_scorers(con, c, y)
            shown == {top[i].player : i \in DOMAIN top}
            all == ScorersOf(con, c, y)
        IN  /\ \A s \in {r \in all : r.player \notin shown} :
                  Cardinality({r \in all : Ahead(GoalsKey(r), GoalsKey(s))}) >= MaxRank
            /\ \A i \in DOMAIN top :
                  LET t == top[i].team
                      own == get_team_scorers(con, t, c, y)
                      k == Cardinality({j \in 1 .. i : top[j].team = t})
                  IN  k <= Len(own) /\ own[k] = top[i].player

\* What this rests on in the source's calendar: a team plays one match at a time.
OneMatchAtATime ==
    \A m, n \in MatchIds :
        /\ {Fixtures[m].home, Fixtures[m].away} \cap {Fixtures[n].home, Fixtures[n].away} # {}
        /\ {Fixtures[m].day, Fixtures[m].late} \cap {Fixtures[n].day, Fixtures[n].late} # {}
        => m = n

(* The two panels of the head-to-head page agree: there is a record just    *)
(* when there is a match to list, and it counts as many matches as the list *)
(* has: the record comes from the matches alone, the list through the joins *)
(* for its teams' names (warehouse/queries.py:676-686).                     *)
PanelsAgree ==
    LET con == Tables IN
    \A pair \in {p \in Teams \X Teams : p[1] < p[2]} :
        LET panel(path) == UNION {r.body : r \in
                               TeamsRouter(con, path, pair[1], pair[2], "", Null)}
            record == panel("head-to-head")
            list   == panel("head-to-head/matches")
        IN  /\ (record = {}) <=> (list = {})
            /\ \A r \in record : r.matches_played = Cardinality(list)

(* The form letters in a table and the matches on the team's form tab are   *)
(* the same results: read up to the shorter one's length they are equal,    *)
(* although one counts decided matches per season and the other a page of   *)
(* finished ones over all competitions.                                     *)
FormTabAgrees ==
    LET con == Tables IN
    \A t \in Teams : \A y \in {z \in scheduled : t \in Entrants(z)} :
        LET c == CompetitionOf(y)
            letters == last_5_results(t, c, y, con.fct_team_matches)
        IN  \A page \in Team(con, "form", t) :
               LET sides == {r.side : r \in page}
                   shown == InOrder({r \in Decided(sides) : r.season = y})
               IN  IsSuffix(shown, letters) \/ IsSuffix(letters, shown)

(* Four queries decide by themselves which season is current; they agree:   *)
(* the team search, a team's competitions, the league pages that ask for    *)
(* current-season first, and the comparison of leagues.                     *)
SeasonPagesAgree ==
    LET con == Tables
        everyone == get_current_teams(con)
        onLeaguePages == UNION {get_teams_for_league(con, c, get_current_season_id(con, c)) :
                                   c \in Codes(con)}
    IN  /\ everyone = onLeaguePages
        /\ \A t \in Teams : (get_team_competitions(con, t) # {})
                              <=> t \in {r.team_id : r \in everyone}
        /\ \A r \in get_cross_league_stats(con) :
              r.stats = mart_cross_league_stats(r.competition,
                            get_current_season_id(con, r.competition), con.fct_team_matches)

=============================================================================
