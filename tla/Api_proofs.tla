----------------------------- MODULE Api_proofs -----------------------------
(***************************************************************************)
(* Proofs about the raw tables over the nights and the pages of the API,    *)
(* for every set of fixtures, players and tallies and every number of       *)
(* loads.                                                                   *)
(***************************************************************************)
EXTENDS Api, Marts_proofs, SequenceTheorems

-----------------------------------------------------------------------------
(* The raw tables *)

LEMMA SeasonFacts ==
    ASSUME NEW y \in Seasons
    PROVE  /\ y \in Nat /\ y # Null /\ y \in Int
           /\ CompetitionOf(y) \in Competitions
           /\ Entrants(y) \subseteq Teams /\ Entrants(y) # {}
           /\ \A m \in MatchesOf(y) :
                 m \in MatchIds /\ Fixtures[m].competition = CompetitionOf(y)
<1>1. PICK m \in MatchIds : Fixtures[m].season = y
  BY DEF Seasons
<1>2. m \in MatchesOf(y) /\ y \in Nat \ {0}
  BY <1>1, FixtureTypes DEF MatchesOf
<1> DEFINE f == CHOOSE f \in {Fixtures[n] : n \in MatchesOf(y)} : TRUE
<1>3. f \in {Fixtures[n] : n \in MatchesOf(y)}
  BY <1>2
<1>4. PICK k \in MatchesOf(y) : f = Fixtures[k]
  BY <1>3
<1>5. CompetitionOf(y) = Fixtures[k].competition
  BY <1>4 DEF CompetitionOf
<1>6. \A n \in MatchesOf(y) : n \in MatchIds /\ Fixtures[n].season = y
  BY DEF MatchesOf
<1>7. \A n \in MatchesOf(y) : Fixtures[n].competition = CompetitionOf(y)
  BY <1>4, <1>5, <1>6, WarehouseAssumption
<1>8. CompetitionOf(y) \in Competitions
  BY <1>1, <1>2, <1>7 DEF Competitions
<1>9. Entrants(y) \subseteq Teams /\ Fixtures[m].home \in Entrants(y)
  BY <1>2, <1>6 DEF Entrants, Teams
<1> QED BY <1>2, <1>6, <1>7, <1>8, <1>9 DEF Null

LEMMA WarehouseStart == WarehouseInit => WarehouseTypeOK
<1> SUFFICES ASSUME WarehouseInit PROVE WarehouseTypeOK
  OBVIOUS
<1>1. TypeOK
  <2>1. /\ DOMAIN matches = MatchIds
        /\ \A m \in MatchIds :
              \/ matches[m] = AsPlanned(m)
              \/ matches[m] = Row("FINISHED", WinnerOf(AScore(m)), AScore(m), Fixtures[m].day)
    BY DEF WarehouseInit
  <2>2. \A m \in MatchIds : matches[m] \in {AsPlanned(m)} \cup PlayedRows(m)
    BY <2>1, FixtureTypes DEF PlayedRows
  <2>3. Unusual(matches) = {}
    <3>1. \A m \in MatchIds : AScore(m) # <<>>
      BY FixtureTypes
    <3> QED BY <2>1, <3>1 DEF Unusual, AsPlanned, Row
  <2>4. Cardinality(Unusual(matches)) = 0 /\ MaxUnusual \in Nat
    BY <2>3, FS_EmptySet, FixturesAssumption
  <2> QED BY <2>1, <2>2, <2>4, StatusStaged DEF TypeOK, fct_matches
<1>2. /\ scheduled \subseteq seasons /\ seasons \subseteq Seasons
      /\ teams = {} /\ scorers = {} /\ standings = {}
      /\ names \in [Teams -> {{OldName}, {OldName, CurrentName}}]
      /\ players \in [Players -> teams \cup {Null}]
      /\ loads \in 0 .. MaxLoads
  BY WarehouseAssumption DEF WarehouseInit
<1>3. IsFiniteSet(scorers)
  BY <1>2, FS_EmptySet
<1> QED BY <1>1, <1>2, <1>3 DEF WarehouseTypeOK

\* The parts of WarehouseTypeOK.
Refer ==
    /\ scheduled \subseteq seasons /\ seasons \subseteq Seasons
    /\ teams \subseteq Teams
    /\ names \in [Teams -> {{OldName}, {OldName, CurrentName}}]
    /\ players \in [Players -> teams \cup {Null}]

ScorersOK ==
    /\ scorers \subseteq [competition : Competitions, season : seasons,
                         player : Players, team : Teams, tally : Tallies]
    /\ \A s \in scorers : s.competition = CompetitionOf(s.season)
                         /\ s.team \in Entrants(s.season)
    /\ \A r, s \in scorers : r.season = s.season /\ r.player = s.player => r = s
    /\ IsFiniteSet(scorers)

StandingsOK ==
    /\ standings \subseteq [competition : Competitions, season : seasons, team : Teams,
                           date : Nat, stage : UNION {Stages[y] : y \in seasons}]
    /\ \A s \in standings :
          /\ s.competition = CompetitionOf(s.season)
          /\ {r \in standings : r.season = s.season /\ r.date = s.date}
                = {[s EXCEPT !.team = t] : t \in Entrants(s.season)}

(* A row of scorers replaces the one of the same season and player.         *)
LEMMA ScorerLoaded ==
    ASSUME WarehouseTypeOK, NEW y \in Seasons, NEW p \in Players, LoadScorer(y, p)
    PROVE  ScorersOK'
<1>1. PICK t \in Entrants(y), tally \in Tallies :
         scorers' = {s \in scorers : <<s.season, s.player>> # <<y, p>>}
                     \cup {[competition |-> CompetitionOf(y), season |-> y,
                            player |-> p, team |-> t, tally |-> tally]}
  BY DEF LoadScorer
<1> DEFINE new == [competition |-> CompetitionOf(y), season |-> y,
                   player |-> p, team |-> t, tally |-> tally]
<1>2. y \in seasons /\ seasons' = seasons
  BY DEF LoadScorer
<1>3. /\ new \in [competition : Competitions, season : seasons,
                  player : Players, team : Teams, tally : Tallies]
      /\ new.competition = CompetitionOf(new.season) /\ new.team \in Entrants(new.season)
      /\ new.season = y /\ new.player = p
  BY <1>2, SeasonFacts
<1>4. \A s \in scorers' : s = new \/ (s \in scorers /\ <<s.season, s.player>> # <<y, p>>)
  BY <1>1
<1>5. /\ scorers \subseteq [competition : Competitions, season : seasons,
                           player : Players, team : Teams, tally : Tallies]
      /\ \A s \in scorers : s.competition = CompetitionOf(s.season)
                            /\ s.team \in Entrants(s.season)
      /\ \A r, s \in scorers : r.season = s.season /\ r.player = s.player => r = s
  BY DEF WarehouseTypeOK
<1> HIDE DEF new
<1>6. scorers' \subseteq [competition : Competitions, season : seasons,
                         player : Players, team : Teams, tally : Tallies]
  BY <1>3, <1>4, <1>5
<1>7. \A s \in scorers' : s.competition = CompetitionOf(s.season)
                          /\ s.team \in Entrants(s.season)
  BY <1>3, <1>4, <1>5
<1>8. \A r, s \in scorers' : r.season = s.season /\ r.player = s.player => r = s
  BY <1>3, <1>4, <1>5
<1>9. IsFiniteSet(scorers')
  <2> DEFINE kept == {s \in scorers : <<s.season, s.player>> # <<y, p>>}
  <2>1. IsFiniteSet(scorers)
    BY DEF WarehouseTypeOK
  <2>2. scorers' = kept \cup {new} /\ kept \in SUBSET scorers
    BY <1>1 DEF new
  <2> HIDE DEF kept, new
  <2>3. IsFiniteSet(kept)
    BY <2>1, <2>2, FS_Subset
  <2> QED BY <2>2, <2>3, FS_AddElement
<1> QED BY <1>2, <1>6, <1>7, <1>8, <1>9 DEF ScorersOK

(* Today's table replaces the one of an earlier load of the day as a whole. *)
LEMMA StandingsLoaded ==
    ASSUME WarehouseTypeOK, NEW y \in Seasons, LoadStandings(y)
    PROVE  StandingsOK'
<1>1. PICK stage \in Stages[y], today \in {loads, loads + 1} :
         standings' = {s \in standings : <<s.season, s.date>> # <<y, today>>}
                       \cup {[competition |-> CompetitionOf(y), season |-> y,
                              team |-> t, date |-> today, stage |-> stage] :
                                 t \in Entrants(y)}
  BY DEF LoadStandings
<1> DEFINE row(t) == [competition |-> CompetitionOf(y), season |-> y,
                      team |-> t, date |-> today, stage |-> stage]
           TableOf(s) == {r \in standings : r.season = s.season /\ r.date = s.date}
           all == [competition : Competitions, season : seasons, team : Teams,
                   date : Nat, stage : UNION {Stages[z] : z \in seasons}]
<1>2. y \in seasons /\ seasons' = seasons /\ today \in Nat
  <2>1. loads \in Nat
    BY DEF WarehouseTypeOK
  <2> QED BY <2>1 DEF LoadStandings
<1>3. \A t \in Entrants(y) : row(t) \in all
  BY <1>2, SeasonFacts
<1>4. /\ standings \subseteq all
      /\ \A s \in standings :
            /\ s.competition = CompetitionOf(s.season)
            /\ TableOf(s) = {[s EXCEPT !.team = t] : t \in Entrants(s.season)}
  BY DEF WarehouseTypeOK
<1>5. \A s : s \in standings' <=> \/ s \in standings /\ <<s.season, s.date>> # <<y, today>>
                                  \/ \E t \in Entrants(y) : s = row(t)
  BY <1>1
<1>6. \A t : row(t).season = y /\ row(t).date = today /\ row(t).competition = CompetitionOf(y)
  OBVIOUS
<1>7. \A t, u : [row(t) EXCEPT !.team = u] = row(u)
  OBVIOUS
<1> HIDE DEF row, all
<1>8. standings' \subseteq all
  BY <1>3, <1>4, <1>5
<1>9. ASSUME NEW s \in standings'
      PROVE  /\ s.competition = CompetitionOf(s.season)
             /\ {r \in standings' : r.season = s.season /\ r.date = s.date}
                   = {[s EXCEPT !.team = t] : t \in Entrants(s.season)}
  <2>1. CASE s \in standings /\ <<s.season, s.date>> # <<y, today>>
    <3>1. {r \in standings' : r.season = s.season /\ r.date = s.date} = TableOf(s)
      BY <1>5, <1>6, <2>1
    <3> QED BY <1>4, <2>1, <3>1
  <2>2. CASE \E t \in Entrants(y) : s = row(t)
    <3>1. s.season = y /\ s.date = today /\ s.competition = CompetitionOf(y)
      BY <1>6, <2>2
    <3>2. {r \in standings' : r.season = s.season /\ r.date = s.date}
            = {row(u) : u \in Entrants(y)}
      BY <1>5, <1>6, <3>1
    <3>3. \A u : [s EXCEPT !.team = u] = row(u)
      BY <1>7, <2>2
    <3> QED BY <3>1, <3>2, <3>3
  <2> QED BY <1>5, <2>1, <2>2
<1> QED BY <1>2, <1>8, <1>9 DEF StandingsOK, all

(* Loading more seasons and stages leaves the rows right.            *)
LEMMA RowsStayRight ==
    ASSUME WarehouseTypeOK, seasons \subseteq seasons'
    PROVE  /\ scorers' = scorers => ScorersOK'
           /\ standings' = standings => StandingsOK'
<1>1. ASSUME scorers' = scorers PROVE ScorersOK'
  <2>1. scorers \subseteq [competition : Competitions, season : seasons',
                           player : Players, team : Teams, tally : Tallies]
    BY DEF WarehouseTypeOK
  <2> QED BY <1>1, <2>1 DEF WarehouseTypeOK, ScorersOK
<1>2. ASSUME standings' = standings PROVE StandingsOK'
  <2>1. UNION {Stages[y] : y \in seasons} \subseteq UNION {Stages[y] : y \in seasons'}
    OBVIOUS
  <2>2. standings \subseteq [competition : Competitions, season : seasons', team : Teams,
                             date : Nat, stage : UNION {Stages[y] : y \in seasons'}]
    BY <2>1 DEF WarehouseTypeOK
  <2> QED BY <1>2, <2>2 DEF WarehouseTypeOK, StandingsOK
<1> QED BY <1>1, <1>2

LEMMA MatchLoaded ==
    ASSUME TypeOK, NEW m \in MatchIds, Play(m) \/ Disrupt(m) \/ Replan(m)
    PROVE  TypeOK'
BY MatchStepTyped

LEMMA MatchesKept == ASSUME TypeOK, UNCHANGED matches PROVE TypeOK'
BY DEF TypeOK, fct_matches, Unusual

LEMMA WarehouseStep == WarehouseTypeOK /\ [WarehouseNext]_warehouseVars => WarehouseTypeOK'
<1> SUFFICES ASSUME WarehouseTypeOK, [WarehouseNext]_warehouseVars
             PROVE  WarehouseTypeOK'
  OBVIOUS
<1>1. /\ TypeOK /\ loads \in 0 .. MaxLoads
      /\ scheduled \subseteq seasons /\ seasons \subseteq Seasons
      /\ teams \subseteq Teams
      /\ names \in [Teams -> {{OldName}, {OldName, CurrentName}}]
      /\ players \in [Players -> teams \cup {Null}]
  BY DEF WarehouseTypeOK
<1>2. CASE UNCHANGED warehouseVars
  <2>1. /\ UNCHANGED matches /\ UNCHANGED loads
        /\ UNCHANGED <<seasons, scheduled, teams, names, players, scorers, standings>>
    BY <1>2 DEF warehouseVars, rawTables
  <2>2. TypeOK' /\ ScorersOK' /\ StandingsOK'
    BY <1>1, <2>1, MatchesKept, RowsStayRight
  <2> QED BY <1>1, <2>1, <2>2 DEF WarehouseTypeOK, ScorersOK, StandingsOK
<1>3. CASE WarehouseNext
  <2>0. loads' \in 0 .. MaxLoads
    BY <1>1, <1>3, WarehouseAssumption DEF WarehouseNext
  <2>1. ASSUME NEW y \in Seasons, LoadSeason(y)
        PROVE  TypeOK' /\ Refer' /\ ScorersOK' /\ StandingsOK'
    <3>1. TypeOK' /\ ScorersOK' /\ StandingsOK'
      BY <1>1, <2>1, MatchesKept, RowsStayRight DEF LoadSeason
    <3> QED BY <1>1, <2>1, <3>1 DEF LoadSeason, Refer
  <2>2. ASSUME NEW y \in Seasons, LoadMatches(y)
        PROVE  TypeOK' /\ Refer' /\ ScorersOK' /\ StandingsOK'
    <3>1. TypeOK' /\ ScorersOK' /\ StandingsOK'
      BY <1>1, <2>2, MatchesKept, RowsStayRight DEF LoadMatches
    <3> QED BY <1>1, <2>2, <3>1 DEF LoadMatches, Refer
  <2>3. ASSUME NEW y \in Seasons, LoadTeams(y)
        PROVE  TypeOK' /\ Refer' /\ ScorersOK' /\ StandingsOK'
    <3>1. TypeOK' /\ ScorersOK' /\ StandingsOK'
      BY <1>1, <2>3, MatchesKept, RowsStayRight DEF LoadTeams
    <3>2. Entrants(y) \subseteq Teams
      BY SeasonFacts
    <3> QED BY <1>1, <2>3, <3>1, <3>2 DEF LoadTeams, Refer
  <2>4. ASSUME NEW y \in Seasons, LoadStandings(y)
        PROVE  TypeOK' /\ Refer' /\ ScorersOK' /\ StandingsOK'
    <3>1. TypeOK' /\ ScorersOK'
      BY <1>1, <2>4, MatchesKept, RowsStayRight DEF LoadStandings
    <3>2. StandingsOK'
      BY <2>4, StandingsLoaded
    <3> QED BY <1>1, <2>4, <3>1, <3>2 DEF LoadStandings, Refer
  <2>5. ASSUME NEW m \in MatchIds, LoadMatch(m)
        PROVE  TypeOK' /\ Refer' /\ ScorersOK' /\ StandingsOK'
    <3>1. TypeOK'
      BY <1>1, <2>5, MatchLoaded DEF LoadMatch
    <3>2. ScorersOK' /\ StandingsOK'
      BY <2>5, RowsStayRight DEF LoadMatch
    <3> QED BY <1>1, <2>5, <3>1, <3>2 DEF LoadMatch, Refer
  <2>6. ASSUME NEW t \in Teams, Rename(t)
        PROVE  TypeOK' /\ Refer' /\ ScorersOK' /\ StandingsOK'
    <3>1. TypeOK' /\ ScorersOK' /\ StandingsOK'
      BY <1>1, <2>6, MatchesKept, RowsStayRight DEF Rename
    <3>2. names' \in [Teams -> {{OldName}, {OldName, CurrentName}}]
      BY <1>1, <2>6 DEF Rename
    <3> QED BY <1>1, <2>6, <3>1, <3>2 DEF Rename, Refer
  <2>7. ASSUME NEW p \in Players, LoadPlayer(p)
        PROVE  TypeOK' /\ Refer' /\ ScorersOK' /\ StandingsOK'
    <3>1. TypeOK' /\ ScorersOK' /\ StandingsOK'
      BY <1>1, <2>7, MatchesKept, RowsStayRight DEF LoadPlayer
    <3>2. players' \in [Players -> teams \cup {Null}]
      BY <1>1, <2>7 DEF LoadPlayer
    <3> QED BY <1>1, <2>7, <3>1, <3>2 DEF LoadPlayer, Refer
  <2>8. ASSUME NEW y \in Seasons, NEW p \in Players, LoadScorer(y, p)
        PROVE  TypeOK' /\ Refer' /\ ScorersOK' /\ StandingsOK'
    <3>1. TypeOK' /\ StandingsOK'
      BY <1>1, <2>8, MatchesKept, RowsStayRight DEF LoadScorer
    <3>2. ScorersOK'
      BY <2>8, ScorerLoaded
    <3> QED BY <1>1, <2>8, <3>1, <3>2 DEF LoadScorer, Refer
  <2>9. TypeOK' /\ Refer' /\ ScorersOK' /\ StandingsOK'
    BY <1>3, <2>1, <2>2, <2>3, <2>4, <2>5, <2>6, <2>7, <2>8 DEF WarehouseNext
  <2> QED BY <2>0, <2>9 DEF WarehouseTypeOK, Refer, ScorersOK, StandingsOK
<1> QED BY <1>2, <1>3

(* The raw tables refer to each other as the marts and pages take for       *)
(* granted, after every sequence of loads: scorers have one row per season, *)
(* and the table of a day is whole.                                         *)
THEOREM WarehouseTyped == WarehouseSpec => []WarehouseTypeOK
BY WarehouseStart, WarehouseStep, PTL DEF WarehouseSpec

-----------------------------------------------------------------------------
(* The dimensions *)

\* The teams that have a row in dim_teams.
KnownTeams ==
    teams \cup (UNION {Entrants(y) : y \in scheduled}) \cup {s.team : s \in scorers}

LEMMA TableColumns ==
    /\ Tables.dim_competitions = Competitions
    /\ Tables.dim_seasons = {[season |-> y, competition |-> CompetitionOf(y)] : y \in seasons}
    /\ Tables.dim_teams = dim_teams /\ Tables.dim_players = dim_players
    /\ Tables.fct_matches = {[match_id |-> m, match |-> fct_matches(m)] :
                                m \in UNION {MatchesOf(y) : y \in scheduled}}
    /\ Tables.fct_team_matches = {r \in fct_team_matches : r.season \in scheduled}
    /\ Tables.fct_scorers = scorers /\ Tables.fct_standings_snapshot = standings
BY DEF Tables

\* The two kinds of rows of a dimension: of the squads, and derived.
CurrentTeam(t)   == TeamRow(t, CurrentName, FALSE)
DerivedTeam(o)   == TeamRow(o.team_id, o.team_name, TRUE)
SquadPlayer(p)   == PlayerRow(p, players[p], FALSE)
DerivedPlayer(s) == PlayerRow(s.player, s.team, TRUE)

LEMMA RowColumns ==
    /\ \A t : CurrentTeam(t).team_id = t /\ CurrentTeam(t).team_name = CurrentName
    /\ \A o : DerivedTeam(o).team_id = o.team_id /\ DerivedTeam(o).team_name = o.team_name
    /\ \A p : SquadPlayer(p).player_id = p /\ SquadPlayer(p).team_id = players[p]
    /\ \A s : DerivedPlayer(s).player_id = s.player /\ DerivedPlayer(s).team_id = s.team
<1>1. \A t : CurrentTeam(t).team_id = t /\ CurrentTeam(t).team_name = CurrentName
  BY DEF CurrentTeam, TeamRow
<1>2. \A o : DerivedTeam(o).team_id = o.team_id /\ DerivedTeam(o).team_name = o.team_name
  BY DEF DerivedTeam, TeamRow
<1>3. \A p : SquadPlayer(p).player_id = p /\ SquadPlayer(p).team_id = players[p]
  BY DEF SquadPlayer, PlayerRow
<1>4. \A s : DerivedPlayer(s).player_id = s.player /\ DerivedPlayer(s).team_id = s.team
  BY DEF DerivedPlayer, PlayerRow
<1> QED BY <1>1, <1>2, <1>3, <1>4

(* Every team that a match or a scorer names has one row, the one of the    *)
(* squads if there is one.                                                  *)
LEMMA OneNamePerTeam ==
    ASSUME WarehouseTypeOK, NEW t \in KnownTeams
    PROVE  Names(Tables, t) = {IF t \in teams THEN CurrentName ELSE OldName}
<1> DEFINE A == (UNION {Entrants(y) : y \in scheduled}) \cup {s.team : s \in scorers}
           observed == {o \in [team_id : A, team_name : {OldName, CurrentName}] :
                           o.team_name \in names[o.team_id]}
           kept == {q \in observed : q.team_id \notin teams /\ FirstName(q, observed)}
           derived == {DerivedTeam(o) : o \in kept}
           current == {CurrentTeam(u) : u \in teams}
<1>1. Names(Tables, t) = {d.team_name : d \in {e \in current \cup derived : e.team_id = t}}
  <2>1. dim_teams = current \cup derived
    BY Zenon DEF dim_teams, CurrentTeam, DerivedTeam
  <2> HIDE DEF current, derived
  <2> QED BY <2>1, TableColumns DEF Names
<1>3. CASE t \in teams
  <2>1. \A d \in current : d.team_id = t => d.team_name = CurrentName
    BY RowColumns
  <2>2. \A d \in derived : d.team_id \notin teams
    <3> HIDE DEF observed
    <3> QED BY RowColumns
  <2>3. CurrentTeam(t) \in current
    BY <1>3
  <2> HIDE DEF current, derived
  <2> QED BY <1>1, RowColumns, <1>3, <2>1, <2>2, <2>3
<1>4. CASE t \notin teams
  <2>1. t \in A /\ A \subseteq Teams
    <3>1. scheduled \subseteq Seasons
      BY DEF WarehouseTypeOK
    <3>2. \A y \in scheduled : Entrants(y) \subseteq Teams
      BY <3>1, SeasonFacts
    <3>3. \A s \in scorers : s.team \in Teams
      BY DEF WarehouseTypeOK
    <3> QED BY <1>4, <3>2, <3>3 DEF KnownTeams
  <2> HIDE DEF A
  <2>2. names[t] \in {{OldName}, {OldName, CurrentName}}
    BY <2>1 DEF WarehouseTypeOK
  <2> DEFINE old == [team_id |-> t, team_name |-> OldName]
  <2>3. old \in observed
    BY <2>1, <2>2
  <2>4. \A o \in observed : o.team_id = t => o.team_name \in {OldName, CurrentName}
    OBVIOUS
  <2>5. FirstName(old, observed)
    <3> HIDE DEF observed
    <3> QED BY <2>4 DEF FirstName, OldName, CurrentName
  <2>6. \A o \in observed : o.team_id = t /\ FirstName(o, observed) => o.team_name = OldName
    <3> SUFFICES ASSUME NEW o \in observed, o.team_id = t, FirstName(o, observed)
                 PROVE  o.team_name = OldName
      OBVIOUS
    <3>1. old.team_id = t /\ old.team_name = OldName
      OBVIOUS
    <3> HIDE DEF observed, old
    <3>2. OldName <= o.team_name
      BY <3>1, <2>3, <2>4 DEF OldName, CurrentName
    <3>3. o.team_name <= OldName
      BY <2>3, <3>1 DEF FirstName
    <3> QED BY <2>4, <3>2, <3>3 DEF OldName, CurrentName
  <2>7. DerivedTeam(old) \in derived
    <3>1. old.team_id = t
      OBVIOUS
    <3> HIDE DEF observed, old
    <3> QED BY <1>4, <2>3, <2>5, <3>1
  <2>8. \A d \in derived : d.team_id = t => d.team_name = OldName
    <3> HIDE DEF observed
    <3> QED BY RowColumns, <2>6
  <2>9. \A d \in current : d.team_id # t
    BY RowColumns, <1>4
  <2>10. DerivedTeam(old).team_id = t /\ DerivedTeam(old).team_name = OldName
    BY RowColumns
  <2> HIDE DEF current, derived, old
  <2> QED BY <1>1, <1>4, <2>7, <2>8, <2>9, <2>10
<1> QED BY <1>3, <1>4

LEMMA NamesOfKnown ==
    ASSUME WarehouseTypeOK, NEW t \in KnownTeams
    PROVE  \E n \in {OldName, CurrentName} :
              Names(Tables, t) = {n} /\ LeftNames(Tables, t) = {n}
BY OneNamePerTeam DEF LeftNames

\* No other team has a row.
LEMMA AtMostOneName ==
    ASSUME WarehouseTypeOK, NEW t
    PROVE  \A n \in Names(Tables, t), k \in Names(Tables, t) : n = k
<1> DEFINE A == (UNION {Entrants(y) : y \in scheduled}) \cup {s.team : s \in scorers}
           observed == {o \in [team_id : A, team_name : {OldName, CurrentName}] :
                           o.team_name \in names[o.team_id]}
           kept == {q \in observed : q.team_id \notin teams /\ FirstName(q, observed)}
           derived == {DerivedTeam(o) : o \in kept}
           current == {CurrentTeam(u) : u \in teams}
<1>1. dim_teams = current \cup derived
  BY Zenon DEF dim_teams, CurrentTeam, DerivedTeam
<1>2. \A d \in current : d.team_id \in KnownTeams
  BY RowColumns DEF KnownTeams
<1>3. \A d \in derived : d.team_id \in KnownTeams
  <2>1. A \subseteq KnownTeams
    BY DEF KnownTeams
  <2>2. \A o \in kept : o.team_id \in A
    OBVIOUS
  <2> HIDE DEF A, kept
  <2> QED BY RowColumns, <2>1, <2>2
<1> HIDE DEF current, derived
<1>4. Names(Tables, t) # {} => t \in KnownTeams
  BY <1>1, <1>2, <1>3, TableColumns DEF Names
<1> QED BY <1>4, NamesOfKnown

LEMMA EntrantsKnown ==
    ASSUME WarehouseTypeOK, NEW y \in scheduled
    PROVE  /\ Entrants(y) \subseteq KnownTeams
           /\ y \in seasons /\ y \in Seasons /\ y \in Int /\ y # Null
           /\ CompetitionOf(y) \in Competitions
<1>1. y \in seasons /\ y \in Seasons
  BY DEF WarehouseTypeOK
<1> QED BY <1>1, SeasonFacts DEF KnownTeams

(* Every player of a squad and every scorer has one row in dim_players.     *)
LEMMA OneRowPerPlayer ==
    ASSUME WarehouseTypeOK, NEW p \in Players,
           players[p] # Null \/ \E s \in scorers : s.player = p
    PROVE  \E d \in dim_players : /\ d.team_id \in KnownTeams
                                  /\ {e \in dim_players : e.player_id = p} = {d}
<1> DEFINE missing == {s \in scorers : players[s.player] = Null}
           squads == {SquadPlayer(q) : q \in {r \in Players : players[r] # Null}}
           derived == {DerivedPlayer(s) : s \in {q \in missing : Newest(q, missing)}}
           mine == {s \in scorers : s.player = p}
<1>1. dim_players = squads \cup derived
  BY Zenon DEF dim_players, SquadPlayer, DerivedPlayer
<1>3. CASE players[p] # Null
  <2> DEFINE d == SquadPlayer(p)
  <2>1. d \in squads /\ d.player_id = p /\ d.team_id = players[p]
    BY RowColumns, <1>3
  <2>2. players[p] \in KnownTeams
    BY <1>3 DEF WarehouseTypeOK, KnownTeams
  <2>3. \A e \in squads : e.player_id = p => e = d
    BY RowColumns
  <2>4. \A e \in derived : e.player_id # p
    <3>1. \A s \in missing : players[s.player] = Null
      OBVIOUS
    <3> HIDE DEF missing
    <3> QED BY RowColumns, <1>3, <3>1
  <2> HIDE DEF squads, derived, d
  <2> QED BY <1>1, <2>1, <2>2, <2>3, <2>4
<1>4. CASE players[p] = Null
  <2>1. mine # {} /\ mine \subseteq missing
    BY <1>4
  <2> DEFINE years == {s.season : s \in mine}
             ys == [y \in years |-> CHOOSE s \in mine : s.season = y]
  <2>2. years \subseteq seasons /\ years # {} /\ seasons \subseteq Int
    <3>1. \A s \in scorers : s.season \in seasons
      BY DEF WarehouseTypeOK
    <3>2. \A y \in seasons : y \in Int
      BY SeasonFacts DEF WarehouseTypeOK
    <3> QED BY <2>1, <3>1, <3>2
  <2>3. IsFiniteSet(years)
    <3>1. IsFiniteSet(Seasons)
      BY KeysFinite
    <3>2. years \subseteq Seasons
      BY <2>2 DEF WarehouseTypeOK
    <3> HIDE DEF years
    <3> QED BY <3>1, <3>2, FS_Subset
  <2> DEFINE last == Max(years)
  <2>4. last \in years /\ \A y \in years : y <= last
    <3> HIDE DEF years
    <3> QED BY <2>2, <2>3, MaxExists
  <2>5. PICK s \in mine : s.season = last
    BY <2>4
  <2> HIDE DEF last
  <2>6. Newest(s, missing)
    BY <2>4, <2>5 DEF Newest
  <2>7. ASSUME NEW q \in missing, q.player = p, Newest(q, missing)
        PROVE  q = s
    <3>1. s.season <= q.season
      BY <2>1, <2>5, <2>7 DEF Newest
    <3>2. q \in mine /\ q.season <= last
      BY <2>4, <2>7
    <3>3. q.season \in Int /\ s.season \in Int
      BY <2>2, <2>5, <3>2
    <3>4. q.season = s.season
      BY <2>5, <3>1, <3>2, <3>3
    <3> QED BY <2>5, <3>2, <3>4 DEF WarehouseTypeOK
  <2> DEFINE d == DerivedPlayer(s)
  <2>8. d \in derived /\ d.player_id = p /\ d.team_id = s.team
    BY RowColumns, <2>1, <2>5, <2>6
  <2>9. s.team \in KnownTeams
    BY <2>5 DEF KnownTeams
  <2>10. \A e \in derived : e.player_id = p => e = d
    <3> HIDE DEF missing
    <3> QED BY RowColumns, <2>7
  <2>11. \A e \in squads : e.player_id # p
    BY RowColumns, <1>4
  <2> HIDE DEF squads, derived, d
  <2> QED BY <1>1, <2>8, <2>9, <2>10, <2>11
<1> QED BY <1>3, <1>4

LEMMA PlayersOfRows ==
    ASSUME WarehouseTypeOK, NEW d \in dim_players
    PROVE  /\ d.player_id \in Players
           /\ players[d.player_id] # Null \/ \E s \in scorers : s.player = d.player_id
<1> DEFINE missing == {s \in scorers : players[s.player] = Null}
           squads == {SquadPlayer(q) : q \in {r \in Players : players[r] # Null}}
           derived == {DerivedPlayer(s) : s \in {q \in missing : Newest(q, missing)}}
<1>1. \A s \in scorers : s.player \in Players
  BY DEF WarehouseTypeOK
<1>2. d \in squads \cup derived
  BY Zenon DEF dim_players, SquadPlayer, DerivedPlayer
<1>3. CASE d \in squads
  BY <1>3, RowColumns
<1>4. CASE d \in derived
  <2>1. \A s \in missing : s \in scorers
    OBVIOUS
  <2> HIDE DEF missing
  <2> QED BY <1>1, <1>4, <2>1, RowColumns
<1> QED BY <1>2, <1>3, <1>4

-----------------------------------------------------------------------------
(* The routers *)

LEMMA Bodies ==
    /\ \A x : Ok(x).body = x /\ Ok(x).status = 200
    /\ \A x : {r.body : r \in {Ok(x)}} = {x}
    /\ \A pages : {r.body : r \in Frames(pages)} = pages
<1>1. \A x : Ok(x).body = x /\ Ok(x).status = 200
  BY DEF Ok, Response
<1>2. ASSUME NEW pages PROVE {r.body : r \in Frames(pages)} = pages
  <2>1. {r.body : r \in Frames(pages)} = {Ok(x).body : x \in pages}
    BY Zenon DEF Frames
  <2>2. {Ok(x).body : x \in pages} = pages
    BY <1>1
  <2> QED BY <2>1, <2>2
<1> QED BY <1>1, <1>2

LEMMA LeagueRoutes ==
    ASSUME NEW con, NEW c, NEW y
    PROVE  /\ League(con, "seasons", c, y) = {get_competition_seasons(con, c)}
           /\ League(con, "results", c, y) = get_league_recent_results(con, c, y)
           /\ League(con, "fixtures", c, y) = get_league_fixtures(con, c, y)
<1>1. LeaguesRouter(con, "seasons", c, y) = {Ok(get_competition_seasons(con, c))}
  BY Zenon DEF LeaguesRouter
<1>2. LeaguesRouter(con, "results", c, y) = Frames(get_league_recent_results(con, c, y))
  BY Zenon DEF LeaguesRouter
<1>3. LeaguesRouter(con, "fixtures", c, y) = Frames(get_league_fixtures(con, c, y))
  BY Zenon DEF LeaguesRouter
<1> QED BY <1>1, <1>2, <1>3, Bodies, Zenon DEF League

LEMMA TeamRoutes ==
    ASSUME NEW con, NEW t, NEW u, NEW c, NEW y
    PROVE  /\ TeamsRouter(con, "stats", t, u, c, y) = team_stats(con, t, c, y)
           /\ Team(con, "form", t) = get_team_recent_form(con, t)
<1>1. TeamsRouter(con, "stats", t, u, c, y) = team_stats(con, t, c, y)
  BY Zenon DEF TeamsRouter
<1>2. TeamsRouter(con, "form", t, Null, "", Null) = Frames(get_team_recent_form(con, t))
  BY Zenon DEF TeamsRouter
<1> QED BY <1>1, <1>2, Bodies, Zenon DEF Team

LEMMA PagesAreCut ==
    ASSUME NEW rows
    PROVE  /\ \A page \in Soonest(rows) : page \subseteq rows
           /\ \A page \in MostRecent(rows) : page \subseteq rows
BY DEF Soonest, MostRecent, Cut, kSubset

LEMMA MatchPages ==
    ASSUME NEW con, NEW c, NEW y, NEW path \in {"results", "fixtures"},
           NEW page \in League(con, path, c, y), NEW r \in page
    PROVE  \E f \in con.fct_matches : r.match_id = f.match_id
<1> DEFINE of(statuses) == {f \in MatchesIn(con, c, y) : f.match.status \in statuses}
<1>1. PICK statuses : r \in MatchRows(con, of(statuses))
  <2>1. CASE path = "results"
    <3>1. page \in MostRecent(MatchRows(con, of(FinishedStatuses)))
      BY <2>1, LeagueRoutes, Zenon DEF get_league_recent_results
    <3> QED BY <3>1, PagesAreCut, Zenon
  <2>2. CASE path = "fixtures"
    <3>1. page \in Soonest(MatchRows(con, of(UpcomingStatuses)))
      BY <2>2, LeagueRoutes, Zenon DEF get_league_fixtures
    <3> QED BY <3>1, PagesAreCut, Zenon
  <2> QED BY <2>1, <2>2
<1>2. of(statuses) \subseteq con.fct_matches
  BY DEF MatchesIn
<1> QED BY <1>1, <1>2 DEF MatchRows

LEMMA CardinalityOfOne ==
    ASSUME NEW d
    PROVE  Cardinality({d}) = 1 /\ Cardinality({}) = 0
BY FS_Singleton, FS_EmptySet

LEMMA ResolvesOne ==
    ASSUME NEW d, NEW none
    PROVE  Resolves(FirstRow({d}, none)) /\ Resolves({Ok(d)})
<1>1. FirstRow({d}, none) = {Ok(d)}
  BY DEF FirstRow
<1>2. Cardinality({Ok(d)}) = 1
  BY CardinalityOfOne
<1>3. \A r \in {Ok(d)} : r.status = 200
  BY Bodies
<1> QED BY <1>1, <1>2, <1>3, Zenon DEF Resolves

-----------------------------------------------------------------------------
(* Links *)

\* The matches that the tables hold.
ShownMatches == UNION {MatchesOf(y) : y \in scheduled}

LEMMA ShownInTables ==
    /\ {f.match_id : f \in Tables.fct_matches} = ShownMatches
    /\ \A f \in Tables.fct_matches :
          f.match_id \in ShownMatches /\ f.match = fct_matches(f.match_id)
    /\ \A m \in ShownMatches : m \in MatchIds /\ Fixtures[m].season \in scheduled
    /\ \A m \in MatchIds : Fixtures[m].season \in scheduled => m \in ShownMatches
<1> DEFINE Shown(m) == [match_id |-> m, match |-> fct_matches(m)]
<1>1. Tables.fct_matches = {Shown(m) : m \in ShownMatches}
  BY TableColumns, Zenon DEF ShownMatches
<1>2. \A m : Shown(m).match_id = m /\ Shown(m).match = fct_matches(m)
  OBVIOUS
<1> HIDE DEF Shown
<1>3. /\ {f.match_id : f \in Tables.fct_matches} = ShownMatches
      /\ \A f \in Tables.fct_matches :
            f.match_id \in ShownMatches /\ f.match = fct_matches(f.match_id)
  BY <1>1, <1>2
<1>4. /\ \A m \in ShownMatches : m \in MatchIds /\ Fixtures[m].season \in scheduled
      /\ \A m \in MatchIds : Fixtures[m].season \in scheduled => m \in ShownMatches
  BY DEF ShownMatches, MatchesOf
<1> QED BY <1>3, <1>4

LEMMA LinkedAreShown == LinkedMatches(Tables) \subseteq ShownMatches
<1> SUFFICES ASSUME NEW m \in LinkedMatches(Tables) PROVE m \in ShownMatches
  OBVIOUS
<1>1. \E path \in {"results", "fixtures"}, c \in Codes(Tables) :
            \E y \in LinkedSeasons(Tables, c) :
                \E page \in League(Tables, path, c, y) : \E r \in page : m = r.match_id
  BY DEF LinkedMatches
<1>2. PICK path, c, y, page :
            /\ path \in {"results", "fixtures"}
            /\ page \in League(Tables, path, c, y)
            /\ \E r \in page : m = r.match_id
  BY <1>1
<1>3. PICK r \in page : m = r.match_id
  BY <1>2
<1>4. \E f \in Tables.fct_matches : r.match_id = f.match_id
  BY <1>2, MatchPages
<1> QED BY <1>3, <1>4, ShownInTables

LEMMA MatchResolves ==
    ASSUME WarehouseTypeOK, NEW m \in ShownMatches
    PROVE  Resolves(match_detail(Tables, m))
<1>1. m \in MatchIds /\ Fixtures[m].season \in scheduled
  BY ShownInTables
<1>2. Fixtures[m].home \in KnownTeams /\ Fixtures[m].away \in KnownTeams
  <2>1. m \in MatchesOf(Fixtures[m].season)
    BY <1>1 DEF MatchesOf
  <2>2. Fixtures[m].home \in Entrants(Fixtures[m].season)
        /\ Fixtures[m].away \in Entrants(Fixtures[m].season)
    BY <2>1 DEF Entrants
  <2> QED BY <1>1, <2>2, EntrantsKnown
<1>3. PICK h : Names(Tables, Fixtures[m].home) = {h}
  BY <1>2, NamesOfKnown
<1>4. PICK a : Names(Tables, Fixtures[m].away) = {a}
  BY <1>2, NamesOfKnown
<1> DEFINE row == [match_id |-> m, home |-> h, away |-> a]
<1>5. get_match_detail(Tables, m) = {row}
  <2>1. PICK f \in Tables.fct_matches : f.match_id = m
    BY ShownInTables
  <2>2. {[match_id |-> m, home |-> x, away |-> z] : x \in {h}, z \in {a}} = {row}
    OBVIOUS
  <2>3. {g \in Tables.fct_matches : g.match_id = m} # {}
    BY <2>1
  <2> HIDE DEF row
  <2>4. get_match_detail(Tables, m) =
          UNION {{row} : f_1 \in {g \in Tables.fct_matches : g.match_id = m}}
    BY <1>3, <1>4, <2>2 DEF get_match_detail
  <2> QED BY <2>3, <2>4
<1> HIDE DEF row
<1> QED BY <1>5, ResolvesOne DEF match_detail

LEMMA DirectoryIds ==
    LinkedPlayers(Tables) = {d.player_id : d \in dim_players}
<1>1. \A t : LeftNames(Tables, t) # {}
  BY DEF LeftNames
<1>2. \A d \in dim_players : \E n : n \in LeftNames(Tables, d.team_id)
  BY <1>1
<1> DEFINE Entry(p, n) == [player_id |-> p.player_id, team_name |-> n]
<1>3. LinkedPlayers(Tables) =
        {r.player_id : r \in UNION {{Entry(p, n) : n \in LeftNames(Tables, p.team_id)} :
                                       p \in dim_players}}
  BY TableColumns, Zenon DEF LinkedPlayers, get_players_directory
<1>4. \A p, n : Entry(p, n).player_id = p.player_id
  OBVIOUS
<1> HIDE DEF Entry
<1> DEFINE entries == UNION {{Entry(p, n) : n \in LeftNames(Tables, p.team_id)} :
                               p \in dim_players}
<1>5. \A e \in entries : \E p \in dim_players : e.player_id = p.player_id
  BY <1>4
<1>6. \A p \in dim_players : \E e \in entries : e.player_id = p.player_id
  <2> SUFFICES ASSUME NEW p \in dim_players PROVE \E e \in entries : e.player_id = p.player_id
    OBVIOUS
  <2>1. PICK n : n \in LeftNames(Tables, p.team_id)
    BY <1>2
  <2>2. Entry(p, n) \in entries
    BY <2>1
  <2> HIDE DEF entries
  <2> QED BY <1>4, <2>2
<1> HIDE DEF entries
<1>7. LinkedPlayers(Tables) = {r.player_id : r \in entries}
  BY <1>3, Zenon DEF entries
<1> QED BY <1>5, <1>6, <1>7

\* A player who can be shown: in a squad, or a scorer.
ShownPlayers == {p \in Players : players[p] # Null \/ \E s \in scorers : s.player = p}

LEMMA PlayerResolves ==
    ASSUME WarehouseTypeOK
    PROVE  /\ LinkedPlayers(Tables) = ShownPlayers
           /\ \A p \in ShownPlayers : Resolves(player_bio(Tables, p))
<1>1. LinkedPlayers(Tables) \subseteq ShownPlayers
  BY DirectoryIds, PlayersOfRows DEF ShownPlayers
<1>2. ASSUME NEW p \in ShownPlayers
      PROVE  /\ p \in LinkedPlayers(Tables)
             /\ Resolves(player_bio(Tables, p))
  <2>1. PICK d \in dim_players : /\ d.team_id \in KnownTeams
                                 /\ {e \in dim_players : e.player_id = p} = {d}
    BY <1>2, OneRowPerPlayer DEF ShownPlayers
  <2>2. d.player_id = p
    BY <2>1
  <2>3. PICK n : LeftNames(Tables, d.team_id) = {n}
    BY <2>1, NamesOfKnown
  <2> DEFINE row == [team_name |-> n]
  <2>4. get_player_bio(Tables, p) = {row}
    <3>1. {[team_name |-> x] : x \in {n}} = {row}
      OBVIOUS
    <3> HIDE DEF row
    <3>2. get_player_bio(Tables, p) = UNION {{row} : e \in {d}}
      BY <2>1, <2>3, <3>1, TableColumns DEF get_player_bio
    <3> QED BY <3>2
  <2> HIDE DEF row
  <2> QED BY <2>2, <2>4, DirectoryIds, ResolvesOne DEF player_bio
<1> QED BY <1>1, <1>2

LEMMA SeasonsOfTables ==
    ASSUME WarehouseTypeOK, NEW c
    PROVE  /\ SeasonsOf(Tables, c) = {y \in seasons : CompetitionOf(y) = c}
           /\ IsFiniteSet(SeasonsOf(Tables, c))
           /\ \A y \in SeasonsOf(Tables, c) : y \in Int /\ y # Null
<1> DEFINE SeasonRow(y) == [season |-> y, competition |-> CompetitionOf(y)]
<1>1. Tables.dim_seasons = {SeasonRow(y) : y \in seasons}
  BY TableColumns, Zenon
<1>2. \A y : SeasonRow(y).season = y /\ SeasonRow(y).competition = CompetitionOf(y)
  OBVIOUS
<1> HIDE DEF SeasonRow
<1>3. SeasonsOf(Tables, c) = {y \in seasons : CompetitionOf(y) = c}
  BY <1>1, <1>2 DEF SeasonsOf
<1>4. seasons \subseteq Seasons /\ IsFiniteSet(Seasons)
  BY KeysFinite DEF WarehouseTypeOK
<1>5. SeasonsOf(Tables, c) \subseteq Seasons
  BY <1>3, <1>4
<1> QED BY <1>3, <1>4, <1>5, FS_Subset, SeasonFacts

\* The season the pages open with: the newest one, if there is one.
LEMMA CurrentSeason ==
    ASSUME WarehouseTypeOK, NEW c
    PROVE  \/ /\ SeasonsOf(Tables, c) = {} /\ get_current_season_id(Tables, c) = Null
              /\ Current(Tables, c) = {}
           \/ \E y \in SeasonsOf(Tables, c) :
                 /\ \A z \in SeasonsOf(Tables, c) : z <= y
                 /\ y = Max(SeasonsOf(Tables, c))
                 /\ get_current_season_id(Tables, c) = y /\ Current(Tables, c) = {y}
<1> DEFINE of == SeasonsOf(Tables, c)
<1>1. IsFiniteSet(of) /\ \A y \in of : y \in Int /\ y # Null
  BY SeasonsOfTables
<1>2. CASE of = {}
  <2>1. get_current_season_id(Tables, c) = Null
    BY <1>2 DEF get_current_season_id, MaxOr0, Null
  <2>2. \A r \in current_season(Tables, c) : r.status = 500
    BY <2>1 DEF current_season, Response
  <2>3. Current(Tables, c) = {}
    BY <2>2 DEF Current
  <2> QED BY <1>2, <2>1, <2>3
<1>3. CASE of # {}
  <2> HIDE DEF of
  <2> DEFINE y == Max(of)
  <2>1. y \in of /\ \A z \in of : z <= y
    BY <1>1, <1>3, MaxExists
  <2>2. get_current_season_id(Tables, c) = y
    BY <1>3 DEF get_current_season_id, MaxOr0, of
  <2> HIDE DEF y
  <2>3. current_season(Tables, c) = {Ok(y)}
    BY <1>1, <2>1, <2>2 DEF current_season
  <2>4. {s \in current_season(Tables, c) : s.status = 200} = {Ok(y)}
    BY <2>3, Bodies
  <2>5. Current(Tables, c) = {y}
    BY <2>4, Bodies DEF Current
  <2> QED BY <2>1, <2>2, <2>5 DEF of, y
<1> QED BY <1>2, <1>3

LEMMA LinkedSeasonsAre ==
    ASSUME WarehouseTypeOK, NEW c
    PROVE  LinkedSeasons(Tables, c) = SeasonsOf(Tables, c)
<1>1. UNION League(Tables, "seasons", c, Null) = SeasonsOf(Tables, c)
  BY LeagueRoutes DEF get_competition_seasons
<1> QED BY <1>1, CurrentSeason DEF LinkedSeasons

LEMMA SidesAreEntrants ==
    ASSUME WarehouseTypeOK, NEW c, NEW y
    PROVE  /\ SidesOf(MatchesIn(Tables, c, y)) \subseteq KnownTeams
           /\ SidesOf(MatchesIn(Tables, c, y)) # {} => y \in scheduled
<1>1. ASSUME NEW f \in MatchesIn(Tables, c, y)
      PROVE  /\ Fixtures[f.match_id].home \in Entrants(y)
             /\ Fixtures[f.match_id].away \in Entrants(y)
             /\ y \in scheduled
  <2>1. f \in Tables.fct_matches /\ Fixtures[f.match_id].season = y
    BY DEF MatchesIn
  <2>2. f.match_id \in MatchIds /\ y \in scheduled
    BY <2>1, ShownInTables
  <2>3. f.match_id \in MatchesOf(y)
    BY <2>1, <2>2 DEF MatchesOf
  <2> QED BY <2>2, <2>3 DEF Entrants
<1>2. y \in scheduled => Entrants(y) \subseteq KnownTeams
  BY EntrantsKnown
<1> QED BY <1>1, <1>2 DEF SidesOf

LEMMA NamedRows ==
    ASSUME WarehouseTypeOK, NEW ids \in SUBSET KnownTeams
    PROVE  /\ Named(LeftTeamRows(Tables, ids), ids)
           /\ Named(TeamRows(Tables, ids), ids)
           /\ TeamRows(Tables, ids) = LeftTeamRows(Tables, ids)
<1> DEFINE NameRow(t, n) == [team_id |-> t, team_name |-> n]
<1>1. \A t \in ids : \E n \in {OldName, CurrentName} :
          Names(Tables, t) = {n} /\ LeftNames(Tables, t) = {n}
  BY NamesOfKnown
<1>2. /\ LeftTeamRows(Tables, ids)
            = UNION {{NameRow(t, n) : n \in LeftNames(Tables, t)} : t \in ids}
      /\ TeamRows(Tables, ids)
            = UNION {{NameRow(t, n) : n \in Names(Tables, t)} : t \in ids}
  BY Zenon DEF LeftTeamRows, TeamRows
<1>3. \A t, n : NameRow(t, n).team_id = t /\ NameRow(t, n).team_name = n
  OBVIOUS
<1>4. OldName # Null /\ CurrentName # Null
  BY DEF OldName, CurrentName, Null
<1> HIDE DEF NameRow
<1>5. TeamRows(Tables, ids) = LeftTeamRows(Tables, ids)
  BY <1>1, <1>2
<1>6. Named(TeamRows(Tables, ids), ids)
  BY <1>1, <1>2, <1>3, <1>4 DEF Named
<1> QED BY <1>5, <1>6

\* The latest table of a season, if it is one of a phase that has a table.
LEMMA StandingsAreNamed ==
    ASSUME WarehouseTypeOK, NEW c, NEW y
    PROVE  /\ get_standings(Tables, c, y).table # {} /\ y \in scheduled =>
                  Named(get_standings(Tables, c, y).table, Entrants(y))
           /\ \A r, q \in get_standings(Tables, c, y).table : r.team_id = q.team_id => r = q
<1> DEFINE of == {f \in Tables.fct_standings_snapshot : f.competition = c /\ f.season = y}
           latest == {f \in of : \A g \in of : g.date <= f.date}
           stages == {i \in DOMAIN StageOrder : \E f \in latest : f.stage = StageOrder[i]}
           stage == StageOrder[Min(stages)]
           form(t) == last_5_results(t, c, y, Tables.fct_team_matches)
           Line(t, n) == [team_id |-> t, team_name |-> n, form |-> form(t)]
           lines == UNION {{Line(f.team, n) : n \in Names(Tables, f.team)} :
                             f \in {g \in latest : g.stage = stage}}
<1>1. get_standings(Tables, c, y).table \in {{}, lines}
  BY Zenon DEF get_standings, NoTable
<1>2. \A t, n : Line(t, n).team_id = t /\ Line(t, n).team_name = n
  OBVIOUS
<1> HIDE DEF form, Line
<1>3. /\ standings \subseteq [competition : Competitions, season : seasons, team : Teams,
                            date : Nat, stage : UNION {Stages[z] : z \in seasons}]
      /\ \A s \in standings :
            /\ s.competition = CompetitionOf(s.season)
            /\ {r \in standings : r.season = s.season /\ r.date = s.date}
                  = {[s EXCEPT !.team = t] : t \in Entrants(s.season)}
  BY DEF WarehouseTypeOK
<1>4. of = {f \in standings : f.competition = c /\ f.season = y}
  BY TableColumns
<1> HIDE DEF of, stages, stage
<1>5. ASSUME NEW s \in latest, s.stage = stage
      PROVE  {g.team : g \in {f \in latest : f.stage = stage}} = Entrants(y)
  <2>1. s \in standings /\ s.season = y /\ s.competition = c
    BY <1>4, <1>5
  <2> DEFINE Copy(t) == [s EXCEPT !.team = t]
  <2>2. {r \in standings : r.season = y /\ r.date = s.date} = {Copy(t) : t \in Entrants(y)}
    BY <1>3, <2>1
  <2>3. \A t : /\ Copy(t).team = t /\ Copy(t).season = y /\ Copy(t).competition = c
               /\ Copy(t).date = s.date /\ Copy(t).stage = stage
    BY <1>3, <1>5, <2>1
  <2> HIDE DEF Copy
  <2>4. latest = {Copy(t) : t \in Entrants(y)}
    <3>1. \A g \in of : g.date \in Nat
      BY <1>3, <1>4
    <3>2. \A g \in latest : g.date = s.date
      BY <3>1
    <3> QED BY <1>4, <2>2, <2>3, <3>2
  <2> HIDE DEF latest
  <2> QED BY <2>3, <2>4
<1>6. \A f, g \in latest : f.team = g.team => f = g
  <2> SUFFICES ASSUME NEW f \in latest, NEW g \in latest, f.team = g.team PROVE f = g
    OBVIOUS
  <2>1. f \in standings /\ g \in standings /\ f.season = y /\ g.season = y
        /\ f.date \in Nat /\ g.date \in Nat
    BY <1>3, <1>4
  <2>2. f.date = g.date
    BY <1>4, <2>1
  <2>3. g \in {[f EXCEPT !.team = t] : t \in Entrants(y)}
    BY <1>3, <2>1, <2>2
  <2>4. PICK t : g = [f EXCEPT !.team = t]
    BY <2>3
  <2>5. f \in [competition : Competitions, season : seasons, team : Teams,
               date : Nat, stage : UNION {Stages[z] : z \in seasons}]
    BY <1>3, <2>1
  <2> QED BY <2>4, <2>5
<1>7. ASSUME y \in scheduled, NEW f \in latest
      PROVE  \E n \in {OldName, CurrentName} : Names(Tables, f.team) = {n}
  <2>1. f \in {[f EXCEPT !.team = t] : t \in Entrants(y)}
    BY <1>3, <1>4
  <2>2. f \in [competition : Competitions, season : seasons, team : Teams,
               date : Nat, stage : UNION {Stages[z] : z \in seasons}]
    BY <1>3, <1>4
  <2>3. f.team \in Entrants(y)
    BY <2>1, <2>2
  <2> QED BY <1>7, <2>3, EntrantsKnown, NamesOfKnown
<1> HIDE DEF latest
<1>9. \A r, q \in lines : r.team_id = q.team_id => r = q
  BY <1>2, <1>6, AtMostOneName
<1>10. lines # {} /\ y \in scheduled => Named(lines, Entrants(y))
  <2> SUFFICES ASSUME lines # {}, y \in scheduled PROVE Named(lines, Entrants(y))
    OBVIOUS
  <2>0. \A f \in latest : \E n \in {OldName, CurrentName} : Names(Tables, f.team) = {n}
    BY <1>7
  <2>1. PICK s \in latest : s.stage = stage
    OBVIOUS
  <2>2. {r.team_id : r \in lines} = {g.team : g \in {f \in latest : f.stage = stage}}
    <3>1. \A r \in lines : \E f \in latest : f.stage = stage /\ r.team_id = f.team
      BY <1>2
    <3>2. \A f \in latest : f.stage = stage => \E r \in lines : r.team_id = f.team
      <4> SUFFICES ASSUME NEW f \in latest, f.stage = stage
                   PROVE  \E r \in lines : r.team_id = f.team
        OBVIOUS
      <4>1. PICK n : n \in Names(Tables, f.team)
        BY <2>0
      <4>2. Line(f.team, n) \in lines
        BY <4>1
      <4> QED BY <1>2, <4>2
    <3> HIDE DEF lines
    <3> QED BY <3>1, <3>2
  <2>3. \A r \in lines : r.team_name # Null
    BY <1>2, <2>0 DEF OldName, CurrentName, Null
  <2> QED BY <1>5, <1>9, <2>1, <2>2, <2>3 DEF Named
<1> HIDE DEF lines
<1> QED BY <1>1, <1>9, <1>10

LEMMA StatsResolve ==
    ASSUME WarehouseTypeOK, NEW t, NEW u, NEW c, NEW y
    PROVE  Resolves(TeamsRouter(Tables, "stats", t, u, c, y))
<1> DEFINE result == get_standings(Tables, c, y)
           row == {r \in result.table : r.team_id = t}
<1>1. \A r, q \in row : r = q
  BY StandingsAreNamed
<1> HIDE DEF result
<1>2. \E d : team_stats(Tables, t, c, y) = {Ok(d)}
  <2>1. CASE result.message # ""
    <3>1. team_stats(Tables, t, c, y) = {Ok([stats |-> {}, message |-> result.message])}
      BY <2>1, Zenon DEF team_stats, result
    <3> QED BY <3>1
  <2>2. CASE result.message = "" /\ row = {}
    <3>1. team_stats(Tables, t, c, y) =
            {Ok([stats |-> {}, message |-> "no stats for this team"])}
      BY <2>2, Zenon DEF team_stats, result
    <3> QED BY <3>1
  <2>3. CASE result.message = "" /\ row # {}
    <3>1. team_stats(Tables, t, c, y) = {Ok([stats |-> {r}, message |-> ""]) : r \in row}
      BY <2>3, Zenon DEF team_stats, result
    <3>2. PICK r \in row : TRUE
      BY <2>3
    <3>3. row = {r}
      BY <1>1, <3>2
    <3> DEFINE Answer(q) == Ok([stats |-> {q}, message |-> ""])
    <3>4. team_stats(Tables, t, c, y) = {Answer(q) : q \in {r}}
      BY <3>1, <3>3, Zenon
    <3>5. team_stats(Tables, t, c, y) = {Answer(r)}
      <4> HIDE DEF Answer, row
      <4> QED BY <3>4
    <3> QED BY <3>5
  <2> QED BY <2>1, <2>2, <2>3
<1> QED BY <1>2, TeamRoutes, ResolvesOne

LEMMA LinksOfTables == ASSUME WarehouseTypeOK PROVE LinksResolve
<1>1. \A m \in LinkedMatches(Tables) : Resolves(match_detail(Tables, m))
  BY LinkedAreShown, MatchResolves
<1>2. \A p \in LinkedPlayers(Tables) : Resolves(player_bio(Tables, p))
  BY PlayerResolves
<1>3. {s.player : s \in Tables.fct_scorers} \subseteq LinkedPlayers(Tables)
  <2>1. \A s \in scorers : s.player \in Players
    BY DEF WarehouseTypeOK
  <2> QED BY <2>1, PlayerResolves, TableColumns DEF ShownPlayers
<1>4. ASSUME NEW c \in Codes(Tables), NEW y \in LinkedSeasons(Tables, c)
      PROVE  LET sides == get_teams_in_season(Tables, c, y)
                 standing == get_standings(Tables, c, y).table
             IN  /\ Named(get_teams_for_league(Tables, c, y), sides)
                 /\ standing # {} /\ sides # {} => Named(standing, Entrants(y))
                 /\ \A t \in sides : Resolves(TeamsRouter(Tables, "stats", t, Null, c, y))
  <2>1. Named(get_teams_for_league(Tables, c, y), get_teams_in_season(Tables, c, y))
    BY SidesAreEntrants, NamedRows DEF get_teams_for_league, get_teams_in_season
  <2>2. get_teams_in_season(Tables, c, y) # {} => y \in scheduled
    BY SidesAreEntrants DEF get_teams_in_season
  <2> QED BY <2>1, <2>2, StandingsAreNamed, StatsResolve
<1> QED BY <1>1, <1>2, <1>3, <1>4, Zenon DEF LinksResolve

(* Every id that a listing hands out has one answer, and every team that a  *)
(* league page shows has one name, after every sequence of loads.           *)
THEOREM LinksHaveAnAnswer == WarehouseSpec => []LinksResolve
BY WarehouseTyped, LinksOfTables, PTL

\* What the tables of a state have to do with its links.
LinkFacts ==
    /\ LinkedMatches(Tables) \subseteq ShownMatches
    /\ \A m \in ShownMatches : Resolves(match_detail(Tables, m))
    /\ LinkedPlayers(Tables) = ShownPlayers
    /\ \A p \in ShownPlayers : Resolves(player_bio(Tables, p))
    /\ Codes(Tables) = Competitions
    /\ \A c \in Competitions :
          /\ LinkedSeasons(Tables, c) = {y \in seasons : CompetitionOf(y) = c}
          /\ Current(Tables, c) # {} <=> LinkedSeasons(Tables, c) # {}

LEMMA LinkFactsHold == WarehouseTypeOK => LinkFacts
<1> SUFFICES ASSUME WarehouseTypeOK PROVE LinkFacts
  OBVIOUS
<1>1. /\ LinkedMatches(Tables) \subseteq ShownMatches
      /\ \A m \in ShownMatches : Resolves(match_detail(Tables, m))
  BY LinkedAreShown, MatchResolves
<1>2. Codes(Tables) = Competitions
  <2>1. competitions(Tables) = {Ok(Competitions)}
    BY TableColumns DEF competitions, get_competitions
  <2> QED BY <2>1, Bodies DEF Codes
<1>3. ASSUME NEW c \in Competitions
      PROVE  /\ LinkedSeasons(Tables, c) = {y \in seasons : CompetitionOf(y) = c}
             /\ Current(Tables, c) # {} <=> LinkedSeasons(Tables, c) # {}
  BY LinkedSeasonsAre, SeasonsOfTables, CurrentSeason
<1> QED BY <1>1, <1>2, <1>3, PlayerResolves, Zenon DEF LinkFacts

\* No load takes a season, a match or a player away.
LEMMA NothingIsLost ==
    ASSUME WarehouseTypeOK, [WarehouseNext]_warehouseVars
    PROVE  /\ seasons \subseteq seasons' /\ ShownMatches \subseteq ShownMatches'
           /\ ShownPlayers \subseteq ShownPlayers'
<1>1. seasons \subseteq seasons' /\ scheduled \subseteq scheduled'
  BY DEF WarehouseNext, warehouseVars, rawTables, LoadSeason, LoadMatches, LoadMatch,
         LoadTeams, LoadPlayer, Rename, LoadScorer, LoadStandings
<1>2. \A p \in Players : players[p] # Null => players'[p] # Null
  <2>1. CASE UNCHANGED players
    BY <2>1
  <2>2. ASSUME NEW q \in Players, NEW t \in teams, players' = [players EXCEPT ![q] = t]
        PROVE  \A p \in Players : players[p] # Null => players'[p] # Null
    <3>1. t # Null
      <4>1. t \in Teams
        BY DEF WarehouseTypeOK
      <4> QED BY <4>1, TeamsAreNumbers DEF Null
    <3>2. DOMAIN players = Players
      BY DEF WarehouseTypeOK
    <3> QED BY <2>2, <3>1, <3>2
  <2> QED BY <2>1, <2>2 DEF WarehouseNext, warehouseVars, rawTables, LoadSeason,
         LoadMatches, LoadMatch, LoadTeams, LoadPlayer, Rename, LoadScorer, LoadStandings
<1>3. \A s \in scorers : \E q \in scorers' : q.player = s.player
  <2>1. CASE UNCHANGED scorers
    BY <2>1
  <2>2. ASSUME NEW y \in Seasons, NEW p \in Players, LoadScorer(y, p)
        PROVE  \A s \in scorers : \E q \in scorers' : q.player = s.player
    <3> DEFINE Line(t, tally) == [competition |-> CompetitionOf(y), season |-> y,
                                  player |-> p, team |-> t, tally |-> tally]
               kept == {s \in scorers : <<s.season, s.player>> # <<y, p>>}
    <3>1. \E t, tally : scorers' = kept \cup {Line(t, tally)}
      BY <2>2, Zenon DEF LoadScorer
    <3>2. \A t, tally : Line(t, tally).player = p
      OBVIOUS
    <3>3. \A s \in scorers : s \in kept \/ s.player = p
      OBVIOUS
    <3> HIDE DEF Line, kept
    <3> QED BY <3>1, <3>2, <3>3
  <2> QED BY <2>1, <2>2 DEF WarehouseNext, warehouseVars, rawTables, LoadSeason,
         LoadMatches, LoadMatch, LoadTeams, LoadPlayer, Rename, LoadStandings
<1>4. ShownMatches \subseteq ShownMatches'
  BY <1>1 DEF ShownMatches
<1>5. ShownPlayers \subseteq ShownPlayers'
  BY <1>2, <1>3 DEF ShownPlayers
<1> QED BY <1>1, <1>4, <1>5

LEMMA LinksKept ==
    ASSUME WarehouseTypeOK, [WarehouseNext]_warehouseVars, LinkFacts, LinkFacts'
    PROVE  \A before \in {Tables}, after \in {Tables'} : StayValid(before, after)
<1>1. /\ \A m \in ShownMatches' : Resolves(match_detail(Tables', m))
      /\ \A p \in ShownPlayers' : Resolves(player_bio(Tables', p))
      /\ \A c \in Competitions :
            /\ LinkedSeasons(Tables', c) = {y \in seasons' : CompetitionOf(y) = c}
            /\ Current(Tables', c) # {} <=> LinkedSeasons(Tables', c) # {}
  BY DEF LinkFacts
<1>2. /\ LinkedMatches(Tables) \subseteq ShownMatches
      /\ LinkedPlayers(Tables) = ShownPlayers
      /\ Codes(Tables) = Competitions
      /\ \A c \in Competitions :
            /\ LinkedSeasons(Tables, c) = {y \in seasons : CompetitionOf(y) = c}
            /\ Current(Tables, c) # {} <=> LinkedSeasons(Tables, c) # {}
  BY DEF LinkFacts
<1>3. StayValid(Tables, Tables')
  BY <1>1, <1>2, NothingIsLost DEF StayValid
<1> QED BY <1>3

(* A link that a page has handed out still has an answer after the next     *)
(* load.                                                                    *)
THEOREM LinksStay == WarehouseSpec => LinksStayValid
<1>1. WarehouseTypeOK /\ [WarehouseNext]_warehouseVars /\ LinkFacts /\ LinkFacts'
        => [\A before \in {Tables}, after \in {Tables'} :
               StayValid(before, after)]_warehouseVars
  BY LinksKept
<1> QED BY <1>1, WarehouseTyped, LinkFactsHold, PTL DEF WarehouseSpec, LinksStayValid

-----------------------------------------------------------------------------
(* Which season is current *)

\* The matches of the season a competition's pages open with.
CurrentOf(c) == MatchesIn(Tables, c, get_current_season_id(Tables, c))

LEMMA CurrentMatchesAre ==
    ASSUME WarehouseTypeOK
    PROVE  CurrentMatches(Tables) = UNION {CurrentOf(c) : c \in Competitions}
<1>1. ASSUME NEW f \in Tables.fct_matches
      PROVE  LET c == Fixtures[f.match_id].competition
             IN  /\ c \in Competitions /\ SeasonsOf(Tables, c) # {}
                 /\ get_current_season_id(Tables, c) = Max(SeasonsOf(Tables, c))
  <2> DEFINE m == f.match_id
             c == Fixtures[m].competition
  <2>1. m \in MatchIds /\ Fixtures[m].season \in scheduled
    BY ShownInTables
  <2>2. m \in MatchesOf(Fixtures[m].season)
    BY <2>1 DEF MatchesOf
  <2>3. Fixtures[m].season \in seasons /\ Fixtures[m].season \in Seasons
    BY <2>1, EntrantsKnown
  <2>4. CompetitionOf(Fixtures[m].season) = c /\ c \in Competitions
    BY <2>2, <2>3, SeasonFacts
  <2>5. SeasonsOf(Tables, c) # {}
    BY <2>3, <2>4, SeasonsOfTables
  <2> QED BY <2>4, <2>5, CurrentSeason
<1>2. CurrentMatches(Tables) = {f \in Tables.fct_matches :
          Fixtures[f.match_id].season =
              get_current_season_id(Tables, Fixtures[f.match_id].competition)}
  BY <1>1 DEF CurrentMatches
<1>3. \A f \in Tables.fct_matches : Fixtures[f.match_id].competition \in Competitions
  BY <1>1
<1> QED BY <1>2, <1>3 DEF CurrentOf, MatchesIn

LEMMA PagesOfTables == ASSUME WarehouseTypeOK PROVE SeasonPagesAgree
<1> DEFINE Ids(c) == SidesOf(CurrentOf(c))
           ids == UNION {Ids(c) : c \in Competitions}
           Page(c) == get_teams_for_league(Tables, c, get_current_season_id(Tables, c))
<1>1. SidesOf(CurrentMatches(Tables)) = ids
  BY CurrentMatchesAre DEF SidesOf
<1>2. \A c : Ids(c) \subseteq KnownTeams
  BY SidesAreEntrants DEF CurrentOf
<1>3. \A c : Page(c) = LeftTeamRows(Tables, Ids(c))
  BY DEF get_teams_for_league, CurrentOf
<1> HIDE DEF Ids, Page
<1>4. ids \subseteq KnownTeams
  BY <1>2
<1>5. \A c : Page(c) = TeamRows(Tables, Ids(c))
  BY <1>2, <1>3, NamedRows
<1>6. TeamRows(Tables, ids) = UNION {TeamRows(Tables, Ids(c)) : c \in Competitions}
  <2> DEFINE Row1(t) == {[team_id |-> t, team_name |-> n] : n \in Names(Tables, t)}
  <2>1. \A S : TeamRows(Tables, S) = UNION {Row1(t) : t \in S}
    BY Zenon DEF TeamRows
  <2> HIDE DEF Row1
  <2> QED BY <2>1
<1>7. get_current_teams(Tables) = UNION {Page(c) : c \in Competitions}
  BY <1>1, <1>5, <1>6 DEF get_current_teams
<1>8. Codes(Tables) = Competitions
  BY LinkFactsHold DEF LinkFacts
<1>9. {r.team_id : r \in get_current_teams(Tables)} = SidesOf(CurrentMatches(Tables))
  BY <1>1, <1>4, NamedRows DEF get_current_teams, Named
<1>10. ASSUME NEW t
       PROVE  get_team_competitions(Tables, t) # {} <=> t \in SidesOf(CurrentMatches(Tables))
  <2>1. get_team_competitions(Tables, t) # {}
          <=> \E g \in CurrentMatches(Tables) : t \in SidesOf({g})
    BY DEF get_team_competitions
  <2> QED BY <2>1 DEF SidesOf
<1>11. \A r \in get_cross_league_stats(Tables) :
          r.stats = mart_cross_league_stats(r.competition,
                        get_current_season_id(Tables, r.competition), Tables.fct_team_matches)
  BY DEF get_cross_league_stats, get_current_season_id
<1> HIDE DEF ids
<1> QED BY <1>7, <1>8, <1>9, <1>10, <1>11, Zenon DEF SeasonPagesAgree, Page

(* The queries that decide by themselves which season is current agree.     *)
THEOREM CurrentSeasonsAgree == WarehouseSpec => []SeasonPagesAgree
BY WarehouseTyped, PagesOfTables, PTL

-----------------------------------------------------------------------------
(* The form letters and the form tab *)

LEMMA SuffixByPlaces ==
    ASSUME NEW S, NEW s \in Seq(S), NEW u \in Seq(S), Len(s) <= Len(u),
           \A i \in 1 .. Len(s) : s[i] = u[i + (Len(u) - Len(s))]
    PROVE  IsSuffix(s, u)
<1> DEFINE n == Len(s)
           k == Len(u)
<1>1. n \in Nat /\ k \in Nat /\ n <= k
  OBVIOUS
<1>2. /\ \A i \in 1 .. n : s[i] \in S
      /\ \A i \in 1 .. k : u[i] \in S
  OBVIOUS
<1>3. \A i \in 1 .. n : s[i] = u[i + (k - n)]
  OBVIOUS
<1>4. /\ Reverse(s) = [i \in 1 .. n |-> s[(n - i) + 1]]
      /\ Reverse(u) = [i \in 1 .. k |-> u[(k - i) + 1]]
  BY DEF Reverse
<1> HIDE DEF n, k
<1>5. /\ \A i \in 1 .. n : (n - i) + 1 \in 1 .. n /\ Reverse(s)[i] = s[(n - i) + 1]
      /\ \A i \in 1 .. k : (k - i) + 1 \in 1 .. k /\ Reverse(u)[i] = u[(k - i) + 1]
  BY <1>1, <1>4
<1>6. Reverse(s) \in Seq(S) /\ Len(Reverse(s)) = n
  BY <1>1, <1>2, <1>4, <1>5
<1>7. Reverse(u) \in Seq(S) /\ Len(Reverse(u)) = k
  BY <1>1, <1>2, <1>4, <1>5
<1>8. \A i \in 1 .. n : Reverse(s)[i] = Reverse(u)[i] /\ Reverse(u)[i] \in S
  <2> SUFFICES ASSUME NEW i \in 1 .. n
               PROVE  Reverse(s)[i] = Reverse(u)[i] /\ Reverse(u)[i] \in S
    OBVIOUS
  <2>1. i \in 1 .. k /\ ((n - i) + 1) + (k - n) = (k - i) + 1
    BY <1>1
  <2> QED BY <1>2, <1>3, <1>5, <2>1
<1> DEFINE a == SubSeq(Reverse(s), 1, n)
           b == SubSeq(Reverse(u), 1, n)
<1>9. /\ a \in Seq(S) /\ Len(a) = n
      /\ \A i \in 1 .. n : a[i] = Reverse(s)[i]
  <2>1. \A i \in 1 .. n : Reverse(s)[i] \in S
    BY <1>8
  <2>2. /\ a \in Seq(S) /\ Len(a) = IF 1 <= n THEN n - 1 + 1 ELSE 0
        /\ \A i \in 1 .. n - 1 + 1 : a[i] = Reverse(s)[1 + i - 1]
    BY <1>1, <2>1, SubSeqProperties
  <2> HIDE DEF a
  <2> QED BY <1>1, <2>2
<1>10. /\ b \in Seq(S) /\ Len(b) = n
       /\ \A i \in 1 .. n : b[i] = Reverse(u)[i]
  <2>1. \A i \in 1 .. n : Reverse(u)[i] \in S
    BY <1>8
  <2>2. /\ b \in Seq(S) /\ Len(b) = IF 1 <= n THEN n - 1 + 1 ELSE 0
        /\ \A i \in 1 .. n - 1 + 1 : b[i] = Reverse(u)[1 + i - 1]
    BY <1>1, <2>1, SubSeqProperties
  <2> HIDE DEF b
  <2> QED BY <1>1, <2>2
<1> HIDE DEF a, b
<1>11. a = b
  BY <1>1, <1>8, <1>9, <1>10
<1> QED BY <1>1, <1>6, <1>7, <1>11 DEF a, b, IsSuffix, IsPrefix

(* The lists of the last results of a team, however many each holds, end    *)
(* alike.                                                                   *)
LEMMA EndsOfOneList ==
    ASSUME TypeOK, NEW t, NEW R \in SUBSET RowsOfTeam(t),
           NEW T \in SUBSET R, \A q \in R \ T, r \in T : q \in UpTo(r, R),
           NEW U \in SUBSET R, \A q \in R \ U, r \in U : q \in UpTo(r, R)
    PROVE  IsSuffix(InOrder(T), InOrder(U)) \/ IsSuffix(InOrder(U), InOrder(T))
<1>1. /\ Cardinality(T) \in Nat /\ Cardinality(R) \in Nat /\ Cardinality(T) <= Cardinality(R)
      /\ \A i \in 1 .. Cardinality(T) :
            InOrder(T)[i] = InOrder(R)[i + (Cardinality(R) - Cardinality(T))]
  BY LastRows
<1>2. /\ Cardinality(U) \in Nat /\ Cardinality(U) <= Cardinality(R)
      /\ \A i \in 1 .. Cardinality(U) :
            InOrder(U)[i] = InOrder(R)[i + (Cardinality(R) - Cardinality(U))]
  BY LastRows
<1>3. ASSUME NEW V \in SUBSET R
      PROVE  InOrder(V) \in Seq(Results) /\ Len(InOrder(V)) = Cardinality(V)
  <2>1. V \in SUBSET RowsOfTeam(t)
    OBVIOUS
  <2>2. /\ DOMAIN InOrder(V) = 1 .. Cardinality(V)
        /\ \A i \in 1 .. Cardinality(V) : InOrder(V)[i] = RowAt(V, i).result
        /\ Len(InOrder(V)) = Cardinality(V)
    BY <2>1, ListedInOrder
  <2>3. /\ Cardinality(V) \in Nat
        /\ \A i \in 1 .. Cardinality(V) : RowAt(V, i) \in V
    BY <2>1, Numbering
  <2>4. \A r \in V : r.result \in Results
    BY <2>1, TeamRowFacts DEF RowsOfTeam
  <2>5. InOrder(V) = [i \in DOMAIN InOrder(V) |-> InOrder(V)[i]]
    BY DEF InOrder
  <2>6. InOrder(V) \in [1 .. Cardinality(V) -> Results]
    BY <2>2, <2>3, <2>4, <2>5
  <2> QED BY <2>2, <2>3, <2>6
<1>4. /\ InOrder(T) \in Seq(Results) /\ Len(InOrder(T)) = Cardinality(T)
      /\ InOrder(U) \in Seq(Results) /\ Len(InOrder(U)) = Cardinality(U)
  BY <1>3
<1>5. CASE Cardinality(T) <= Cardinality(U)
  <2>1. ASSUME NEW i \in 1 .. Cardinality(T)
        PROVE  InOrder(T)[i] = InOrder(U)[i + (Cardinality(U) - Cardinality(T))]
    <3> DEFINE j == i + (Cardinality(U) - Cardinality(T))
    <3>1. /\ j \in 1 .. Cardinality(U)
          /\ j + (Cardinality(R) - Cardinality(U)) = i + (Cardinality(R) - Cardinality(T))
      BY <1>1, <1>2, <1>5
    <3> HIDE DEF j
    <3>2. InOrder(U)[j] = InOrder(R)[i + (Cardinality(R) - Cardinality(T))]
      BY <1>2, <3>1
    <3> QED BY <1>1, <3>2 DEF j
  <2> QED BY <1>4, <1>5, <2>1, SuffixByPlaces
<1>6. CASE Cardinality(U) <= Cardinality(T)
  <2>1. ASSUME NEW i \in 1 .. Cardinality(U)
        PROVE  InOrder(U)[i] = InOrder(T)[i + (Cardinality(T) - Cardinality(U))]
    <3> DEFINE j == i + (Cardinality(T) - Cardinality(U))
    <3>1. /\ j \in 1 .. Cardinality(T)
          /\ j + (Cardinality(R) - Cardinality(T)) = i + (Cardinality(R) - Cardinality(U))
      BY <1>1, <1>2, <1>6
    <3> HIDE DEF j
    <3>2. InOrder(T)[j] = InOrder(R)[i + (Cardinality(R) - Cardinality(U))]
      BY <1>1, <3>1
    <3> QED BY <1>2, <3>2 DEF j
  <2> QED BY <1>4, <1>6, <2>1, SuffixByPlaces
<1> QED BY <1>1, <1>2, <1>5, <1>6

\* The results of a season that a page of a team's matches shows.
ShownResults(page, y) == {r \in Decided({a.side : a \in page}) : r.season = y}

LEMMA FormPageShowsTheLast ==
    ASSUME WarehouseTypeOK, OneMatchAtATime, NEW t, NEW y \in scheduled,
           NEW page \in get_team_recent_form(Tables, t)
    PROVE  LET R == SeasonResults(t, CompetitionOf(y), y)
               U == ShownResults(page, y)
           IN  U \subseteq R /\ \A q \in R \ U, r \in U : q \in UpTo(r, R)
<1> DEFINE c == CompetitionOf(y)
           R == SeasonResults(t, c, y)
           U == ShownResults(page, y)
           rows == TeamMatchRows(Tables, t, FinishedStatuses)
           Line(r, n) == [side |-> r, kickoff |-> r.day, opponent |-> n]
<1>1. TypeOK
  BY DEF WarehouseTypeOK
<1>2. /\ \A a \in page : a \in rows
      /\ \A a \in page, b \in rows \ page : ~ (b.kickoff > a.kickoff)
  BY Zenon DEF get_team_recent_form, MostRecent, Cut, kSubset
<1>3. /\ rows = UNION {{Line(r, n) : n \in LeftNames(Tables, r.opponent)} :
                 r \in {q \in Tables.fct_team_matches :
                           q.team = t /\ q.status \in FinishedStatuses}}
      /\ \A r, n : Line(r, n).side = r /\ Line(r, n).kickoff = r.day
  BY DEF TeamMatchRows
<1>4. Tables.fct_team_matches = {r \in fct_team_matches : r.season \in scheduled}
  BY TableColumns
<1> HIDE DEF Line, rows
<1>5. \A a \in rows : /\ a.side \in fct_team_matches /\ a.side.team = t
                      /\ a.kickoff = a.side.day
  BY <1>3, <1>4
<1>6. U \subseteq R
  <2> SUFFICES ASSUME NEW r \in U PROVE r \in R
    OBVIOUS
  <2>1. r \in fct_team_matches /\ r.team = t /\ r.result # "null" /\ r.season = y
    BY <1>2, <1>5 DEF ShownResults, Decided
  <2>2. r.match_id \in MatchIds /\ r.competition = Fixtures[r.match_id].competition
        /\ Fixtures[r.match_id].season = y
    BY <1>1, <2>1, TeamRowFacts
  <2>3. r.match_id \in MatchesOf(y) /\ y \in Seasons
    BY <2>2, EntrantsKnown DEF MatchesOf
  <2>4. r.competition = c
    BY <2>2, <2>3, SeasonFacts
  <2> QED BY <2>1, <2>4 DEF SeasonResults, Of, Decided
<1>7. ASSUME NEW q \in R \ U, NEW r \in U PROVE q \in UpTo(r, R)
  <2>1. /\ q \in fct_team_matches /\ q.team = t /\ q.result # "null" /\ q.season = y
        /\ r \in fct_team_matches /\ r.team = t
    BY <1>6, <1>7 DEF SeasonResults, Of, Decided
  <2>2. PICK a \in page : a.side = r
    BY <1>7 DEF ShownResults, Decided
  <2>3. PICK n : n \in LeftNames(Tables, q.opponent)
    BY DEF LeftNames
  <2>4. Line(q, n) \in rows /\ Line(q, n).side = q /\ Line(q, n).kickoff = q.day
    BY <1>1, <1>3, <1>4, <2>1, <2>3, ResultOfDecided
  <2>5. Line(q, n) \notin page
    <3>1. Line(q, n) \in page => q \in {b.side : b \in page}
      BY <2>4
    <3> QED BY <1>7, <2>1, <3>1 DEF ShownResults, Decided
  <2>6. a.kickoff = r.day
    BY <1>2, <1>5, <2>2
  <2>7. ~ (q.day > r.day)
    BY <1>2, <2>2, <2>4, <2>5, <2>6
  <2>8. /\ q.day \in Int /\ r.day \in Int
        /\ q.match_id \in MatchIds /\ r.match_id \in MatchIds
        /\ q.match_id \in Nat /\ r.match_id \in Nat
    BY <1>1, <2>1, TeamRowFacts
  <2>9. q.day = r.day => q.match_id = r.match_id
    <3>1. ASSUME NEW p \in fct_team_matches, p.team = t
          PROVE  /\ p.day \in {Fixtures[p.match_id].day, Fixtures[p.match_id].late}
                 /\ t \in {Fixtures[p.match_id].home, Fixtures[p.match_id].away}
      <4>1. PICK m \in MatchIds, h \in BOOLEAN : p = Side(m, h)
        BY DEF fct_team_matches
      <4>2. /\ p.match_id = m /\ p.day = fct_matches(m).kickoff
            /\ p.team = IF h THEN Fixtures[m].home ELSE Fixtures[m].away
        BY <4>1, SideFields
      <4>3. fct_matches(m).kickoff \in {Fixtures[m].day, Fixtures[m].late}
        BY <1>1, MatchFacts
      <4> QED BY <3>1, <4>2, <4>3
    <3> QED BY <2>1, <2>8, <3>1 DEF OneMatchAtATime
  <2> QED BY <1>7, <2>7, <2>8, <2>9 DEF UpTo
<1> QED BY <1>6, <1>7

LEMMA FormFromTables ==
    ASSUME WarehouseTypeOK, OneMatchAtATime PROVE FormTabAgrees
<1> SUFFICES ASSUME NEW t \in Teams, NEW y \in scheduled, t \in Entrants(y),
                    NEW page \in Team(Tables, "form", t)
             PROVE  LET letters == last_5_results(t, CompetitionOf(y), y,
                                                  Tables.fct_team_matches)
                        shown == InOrder(ShownResults(page, y))
                    IN  IsSuffix(shown, letters) \/ IsSuffix(letters, shown)
  BY DEF FormTabAgrees, ShownResults
<1> DEFINE c == CompetitionOf(y)
           R == SeasonResults(t, c, y)
           T == LastFive(t, c, y, fct_team_matches)
           U == ShownResults(page, y)
<1>1. TypeOK
  BY DEF WarehouseTypeOK
<1>2. last_5_results(t, c, y, Tables.fct_team_matches) = InOrder(T)
  <2>1. {r \in Of(t, c, Decided(Tables.fct_team_matches)) : r.season = y}
          = {r \in Of(t, c, Decided(fct_team_matches)) : r.season = y}
    BY TableColumns DEF Of, Decided
  <2>2. LastFive(t, c, y, Tables.fct_team_matches) = T
    BY <2>1, Zenon DEF LastFive
  <2>3. last_5_results(t, c, y, Tables.fct_team_matches)
          = last_5_results(t, c, y, fct_team_matches)
    <3> DEFINE form(L) == [i \in 1 .. Cardinality(L) |->
                              (CHOOSE r \in L : Cardinality(UpTo(r, L)) = i).result]
    <3>1. \A rows : last_5_results(t, c, y, rows) = form(LastFive(t, c, y, rows))
      BY DEF last_5_results
    <3> HIDE DEF form
    <3> QED BY <2>2, <3>1
  <2> QED BY <1>1, <2>3, LastFiveIs
<1>3. R \in SUBSET RowsOfTeam(t) /\ T = {r \in R : Rn(R)[r] > Cardinality(R) - FormLength}
  BY <1>1, LastFiveIs
<1>4. page \in get_team_recent_form(Tables, t)
  BY TeamRoutes
<1>5. U \in SUBSET R /\ \A q \in R \ U, r \in U : q \in UpTo(r, R)
  BY <1>4, FormPageShowsTheLast
<1> HIDE DEF R, T, U
<1>6. T \in SUBSET R /\ \A q \in R \ T, r \in T : q \in UpTo(r, R)
  <2>1. /\ Cardinality(R) \in Nat /\ \A r \in R : Rn(R)[r] \in Int
        /\ \A q, r \in R : q \in UpTo(r, R) <=> Rn(R)[q] <= Rn(R)[r]
    BY <1>1, <1>3, Numbering
  <2> QED BY <1>3, <2>1, FormAssumption
<1>7. IsSuffix(InOrder(T), InOrder(U)) \/ IsSuffix(InOrder(U), InOrder(T))
  BY <1>1, <1>3, <1>5, <1>6, EndsOfOneList
<1> QED BY <1>2, <1>7 DEF U

(* In a calendar where no team plays two matches at once, the letters of    *)
(* the tables and the matches of the form tab are the same results.         *)
THEOREM FormTabShowsTheLetters ==
    ASSUME OneMatchAtATime PROVE WarehouseSpec => []FormTabAgrees
BY WarehouseTyped, FormFromTables, PTL

-----------------------------------------------------------------------------
(* The lists of scorers *)

\* The rows of a list up to a row and with it.
ListedUpTo(s, rows, key) ==
    {q \in rows : Ahead(key[q], key[s]) \/ (key[q] = key[s] /\ q.player <= s.player)}

ListUpToEach(rows, key) == [s \in rows |-> ListedUpTo(s, rows, key)]

\* The place of each row in its list.
PlaceOf(rows, key) == PlaceIn(ListUpToEach(rows, key), rows)

\* The keys that rows are listed by.
IsKey(rows, key) ==
    /\ IsFiniteSet(rows)
    /\ \A s \in rows : /\ s.player \in Nat /\ s.crest \in Nat
                       /\ key[s] \in Int \X Int \X Int
    /\ \A q, s \in rows : q.player = s.player => q = s

LEMMA AheadIsAnOrder ==
    ASSUME NEW k \in Int \X Int \X Int, NEW l \in Int \X Int \X Int
    PROVE  /\ ~ Ahead(k, k)
           /\ Ahead(k, l) => ~ Ahead(l, k)
           /\ Ahead(k, l) \/ Ahead(l, k) \/ k = l
           /\ \A m \in Int \X Int \X Int : Ahead(k, l) /\ Ahead(l, m) => Ahead(k, m)
<1> DEFINE K == Int \X Int \X Int
<1>1. \A i \in K : i = <<i[1], i[2], i[3]>> /\ i[1] \in Int /\ i[2] \in Int /\ i[3] \in Int
  OBVIOUS
<1>2. \A m \in K : Ahead(k, l) /\ Ahead(l, m) => Ahead(k, m)
  <2> TAKE m \in K
  <2> HIDE DEF K
  <2> QED BY <1>1 DEF Ahead
<1>3. ~ Ahead(k, k) /\ (Ahead(k, l) => ~ Ahead(l, k))
  BY <1>1 DEF Ahead
<1>4. Ahead(k, l) \/ Ahead(l, k) \/ k = l
  BY <1>1 DEF Ahead
<1> QED BY <1>2, <1>3, <1>4

LEMMA ListOrder ==
    ASSUME NEW rows, NEW key, IsKey(rows, key)
    PROVE  /\ IsOrder(ListUpToEach(rows, key), rows)
           /\ \A s \in rows : {q \in rows : \/ Ahead(key[q], key[s])
                                            \/ key[q] = key[s] /\ ListedBefore(q, s)}
                                 = ListedUpTo(s, rows, key) \ {s}
<1> DEFINE up == ListUpToEach(rows, key)
           K == Int \X Int \X Int
           Leq(q, s) == Ahead(key[q], key[s]) \/ (key[q] = key[s] /\ q.player <= s.player)
<1>1. /\ \A s \in rows : s.player \in Nat /\ s.crest \in Nat /\ key[s] \in K
      /\ \A q, s \in rows : q.player = s.player => q = s
  BY DEF IsKey
<1> HIDE DEF K
<1>2. /\ \A k \in K : ~ Ahead(k, k)
      /\ \A k, l \in K : Ahead(k, l) => ~ Ahead(l, k)
      /\ \A k, l \in K : Ahead(k, l) \/ Ahead(l, k) \/ k = l
      /\ \A k, l, m \in K : Ahead(k, l) /\ Ahead(l, m) => Ahead(k, m)
  BY AheadIsAnOrder DEF K
<1>3. up \in [rows -> SUBSET rows] /\ \A q, s \in rows : q \in up[s] <=> Leq(q, s)
  BY DEF ListUpToEach, ListedUpTo
<1> HIDE DEF up
<1>4. \A s \in rows : s \in up[s]
  BY <1>1, <1>3
<1>5. \A q, s \in rows : q \in up[s] \/ s \in up[q]
  BY <1>1, <1>2, <1>3
<1>6. \A q, s \in rows : q \in up[s] /\ s \in up[q] => q = s
  <2> SUFFICES ASSUME NEW q \in rows, NEW s \in rows, Leq(q, s), Leq(s, q) PROVE q = s
    BY <1>3
  <2>1. key[q] = key[s]
    BY <1>1, <1>2
  <2>2. q.player <= s.player /\ s.player <= q.player
    BY <1>1, <1>2, <2>1
  <2> QED BY <1>1, <2>2
<1>7. \A q, r, s \in rows : q \in up[r] /\ r \in up[s] => q \in up[s]
  <2> SUFFICES ASSUME NEW q \in rows, NEW r \in rows, NEW s \in rows, Leq(q, r), Leq(r, s)
               PROVE  Leq(q, s)
    BY <1>3
  <2>1. CASE Ahead(key[q], key[r])
    BY <1>1, <1>2, <2>1
  <2>2. CASE key[q] = key[r] /\ q.player <= r.player
    BY <1>1, <1>2, <2>2
  <2> QED BY <2>1, <2>2
<1>8. ASSUME NEW s \in rows
      PROVE  {q \in rows : \/ Ahead(key[q], key[s])
                           \/ key[q] = key[s] /\ ListedBefore(q, s)}
               = ListedUpTo(s, rows, key) \ {s}
  <2>1. \A q \in rows : ListedBefore(q, s) <=> q.player <= s.player /\ q # s
    BY <1>1 DEF ListedBefore
  <2> QED BY <1>1, <1>2, <2>1 DEF ListedUpTo
<1> QED BY <1>3, <1>4, <1>5, <1>6, <1>7, <1>8 DEF IsOrder, up

(* Listed puts each row at its place.                                       *)
LEMMA ListPlaces ==
    ASSUME NEW rows, NEW key, IsKey(rows, key)
    PROVE  LET list == Listed(rows, key)
               place == PlaceOf(rows, key)
           IN  /\ Cardinality(rows) \in Nat
               /\ DOMAIN list = 1 .. Cardinality(rows)
               /\ list = [i \in 1 .. Cardinality(rows) |-> list[i]]
               /\ \A i \in DOMAIN list : list[i] \in rows /\ place[list[i]] = i
               /\ \A s \in rows : /\ place[s] \in DOMAIN list /\ list[place[s]] = s
                                  /\ place[s] = Cardinality(ListedUpTo(s, rows, key))
               /\ \A q, s \in rows : q \in ListedUpTo(s, rows, key) <=> place[q] <= place[s]
<1> DEFINE list == Listed(rows, key)
           place == PlaceOf(rows, key)
           n == Cardinality(rows)
           before(s) == {q \in rows : \/ Ahead(key[q], key[s])
                                      \/ key[q] = key[s] /\ ListedBefore(q, s)}
           up == ListUpToEach(rows, key)
<1>1. IsFiniteSet(rows) /\ n \in Nat
  BY FS_CardinalityType DEF IsKey
<1>2. IsOrder(up, rows) /\ \A s \in rows : before(s) = ListedUpTo(s, rows, key) \ {s}
  BY ListOrder
<1>3. /\ place \in Bijection(rows, 1 .. n)
      /\ \A q, s \in rows : q \in up[s] <=> place[q] <= place[s]
  BY <1>1, <1>2, RowNumbers DEF PlaceOf
<1>4. \A s \in rows : up[s] = ListedUpTo(s, rows, key) /\ place[s] = Cardinality(up[s])
  BY DEF ListUpToEach, PlaceOf, PlaceIn
<1>5. /\ \A s \in rows : place[s] \in 1 .. n /\ place[s] \in Int
      /\ \A q, s \in rows : place[q] = place[s] => q = s
      /\ \A i \in 1 .. n : \E s \in rows : place[s] = i
  <2>1. \A i \in 1 .. n : i \in Int
    BY <1>1
  <2> HIDE DEF n, place
  <2> QED BY <1>3, <2>1 DEF Bijection, Injection, Surjection, IsInjective
<1>6. ASSUME NEW s \in rows PROVE Cardinality(before(s)) = place[s] - 1
  <2>1. up[s] \in SUBSET rows /\ s \in up[s]
    BY <1>2 DEF IsOrder
  <2>2. IsFiniteSet(up[s])
    BY <1>1, <2>1, FS_Subset
  <2>3. before(s) = up[s] \ {s}
    BY <1>2, <1>4
  <2> HIDE DEF before, up, place
  <2>4. Cardinality(up[s] \ {s}) = Cardinality(up[s]) - 1
    BY <2>1, <2>2, FS_RemoveElement
  <2> QED BY <1>4, <2>3, <2>4
<1>7. list = [i \in 1 .. n |-> CHOOSE s \in rows : Cardinality(before(s)) = i - 1]
  BY DEF Listed
<1> HIDE DEF before, up, place, n
<1>8. \A i \in 1 .. n : \A s \in rows : Cardinality(before(s)) = i - 1 <=> place[s] = i
  <2> SUFFICES ASSUME NEW i \in 1 .. n, NEW s \in rows
               PROVE  Cardinality(before(s)) = i - 1 <=> place[s] = i
    OBVIOUS
  <2>1. Cardinality(before(s)) = place[s] - 1 /\ place[s] \in Int /\ i \in Int
    BY <1>1, <1>5, <1>6
  <2> QED BY <2>1
<1>9. \A i \in 1 .. n : list[i] \in rows /\ place[list[i]] = i
  BY <1>5, <1>7, <1>8
<1>10. \A s \in rows : list[place[s]] = s
  BY <1>5, <1>9
<1>11. DOMAIN list = 1 .. n /\ list = [i \in 1 .. n |-> list[i]]
  BY <1>7
<1> HIDE DEF list
<1> QED BY <1>1, <1>3, <1>4, <1>5, <1>9, <1>10, <1>11 DEF list, place, n

\* A scorer's row with the one row of his team.
RowOf(s) == ScorerRow(s, IF s.team \in teams THEN CurrentName ELSE OldName)

LEMMA ScorerColumns ==
    /\ \A s, n : /\ ScorerRow(s, n).of = s /\ ScorerRow(s, n).crest = n
                 /\ ScorerRow(s, n).player = s.player /\ ScorerRow(s, n).team = s.team
    /\ \A s : /\ RowOf(s).of = s /\ RowOf(s).crest \in Nat
              /\ RowOf(s).player = s.player /\ RowOf(s).team = s.team
<1>1. \A s, n : /\ ScorerRow(s, n).of = s /\ ScorerRow(s, n).crest = n
                /\ ScorerRow(s, n).player = s.player /\ ScorerRow(s, n).team = s.team
  BY DEF ScorerRow
<1> QED BY <1>1 DEF RowOf, OldName, CurrentName

(* The join with the teams neither loses a scorer nor doubles one.          *)
LEMMA OneRowPerScorer ==
    ASSUME WarehouseTypeOK, NEW c, NEW y
    PROVE  ScorerRows(Tables, c, y) = {RowOf(s) : s \in ScorersOf(Tables, c, y)}
<1>1. ASSUME NEW s \in ScorersOf(Tables, c, y)
      PROVE  {ScorerRow(s, n) : n \in LeftNames(Tables, s.team)} = {RowOf(s)}
  <2>1. s.team \in KnownTeams
    BY <1>1, TableColumns DEF ScorersOf, KnownTeams
  <2>2. Names(Tables, s.team) = {IF s.team \in teams THEN CurrentName ELSE OldName}
    BY <2>1, OneNamePerTeam
  <2> QED BY <2>2 DEF LeftNames, RowOf
<1> QED BY <1>1 DEF ScorerRows

\* A part of the scorers is as large as the part of the rows that is theirs.
LEMMA AsManyRows ==
    ASSUME NEW part, IsFiniteSet(part)
    PROVE  /\ IsFiniteSet({RowOf(s) : s \in part})
           /\ Cardinality({RowOf(s) : s \in part}) = Cardinality(part)
<1> DEFINE rows == {RowOf(s) : s \in part}
           b == [s \in part |-> RowOf(s)]
<1>1. b \in Bijection(part, rows)
  <2>1. \A q, s \in part : RowOf(q) = RowOf(s) => q = s
    BY ScorerColumns
  <2>2. b \in [part -> rows] /\ \A s \in part : b[s] = RowOf(s)
    OBVIOUS
  <2>3. \A r \in rows : \E s \in part : b[s] = r
    OBVIOUS
  <2> HIDE DEF b, rows
  <2> QED BY <2>1, <2>2, <2>3 DEF Bijection, Injection, Surjection, IsInjective
<1> HIDE DEF b, rows
<1> QED BY <1>1, SameCount, FS_Bijection DEF rows

LEMMA ScorersHaveKeys ==
    ASSUME WarehouseTypeOK, NEW c, NEW y
    PROVE  LET all == ScorerRows(Tables, c, y)
               key == [s \in all |-> GoalsKey(s.of)]
           IN  /\ \A rows \in SUBSET all : IsKey(rows, key)
               /\ IsFiniteSet(ScorersOf(Tables, c, y))
<1> DEFINE of == ScorersOf(Tables, c, y)
           all == ScorerRows(Tables, c, y)
           key == [s \in all |-> GoalsKey(s.of)]
<1>1. of = {s \in scorers : s.competition = c /\ s.season = y}
  BY TableColumns DEF ScorersOf
<1>2. IsFiniteSet(of)
  <2>1. IsFiniteSet(scorers)
    BY DEF WarehouseTypeOK
  <2> QED BY <1>1, <2>1, FS_Subset
<1>3. \A q, s \in of : q.player = s.player => q = s
  BY <1>1 DEF WarehouseTypeOK
<1>4. ASSUME NEW s \in of PROVE s.player \in Nat /\ GoalsKey(s) \in Int \X Int \X Int
  <2>1. s.player \in Players /\ s.tally \in Tallies
    BY <1>1 DEF WarehouseTypeOK
  <2>2. /\ s.tally.goals \in Nat /\ s.tally.played \in Nat
        /\ s.tally.assists = <<>> \/ s.tally.assists[1] \in Nat
    BY <2>1, WarehouseAssumption
  <2>3. Assists(s) \in Nat /\ Goals(s) \in Nat
    BY <2>2 DEF Assists, Goals
  <2>4. GoalsKey(s) \in Int \X Int \X Int
    BY <2>2, <2>3 DEF GoalsKey
  <2>5. s.player \in Nat
    BY <2>1, WarehouseAssumption
  <2> QED BY <2>4, <2>5
<1>5. all = {RowOf(s) : s \in of}
  BY OneRowPerScorer
<1>6. \A r \in all : key[r] = GoalsKey(r.of)
  OBVIOUS
<1> HIDE DEF of, all, key
<1>7. IsFiniteSet(all)
  BY <1>2, <1>5, AsManyRows
<1>8. \A r \in all : /\ r.player \in Nat /\ r.crest \in Nat
                     /\ key[r] \in Int \X Int \X Int
  BY <1>4, <1>5, <1>6, ScorerColumns
<1>9. \A q, r \in all : q.player = r.player => q = r
  BY <1>3, <1>5, ScorerColumns
<1>10. ASSUME NEW rows \in SUBSET all PROVE IsKey(rows, key)
  <2>1. IsFiniteSet(rows)
    BY <1>7, FS_Subset
  <2> QED BY <1>8, <1>9, <2>1 DEF IsKey
<1> QED BY <1>2, <1>10 DEF of, all, key

\* The rows of a key that are not ranked behind the limit.
TopRows(key) == {s \in DOMAIN key : Rank(s, key) <= MaxRank}

LEMMA LeadersAre ==
    ASSUME NEW key
    PROVE  LET list == Listed(TopRows(key), key)
               top == Leaders(key)
           IN  /\ DOMAIN top = DOMAIN list
               /\ \A i \in DOMAIN top : /\ top[i].player = list[i].player
                                        /\ top[i].team = list[i].team
<1> DEFINE list == Listed(TopRows(key), key)
           row(s) == [rank |-> Rank(s, key), player |-> s.player, team |-> s.team,
                      goals |-> Goals(s.of), assists |-> Assists(s.of)]
<1>1. Leaders(key) = [i \in DOMAIN list |-> row(list[i])]
  BY DEF Leaders, TopRows
<1>2. \A s : row(s).player = s.player /\ row(s).team = s.team
  OBVIOUS
<1> HIDE DEF row, list
<1> QED BY <1>1, <1>2 DEF list

(* Nobody is ranked behind one he is listed before.                         *)
LEMMA RankGrows ==
    ASSUME NEW all, NEW key, DOMAIN key = all, IsKey(all, key),
           NEW s \in all, NEW q \in ListedUpTo(s, all, key)
    PROVE  /\ Rank(q, key) \in Nat /\ Rank(s, key) \in Nat
           /\ Rank(q, key) <= Rank(s, key)
<1> DEFINE A(r) == {p \in all : Ahead(key[p], key[r])}
           K == Int \X Int \X Int
<1>1. /\ \A r \in all : key[r] \in K
      /\ IsFiniteSet(all) /\ q \in all
      /\ Ahead(key[q], key[s]) \/ key[q] = key[s]
  BY DEF IsKey, ListedUpTo
<1> HIDE DEF K
<1>2. \A k, l, m \in K : Ahead(k, l) /\ Ahead(l, m) => Ahead(k, m)
  BY AheadIsAnOrder DEF K
<1>3. A(q) \in SUBSET A(s) /\ A(s) \in SUBSET all
  BY <1>1, <1>2
<1>4. Rank(q, key) = 1 + Cardinality(A(q)) /\ Rank(s, key) = 1 + Cardinality(A(s))
  BY DEF Rank
<1> HIDE DEF A
<1>5. IsFiniteSet(A(s))
  BY <1>1, <1>3, FS_Subset
<1>6. /\ Cardinality(A(q)) \in Nat /\ Cardinality(A(s)) \in Nat
      /\ Cardinality(A(q)) <= Cardinality(A(s))
  BY <1>3, <1>5, ProperPart
<1> QED BY <1>4, <1>6

(* Up to a row of the league's list, its team has as many rows in it as in  *)
(* the team's own list.                                                     *)
LEMMA PlaceInOwnList ==
    ASSUME NEW all, NEW key, DOMAIN key = all, \A rows \in SUBSET all : IsKey(rows, key),
           NEW i \in DOMAIN Listed(TopRows(key), key)
    PROVE  LET list == Listed(TopRows(key), key)
               s == list[i]
               own == {q \in all : q.team = s.team}
               k == Cardinality({j \in 1 .. i : list[j].team = s.team})
           IN  k \in DOMAIN Listed(own, key) /\ Listed(own, key)[k] = s
<1> DEFINE rows == TopRows(key)
           list == Listed(rows, key)
           place == PlaceOf(rows, key)
           s == list[i]
           own == {q \in all : q.team = s.team}
           J == {j \in 1 .. i : list[j].team = s.team}
           up == ListedUpTo(s, own, key)
<1>1. rows \in SUBSET all /\ IsKey(rows, key) /\ own \in SUBSET all
  BY DEF TopRows
<1>2. IsKey(own, key) /\ IsKey(all, key)
  BY <1>1
<1> HIDE DEF rows, own
<1>3. /\ Cardinality(rows) \in Nat
      /\ DOMAIN list = 1 .. Cardinality(rows)
      /\ \A j \in DOMAIN list : list[j] \in rows /\ place[list[j]] = j
      /\ \A q \in rows : place[q] \in DOMAIN list /\ list[place[q]] = q
      /\ \A q, r \in rows : q \in ListedUpTo(r, rows, key) <=> place[q] <= place[r]
  BY <1>1, ListPlaces
<1>4. i \in DOMAIN list
  BY DEF rows
<1> HIDE DEF list, place
<1>5. /\ s \in rows /\ s \in own /\ s \in all /\ place[s] = i
      /\ i \in Nat /\ 1 .. i \subseteq DOMAIN list
  BY <1>1, <1>3, <1>4 DEF own
<1> HIDE DEF s
<1>6. up \subseteq rows
  <2> SUFFICES ASSUME NEW q \in up PROVE q \in rows
    OBVIOUS
  <2>1. q \in ListedUpTo(s, all, key) /\ q \in all
    BY <1>1 DEF ListedUpTo
  <2>2. Rank(q, key) \in Nat /\ Rank(s, key) \in Nat /\ Rank(q, key) <= Rank(s, key)
    BY <1>2, <1>5, <2>1, RankGrows
  <2>3. Rank(s, key) <= MaxRank
    BY <1>5 DEF rows, TopRows
  <2> QED BY <2>1, <2>2, <2>3, QueriesAssumption DEF rows, TopRows
<1> DEFINE b == [j \in J |-> list[j]]
<1>7. b \in Bijection(J, up)
  <2>1. \A j \in J : list[j] \in up
    <3> SUFFICES ASSUME NEW j \in J PROVE list[j] \in up
      OBVIOUS
    <3>1. /\ list[j] \in rows /\ place[list[j]] = j /\ j <= i
          /\ list[j].team = s.team
      BY <1>3, <1>5
    <3>2. list[j] \in ListedUpTo(s, rows, key)
      BY <1>3, <1>5, <3>1
    <3>3. list[j] \in own
      BY <1>1, <3>1 DEF own
    <3> QED BY <3>2, <3>3 DEF ListedUpTo
  <2>2. \A j, l \in J : list[j] = list[l] => j = l
    BY <1>3, <1>5
  <2>3. \A q \in up : \E j \in J : list[j] = q
    <3> SUFFICES ASSUME NEW q \in up PROVE \E j \in J : list[j] = q
      OBVIOUS
    <3>1. q \in rows /\ q.team = s.team /\ q \in ListedUpTo(s, rows, key)
      BY <1>6 DEF ListedUpTo, own
    <3>2. place[q] <= i /\ place[q] \in DOMAIN list /\ list[place[q]] = q
      BY <1>3, <1>5, <3>1
    <3>3. place[q] \in 1 .. i
      BY <1>3, <1>5, <3>2
    <3> QED BY <3>1, <3>2, <3>3
  <2> HIDE DEF J, up
  <2> QED BY <2>1, <2>2, <2>3 DEF Bijection, Injection, Surjection, IsInjective
<1>8. IsFiniteSet(J)
  <2>1. IsFiniteSet(1 .. i)
    BY <1>5, FS_Interval
  <2>2. J \in SUBSET (1 .. i)
    OBVIOUS
  <2> HIDE DEF J
  <2> QED BY <2>1, <2>2, FS_Subset
<1>9. Cardinality(up) = Cardinality(J)
  <2> HIDE DEF J, up, b
  <2> QED BY <1>7, <1>8, SameCount
<1>10. /\ PlaceOf(own, key)[s] \in DOMAIN Listed(own, key)
       /\ Listed(own, key)[PlaceOf(own, key)[s]] = s
       /\ PlaceOf(own, key)[s] = Cardinality(up)
  BY <1>2, <1>5, ListPlaces
<1> HIDE DEF J, up
<1> QED BY <1>9, <1>10 DEF s, list, rows, own, J

LEMMA OwnPlayersAre ==
    ASSUME NEW key, NEW t, NEW own, own = {s \in DOMAIN key : s.team = t}, IsKey(own, key)
    PROVE  LET list == Listed(own, key)
               listed == PlayersListed(t, key)
           IN  \A i \in DOMAIN list : listed[i] = list[i].player /\ i <= Len(listed)
<1> DEFINE list == Listed(own, key)
           listed == PlayersListed(t, key)
           n == Cardinality(own)
<1>1. listed = [i \in DOMAIN list |-> list[i].player]
  BY Zenon DEF PlayersListed
<1>2. DOMAIN list = 1 .. n /\ n \in Nat
  BY ListPlaces
<1> HIDE DEF list, n, listed
<1>3. Len(listed) = n /\ \A i \in 1 .. n : i <= n
  BY <1>1, <1>2
<1> QED BY <1>1, <1>2, <1>3 DEF list, listed

LEMMA LeadersFromTables == ASSUME WarehouseTypeOK PROVE LeadersAgree
<1> SUFFICES ASSUME NEW y \in Seasons
             PROVE  LET c == CompetitionOf(y)
                        top == get_top_scorers(Tables, c, y)
                        shown == {top[i].player : i \in DOMAIN top}
                        all == ScorersOf(Tables, c, y)
                    IN  /\ \A s \in {r \in all : r.player \notin shown} :
                              Cardinality({r \in all : Ahead(GoalsKey(r), GoalsKey(s))}) >= MaxRank
                        /\ \A i \in DOMAIN top :
                              LET t == top[i].team
                                  own == get_team_scorers(Tables, t, c, y)
                                  k == Cardinality({j \in 1 .. i : top[j].team = t})
                              IN  k <= Len(own) /\ own[k] = top[i].player
  BY Zenon DEF LeadersAgree
<1> DEFINE c == CompetitionOf(y)
           of == ScorersOf(Tables, c, y)
           all == ScorerRows(Tables, c, y)
           key == [s \in all |-> GoalsKey(s.of)]
           top == Leaders(key)
           list == Listed(TopRows(key), key)
           shown == {top[i].player : i \in DOMAIN top}
<1>1. get_top_scorers(Tables, c, y) = top
  BY Zenon DEF get_top_scorers
<1>2. \A t : get_team_scorers(Tables, t, c, y) = PlayersListed(t, key)
  BY Zenon DEF get_team_scorers
<1>3. (\A rows \in SUBSET all : IsKey(rows, key)) /\ IsFiniteSet(of)
  BY ScorersHaveKeys
<1>4. /\ DOMAIN key = all /\ \A s \in all : key[s] = GoalsKey(s.of)
      /\ all = {RowOf(s) : s \in of}
  BY OneRowPerScorer
<1> HIDE DEF of, all, key
<1>5. /\ DOMAIN top = DOMAIN list
      /\ \A i \in DOMAIN top : top[i].player = list[i].player /\ top[i].team = list[i].team
  BY LeadersAre
<1> HIDE DEF top
<1>6. TopRows(key) \in SUBSET all
  BY <1>4 DEF TopRows
<1>7. \A s \in TopRows(key) : \E i \in DOMAIN list : list[i] = s
  <2>1. IsKey(TopRows(key), key)
    BY <1>3, <1>6
  <2> QED BY <2>1, ListPlaces
<1>8. DOMAIN list \subseteq Nat /\ \A i \in DOMAIN list : 1 .. i \subseteq DOMAIN list
  <2>1. Cardinality(TopRows(key)) \in Nat /\ DOMAIN list = 1 .. Cardinality(TopRows(key))
    BY <1>3, <1>6, ListPlaces
  <2> HIDE DEF list
  <2> QED BY <2>1
<1>9. ASSUME NEW s \in of, s.player \notin shown
      PROVE  Cardinality({r \in of : Ahead(GoalsKey(r), GoalsKey(s))}) >= MaxRank
  <2> DEFINE A == {r \in of : Ahead(GoalsKey(r), GoalsKey(s))}
             B == {r \in all : Ahead(key[r], key[RowOf(s)])}
  <2>1. RowOf(s) \in all /\ RowOf(s) \notin TopRows(key)
    BY <1>4, <1>5, <1>7, <1>9, ScorerColumns
  <2>2. Rank(RowOf(s), key) = 1 + Cardinality(B)
    BY <1>4 DEF Rank
  <2>3. \A r \in of : RowOf(r) \in all /\ key[RowOf(r)] = GoalsKey(r)
    BY <1>4, ScorerColumns
  <2>4. B = {RowOf(r) : r \in A}
    BY <1>4, <2>3
  <2>5. A \in SUBSET of
    OBVIOUS
  <2> HIDE DEF A, B
  <2>6. IsFiniteSet(A) /\ Cardinality(A) \in Nat /\ Cardinality(B) = Cardinality(A)
    BY <1>3, <2>4, <2>5, FS_Subset, FS_CardinalityType, AsManyRows
  <2>7. ~ (1 + Cardinality(B) <= MaxRank)
    BY <1>4, <2>1, <2>2 DEF TopRows
  <2>8. Cardinality(A) >= MaxRank
    BY <2>6, <2>7, QueriesAssumption
  <2> QED BY <2>8 DEF A
<1>10. ASSUME NEW i \in DOMAIN top
       PROVE  LET t == top[i].team
                  own == PlayersListed(t, key)
                  k == Cardinality({j \in 1 .. i : top[j].team = t})
              IN  k <= Len(own) /\ own[k] = top[i].player
  <2> DEFINE t == top[i].team
             rows == {q \in all : q.team = t}
             J == {j \in 1 .. i : list[j].team = t}
             k == Cardinality(J)
  <2>1. i \in DOMAIN list /\ t = list[i].team
    BY <1>5
  <2>2. {j \in 1 .. i : top[j].team = t} = J
    <3>1. \A j \in 1 .. i : j \in DOMAIN top
      BY <1>5, <1>8, <2>1
    <3> QED BY <1>5, <3>1
  <2> HIDE DEF t
  <2>3. k \in DOMAIN Listed(rows, key) /\ Listed(rows, key)[k] = list[i]
    BY <1>3, <1>4, <2>1, PlaceInOwnList
  <2>4. rows = {s \in DOMAIN key : s.team = t} /\ IsKey(rows, key)
    BY <1>3, <1>4
  <2> HIDE DEF rows, k, J, list
  <2>5. PlayersListed(t, key)[k] = list[i].player /\ k <= Len(PlayersListed(t, key))
    BY <2>3, <2>4, OwnPlayersAre
  <2> QED BY <1>5, <2>2, <2>5 DEF t, k
<1> HIDE DEF list, c
<1> QED BY <1>1, <1>2, <1>9, <1>10 DEF c, of

(* The league's list of scorers and each team's agree, whatever the goals,  *)
(* assists and matches of the players are.                                  *)
THEOREM ListsOfScorersAgree == WarehouseSpec => []LeadersAgree
BY WarehouseTyped, LeadersFromTables, PTL

=============================================================================
