------------------------------- MODULE Marts -------------------------------
(***************************************************************************)
(* The marts built from the matches (transform/models/marts) and what the   *)
(* queries on them compute (warehouse/queries.py), as functions of the rows *)
(* of fct_team_matches.  A window function is a set of the rows in its      *)
(* frame, row_number() its cardinality.                                     *)
(*                                                                         *)
(* The joins that fetch names and crests, and may lose or double a row, are *)
(* in Queries.                                                              *)
(***************************************************************************)
EXTENDS Matches, SequencesExt

CONSTANT FormLength   \* how many results last_5_results holds

ASSUME FormAssumption == FormLength \in Nat \ {0}

Teams == {Fixtures[m].home : m \in MatchIds} \cup {Fixtures[m].away : m \in MatchIds}
Competitions == {Fixtures[m].competition : m \in MatchIds}
Seasons == {Fixtures[m].season : m \in MatchIds}

\* order by kickoff_date_utc, match_id
UpTo(r, rows) ==
    {q \in rows : q.day < r.day \/ (q.day = r.day /\ q.match_id <= r.match_id)}

Of(team, competition, rows) ==
    {r \in rows : r.team = team /\ r.competition = competition}

MaxOr0(S) == IF S = {} THEN 0 ELSE Max(S)

Win      == {"W"}
Unbeaten == {"W", "D"}

-----------------------------------------------------------------------------
(* mart_streaks: gaps and islands.  Within one class of results, the        *)
(* difference of the two row numbers is constant along an unbroken run.     *)

Island(r, results, class) ==
    Cardinality(UpTo(r, results))
      - Cardinality(UpTo(r, {q \in results : (q.result \in class) <=> (r.result \in class)}))

\* The runs of a class: their lengths and the number of their last match.
IslandLengths(results, class) ==
    LET inClass == {r \in results : r.result \in class}
        islandOf == [r \in inClass |-> Island(r, results, class)]
        island(k) == {r \in inClass : islandOf[r] = k}
    IN  {[length |-> Cardinality(island(k)),
          last_rn |-> Max({Cardinality(UpTo(r, results)) : r \in island(k)})] :
             k \in {islandOf[r] : r \in inClass}}

(* Mutant: the last run of the class, also when a later match broke it. *)
LastIsland(results, class) ==
    LET islands == IslandLengths(results, class) IN
    MaxOr0({i.length : i \in {j \in islands :
                                 \A k \in islands : k.last_rn <= j.last_rn}})

CurrentStreak(results, class) ==
    MaxOr0({i.length : i \in {j \in IslandLengths(results, class) :
                                 j.last_rn = Cardinality(results)}})
LongestStreak(results, class) ==
    MaxOr0({i.length : i \in IslandLengths(results, class)})

mart_streaks(team, competition, rows) ==
    LET results == Of(team, competition, Decided(rows)) IN
    [current_win_streak      |-> CurrentStreak(results, Win),
     current_unbeaten_streak |-> CurrentStreak(results, Unbeaten),
     longest_win_streak      |-> LongestStreak(results, Win),
     longest_unbeaten_streak |-> LongestStreak(results, Unbeaten)]

-----------------------------------------------------------------------------
(* mart_team_form: the last few results, oldest first. *)

(* Mutant: recency by match id, not by date. *)
LastFiveById(team, competition, season, rows) ==
    LET results == {r \in Of(team, competition, Decided(rows)) : r.season = season}
    IN  {r \in results :
            Cardinality({q \in results : q.match_id >= r.match_id}) <= FormLength}

LastFive(team, competition, season, rows) ==
    LET results == {r \in Of(team, competition, Decided(rows)) : r.season = season}
        \* row_number() in descending order: one more than the rows after it
        recency_rank(r) == Cardinality(results) - Cardinality(UpTo(r, results)) + 1
    IN  {r \in results : recency_rank(r) <= FormLength}

last_5_results(team, competition, season, rows) ==
    LET last == LastFive(team, competition, season, rows)
        place(r) == Cardinality(UpTo(r, last))
    IN  [i \in 1 .. Cardinality(last) |-> (CHOOSE r \in last : place(r) = i).result]

-----------------------------------------------------------------------------
(* mart_head_to_head: every finished or awarded match, by unordered pair.   *)

FinishedStatuses == {"FINISHED", "AWARDED"}

\* The row `normalised` makes of a match, from the side of the lower team id.
Normalised(m) ==
    LET f == Fixtures[m]
        match == fct_matches(m)
        homeIsA == f.home < f.away
        played == match.full_time # <<>>
        home == IF played THEN match.full_time[1] ELSE 0
        away == IF played THEN match.full_time[2] ELSE 0
        a == IF homeIsA THEN "HOME_TEAM" ELSE "AWAY_TEAM"
        b == IF homeIsA THEN "AWAY_TEAM" ELSE "HOME_TEAM"
    IN  [team_a_id |-> IF homeIsA THEN f.home ELSE f.away,
         team_b_id |-> IF homeIsA THEN f.away ELSE f.home,
         team_a_goals |-> IF homeIsA THEN home ELSE away,   \* sum() skips nulls
         team_b_goals |-> IF homeIsA THEN away ELSE home,
         winner_side |-> CASE match.winner = a -> "TEAM_A"
                           [] match.winner = b -> "TEAM_B"
                           [] OTHER -> match.winner]   \* a draw, or null

mart_head_to_head(a, b) ==
    LET played == {m \in MatchIds : fct_matches(m).status \in FinishedStatuses}
        normalised == [m \in played |-> Normalised(m)]
        meetings == {m \in played : /\ normalised[m].team_a_id = a
                                    /\ normalised[m].team_b_id = b}
        wonBy(side) == Cardinality({m \in meetings : normalised[m].winner_side = side})
    IN  [matches_played |-> Cardinality(meetings),
         wins |-> <<wonBy("TEAM_A"), wonBy("TEAM_B")>>,
         draws |-> wonBy("DRAW"),
         goals |-> <<SumFunction([m \in meetings |-> normalised[m].team_a_goals]),
                     SumFunction([m \in meetings |-> normalised[m].team_b_goals])>>]

(* Mutant: team_a is taken for team_1. *)
HeadToHeadUnmapped(team_1, team_2) ==
    mart_head_to_head(Min({team_1, team_2}), Max({team_1, team_2}))

\* get_head_to_head: the row of the pair, from the first team the caller named.
PairRecord(team_1, team_2) ==
    LET remap(p) == IF team_1 < team_2 THEN p ELSE <<p[2], p[1]>> IN
    [mart_head_to_head(Min({team_1, team_2}), Max({team_1, team_2}))
        EXCEPT !.wins = remap(@), !.goals = remap(@)]

\* get_head_to_head_matches: the matches its list is of.
IsMeeting(m, match, team_1, team_2) ==
    /\ match.status \in FinishedStatuses
    /\ {Fixtures[m].home, Fixtures[m].away} = {team_1, team_2}

Meetings(team_1, team_2) ==
    {m \in MatchIds : IsMeeting(m, fct_matches(m), team_1, team_2)}

-----------------------------------------------------------------------------
(* mart_cross_league_stats: averages as <<sum, count>>. *)

(* Mutant: `else 0.0` counts a match without a result as no home win. *)
HomeWinRateElseZero(home_side) ==
    <<Cardinality({r \in home_side : r.result = "W"}), Cardinality(home_side)>>

HomeWinRate(home_side) ==
    <<Cardinality({r \in home_side : r.result = "W"}),
      Cardinality(Decided(home_side))>>

mart_cross_league_stats(competition, season, rows) ==
    LET home_side == {r \in rows : /\ r.competition = competition
                                   /\ r.season = season
                                   /\ r.is_home
                                   /\ r.status \in FinishedStatuses}
        finished == {r \in home_side : r.status = "FINISHED"}
        scored   == {r \in finished : r.goals # <<>>}
        total    == [r \in scored |-> r.goals[1] + r.goals[2]]
    IN  [finished_matches |-> Cardinality(finished),
         decided_matches |-> Cardinality(home_side),
         goals_per_match |-> <<SumFunction(total), Cardinality(scored)>>,
         home_win_rate |-> HomeWinRate(home_side)]

-----------------------------------------------------------------------------
(* mart_standings_over_time: one row per team and match of a table phase.   *)

StandingsPhaseStages == {"REGULAR_SEASON", "GROUP_STAGE", "LEAGUE_STAGE"}

Matchday(r) == Fixtures[r.match_id].matchday

Points(r) == CASE r.result = "W" -> 3 [] r.result = "D" -> 1 [] OTHER -> 0

TeamMatches(rows) ==
    {r \in Decided(rows) : Fixtures[r.match_id].stage \in StandingsPhaseStages}

\* The partition of a row: its competition, season and group.
SameTable(q, r) ==
    /\ q.competition = r.competition
    /\ q.season = r.season
    /\ Fixtures[q.match_id].group = Fixtures[r.match_id].group

\* A sum over nothing but nulls is null, which sorts behind every number.
NullSum == -1000

SumOfGoals(op(_), rows) ==
    LET scored == {r \in rows : r.goals # <<>>} IN
    IF scored = {} THEN NullSum ELSE SumFunction([r \in scored |-> op(r)])

GoalDifference(r) == r.goals[1] - r.goals[2]
GoalsFor(r)       == r.goals[1]

(* Mutant: order by kickoff_date_utc. *)
FrameByDate(r, teamMatches) ==
    {q \in teamMatches : SameTable(q, r) /\ q.team = r.team /\ q.day <= r.day}

\* over (partition by .. order by matchday): all rows up to the same matchday.
Frame(r, teamMatches) ==
    {q \in teamMatches : /\ SameTable(q, r)
                         /\ q.team = r.team
                         /\ Matchday(q) <= Matchday(r)}

Cumulative(r, teamMatches) ==
    LET frame == Frame(r, teamMatches) IN
    [row |-> r,
     key |-> <<SumFunction([q \in frame |-> Points(q)]),
               SumOfGoals(GoalDifference, frame),
               SumOfGoals(GoalsFor, frame)>>]

\* order by points desc, goal difference desc, goals for desc
Ahead(k, l) == \/ k[1] > l[1]
               \/ k[1] = l[1] /\ k[2] > l[2]
               \/ k[1] = l[1] /\ k[2] = l[2] /\ k[3] > l[3]

mart_standings_over_time(rows) ==
    LET team_matches == TeamMatches(rows)
        cumulative == {Cumulative(r, team_matches) : r \in team_matches}
        position(c) == 1 + Cardinality({d \in cumulative :
                               /\ SameTable(d.row, c.row)
                               /\ Matchday(d.row) = Matchday(c.row)
                               /\ Ahead(d.key, c.key)})
    IN  {[row |-> c.row, key |-> c.key, position |-> position(c)] : c \in cumulative}

get_reconstructed_final_standings(competition, season, rows) ==
    LET mart == {s \in mart_standings_over_time(rows) :
                    s.row.competition = competition /\ s.row.season = season}
    IN  {s \in mart : \A q \in mart : SameTable(q.row, s.row)
                                        => Matchday(q.row) <= Matchday(s.row)}

-----------------------------------------------------------------------------
(* Properties.  What a reader of a page takes the numbers to mean is stated *)
(* directly, over the results in the order of the calendar.                 *)

\* What the properties rest on in the source's calendar: a competition begins
\* a season after the last one, and in the table phase of a season each team
\* has one match per matchday.
SeasonsInOrder ==
    \A m, n \in MatchIds :
        /\ Fixtures[m].competition = Fixtures[n].competition
        /\ Fixtures[m].season < Fixtures[n].season
        => Fixtures[m].late < Fixtures[n].day

OneMatchPerMatchday ==
    \A m, n \in MatchIds :
        /\ {Fixtures[m].stage, Fixtures[n].stage} \subseteq StandingsPhaseStages
        /\ Fixtures[m].competition = Fixtures[n].competition
        /\ Fixtures[m].season = Fixtures[n].season
        /\ Fixtures[m].group = Fixtures[n].group
        /\ Fixtures[m].matchday = Fixtures[n].matchday
        /\ {Fixtures[m].home, Fixtures[m].away}
              \cap {Fixtures[n].home, Fixtures[n].away} # {}
        => m = n

\* The results of the rows, each where as many rows are before it.
InOrder(rows) ==
    LET before(r) == {q \in rows :
            q.day < r.day \/ (q.day = r.day /\ q.match_id < r.match_id)}
    IN  [i \in 1 .. Cardinality(rows) |->
            (CHOOSE r \in rows : Cardinality(before(r)) = i - 1).result]

Runs(s, class) ==
    {r \in (DOMAIN s) \X (DOMAIN s) :
        r[1] <= r[2] /\ \A k \in r[1] .. r[2] : s[k] \in class}
LongestRun(s, class) == MaxOr0({r[2] - r[1] + 1 : r \in Runs(s, class)})
LastRun(s, class) ==
    MaxOr0({r[2] - r[1] + 1 : r \in {q \in Runs(s, class) : q[2] = Len(s)}})

(* mart_streaks (gaps and islands over three row numberings) gives the      *)
(* longest run of wins and of unbeaten matches, and the one the latest      *)
(* decided match ends, whatever was postponed, annulled or never decided.   *)
StreaksRight ==
    LET rows == fct_team_matches IN
    \A t \in Teams, c \in Competitions :
        LET s == InOrder(Of(t, c, Decided(rows))) IN
        mart_streaks(t, c, rows) =
            [current_win_streak      |-> LastRun(s, Win),
             current_unbeaten_streak |-> LastRun(s, Unbeaten),
             longest_win_streak      |-> LongestRun(s, Win),
             longest_unbeaten_streak |-> LongestRun(s, Unbeaten)]

(* The last results shown beside a team in a table end in the streak shown  *)
(* on the streaks tab: mart_team_form and mart_streaks order the same       *)
(* matches alike, and only the streak looks back over the season's start.   *)
FormEndsInStreak ==
    LET rows == fct_team_matches IN
    \A t \in Teams, c \in Competitions :
        LET results == Of(t, c, Decided(rows))
            streaks == mart_streaks(t, c, rows)
            season  == Max({r.season : r \in results})
            form    == last_5_results(t, c, season, rows)
            Ends(streak, run) == IF run = Len(form) THEN streak >= run
                                                    ELSE streak = run
        IN  results # {} =>
                /\ Ends(streaks.current_win_streak, LastRun(form, Win))
                /\ Ends(streaks.current_unbeaten_streak, LastRun(form, Unbeaten))

(* mart_head_to_head goes by the source's winner and by team id,            *)
(* fct_team_matches by the goals and by side; whichever team a page asks    *)
(* about first, both count the same wins, draws and goals, and the page's   *)
(* list of matches is as long as its matches_played.                        *)
HeadToHeadAgrees ==
    LET rows == fct_team_matches
        Goals(i, ms) == SumFunction([r \in ms |-> r.goals[i]])
    IN
    \A t \in Teams : \A u \in Teams \ {t} :
        LET meetings == {r \in rows : r.team = t /\ r.opponent = u}
            With(result) == Cardinality({r \in meetings : r.result = result})
            scored == {r \in meetings : r.status = "FINISHED" /\ r.goals # <<>>}
        IN  PairRecord(t, u) =
                [matches_played |-> Cardinality(Meetings(t, u)),
                 wins |-> <<With("W"), With("L")>>,
                 draws |-> With("D"),
                 goals |-> <<Goals(1, scored), Goals(2, scored)>>]

(* _marts.yml:269-271 tests that the matches of a pair are its wins and     *)
(* draws.                                                                   *)
MatchesAddUp ==
    \A t \in Teams : \A u \in Teams \ {t} :
        LET record == PairRecord(t, u) IN
        record.matches_played = record.wins[1] + record.wins[2] + record.draws

(* The averages per season and the records per pair are made of the same    *)
(* matches: over everything, they count as many results and as many goals.  *)
StatsConserve ==
    LET rows  == fct_team_matches
        pairs == {p \in Teams \X Teams : p[1] < p[2]}
        results(p) == LET h == mart_head_to_head(p[1], p[2])
                      IN  h.wins[1] + h.wins[2] + h.draws
        goals(p)   == LET h == mart_head_to_head(p[1], p[2])
                      IN  h.goals[1] + h.goals[2]
        counted(cs) == mart_cross_league_stats(cs[1], cs[2], rows).home_win_rate[2]
        scored(cs)  == mart_cross_league_stats(cs[1], cs[2], rows).goals_per_match[1]
        all == Competitions \X Seasons
    IN  /\ SumFunction([p \in pairs |-> results(p)])
              = SumFunction([cs \in all |-> counted(cs)])
        /\ SumFunction([p \in pairs |-> goals(p)])
              = SumFunction([cs \in all |-> scored(cs)])

(* Once every team of a table of a season (a league, or one of its groups)  *)
(* has a result on the table's last matchday, and a score on any, the table *)
(* reconstructed for that season holds every team once, with all its points *)
(* and goals, also those of matches played after a later matchday and none  *)
(* of a knockout round, whose matchdays start again at 1, and in its place  *)
(* among the teams of that table (mart_standings_over_time.sql).            *)
FinalTableRight ==
    LET rows == fct_team_matches
        Group(r) == Fixtures[r.match_id].group
        groups == {Fixtures[m].group : m \in MatchIds}
    IN
    \A c \in Competitions, y \in Seasons, g \in groups :
        LET phase   == {r \in rows :
                           /\ r.competition = c /\ r.season = y /\ Group(r) = g
                           /\ Fixtures[r.match_id].stage \in StandingsPhaseStages}
            league  == Decided(phase)
            members == {r.team : r \in phase}
            table   == {s \in get_reconstructed_final_standings(c, y, rows) :
                           Group(s.row) = g}
            last    == Max({Matchday(r) : r \in league})
            own(t)  == {r \in league : r.team = t}
            goals(t, i) == SumFunction([w \in own(t) |->
                                           IF w.goals = <<>> THEN 0 ELSE w.goals[i]])
            with(t, result) == Cardinality({r \in own(t) : r.result = result})
            tally == [t \in members |->
                         <<3 * with(t, "W") + with(t, "D"),
                           goals(t, 1) - goals(t, 2), goals(t, 1)>>]
            complete == /\ league # {}
                        /\ \A t \in members :
                              /\ \E r \in own(t) : Matchday(r) = last
                              /\ \E r \in own(t) : r.goals # <<>>
            place(t) == 1 + Cardinality({u \in members : Ahead(tally[u], tally[t])})
        IN  complete =>
                {<<s.row.team, s.key, s.position>> : s \in table}
                  = {<<t, tally[t], place(t)>> : t \in members}

=============================================================================
