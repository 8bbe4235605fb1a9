------------------------------ MODULE Matches ------------------------------
(***************************************************************************)
(* The raw table `matches` over the course of the seasons, and the staging  *)
(* and fact models on top of it (stg_matches, fct_matches,                  *)
(* fct_team_matches).                                                       *)
(*                                                                         *)
(* The source publishes a match and may publish it again with any later     *)
(* content: it is played, decided without play, moved to another day, or    *)
(* corrected.  Each night's rows are merged on id, so the table holds the   *)
(* last content published for each match.  Which payloads the source sends  *)
(* is known from what the repository says of it: goals come in pairs, a     *)
(* winner only with a decided match, no goals with an award, and a status   *)
(* that is not one of the enumeration now and then.                         *)
(***************************************************************************)
EXTENDS Integers, Sequences, FiniteSetsExt

CONSTANTS
    Fixtures,    \* per match id: the teams, where and when it is to be played
    Scores,      \* per match id: the scores <<home, away>> it may end with
    MaxUnusual   \* bound: matches that are not played as planned

ASSUME FixturesAssumption ==
    /\ MaxUnusual \in Nat
    /\ IsFiniteSet(DOMAIN Fixtures) /\ DOMAIN Fixtures \subseteq Nat
    /\ \A m \in DOMAIN Fixtures :
          /\ {Fixtures[m].home, Fixtures[m].away, Fixtures[m].season} \subseteq Nat \ {0}
          /\ {Fixtures[m].day, Fixtures[m].late, Fixtures[m].matchday} \subseteq Int
          /\ Fixtures[m].home # Fixtures[m].away
          /\ Fixtures[m].day < Fixtures[m].late
          /\ Scores[m] # {} /\ Scores[m] \subseteq Nat \X Nat

VARIABLE matches   \* raw.matches: the last published row of each match

MatchIds == DOMAIN Fixtures

\* dbt_project.yml, vars.match_statuses
MatchStatuses == {"SCHEDULED", "TIMED", "IN_PLAY", "PAUSED", "FINISHED",
                  "POSTPONED", "SUSPENDED", "CANCELLED", "AWARDED"}

-----------------------------------------------------------------------------
(* What the source publishes.  full_time is <<>> when both goals are null.  *)

WinnerOf(score) == CASE score[1] > score[2] -> "HOME_TEAM"
                     [] score[1] < score[2] -> "AWAY_TEAM"
                     [] OTHER -> "DRAW"

Row(status, winner, score, day) ==
    [status |-> status, winner |-> winner, full_time |-> score, utc_date |-> day]

AsPlanned(m) == Row("TIMED", "null", <<>>, Fixtures[m].day)

\* Rows of a match that was played on the day it was to be played.
PlayedRows(m) ==
    {Row("FINISHED", WinnerOf(s), s, Fixtures[m].day) : s \in Scores[m]}

\* The score in a row that decides nothing: one stands for all.
AScore(m) == CHOOSE s \in Scores[m] : TRUE

\* The rest: played later, interrupted, awarded with or without a winner,
\* finished with no score, or with a timestamp where the status belongs.
UnusualRows(m) ==
    LET f == Fixtures[m] IN
    {Row("POSTPONED", "null", <<>>, f.late), Row("FINISHED", "null", <<>>, f.day)}
    \cup {Row("FINISHED", WinnerOf(s), s, f.late) : s \in Scores[m]}
    \cup {Row(status, "null", AScore(m), f.day) :
              status \in {"IN_PLAY", "2024-05-19T15:00:00Z"}}
    \cup {Row("AWARDED", w, <<>>, f.day) :
              w \in {"HOME_TEAM", "AWAY_TEAM", "DRAW", "null"}}

Unusual(ms) == {m \in MatchIds : \/ ms[m].status \notin {"TIMED", "FINISHED"}
                                 \/ ms[m].utc_date # Fixtures[m].day
                                 \/ ms[m].status = "FINISHED" /\ ms[m].full_time = <<>>}

\* iter_matches and the merge on id: the row replaces the one before it.
Load(m, row) ==
    /\ row # matches[m]
    /\ matches' = [matches EXCEPT ![m] = row]
    /\ Cardinality(Unusual(matches')) <= MaxUnusual

Play(m)    == \E row \in PlayedRows(m) : Load(m, row)
Disrupt(m) == \E row \in UnusualRows(m) : Load(m, row)
Replan(m)  == Load(m, AsPlanned(m))

Init == matches = [m \in MatchIds |-> AsPlanned(m)]
Next == \E m \in MatchIds : Play(m) \/ Disrupt(m) \/ Replan(m)
Spec == Init /\ [][Next]_matches

-----------------------------------------------------------------------------
(* stg_matches and fct_matches *)

(* Mutant: the status is passed through as the source sent it. *)
RawStatus(status_raw) == status_raw

StagedStatus(status_raw) ==
    IF status_raw \in MatchStatuses THEN status_raw ELSE "UNKNOWN"

fct_matches(m) ==
    [status |-> StagedStatus(matches[m].status),
     winner |-> matches[m].winner,
     full_time |-> matches[m].full_time,
     kickoff |-> matches[m].utc_date]

(* fct_team_matches: every match once from each side. *)

\* The first CASE branch of `result` needs the goals, the second the winner.
Result(match, is_home) ==
    LET own   == IF is_home THEN 1 ELSE 2
        other == 3 - own
        us    == IF is_home THEN "HOME_TEAM" ELSE "AWAY_TEAM"
        score == match.full_time
    IN  CASE match.status = "FINISHED" /\ score # <<>> ->
                 CASE score[own] > score[other] -> "W"
                   [] score[own] < score[other] -> "L"
                   [] OTHER -> "D"
          [] match.status = "AWARDED" /\ match.winner # "null" ->
                 CASE match.winner = "DRAW" -> "D"
                   [] match.winner = us -> "W"
                   [] OTHER -> "L"
          [] OTHER -> "null"

Side(m, is_home) ==
    LET f == Fixtures[m]
        match == fct_matches(m)
    IN  [match_id |-> m,
         competition |-> f.competition,
         season |-> f.season,
         day |-> match.kickoff,
         status |-> match.status,
         team |-> IF is_home THEN f.home ELSE f.away,
         opponent |-> IF is_home THEN f.away ELSE f.home,
         is_home |-> is_home,
         goals |-> IF is_home \/ match.full_time = <<>> THEN match.full_time
                   ELSE <<match.full_time[2], match.full_time[1]>>,
         result |-> Result(match, is_home)]

fct_team_matches == {Side(m, h) : m \in MatchIds, h \in BOOLEAN}

\* `where result is not null`, as in every mart on results.
Decided(rows) == {r \in rows : r.result # "null"}

(* A match that was never decided has no winner, one decided without play   *)
(* has no goals, and no more than MaxUnusual matches left the plan.         *)
TypeOK ==
    /\ DOMAIN matches = MatchIds
    /\ \A m \in MatchIds :
          /\ matches[m] \in {AsPlanned(m)} \cup PlayedRows(m) \cup UnusualRows(m)
          /\ fct_matches(m).status \in MatchStatuses \cup {"UNKNOWN"}
    /\ Cardinality(Unusual(matches)) <= MaxUnusual

=============================================================================
