---------------------------- MODULE Marts_proofs ----------------------------
(***************************************************************************)
(* Proofs about the matches and the marts, for every set of fixtures, every *)
(* score and every number of matches that are not played as planned.        *)
(***************************************************************************)
EXTENDS Marts, Aggregates

-----------------------------------------------------------------------------
(* The raw rows *)

LEMMA FixtureTypes ==
    ASSUME NEW m \in MatchIds
    PROVE  /\ m \in Nat
           /\ Fixtures[m].home \in Nat \ {0} /\ Fixtures[m].away \in Nat \ {0}
           /\ Fixtures[m].season \in Nat \ {0} /\ Fixtures[m].matchday \in Int
           /\ Fixtures[m].day \in Int /\ Fixtures[m].late \in Int
           /\ Fixtures[m].home # Fixtures[m].away
           /\ Fixtures[m].day < Fixtures[m].late
           /\ AScore(m) \in Scores[m] /\ Scores[m] \subseteq Nat \X Nat
<1>1. m \in DOMAIN Fixtures
  BY DEF MatchIds
<1>2. Scores[m] # {}
  BY <1>1, FixturesAssumption
<1>3. AScore(m) \in Scores[m]
  BY <1>2 DEF AScore
<1> QED BY <1>1, <1>3, FixturesAssumption

LEMMA MatchIdsFinite == IsFiniteSet(MatchIds) /\ MatchIds \subseteq Nat
BY FixturesAssumption DEF MatchIds

\* The rows that the source may publish of a match.
RowsOf(m) == {AsPlanned(m)} \cup PlayedRows(m) \cup UnusualRows(m)

LEMMA StatusStaged ==
    ASSUME NEW s
    PROVE  StagedStatus(s) \in MatchStatuses \cup {"UNKNOWN"}
BY DEF StagedStatus

LEMMA InitTyped == Init => TypeOK
<1> SUFFICES ASSUME Init PROVE TypeOK
  OBVIOUS
<1>1. /\ DOMAIN matches = MatchIds
      /\ \A m \in MatchIds : matches[m] = AsPlanned(m)
  BY DEF Init
<1>2. Unusual(matches) = {}
  BY <1>1 DEF Unusual, AsPlanned, Row
<1>3. Cardinality(Unusual(matches)) = 0 /\ MaxUnusual \in Nat
  BY <1>2, FS_EmptySet, FixturesAssumption
<1> QED BY <1>1, <1>3, StatusStaged DEF TypeOK, fct_matches

LEMMA LoadTyped ==
    ASSUME TypeOK, NEW m \in MatchIds, NEW row \in RowsOf(m), Load(m, row)
    PROVE  TypeOK'
<1>1. DOMAIN matches' = MatchIds
  BY DEF TypeOK, Load
<1>2. \A n \in MatchIds : matches'[n] \in RowsOf(n)
  BY DEF TypeOK, Load, RowsOf
<1>3. Cardinality(Unusual(matches')) <= MaxUnusual
  BY DEF Load
<1> QED BY <1>1, <1>2, <1>3, StatusStaged DEF TypeOK, RowsOf, fct_matches

LEMMA MatchStepTyped ==
    ASSUME TypeOK, NEW m \in MatchIds, Play(m) \/ Disrupt(m) \/ Replan(m)
    PROVE  TypeOK'
BY LoadTyped DEF Play, Disrupt, Replan, RowsOf

(* The table of matches holds a row that the source may have published of   *)
(* each match, staged to a known status, whatever is published and in       *)
(* whichever order (stg_matches.sql, accepted_values of _staging.yml).      *)
THEOREM MatchesTyped == Spec => []TypeOK
<1>1. Init => TypeOK
  BY InitTyped
<1>2. TypeOK /\ [Next]_matches => TypeOK'
  <2>1. ASSUME TypeOK, UNCHANGED matches PROVE TypeOK'
    BY <2>1 DEF TypeOK, fct_matches, Unusual
  <2> QED BY <2>1, MatchStepTyped DEF Next
<1> QED BY <1>1, <1>2, PTL DEF Spec

(* What a published row may hold: goals are pairs, a winner comes with the  *)
(* decision and fits the goals, and an award has no goals.                  *)
LEMMA MatchFacts ==
    ASSUME TypeOK, NEW m \in MatchIds
    PROVE  LET match == fct_matches(m) IN
           /\ match.full_time = <<>> \/ match.full_time \in Nat \X Nat
           /\ match.winner \in {"HOME_TEAM", "AWAY_TEAM", "DRAW", "null"}
           /\ match.kickoff \in {Fixtures[m].day, Fixtures[m].late}
           /\ match.status = "AWARDED" => match.full_time = <<>>
           /\ match.status = "FINISHED" =>
                 IF match.full_time = <<>> THEN match.winner = "null"
                 ELSE match.winner = WinnerOf(match.full_time)
<1> DEFINE row == matches[m]
<1>1. row \in RowsOf(m)
  BY DEF TypeOK, RowsOf
<1>2. /\ fct_matches(m).status = StagedStatus(row.status)
      /\ fct_matches(m).winner = row.winner
      /\ fct_matches(m).full_time = row.full_time
      /\ fct_matches(m).kickoff = row.utc_date
  BY DEF fct_matches
<1>3. \A s \in Nat \X Nat : /\ s # <<>>
                            /\ WinnerOf(s) \in {"HOME_TEAM", "AWAY_TEAM", "DRAW"}
  BY DEF WinnerOf
<1>4. AScore(m) \in Nat \X Nat /\ Scores[m] \subseteq Nat \X Nat
  BY FixtureTypes
<1>5. /\ StagedStatus("TIMED") = "TIMED" /\ StagedStatus("FINISHED") = "FINISHED"
      /\ StagedStatus("POSTPONED") = "POSTPONED" /\ StagedStatus("AWARDED") = "AWARDED"
      /\ StagedStatus("IN_PLAY") = "IN_PLAY"
      /\ StagedStatus("2024-05-19T15:00:00Z") = "UNKNOWN"
  BY DEF StagedStatus, MatchStatuses
<1>6. CASE row = AsPlanned(m)
  BY <1>2, <1>5, <1>6 DEF AsPlanned, Row
<1>7. CASE row \in PlayedRows(m)
  <2>1. PICK s \in Scores[m] : row = Row("FINISHED", WinnerOf(s), s, Fixtures[m].day)
    BY <1>7 DEF PlayedRows
  <2> QED BY <1>2, <1>3, <1>4, <1>5, <2>1 DEF Row
<1>8. CASE row \in UnusualRows(m)
  <2>1. CASE row \in {Row("POSTPONED", "null", <<>>, Fixtures[m].late),
                      Row("FINISHED", "null", <<>>, Fixtures[m].day)}
    BY <1>2, <1>5, <2>1 DEF Row
  <2>2. CASE \E s \in Scores[m] : row = Row("FINISHED", WinnerOf(s), s, Fixtures[m].late)
    BY <1>2, <1>3, <1>4, <1>5, <2>2 DEF Row
  <2>3. CASE \E status \in {"IN_PLAY", "2024-05-19T15:00:00Z"} :
                row = Row(status, "null", AScore(m), Fixtures[m].day)
    BY <1>2, <1>4, <1>5, <2>3 DEF Row
  <2>4. CASE \E w \in {"HOME_TEAM", "AWAY_TEAM", "DRAW", "null"} :
                row = Row("AWARDED", w, <<>>, Fixtures[m].day)
    BY <1>2, <1>5, <2>4 DEF Row
  <2> QED BY <1>8, <2>1, <2>2, <2>3, <2>4 DEF UnusualRows
<1> QED BY <1>1, <1>6, <1>7, <1>8 DEF RowsOf

-----------------------------------------------------------------------------
(* The rows of fct_team_matches *)

Results == {"W", "D", "L", "null"}

LEMMA SideFields ==
    ASSUME NEW m \in MatchIds, NEW h \in BOOLEAN
    PROVE  /\ Side(m, h).match_id = m
           /\ Side(m, h).competition = Fixtures[m].competition
           /\ Side(m, h).season = Fixtures[m].season
           /\ Side(m, h).day = fct_matches(m).kickoff
           /\ Side(m, h).status = fct_matches(m).status
           /\ Side(m, h).team = IF h THEN Fixtures[m].home ELSE Fixtures[m].away
           /\ Side(m, h).opponent = IF h THEN Fixtures[m].away ELSE Fixtures[m].home
           /\ Side(m, h).is_home = h
           /\ Side(m, h).result = Result(fct_matches(m), h)
           /\ Side(m, h) \in fct_team_matches
BY DEF Side, fct_team_matches

LEMMA ResultType ==
    ASSUME NEW match, NEW h \in BOOLEAN
    PROVE  Result(match, h) \in Results
<1> DEFINE own == IF h THEN 1 ELSE 2
           s == match.full_time
<1>1. CASE match.status = "FINISHED" /\ s # <<>>
  BY <1>1 DEF Result, Results
<1>2. CASE ~ (match.status = "FINISHED" /\ s # <<>>)
  BY <1>2 DEF Result, Results
<1> QED BY <1>1, <1>2

(* Each row stands for one side of one match: a team has one row per match. *)
LEMMA TeamRowFacts ==
    ASSUME TypeOK
    PROVE  /\ IsFiniteSet(fct_team_matches)
           /\ \A r \in fct_team_matches :
                 /\ r.match_id \in MatchIds /\ r.match_id \in Nat
                 /\ r.day \in Int /\ r.team \in Teams /\ r.opponent \in Teams
                 /\ r.competition = Fixtures[r.match_id].competition
                 /\ r.season = Fixtures[r.match_id].season
                 /\ r.result \in Results /\ r.is_home \in BOOLEAN
                 /\ r = Side(r.match_id, r.is_home)
           /\ \A r, q \in fct_team_matches :
                 r.match_id = q.match_id /\ r.team = q.team => r = q
<1>1. IsFiniteSet(fct_team_matches)
  <2> DEFINE f == [p \in MatchIds \X BOOLEAN |-> Side(p[1], p[2])]
  <2>1. IsFiniteSet(BOOLEAN)
    <3>1. BOOLEAN = {TRUE} \cup {FALSE}
      OBVIOUS
    <3>2. IsFiniteSet({TRUE})
      BY FS_Singleton
    <3>3. IsFiniteSet({TRUE} \cup {FALSE})
      BY <3>2, FS_AddElement, Zenon
    <3> QED BY <3>1, <3>3, Zenon
  <2>2. IsFiniteSet(MatchIds \X BOOLEAN)
    BY <2>1, MatchIdsFinite, FS_Product
  <2>3. f \in Surjection(MatchIds \X BOOLEAN, fct_team_matches)
    <3>1. \A p \in MatchIds \X BOOLEAN : Side(p[1], p[2]) \in fct_team_matches
      BY DEF fct_team_matches
    <3>2. \A r \in fct_team_matches : \E p \in MatchIds \X BOOLEAN : r = Side(p[1], p[2])
      <4> SUFFICES ASSUME NEW r \in fct_team_matches
                   PROVE  \E p \in MatchIds \X BOOLEAN : r = Side(p[1], p[2])
        OBVIOUS
      <4>1. PICK m \in MatchIds, h \in BOOLEAN : r = Side(m, h)
        BY DEF fct_team_matches
      <4> WITNESS <<m, h>> \in MatchIds \X BOOLEAN
      <4> QED BY <4>1
    <3> QED BY <3>1, <3>2 DEF Surjection
  <2> HIDE DEF f
  <2> QED BY <2>2, <2>3, FS_Surjection
<1>2. ASSUME NEW r \in fct_team_matches
      PROVE  /\ r.match_id \in MatchIds /\ r.match_id \in Nat
             /\ r.day \in Int /\ r.team \in Teams /\ r.opponent \in Teams
             /\ r.competition = Fixtures[r.match_id].competition
             /\ r.season = Fixtures[r.match_id].season
             /\ r.result \in Results /\ r.is_home \in BOOLEAN
             /\ r = Side(r.match_id, r.is_home)
  <2>1. PICK m \in MatchIds, h \in BOOLEAN : r = Side(m, h)
    BY DEF fct_team_matches
  <2>2. fct_matches(m).kickoff \in Int /\ m \in Nat
    BY MatchFacts, FixtureTypes
  <2>3. Fixtures[m].home \in Teams /\ Fixtures[m].away \in Teams
    BY DEF Teams
  <2> QED BY <2>1, <2>2, <2>3, SideFields, ResultType
<1>3. ASSUME NEW r \in fct_team_matches, NEW q \in fct_team_matches,
             r.match_id = q.match_id, r.team = q.team
      PROVE  r = q
  <2> DEFINE m == r.match_id
  <2>1. /\ m \in MatchIds /\ r.is_home \in BOOLEAN /\ q.is_home \in BOOLEAN
        /\ r = Side(m, r.is_home) /\ q = Side(m, q.is_home)
    BY <1>2, <1>3
  <2>2. Fixtures[m].home # Fixtures[m].away
    BY <2>1, FixtureTypes
  <2>3. /\ r.team = IF r.is_home THEN Fixtures[m].home ELSE Fixtures[m].away
        /\ q.team = IF q.is_home THEN Fixtures[m].home ELSE Fixtures[m].away
    <3> HIDE DEF m
    <3> QED BY <2>1, SideFields
  <2>4. r.is_home = q.is_home
    BY <1>3, <2>1, <2>2, <2>3
  <2> QED BY <2>1, <2>4
<1> QED BY <1>1, <1>2, <1>3

-----------------------------------------------------------------------------
(* The calendar of a team *)

RowsOfTeam(t) == {r \in fct_team_matches : r.team = t}

UpToEach(R) == [r \in R |-> UpTo(r, R)]

\* row_number() over (order by kickoff_date_utc, match_id)
Rn(R) == PlaceIn(UpToEach(R), R)

\* The row with a number.
RowAt(R, i) == CHOOSE r \in R : Rn(R)[r] = i

(* The matches of a team are in a total order: no two rows of one team have *)
(* the same id.                                                             *)
LEMMA Calendar ==
    ASSUME TypeOK, NEW t, NEW R \in SUBSET RowsOfTeam(t)
    PROVE  IsFiniteSet(R) /\ IsOrder(UpToEach(R), R)
<1>1. IsFiniteSet(R)
  <2>1. R \in SUBSET fct_team_matches
    BY DEF RowsOfTeam
  <2> QED BY <2>1, TeamRowFacts, FS_Subset
<1>2. \A r \in R : r.day \in Int /\ r.match_id \in Nat
  BY TeamRowFacts DEF RowsOfTeam
<1>3. \A q, r \in R : q.match_id = r.match_id => q = r
  BY TeamRowFacts DEF RowsOfTeam
<1>4. \A q, r \in R : q \in UpToEach(R)[r] <=>
         q.day < r.day \/ (q.day = r.day /\ q.match_id <= r.match_id)
  BY DEF UpToEach, UpTo
<1>5. UpToEach(R) \in [R -> SUBSET R]
  BY DEF UpToEach, UpTo
<1>6. \A q, r \in R : q \in UpToEach(R)[r] \/ r \in UpToEach(R)[q]
  BY <1>2, <1>4
<1>7. \A q, r \in R : q \in UpToEach(R)[r] /\ r \in UpToEach(R)[q] => q = r
  BY <1>2, <1>3, <1>4
<1>8. \A x, y, z \in R : x \in UpToEach(R)[y] /\ y \in UpToEach(R)[z] => x \in UpToEach(R)[z]
  BY <1>2, <1>4
<1> QED BY <1>1, <1>5, <1>6, <1>7, <1>8 DEF IsOrder

LEMMA Numbering ==
    ASSUME TypeOK, NEW t, NEW R \in SUBSET RowsOfTeam(t)
    PROVE  /\ IsFiniteSet(R) /\ Cardinality(R) \in Nat
           /\ \A r \in R : /\ Rn(R)[r] \in 1 .. Cardinality(R) /\ Rn(R)[r] \in Int
                           /\ Rn(R)[r] = Cardinality(UpTo(r, R))
           /\ \A q, r \in R : Rn(R)[q] = Rn(R)[r] => q = r
           /\ \A q, r \in R : q \in UpTo(r, R) <=> Rn(R)[q] <= Rn(R)[r]
           /\ \A i \in 1 .. Cardinality(R) : RowAt(R, i) \in R /\ Rn(R)[RowAt(R, i)] = i
<1>1. IsFiniteSet(R) /\ IsOrder(UpToEach(R), R)
  BY Calendar
<1>2. /\ Rn(R) \in Bijection(R, 1 .. Cardinality(R))
      /\ \A q, r \in R : q \in UpToEach(R)[r] <=> Rn(R)[q] <= Rn(R)[r]
  BY <1>1, RowNumbers DEF Rn
<1>3. /\ \A r \in R : Rn(R)[r] \in 1 .. Cardinality(R)
      /\ \A q, r \in R : Rn(R)[q] = Rn(R)[r] => q = r
      /\ \A i \in 1 .. Cardinality(R) : \E r \in R : Rn(R)[r] = i
  BY <1>2 DEF Bijection, Injection, Surjection, IsInjective
<1>4. \A r \in R : Rn(R)[r] = Cardinality(UpTo(r, R)) /\ UpToEach(R)[r] = UpTo(r, R)
  BY DEF Rn, PlaceIn, UpToEach
<1>5. \A i \in 1 .. Cardinality(R) : RowAt(R, i) \in R /\ Rn(R)[RowAt(R, i)] = i
  BY <1>3 DEF RowAt
<1>6. Cardinality(R) \in Nat
  BY <1>1, FS_CardinalityType
<1>7. \A r \in R : Rn(R)[r] \in Int
  BY <1>3, <1>6
<1> QED BY <1>1, <1>2, <1>3, <1>4, <1>5, <1>6, <1>7

(* InOrder lists the result of each row at its number.                      *)
LEMMA ListedInOrder ==
    ASSUME TypeOK, NEW t, NEW R \in SUBSET RowsOfTeam(t)
    PROVE  /\ DOMAIN InOrder(R) = 1 .. Cardinality(R)
           /\ \A i \in 1 .. Cardinality(R) : InOrder(R)[i] = RowAt(R, i).result
           /\ \A r \in R : InOrder(R)[Rn(R)[r]] = r.result
           /\ Len(InOrder(R)) = Cardinality(R)
<1> DEFINE before(r) == {q \in R : q.day < r.day \/ (q.day = r.day /\ q.match_id < r.match_id)}
           n == Cardinality(R)
<1>1. ASSUME NEW r \in R PROVE Cardinality(before(r)) = Rn(R)[r] - 1
  <2>1. before(r) = UpTo(r, R) \ {r} /\ r \in UpTo(r, R)
    <3>1. \A q \in R : q.day \in Int /\ q.match_id \in Nat /\ (q.match_id = r.match_id => q = r)
      BY TeamRowFacts DEF RowsOfTeam
    <3> QED BY <3>1 DEF UpTo
  <2>2. IsFiniteSet(UpTo(r, R))
    <3>1. UpTo(r, R) \in SUBSET R
      BY DEF UpTo
    <3> QED BY <3>1, Numbering, FS_Subset
  <2> HIDE DEF before
  <2> QED BY <2>1, <2>2, FS_RemoveElement, Numbering
<1>2. ASSUME NEW i \in 1 .. n
      PROVE  (CHOOSE r \in R : Cardinality(before(r)) = i - 1) = RowAt(R, i)
  <2>1. n \in Nat /\ \A r \in R : Rn(R)[r] \in 1 .. n
    BY Numbering
  <2>2. \A r \in R : Cardinality(before(r)) = i - 1 <=> Rn(R)[r] = i
    <3> SUFFICES ASSUME NEW r \in R
                 PROVE  Cardinality(before(r)) = i - 1 <=> Rn(R)[r] = i
      OBVIOUS
    <3>1. Rn(R)[r] \in Int /\ i \in Int /\ Cardinality(before(r)) = Rn(R)[r] - 1
      BY <1>1, <2>1
    <3> HIDE DEF before
    <3> QED BY <3>1
  <2> HIDE DEF before
  <2> QED BY <2>2 DEF RowAt
<1>3. InOrder(R) = [i \in 1 .. n |-> RowAt(R, i).result]
  <2>1. InOrder(R) = [i \in 1 .. n |-> (CHOOSE r \in R : Cardinality(before(r)) = i - 1).result]
    BY DEF InOrder
  <2> HIDE DEF before
  <2> QED BY <1>2, <2>1
<1>4. \A r \in R : RowAt(R, Rn(R)[r]) = r /\ Rn(R)[r] \in 1 .. n
  <2>1. /\ \A r \in R : Rn(R)[r] \in 1 .. n
        /\ \A i \in 1 .. n : RowAt(R, i) \in R /\ Rn(R)[RowAt(R, i)] = i
        /\ \A q, r \in R : Rn(R)[q] = Rn(R)[r] => q = r
    BY Numbering
  <2> QED BY <2>1
<1>5. n \in Nat
  BY Numbering
<1>6. Len(InOrder(R)) = n
  BY <1>3, <1>5
<1> QED BY <1>3, <1>4, <1>6

-----------------------------------------------------------------------------
(* mart_streaks *)

LEMMA MaxOr0Same ==
    ASSUME NEW A, NEW B, IsFiniteSet(B), A \subseteq B, B \subseteq Int,
           \A b \in B : \E a \in A : b <= a
    PROVE  MaxOr0(A) = MaxOr0(B)
<1>1. CASE B = {}
  BY <1>1 DEF MaxOr0
<1>2. CASE B # {}
  <2>1. A # {} /\ Max(B) \in B /\ \A y \in B : y <= Max(B)
    BY <1>2, MaxExists
  <2>2. PICK a \in A : Max(B) <= a
    BY <2>1
  <2>3. a = Max(B)
    <3>1. a \in Int /\ Max(B) \in Int /\ a <= Max(B)
      BY <2>1
    <3> QED BY <2>2, <3>1
  <2>4. Max(A) = a
    <3>1. A \subseteq Int /\ \A y \in A : y <= a
      BY <2>1, <2>3
    <3> QED BY <3>1, MaxIs
  <2> QED BY <1>2, <2>1, <2>3, <2>4 DEF MaxOr0
<1> QED BY <1>1, <1>2

\* The rows of a class, and the rows before r that are not of it.
OfClass(R, class) == {r \in R : r.result \in class}
GapsBefore(r, R, class) == UpTo(r, R) \ OfClass(R, class)

(* The difference of the two row numbers counts the matches before that do  *)
(* not belong to the class.                                                 *)
LEMMA IslandIsGaps ==
    ASSUME TypeOK, NEW t, NEW R \in SUBSET RowsOfTeam(t), NEW class,
           NEW r \in OfClass(R, class)
    PROVE  /\ Island(r, R, class) = Cardinality(GapsBefore(r, R, class))
           /\ IsFiniteSet(GapsBefore(r, R, class))
<1> DEFINE C == OfClass(R, class)
<1>1. C = {q \in R : (q.result \in class) <=> (r.result \in class)}
  BY DEF OfClass
<1>2. UpTo(r, C) = UpTo(r, R) \cap C
  BY DEF UpTo, OfClass
<1>3. IsFiniteSet(UpTo(r, R))
  <2>1. UpTo(r, R) \in SUBSET R
    BY DEF UpTo
  <2> QED BY <2>1, Numbering, FS_Subset
<1>4. /\ IsFiniteSet(UpTo(r, R) \ C)
      /\ Cardinality(UpTo(r, R) \ C)
           = Cardinality(UpTo(r, R)) - Cardinality(UpTo(r, R) \cap C)
  BY <1>3, FS_Difference
<1> QED BY <1>1, <1>2, <1>4 DEF Island, GapsBefore

(* Two rows of the class have the same difference just if every row between *)
(* them is of the class too.                                                *)
LEMMA SameIsland ==
    ASSUME TypeOK, NEW t, NEW R \in SUBSET RowsOfTeam(t), NEW class,
           NEW q \in OfClass(R, class), NEW r \in OfClass(R, class),
           Rn(R)[q] <= Rn(R)[r]
    PROVE  Island(q, R, class) = Island(r, R, class)
             <=> \A x \in R : Rn(R)[q] <= Rn(R)[x] /\ Rn(R)[x] <= Rn(R)[r]
                                 => x.result \in class
<1> DEFINE G(x) == GapsBefore(x, R, class)
<1>1. q \in R /\ r \in R /\ q.result \in class
  BY DEF OfClass
<1>2. \A x, y \in R : x \in UpTo(y, R) <=> Rn(R)[x] <= Rn(R)[y]
  BY Numbering
<1>3. \A x \in R : Rn(R)[x] \in Int
  BY Numbering
<1>4. \A x \in R, y \in R : x \in G(y) <=> Rn(R)[x] <= Rn(R)[y] /\ x.result \notin class
  BY <1>2 DEF GapsBefore, OfClass
<1>5. G(q) \in SUBSET R /\ G(r) \in SUBSET R
  BY DEF GapsBefore, UpTo
<1>6. G(q) \in SUBSET G(r)
  BY <1>1, <1>3, <1>4, <1>5
<1>7. Island(q, R, class) = Island(r, R, class) <=> G(q) = G(r)
  <2>1. /\ Island(q, R, class) = Cardinality(G(q)) /\ Island(r, R, class) = Cardinality(G(r))
        /\ IsFiniteSet(G(r))
    BY IslandIsGaps
  <2> HIDE DEF G
  <2>2. G(q) # G(r) => Cardinality(G(q)) < Cardinality(G(r))
    BY <1>6, <2>1, ProperPart
  <2>3. Cardinality(G(q)) \in Nat /\ Cardinality(G(r)) \in Nat
    BY <1>6, <2>1, ProperPart
  <2> QED BY <2>1, <2>2, <2>3
<1>8. ASSUME G(q) = G(r), NEW x \in R, Rn(R)[q] <= Rn(R)[x], Rn(R)[x] <= Rn(R)[r]
      PROVE  x.result \in class
  <2> SUFFICES ASSUME x.result \notin class PROVE FALSE
    OBVIOUS
  <2>1. x \in G(r)
    <3> HIDE DEF G
    <3> QED BY <1>1, <1>4, <1>8
  <2>2. Rn(R)[x] <= Rn(R)[q]
    <3> HIDE DEF G
    <3> QED BY <1>1, <1>4, <1>8, <2>1
  <2>3. Rn(R)[x] = Rn(R)[q]
    BY <1>1, <1>3, <1>8, <2>2
  <2>4. x = q
    BY <1>1, <2>3, Numbering
  <2> QED BY <1>1, <2>4
<1>9. ASSUME \A x \in R : Rn(R)[q] <= Rn(R)[x] /\ Rn(R)[x] <= Rn(R)[r]
                             => x.result \in class
      PROVE  G(q) = G(r)
  <2>1. ASSUME NEW x \in G(r) PROVE x \in G(q)
    <3>1. x \in R /\ Rn(R)[x] <= Rn(R)[r] /\ x.result \notin class
      <4> HIDE DEF G
      <4> QED BY <1>1, <1>4, <1>5
    <3>2. ~ (Rn(R)[q] <= Rn(R)[x])
      BY <1>9, <3>1
    <3>3. Rn(R)[x] <= Rn(R)[q]
      BY <1>1, <1>3, <3>1, <3>2
    <3> HIDE DEF G
    <3> QED BY <1>1, <1>4, <3>1, <3>3
  <2> HIDE DEF G
  <2> QED BY <1>6, <2>1
<1> HIDE DEF G
<1> QED BY <1>7, <1>8, <1>9

IslandOf(k, R, class) == {r \in OfClass(R, class) : Island(r, R, class) = k}

\* The numbers of an island's rows.
Numbers(I, R) == {Rn(R)[r] : r \in I}

(* The numbers of an island's rows are an interval, and as many as its      *)
(* rows.                                                                    *)
LEMMA IslandIsInterval ==
    ASSUME TypeOK, NEW t, NEW R \in SUBSET RowsOfTeam(t), NEW class,
           NEW k, IslandOf(k, R, class) # {}
    PROVE  LET I == IslandOf(k, R, class)
               lo == Min(Numbers(I, R))
               hi == Max(Numbers(I, R))
           IN  /\ lo \in 1 .. Cardinality(R) /\ hi \in 1 .. Cardinality(R) /\ lo <= hi
               /\ \A i \in lo .. hi : RowAt(R, i).result \in class
               /\ \A r \in I : lo <= Rn(R)[r] /\ Rn(R)[r] <= hi
               /\ Cardinality(I) = hi - lo + 1
<1> DEFINE I == IslandOf(k, R, class)
           N == Numbers(I, R)
           n == Cardinality(R)
           lo == Min(N)
           hi == Max(N)
<1>1. /\ I \in SUBSET R /\ n \in Nat /\ IsFiniteSet(I)
      /\ \A r \in R : Rn(R)[r] \in 1 .. n /\ Rn(R)[r] \in Int
  <2>1. I \in SUBSET R
    BY DEF IslandOf, OfClass
  <2> QED BY <2>1, Numbering, FS_Subset
<1>2. N \subseteq 1 .. n /\ N # {} /\ N \subseteq Int
  BY <1>1 DEF Numbers
<1>3. IsFiniteSet(N)
  <2>1. IsFiniteSet(1 .. n)
    BY <1>1, FS_Interval
  <2> HIDE DEF N
  <2> QED BY <1>2, <2>1, FS_Subset
<1>4. /\ lo \in N /\ hi \in N /\ (\A i \in N : lo <= i) /\ (\A i \in N : i <= hi)
  <2> HIDE DEF N
  <2> QED BY <1>2, <1>3, MaxExists, MinExists
<1>5. PICK b \in I : Rn(R)[b] = lo
  BY <1>4 DEF Numbers
<1>6. PICK e \in I : Rn(R)[e] = hi
  BY <1>4 DEF Numbers
<1> HIDE DEF lo, hi
<1>7. lo \in 1 .. n /\ hi \in 1 .. n /\ lo \in Int /\ hi \in Int /\ lo <= hi
  BY <1>2, <1>4
<1>8. /\ b \in OfClass(R, class) /\ e \in OfClass(R, class)
      /\ Island(b, R, class) = k /\ Island(e, R, class) = k
  BY <1>5, <1>6 DEF IslandOf
<1>9. \A x \in R : lo <= Rn(R)[x] /\ Rn(R)[x] <= hi => x.result \in class
  BY <1>5, <1>6, <1>7, <1>8, SameIsland
<1>10. ASSUME NEW x \in R, lo <= Rn(R)[x], Rn(R)[x] <= hi PROVE x \in I
  <2>1. x \in OfClass(R, class)
    BY <1>9, <1>10 DEF OfClass
  <2>2. \A y \in R : Rn(R)[b] <= Rn(R)[y] /\ Rn(R)[y] <= Rn(R)[x] => y.result \in class
    BY <1>1, <1>5, <1>7, <1>9, <1>10
  <2>3. Island(b, R, class) = Island(x, R, class)
    BY <1>5, <1>8, <1>10, <2>1, <2>2, SameIsland
  <2> QED BY <1>8, <2>1, <2>3 DEF IslandOf
<1>11. \A i \in lo .. hi : /\ RowAt(R, i) \in R /\ Rn(R)[RowAt(R, i)] = i
                           /\ i \in Int /\ lo <= i /\ i <= hi
  <2>1. \A i \in lo .. hi : i \in 1 .. n /\ i \in Int /\ lo <= i /\ i <= hi
    BY <1>1, <1>7
  <2>2. \A i \in 1 .. n : RowAt(R, i) \in R /\ Rn(R)[RowAt(R, i)] = i
    BY Numbering
  <2> QED BY <2>1, <2>2
<1>12. \A i \in lo .. hi : RowAt(R, i).result \in class
  BY <1>9, <1>11
<1>13. \A r \in I : lo <= Rn(R)[r] /\ Rn(R)[r] <= hi /\ Rn(R)[r] \in lo .. hi
  <2>1. \A r \in I : Rn(R)[r] \in N /\ Rn(R)[r] \in Int
    BY <1>1 DEF Numbers
  <2> HIDE DEF N
  <2> QED BY <1>4, <1>7, <2>1
<1>14. Cardinality(I) = hi - lo + 1
  <2> DEFINE f == [r \in I |-> Rn(R)[r]]
  <2>1. f \in [I -> lo .. hi]
    BY <1>13
  <2>2. \A q, r \in I : f[q] = f[r] => q = r
    BY <1>1, Numbering
  <2>3. \A i \in lo .. hi : \E r \in I : f[r] = i
    <3> SUFFICES ASSUME NEW i \in lo .. hi PROVE \E r \in I : f[r] = i
      OBVIOUS
    <3>1. RowAt(R, i) \in I
      BY <1>10, <1>11
    <3> QED BY <1>11, <3>1
  <2>4. f \in Bijection(I, lo .. hi)
    <3> HIDE DEF f
    <3> QED BY <2>1, <2>2, <2>3 DEF Bijection, Injection, Surjection, IsInjective
  <2>5. Cardinality(lo .. hi) = Cardinality(I)
    <3> HIDE DEF f
    <3> QED BY <1>1, <2>4, SameCount
  <2> QED BY <1>7, <2>5, FS_Interval
<1> QED BY <1>7, <1>12, <1>13, <1>14 DEF lo, hi

(* The islands are runs of the calendar, with their lengths and ends ...    *)
LEMMA IslandsAreRuns ==
    ASSUME TypeOK, NEW t, NEW R \in SUBSET RowsOfTeam(t), NEW class,
           NEW i \in IslandLengths(R, class)
    PROVE  \E r \in Runs(InOrder(R), class) :
              r[2] - r[1] + 1 = i.length /\ r[2] = i.last_rn
<1> DEFINE n == Cardinality(R)
           C == {r \in R : r.result \in class}
           islandOf == [r \in C |-> Island(r, R, class)]
           island(k) == {r \in C : islandOf[r] = k}
<1>1. PICK k \in {islandOf[r] : r \in C} :
         i = [length |-> Cardinality(island(k)),
              last_rn |-> Max({Cardinality(UpTo(r, R)) : r \in island(k)})]
  BY DEF IslandLengths
<1>2. island(k) = IslandOf(k, R, class) /\ IslandOf(k, R, class) # {}
  BY DEF IslandOf, OfClass
<1> DEFINE I == IslandOf(k, R, class)
           lo == Min(Numbers(I, R))
           hi == Max(Numbers(I, R))
<1>3. {Cardinality(UpTo(r, R)) : r \in I} = Numbers(I, R)
  <2>1. I \in SUBSET R
    BY DEF IslandOf, OfClass
  <2>2. \A r \in I : Cardinality(UpTo(r, R)) = Rn(R)[r]
    BY <2>1, Numbering
  <2> QED BY <2>2 DEF Numbers
<1>4. i.length = Cardinality(I) /\ i.last_rn = hi
  BY <1>1, <1>2, <1>3
<1>5. /\ lo \in 1 .. n /\ hi \in 1 .. n /\ lo <= hi
      /\ \A j \in lo .. hi : RowAt(R, j).result \in class
      /\ Cardinality(I) = hi - lo + 1
  BY <1>2, IslandIsInterval
<1> HIDE DEF lo, hi
<1>6. DOMAIN InOrder(R) = 1 .. n /\ \A j \in 1 .. n : InOrder(R)[j] = RowAt(R, j).result
  BY ListedInOrder
<1>7. \A j \in lo .. hi : InOrder(R)[j] \in class
  <2>1. \A j \in lo .. hi : j \in 1 .. n
    <3>1. n \in Nat
      BY Numbering
    <3> HIDE DEF n
    <3> QED BY <1>5, <3>1
  <2> QED BY <1>5, <1>6, <2>1
<1>8. <<lo, hi>> \in Runs(InOrder(R), class)
  BY <1>5, <1>6, <1>7 DEF Runs
<1> QED BY <1>4, <1>5, <1>8

(* ... and each run lies in an island that ends no earlier.                 *)
LEMMA RunsAreInIslands ==
    ASSUME TypeOK, NEW t, NEW R \in SUBSET RowsOfTeam(t), NEW class,
           NEW run \in Runs(InOrder(R), class)
    PROVE  \E i \in IslandLengths(R, class) :
              /\ run[2] - run[1] + 1 <= i.length
              /\ run[2] <= i.last_rn /\ i.last_rn <= Cardinality(R)
<1> DEFINE n == Cardinality(R)
           C == {r \in R : r.result \in class}
           islandOf == [r \in C |-> Island(r, R, class)]
           island(k) == {r \in C : islandOf[r] = k}
           b == RowAt(R, run[1])
           e == RowAt(R, run[2])
<1>1. /\ run[1] \in 1 .. n /\ run[2] \in 1 .. n /\ run[1] <= run[2]
      /\ \A j \in run[1] .. run[2] : InOrder(R)[j] \in class
  BY ListedInOrder DEF Runs
<1>2. /\ n \in Nat /\ run[1] \in Int /\ run[2] \in Int
      /\ b \in R /\ e \in R /\ Rn(R)[b] = run[1] /\ Rn(R)[e] = run[2]
      /\ \A r \in R : Rn(R)[r] \in Int
  BY <1>1, Numbering
<1>3. \A x \in R : run[1] <= Rn(R)[x] /\ Rn(R)[x] <= run[2] => x.result \in class
  <2> SUFFICES ASSUME NEW x \in R, run[1] <= Rn(R)[x], Rn(R)[x] <= run[2]
               PROVE  x.result \in class
    OBVIOUS
  <2>1. Rn(R)[x] \in run[1] .. run[2]
    BY <1>2
  <2>2. InOrder(R)[Rn(R)[x]] = x.result
    BY ListedInOrder
  <2> QED BY <1>1, <2>1, <2>2
<1>4. b \in OfClass(R, class) /\ e \in OfClass(R, class) /\ b \in C
  <2> HIDE DEF b, e
  <2> QED BY <1>1, <1>2, <1>3 DEF OfClass
<1>5. Island(b, R, class) = Island(e, R, class)
  <2> HIDE DEF b, e
  <2> QED BY <1>1, <1>2, <1>3, <1>4, SameIsland
<1> DEFINE k == Island(b, R, class)
           I == IslandOf(k, R, class)
           lo == Min(Numbers(I, R))
           hi == Max(Numbers(I, R))
           i == [length |-> Cardinality(island(k)),
                 last_rn |-> Max({Cardinality(UpTo(r, R)) : r \in island(k)})]
<1>6. b \in I /\ e \in I
  <2> HIDE DEF b, e
  <2> QED BY <1>4, <1>5 DEF IslandOf
<1>7. /\ lo \in 1 .. n /\ hi \in 1 .. n
      /\ \A r \in I : lo <= Rn(R)[r] /\ Rn(R)[r] <= hi
      /\ Cardinality(I) = hi - lo + 1
  <2>1. I # {}
    BY <1>6
  <2> HIDE DEF k
  <2> QED BY <2>1, IslandIsInterval
<1>8. i \in IslandLengths(R, class)
  <2>1. k \in {islandOf[r] : r \in C}
    <3> HIDE DEF b
    <3> QED BY <1>4
  <2> HIDE DEF k
  <2> QED BY <2>1 DEF IslandLengths
<1>9. i.length = Cardinality(I) /\ i.last_rn = hi
  <2> HIDE DEF k
  <2>1. island(k) = I
    BY DEF IslandOf, OfClass
  <2>2. {Cardinality(UpTo(r, R)) : r \in I} = Numbers(I, R)
    <3>1. I \in SUBSET R
      BY DEF IslandOf, OfClass
    <3>2. \A r \in I : Cardinality(UpTo(r, R)) = Rn(R)[r]
      BY <3>1, Numbering
    <3> QED BY <3>2 DEF Numbers
  <2> QED BY <2>1, <2>2
<1>10. lo <= run[1] /\ run[2] <= hi
  <2> HIDE DEF b, e, I, lo, hi
  <2> QED BY <1>2, <1>6, <1>7
<1>11. run[2] - run[1] + 1 <= i.length /\ run[2] <= i.last_rn /\ i.last_rn <= n
  <2> HIDE DEF i, I, lo, hi
  <2> QED BY <1>2, <1>7, <1>9, <1>10
<1> QED BY <1>8, <1>11

LEMMA LongestIsLongestRun ==
    ASSUME TypeOK, NEW t, NEW R \in SUBSET RowsOfTeam(t), NEW class
    PROVE  LongestStreak(R, class) = LongestRun(InOrder(R), class)
<1> DEFINE n == Cardinality(R)
           s == InOrder(R)
           A == {i.length : i \in IslandLengths(R, class)}
           B == {r[2] - r[1] + 1 : r \in Runs(s, class)}
<1>1. n \in Nat /\ \A r \in Runs(s, class) : r[1] \in 1 .. n /\ r[2] \in 1 .. n /\ r[1] <= r[2]
  BY Numbering, ListedInOrder DEF Runs
<1>2. B \subseteq 1 .. n /\ B \subseteq Int
  <2>1. \A r \in Runs(s, class) : r[2] - r[1] + 1 \in 1 .. n /\ r[2] - r[1] + 1 \in Int
    BY <1>1
  <2> QED BY <2>1
<1>3. IsFiniteSet(B)
  <2>1. IsFiniteSet(1 .. n)
    BY <1>1, FS_Interval
  <2> HIDE DEF B
  <2> QED BY <1>2, <2>1, FS_Subset
<1>4. A \subseteq B
  BY IslandsAreRuns
<1>5. \A b \in B : \E a \in A : b <= a
  BY RunsAreInIslands
<1>6. MaxOr0(A) = MaxOr0(B)
  <2> HIDE DEF A, B
  <2> QED BY <1>2, <1>3, <1>4, <1>5, MaxOr0Same
<1> QED BY <1>6 DEF LongestStreak, LongestRun

LEMMA CurrentIsLastRun ==
    ASSUME TypeOK, NEW t, NEW R \in SUBSET RowsOfTeam(t), NEW class
    PROVE  CurrentStreak(R, class) = LastRun(InOrder(R), class)
<1> DEFINE n == Cardinality(R)
           s == InOrder(R)
           A == {i.length : i \in {j \in IslandLengths(R, class) : j.last_rn = n}}
           B == {r[2] - r[1] + 1 : r \in {q \in Runs(s, class) : q[2] = Len(s)}}
<1>1. /\ n \in Nat /\ Len(s) = n
      /\ \A r \in Runs(s, class) : r[1] \in 1 .. n /\ r[2] \in 1 .. n /\ r[1] <= r[2]
  BY Numbering, ListedInOrder DEF Runs
<1>2. B \subseteq 1 .. n /\ B \subseteq Int
  <2>1. \A r \in Runs(s, class) : r[2] - r[1] + 1 \in 1 .. n /\ r[2] - r[1] + 1 \in Int
    BY <1>1
  <2> QED BY <2>1
<1>3. IsFiniteSet(B)
  <2>1. IsFiniteSet(1 .. n)
    BY <1>1, FS_Interval
  <2> HIDE DEF B
  <2> QED BY <1>2, <2>1, FS_Subset
<1>4. A \subseteq B
  BY <1>1, IslandsAreRuns
<1>5. ASSUME NEW b \in B PROVE \E a \in A : b <= a
  <2>1. PICK r \in Runs(s, class) : r[2] = n /\ b = r[2] - r[1] + 1
    BY <1>1
  <2>2. PICK i \in IslandLengths(R, class) :
           r[2] - r[1] + 1 <= i.length /\ r[2] <= i.last_rn /\ i.last_rn <= n
    BY RunsAreInIslands
  <2>3. i.last_rn \in Int
    <3>1. PICK q \in Runs(s, class) : q[2] = i.last_rn
      BY IslandsAreRuns
    <3> QED BY <1>1, <3>1
  <2>4. i.last_rn = n
    BY <1>1, <2>1, <2>2, <2>3
  <2> QED BY <2>1, <2>2, <2>4
<1>6. MaxOr0(A) = MaxOr0(B)
  <2> HIDE DEF A, B
  <2> QED BY <1>2, <1>3, <1>4, <1>5, MaxOr0Same
<1> QED BY <1>6 DEF CurrentStreak, LastRun

LEMMA StreaksFromTypes == TypeOK => StreaksRight
<1> SUFFICES ASSUME TypeOK, NEW t \in Teams, NEW c \in Competitions
             PROVE  LET s == InOrder(Of(t, c, Decided(fct_team_matches))) IN
                    mart_streaks(t, c, fct_team_matches) =
                       [current_win_streak      |-> LastRun(s, Win),
                        current_unbeaten_streak |-> LastRun(s, Unbeaten),
                        longest_win_streak      |-> LongestRun(s, Win),
                        longest_unbeaten_streak |-> LongestRun(s, Unbeaten)]
  BY DEF StreaksRight
<1> DEFINE R == Of(t, c, Decided(fct_team_matches))
<1>1. R \in SUBSET RowsOfTeam(t)
  BY DEF Of, Decided, RowsOfTeam
<1> HIDE DEF R
<1>2. /\ LongestStreak(R, Win) = LongestRun(InOrder(R), Win)
      /\ LongestStreak(R, Unbeaten) = LongestRun(InOrder(R), Unbeaten)
      /\ CurrentStreak(R, Win) = LastRun(InOrder(R), Win)
      /\ CurrentStreak(R, Unbeaten) = LastRun(InOrder(R), Unbeaten)
  BY <1>1, LongestIsLongestRun, CurrentIsLastRun
<1> QED BY <1>2 DEF R, mart_streaks

(* The gaps and islands of mart_streaks.sql are the runs of the calendar,   *)
(* the longest and the one that is still going, for every history.          *)
THEOREM StreaksAreRuns == Spec => []StreaksRight
BY MatchesTyped, StreaksFromTypes, PTL

-----------------------------------------------------------------------------
(* mart_standings_over_time: one row per matchday *)

\* A team has one row per matchday of a table.
OneRowPerMatchday ==
    \A r, q \in TeamMatches(fct_team_matches) :
        r.team = q.team /\ SameTable(r, q) /\ Matchday(r) = Matchday(q) => r = q

LEMMA OneRowFromTypes == ASSUME TypeOK, OneMatchPerMatchday PROVE OneRowPerMatchday
<1> SUFFICES ASSUME NEW r \in TeamMatches(fct_team_matches),
                    NEW q \in TeamMatches(fct_team_matches),
                    r.team = q.team, SameTable(r, q), Matchday(r) = Matchday(q)
             PROVE  r = q
  BY DEF OneRowPerMatchday
<1> DEFINE m == r.match_id
           n == q.match_id
<1>1. /\ r \in fct_team_matches /\ q \in fct_team_matches
      /\ Fixtures[m].stage \in StandingsPhaseStages
      /\ Fixtures[n].stage \in StandingsPhaseStages
  BY DEF TeamMatches, Decided
<1>2. /\ m \in MatchIds /\ n \in MatchIds
      /\ r = Side(m, r.is_home) /\ q = Side(n, q.is_home)
      /\ r.is_home \in BOOLEAN /\ q.is_home \in BOOLEAN
      /\ r.competition = Fixtures[m].competition /\ r.season = Fixtures[m].season
      /\ q.competition = Fixtures[n].competition /\ q.season = Fixtures[n].season
  BY <1>1, TeamRowFacts
<1> HIDE DEF m, n
<1>3. /\ r.team \in {Fixtures[m].home, Fixtures[m].away}
      /\ q.team \in {Fixtures[n].home, Fixtures[n].away}
  BY <1>2, SideFields
<1>4. /\ Fixtures[m].group = Fixtures[n].group
      /\ Fixtures[m].matchday = Fixtures[n].matchday
      /\ Fixtures[m].competition = Fixtures[n].competition
      /\ Fixtures[m].season = Fixtures[n].season
  BY <1>2 DEF SameTable, Matchday, m, n
<1>5. m = n
  <2>1. r.team \in {Fixtures[m].home, Fixtures[m].away}
                     \cap {Fixtures[n].home, Fixtures[n].away}
    BY <1>3
  <2>2. {Fixtures[m].stage, Fixtures[n].stage} \subseteq StandingsPhaseStages
    BY <1>1 DEF m, n
  <2> QED BY <1>2, <1>4, <2>1, <2>2 DEF OneMatchPerMatchday
<1> QED BY <1>1, <1>5, TeamRowFacts DEF m, n

-----------------------------------------------------------------------------
(* mart_team_form *)

(* The numbers of the last rows of a calendar among themselves are their    *)
(* numbers in the calendar, less the rows before them.                      *)
LEMMA LastRows ==
    ASSUME TypeOK, NEW t, NEW R \in SUBSET RowsOfTeam(t), NEW T \in SUBSET R,
           \A q \in R \ T, r \in T : q \in UpTo(r, R)
    PROVE  /\ Cardinality(T) \in Nat /\ Cardinality(R) \in Nat
           /\ Cardinality(T) <= Cardinality(R)
           /\ \A r \in T : Rn(R)[r] = Rn(T)[r] + (Cardinality(R) - Cardinality(T))
           /\ \A i \in 1 .. Cardinality(T) :
                 InOrder(T)[i] = InOrder(R)[i + (Cardinality(R) - Cardinality(T))]
<1> DEFINE k == Cardinality(R) - Cardinality(T)
<1>1. /\ IsFiniteSet(R) /\ IsFiniteSet(T)
      /\ Cardinality(T) \in Nat /\ Cardinality(R) \in Nat
      /\ Cardinality(T) <= Cardinality(R)
  BY Numbering, ProperPart
<1>2. T \in SUBSET RowsOfTeam(t)
  OBVIOUS
<1>3. IsFiniteSet(R \ T) /\ Cardinality(R \ T) = k
  <2>1. R \cap T = T
    OBVIOUS
  <2> QED BY <1>1, <2>1, FS_Difference
<1>4. ASSUME NEW r \in T PROVE Rn(R)[r] = Rn(T)[r] + k
  <2>1. UpTo(r, R) = UpTo(r, T) \cup (R \ T) /\ UpTo(r, T) \cap (R \ T) = {}
    BY DEF UpTo
  <2>2. IsFiniteSet(UpTo(r, T))
    <3>1. UpTo(r, T) \in SUBSET T
      BY DEF UpTo
    <3> QED BY <1>1, <3>1, FS_Subset
  <2>3. Cardinality(UpTo(r, T) \cup (R \ T)) = Cardinality(UpTo(r, T)) + Cardinality(R \ T) - 0
    BY <1>3, <2>1, <2>2, FS_Union, FS_EmptySet
  <2>4. Rn(R)[r] = Cardinality(UpTo(r, R)) /\ Rn(T)[r] = Cardinality(UpTo(r, T))
    BY <1>2, Numbering
  <2>5. Cardinality(UpTo(r, T)) \in Nat /\ k \in Int
    BY <1>1, <2>2, FS_CardinalityType
  <2> HIDE DEF k
  <2> QED BY <1>3, <2>1, <2>3, <2>4, <2>5
<1>5. ASSUME NEW i \in 1 .. Cardinality(T)
      PROVE  InOrder(T)[i] = InOrder(R)[i + k]
  <2> DEFINE r == RowAt(T, i)
  <2>1. r \in T /\ Rn(T)[r] = i
    BY <1>2, Numbering
  <2> HIDE DEF r
  <2>2. Rn(R)[r] = i + k
    BY <1>4, <2>1
  <2>3. InOrder(T)[Rn(T)[r]] = r.result
    BY <1>2, <2>1, ListedInOrder
  <2>4. InOrder(R)[Rn(R)[r]] = r.result
    BY <2>1, ListedInOrder
  <2> QED BY <2>1, <2>2, <2>3, <2>4
<1> QED BY <1>1, <1>4, <1>5

\* The lengths of the runs of a class that end with the last element.
LastRunLengths(s, class) ==
    {r[2] - r[1] + 1 : r \in {q \in Runs(s, class) : q[2] = Len(s)}}

LEMMA LastRunLengthsAre ==
    ASSUME NEW s, NEW n \in Nat, DOMAIN s = 1 .. n, Len(s) = n, NEW class
    PROVE  LastRunLengths(s, class) =
              {j \in 1 .. n : \A k \in 1 .. n : n - j < k => s[k] \in class}
<1> DEFINE J == {j \in 1 .. n : \A k \in 1 .. n : n - j < k => s[k] \in class}
<1>1. ASSUME NEW r \in Runs(s, class), r[2] = n PROVE r[2] - r[1] + 1 \in J
  <2>1. /\ r[1] \in 1 .. n /\ r[1] <= r[2]
        /\ \A k \in r[1] .. r[2] : s[k] \in class
    BY DEF Runs
  <2>2. r[2] - r[1] + 1 \in 1 .. n /\ n - (r[2] - r[1] + 1) = r[1] - 1
    BY <1>1, <2>1
  <2>3. \A k \in 1 .. n : r[1] - 1 < k => k \in r[1] .. r[2]
    BY <1>1, <2>1
  <2> QED BY <2>1, <2>2, <2>3
<1>2. ASSUME NEW j \in J
      PROVE  \E r \in Runs(s, class) : r[2] = n /\ j = r[2] - r[1] + 1
  <2> DEFINE b == n - j + 1
  <2>1. /\ j \in 1 .. n /\ b \in 1 .. n /\ n \in 1 .. n /\ b <= n /\ j = n - b + 1
        /\ \A k \in b .. n : k \in 1 .. n /\ n - j < k
    OBVIOUS
  <2>2. \A k \in b .. n : s[k] \in class
    BY <2>1
  <2> HIDE DEF b
  <2>3. <<b, n>> \in Runs(s, class)
    BY <2>1, <2>2 DEF Runs
  <2> QED BY <2>1, <2>3
<1> HIDE DEF J
<1>3. LastRunLengths(s, class) \subseteq J
  BY <1>1 DEF LastRunLengths
<1>4. J \subseteq LastRunLengths(s, class)
  BY <1>2 DEF LastRunLengths
<1> QED BY <1>3, <1>4 DEF J

LEMMA LastRunIsMax ==
    ASSUME NEW s, NEW n \in Nat, DOMAIN s = 1 .. n, Len(s) = n, NEW class
    PROVE  /\ LastRun(s, class) = MaxOr0(LastRunLengths(s, class))
           /\ IsFiniteSet(LastRunLengths(s, class))
           /\ LastRunLengths(s, class) \subseteq 1 .. n
           /\ LastRun(s, class) \in 0 .. n
           /\ LastRun(s, class) # 0 => LastRun(s, class) \in LastRunLengths(s, class)
           /\ \A j \in LastRunLengths(s, class) : j <= LastRun(s, class)
<1> DEFINE J == LastRunLengths(s, class)
<1>1. J \subseteq 1 .. n /\ J \subseteq Int
  BY LastRunLengthsAre
<1>2. IsFiniteSet(J)
  <2>1. IsFiniteSet(1 .. n)
    BY FS_Interval
  <2> HIDE DEF J
  <2> QED BY <1>1, <2>1, FS_Subset
<1>3. LastRun(s, class) = MaxOr0(J)
  BY DEF LastRun, LastRunLengths
<1>4. CASE J = {}
  BY <1>1, <1>2, <1>3, <1>4 DEF MaxOr0
<1>5. CASE J # {}
  <2> HIDE DEF J
  <2>1. Max(J) \in J /\ \A j \in J : j <= Max(J)
    BY <1>1, <1>2, <1>5, MaxExists
  <2>2. Max(J) \in 0 .. n
    <3>1. Max(J) \in 1 .. n
      BY <1>1, <2>1
    <3> QED BY <3>1
  <2> QED BY <1>1, <1>2, <1>3, <1>5, <2>1, <2>2 DEF MaxOr0, J
<1> QED BY <1>4, <1>5

(* The last run of the end of a list is the last run of the list, unless it *)
(* is cut off at the beginning.                                             *)
LEMMA LastRunOfEnd ==
    ASSUME NEW s, NEW n \in Nat, DOMAIN s = 1 .. n, Len(s) = n,
           NEW e, NEW l \in Nat, DOMAIN e = 1 .. l, Len(e) = l, l <= n,
           \A i \in 1 .. l : e[i] = s[i + (n - l)], NEW class
    PROVE  IF LastRun(e, class) = l THEN LastRun(s, class) >= LastRun(e, class)
                                    ELSE LastRun(s, class) = LastRun(e, class)
<1> DEFINE J == LastRunLengths(s, class)
           K == LastRunLengths(e, class)
<1>1. /\ J = {j \in 1 .. n : \A k \in 1 .. n : n - j < k => s[k] \in class}
      /\ K = {j \in 1 .. l : \A k \in 1 .. l : l - j < k => e[k] \in class}
  BY LastRunLengthsAre
<1>2. ASSUME NEW j \in 1 .. l PROVE j \in J <=> j \in K
  <2>1. j \in 1 .. n
    OBVIOUS
  <2>2. ASSUME j \in J PROVE j \in K
    <3> SUFFICES ASSUME NEW k \in 1 .. l, l - j < k PROVE e[k] \in class
      BY <1>1
    <3>1. k + (n - l) \in 1 .. n /\ n - j < k + (n - l)
      OBVIOUS
    <3> QED BY <1>1, <2>2, <3>1
  <2>3. ASSUME j \in K PROVE j \in J
    <3> SUFFICES ASSUME NEW k \in 1 .. n, n - j < k PROVE s[k] \in class
      BY <1>1, <2>1
    <3> DEFINE i == k - (n - l)
    <3>1. i \in 1 .. l /\ l - j < i /\ k = i + (n - l)
      OBVIOUS
    <3> HIDE DEF i
    <3>2. e[i] \in class
      <4> HIDE DEF K
      <4> QED BY <1>1, <2>3, <3>1
    <3>3. e[i] = s[i + (n - l)]
      BY <3>1
    <3> QED BY <3>1, <3>2, <3>3
  <2> QED BY <2>2, <2>3
<1>3. \A j \in J, i \in 1 .. n : i <= j => i \in J
  <2> SUFFICES ASSUME NEW j \in J, NEW i \in 1 .. n, i <= j,
                      NEW k \in 1 .. n, n - i < k
               PROVE  s[k] \in class
    BY <1>1
  <2>1. j \in 1 .. n /\ (n - j < k => s[k] \in class)
    BY <1>1
  <2> QED BY <2>1
<1> DEFINE x == LastRun(s, class)
           y == LastRun(e, class)
<1>4. /\ x \in 0 .. n /\ (x # 0 => x \in J) /\ \A j \in J : j <= x
      /\ y \in 0 .. l /\ (y # 0 => y \in K) /\ \A j \in K : j <= y
      /\ J \subseteq 1 .. n /\ K \subseteq 1 .. l
  BY LastRunIsMax
<1> HIDE DEF x, y, J, K
<1>5. y <= x
  <2>1. CASE y = 0
    BY <1>4, <2>1
  <2>2. CASE y # 0
    <3>1. y \in 1 .. l /\ y \in K
      BY <1>4, <2>2
    <3> QED BY <1>2, <1>4, <3>1
  <2> QED BY <2>1, <2>2
<1>6. CASE y = l
  BY <1>4, <1>5, <1>6 DEF x, y
<1>7. CASE y # l
  <2>1. l \notin J
    <3> SUFFICES ASSUME l \in J PROVE FALSE
      OBVIOUS
    <3>1. l \in 1 .. l /\ l \in Int
      BY <1>4
    <3>2. l \in K
      BY <1>2, <3>1
    <3> QED BY <1>4, <1>7, <3>2
  <2>2. x < l
    <3> SUFFICES ASSUME l <= x PROVE FALSE
      BY <1>4
    <3>1. x \in J /\ l \in 1 .. n
      BY <1>4, <1>7
    <3> QED BY <1>3, <2>1, <3>1
  <2>3. x <= y
    <3>1. CASE x = 0
      BY <1>4, <3>1
    <3>2. CASE x # 0
      <4>1. x \in 1 .. l /\ x \in J
        BY <1>4, <2>2, <3>2
      <4> QED BY <1>2, <1>4, <4>1
    <3> QED BY <3>1, <3>2
  <2>4. x = y
    BY <1>4, <1>5, <2>3
  <2> QED BY <1>7, <2>4 DEF x, y
<1> QED BY <1>6, <1>7

\* The results of a team in a season of a competition.
SeasonResults(t, c, y) ==
    {r \in Of(t, c, Decided(fct_team_matches)) : r.season = y}

LEMMA LastFiveIs ==
    ASSUME TypeOK, NEW t, NEW c, NEW y
    PROVE  LET S == SeasonResults(t, c, y) IN
           /\ S \in SUBSET RowsOfTeam(t)
           /\ LastFive(t, c, y, fct_team_matches)
                = {r \in S : Rn(S)[r] > Cardinality(S) - FormLength}
           /\ last_5_results(t, c, y, fct_team_matches)
                = InOrder(LastFive(t, c, y, fct_team_matches))
<1> DEFINE S == SeasonResults(t, c, y)
           n == Cardinality(S)
           last == LastFive(t, c, y, fct_team_matches)
           form == last_5_results(t, c, y, fct_team_matches)
<1>1. S \in SUBSET RowsOfTeam(t)
  BY DEF SeasonResults, Of, Decided, RowsOfTeam
<1>2. last = {r \in S : n - Cardinality(UpTo(r, S)) + 1 <= FormLength}
  BY DEF LastFive, SeasonResults
<1>3. last = {r \in S : Rn(S)[r] > n - FormLength}
  <2>1. /\ n \in Nat
        /\ \A r \in S : Rn(S)[r] = Cardinality(UpTo(r, S)) /\ Rn(S)[r] \in Int
    BY <1>1, Numbering
  <2>2. FormLength \in Nat
    BY FormAssumption
  <2>3. \A r \in S : n - Cardinality(UpTo(r, S)) + 1 <= FormLength <=> Rn(S)[r] > n - FormLength
    <3> HIDE DEF n, S
    <3> QED BY <2>1, <2>2
  <2> HIDE DEF last, S, n
  <2> QED BY <1>2, <2>3
<1>4. last \in SUBSET RowsOfTeam(t)
  BY <1>1, <1>3
<1>5. form = [i \in 1 .. Cardinality(last) |->
                 (CHOOSE r \in last : Cardinality(UpTo(r, last)) = i).result]
  BY DEF last_5_results
<1> HIDE DEF last
<1>6. /\ DOMAIN InOrder(last) = 1 .. Cardinality(last)
      /\ \A i \in 1 .. Cardinality(last) : InOrder(last)[i] = RowAt(last, i).result
      /\ InOrder(last) = [i \in DOMAIN InOrder(last) |-> InOrder(last)[i]]
  <2>1. InOrder(last) = [i \in DOMAIN InOrder(last) |-> InOrder(last)[i]]
    BY DEF InOrder
  <2> QED BY <1>4, <2>1, ListedInOrder
<1>7. \A i \in 1 .. Cardinality(last) :
         (CHOOSE r \in last : Cardinality(UpTo(r, last)) = i) = RowAt(last, i)
  <2>1. \A r \in last : Rn(last)[r] = Cardinality(UpTo(r, last))
    BY <1>4, Numbering
  <2> QED BY <2>1 DEF RowAt
<1>8. form = InOrder(last)
  BY <1>5, <1>6, <1>7
<1> QED BY <1>1, <1>3, <1>8 DEF last

LEMMA FormFromTypes == ASSUME TypeOK, SeasonsInOrder PROVE FormEndsInStreak
<1> DEFINE rows == fct_team_matches
           All(t, c) == Of(t, c, Decided(rows))
<1> SUFFICES ASSUME NEW t \in Teams, NEW c \in Competitions, All(t, c) # {}
             PROVE  LET streaks == mart_streaks(t, c, rows)
                        season  == Max({r.season : r \in All(t, c)})
                        form    == last_5_results(t, c, season, rows)
                        ends(streak, run) == IF run = Len(form) THEN streak >= run
                                                                ELSE streak = run
                    IN  /\ ends(streaks.current_win_streak, LastRun(form, Win))
                        /\ ends(streaks.current_unbeaten_streak, LastRun(form, Unbeaten))
  BY DEF FormEndsInStreak
<1> DEFINE R == All(t, c)
           y == Max({r.season : r \in R})
           S == SeasonResults(t, c, y)
           last == LastFive(t, c, y, rows)
           form == last_5_results(t, c, y, rows)
<1>1. R \in SUBSET RowsOfTeam(t) /\ R # {} /\ \A r \in R : r \in rows /\ r.competition = c
  BY DEF Of, Decided, RowsOfTeam
<1>2. y \in {r.season : r \in R} /\ \A r \in R : r.season \in Int /\ r.season <= y
  <2> DEFINE ys == {r.season : r \in R}
  <2>1. \A r \in R : r.season \in Int
    BY <1>1, TeamRowFacts, FixtureTypes
  <2>2. IsFiniteSet(ys)
    <3> DEFINE f == [r \in R |-> r.season]
    <3>1. f \in Surjection(R, ys)
      <4> HIDE DEF R
      <4> QED BY DEF Surjection
    <3>2. IsFiniteSet(R)
      BY <1>1, Numbering
    <3> HIDE DEF f, R, ys
    <3> QED BY <3>1, <3>2, FS_Surjection
  <2>3. ys # {} /\ ys \subseteq Int
    BY <1>1, <2>1
  <2>4. Max(ys) \in ys /\ \A z \in ys : z <= Max(ys)
    <3> HIDE DEF ys
    <3> QED BY <2>2, <2>3, MaxExists
  <2> QED BY <2>1, <2>4
<1> HIDE DEF y
<1>3. S = {r \in R : r.season = y} /\ S \in SUBSET R
  BY DEF SeasonResults
<1>4. \A q \in R \ S, r \in S : q.day < r.day
  <2> SUFFICES ASSUME NEW q \in R \ S, NEW r \in S PROVE q.day < r.day
    OBVIOUS
  <2> DEFINE m == q.match_id
             n == r.match_id
  <2>1. q \in rows /\ r \in rows /\ q.competition = c /\ r.competition = c
    BY <1>1, <1>3
  <2>2. /\ m \in MatchIds /\ n \in MatchIds
        /\ q = Side(m, q.is_home) /\ r = Side(n, r.is_home)
        /\ q.is_home \in BOOLEAN /\ r.is_home \in BOOLEAN
        /\ q.season = Fixtures[m].season /\ r.season = Fixtures[n].season
        /\ Fixtures[m].competition = c /\ Fixtures[n].competition = c
    BY <2>1, TeamRowFacts
  <2>3. q.season # y /\ r.season = y /\ q.season <= y /\ q.season \in Int /\ y \in Int
    <3> HIDE DEF R
    <3> QED BY <1>2, <1>3
  <2> HIDE DEF m, n
  <2>4. Fixtures[m].season < Fixtures[n].season
    BY <2>2, <2>3
  <2>5. Fixtures[m].late < Fixtures[n].day
    BY <2>2, <2>4 DEF SeasonsInOrder
  <2>6. q.day = fct_matches(m).kickoff /\ r.day = fct_matches(n).kickoff
    BY <2>2, SideFields
  <2>7. /\ fct_matches(m).kickoff \in {Fixtures[m].day, Fixtures[m].late}
        /\ fct_matches(n).kickoff \in {Fixtures[n].day, Fixtures[n].late}
    BY <2>2, MatchFacts
  <2>8. /\ Fixtures[m].day \in Int /\ Fixtures[m].late \in Int
        /\ Fixtures[n].day \in Int /\ Fixtures[n].late \in Int
        /\ Fixtures[m].day < Fixtures[m].late /\ Fixtures[n].day < Fixtures[n].late
    BY <2>2, FixtureTypes
  <2>9. q.day <= Fixtures[m].late /\ Fixtures[n].day <= r.day
    BY <2>6, <2>7, <2>8
  <2>10. q.day \in Int /\ r.day \in Int
    BY <2>6, <2>7, <2>8
  <2> QED BY <2>5, <2>8, <2>9, <2>10
<1>5. /\ last = {r \in S : Rn(S)[r] > Cardinality(S) - FormLength}
      /\ form = InOrder(last) /\ S \in SUBSET RowsOfTeam(t)
  BY LastFiveIs
<1>6. last \in SUBSET R /\ last \in SUBSET S /\ last \in SUBSET RowsOfTeam(t)
  BY <1>1, <1>3, <1>5
<1>7. \A q \in R \ last, r \in last : q \in UpTo(r, R)
  <2> SUFFICES ASSUME NEW q \in R \ last, NEW r \in last PROVE q \in UpTo(r, R)
    OBVIOUS
  <2>1. CASE q \notin S
    <3>1. q.day < r.day
      BY <1>4, <1>6, <2>1
    <3> QED BY <3>1 DEF UpTo
  <2>2. CASE q \in S
    <3>1. /\ \A x \in S : Rn(S)[x] \in Int
          /\ \A x, z \in S : x \in UpTo(z, S) <=> Rn(S)[x] <= Rn(S)[z]
          /\ Cardinality(S) \in Nat
      BY <1>5, Numbering
    <3>2. r \in S /\ Rn(S)[r] > Cardinality(S) - FormLength
          /\ ~ (Rn(S)[q] > Cardinality(S) - FormLength)
      <4> HIDE DEF S, last
      <4> QED BY <1>5, <2>2
    <3>3. FormLength \in Nat
      BY FormAssumption
    <3>4. q \in UpTo(r, S)
      <4> HIDE DEF S
      <4> QED BY <2>2, <3>1, <3>2, <3>3
    <3> QED BY <3>4 DEF UpTo
  <2> QED BY <2>1, <2>2
<1> HIDE DEF R, S, last
<1> DEFINE n == Cardinality(R)
           l == Cardinality(last)
           s == InOrder(R)
<1>8. /\ l \in Nat /\ n \in Nat /\ l <= n
      /\ \A i \in 1 .. l : InOrder(last)[i] = s[i + (n - l)]
  BY <1>1, <1>6, <1>7, LastRows
<1>9. /\ DOMAIN s = 1 .. n /\ Len(s) = n
      /\ DOMAIN InOrder(last) = 1 .. l /\ Len(InOrder(last)) = l
  BY <1>1, <1>6, ListedInOrder
<1>10. ASSUME NEW class
       PROVE  IF LastRun(form, class) = Len(form)
              THEN CurrentStreak(R, class) >= LastRun(form, class)
              ELSE CurrentStreak(R, class) = LastRun(form, class)
  <2>1. CurrentStreak(R, class) = LastRun(s, class)
    BY <1>1, CurrentIsLastRun
  <2> HIDE DEF s, n, l, form
  <2>2. IF LastRun(InOrder(last), class) = l
        THEN LastRun(s, class) >= LastRun(InOrder(last), class)
        ELSE LastRun(s, class) = LastRun(InOrder(last), class)
    BY <1>8, <1>9, LastRunOfEnd
  <2> QED BY <1>5, <1>9, <2>1, <2>2
<1>11. /\ mart_streaks(t, c, rows).current_win_streak = CurrentStreak(R, Win)
       /\ mart_streaks(t, c, rows).current_unbeaten_streak = CurrentStreak(R, Unbeaten)
  BY DEF mart_streaks, R
<1> HIDE DEF form
<1> QED BY <1>10, <1>11 DEF form, y, R

(* The letters beside a team in the table end in the streak of the streaks  *)
(* tab, whichever results were postponed or corrected in between, as long   *)
(* as a competition begins a season after the last one.                     *)
THEOREM FormLettersEndInStreak ==
    ASSUME SeasonsInOrder PROVE Spec => []FormEndsInStreak
BY MatchesTyped, FormFromTypes, PTL

-----------------------------------------------------------------------------
(* mart_head_to_head *)

\* What the result column makes of a match, from the winner instead.
ResultOf(match, us) ==
    IF match.status \notin FinishedStatuses \/ match.winner = "null" THEN "null"
    ELSE IF match.winner = "DRAW" THEN "D"
    ELSE IF match.winner = us THEN "W" ELSE "L"

LEMMA CompareScores ==
    ASSUME NEW s \in Nat \X Nat
    PROVE  /\ s # <<>> /\ s[1] \in Nat /\ s[2] \in Nat
           /\ WinnerOf(s) = IF s[1] > s[2] THEN "HOME_TEAM"
                            ELSE IF s[1] < s[2] THEN "AWAY_TEAM" ELSE "DRAW"
BY DEF WinnerOf

(* The goals and the winner tell the same result.                           *)
LEMMA ResultIs ==
    ASSUME NEW match, NEW h \in BOOLEAN,
           match.full_time = <<>> \/ match.full_time \in Nat \X Nat,
           match.winner \in {"HOME_TEAM", "AWAY_TEAM", "DRAW", "null"},
           match.status = "FINISHED" =>
              match.winner = IF match.full_time = <<>> THEN "null"
                             ELSE WinnerOf(match.full_time)
    PROVE  Result(match, h) = ResultOf(match, IF h THEN "HOME_TEAM" ELSE "AWAY_TEAM")
<1> DEFINE s == match.full_time
           us == IF h THEN "HOME_TEAM" ELSE "AWAY_TEAM"
<1>1. CASE match.status = "FINISHED" /\ s # <<>>
  <2>1. /\ s \in Nat \X Nat /\ s[1] \in Nat /\ s[2] \in Nat
        /\ match.winner = IF s[1] > s[2] THEN "HOME_TEAM"
                          ELSE IF s[1] < s[2] THEN "AWAY_TEAM" ELSE "DRAW"
    BY <1>1, CompareScores
  <2>2. Result(match, h)
          = LET own == IF h THEN 1 ELSE 2
                other == 3 - own
            IN  CASE s[own] > s[other] -> "W"
                  [] s[own] < s[other] -> "L"
                  [] OTHER -> "D"
    BY <1>1, Zenon DEF Result
  <2>3. ResultOf(match, us) = IF match.winner = "DRAW" THEN "D"
                              ELSE IF match.winner = us THEN "W" ELSE "L"
    BY <1>1, <2>1 DEF ResultOf, FinishedStatuses
  <2>4. CASE h
    <3>1. Result(match, h) = CASE s[1] > s[2] -> "W" [] s[1] < s[2] -> "L" [] OTHER -> "D"
      BY <2>2, <2>4
    <3>2. ~ (s[1] > s[2] /\ s[1] < s[2])
      BY <2>1
    <3>3. Result(match, h) = IF s[1] > s[2] THEN "W" ELSE IF s[1] < s[2] THEN "L" ELSE "D"
      <4> HIDE DEF s
      <4> QED BY <3>1, <3>2
    <3> QED BY <2>1, <2>3, <2>4, <3>3
  <2>5. CASE ~ h
    <3>1. Result(match, h) = CASE s[2] > s[1] -> "W" [] s[2] < s[1] -> "L" [] OTHER -> "D"
      BY <2>2, <2>5
    <3>2. ~ (s[2] > s[1] /\ s[2] < s[1])
      BY <2>1
    <3>3. Result(match, h) = IF s[2] > s[1] THEN "W" ELSE IF s[2] < s[1] THEN "L" ELSE "D"
      <4> HIDE DEF s
      <4> QED BY <3>1, <3>2
    <3> QED BY <2>1, <2>3, <2>5, <3>3
  <2> QED BY <2>4, <2>5
<1>2. CASE match.status = "FINISHED" /\ s = <<>>
  <2>1. match.winner = "null"
    BY <1>2
  <2>2. Result(match, h) = "null"
    BY <1>2, <2>1, Zenon DEF Result
  <2> QED BY <2>1, <2>2 DEF ResultOf
<1>3. CASE match.status = "AWARDED" /\ match.winner # "null"
  <2>1. Result(match, h) = CASE match.winner = "DRAW" -> "D"
                             [] match.winner = us -> "W"
                             [] OTHER -> "L"
    BY <1>3, Zenon DEF Result
  <2>2. Result(match, h) = IF match.winner = "DRAW" THEN "D"
                           ELSE IF match.winner = us THEN "W" ELSE "L"
    BY <2>1
  <2> QED BY <1>3, <2>2 DEF ResultOf, FinishedStatuses
<1>4. CASE match.status = "AWARDED" /\ match.winner = "null"
  <2>1. Result(match, h) = "null"
    BY <1>4, Zenon DEF Result
  <2> QED BY <1>4, <2>1 DEF ResultOf
<1>5. CASE match.status \notin FinishedStatuses
  <2>1. match.status # "FINISHED" /\ match.status # "AWARDED"
    BY <1>5 DEF FinishedStatuses
  <2>2. Result(match, h) = "null"
    BY <2>1, Zenon DEF Result
  <2> QED BY <1>5, <2>2 DEF ResultOf
<1> QED BY <1>1, <1>2, <1>3, <1>4, <1>5 DEF FinishedStatuses

LEMMA ResultByWinner ==
    ASSUME TypeOK, NEW m \in MatchIds, NEW h \in BOOLEAN
    PROVE  Result(fct_matches(m), h)
             = ResultOf(fct_matches(m), IF h THEN "HOME_TEAM" ELSE "AWAY_TEAM")
<1> DEFINE match == fct_matches(m)
<1>1. /\ match.full_time = <<>> \/ match.full_time \in Nat \X Nat
      /\ match.winner \in {"HOME_TEAM", "AWAY_TEAM", "DRAW", "null"}
      /\ match.status = "FINISHED" =>
            match.winner = IF match.full_time = <<>> THEN "null"
                           ELSE WinnerOf(match.full_time)
  BY MatchFacts
<1> HIDE DEF match
<1>2. Result(match, h) = ResultOf(match, IF h THEN "HOME_TEAM" ELSE "AWAY_TEAM")
  BY <1>1, ResultIs
<1> QED BY <1>2 DEF match

\* The side of a team in a match, its goals and its wins.
Us(m, t) == IF Fixtures[m].home = t THEN "HOME_TEAM" ELSE "AWAY_TEAM"

GoalsOf(m, t) ==
    LET s == fct_matches(m).full_time IN
    IF s = <<>> THEN 0 ELSE IF Fixtures[m].home = t THEN s[1] ELSE s[2]

RecordOf(M, t, u) ==
    [matches_played |-> Cardinality(M),
     wins |-> <<Cardinality({m \in M : fct_matches(m).winner = Us(m, t)}),
                Cardinality({m \in M : fct_matches(m).winner = Us(m, u)})>>,
     draws |-> Cardinality({m \in M : fct_matches(m).winner = "DRAW"}),
     goals |-> <<SumFunction([m \in M |-> GoalsOf(m, t)]),
                 SumFunction([m \in M |-> GoalsOf(m, u)])>>]

LEMMA TeamsAreNumbers == Teams \subseteq Nat \ {0} /\ Teams \subseteq Int
BY FixtureTypes DEF Teams

(* The row of a pair is the record of its lower id over its higher one.     *)
LEMMA HeadToHeadIs ==
    ASSUME TypeOK, NEW a \in Teams, NEW b \in Teams, a < b
    PROVE  mart_head_to_head(a, b) = RecordOf(Meetings(a, b), a, b)
<1> DEFINE played == {m \in MatchIds : fct_matches(m).status \in FinishedStatuses}
           normalised == [m \in played |-> Normalised(m)]
           meetings == {m \in played : /\ normalised[m].team_a_id = a
                                       /\ normalised[m].team_b_id = b}
           M == Meetings(a, b)
           wonBy(side) == {m \in meetings : normalised[m].winner_side = side}
<1>1. a \in Nat /\ b \in Nat
  BY TeamsAreNumbers
<1>2. ASSUME NEW m \in MatchIds
      PROVE  Normalised(m).team_a_id = a /\ Normalised(m).team_b_id = b
               <=> {Fixtures[m].home, Fixtures[m].away} = {a, b}
  <2>1. Fixtures[m].home \in Nat /\ Fixtures[m].away \in Nat
    BY FixtureTypes
  <2>2. /\ Normalised(m).team_a_id = IF Fixtures[m].home < Fixtures[m].away
                                     THEN Fixtures[m].home ELSE Fixtures[m].away
        /\ Normalised(m).team_b_id = IF Fixtures[m].home < Fixtures[m].away
                                     THEN Fixtures[m].away ELSE Fixtures[m].home
    BY DEF Normalised
  <2> QED BY <1>1, <2>1, <2>2
<1>3. meetings = M
  BY <1>2 DEF Meetings, IsMeeting
<1>4. ASSUME NEW m \in M
      PROVE  /\ normalised[m].team_a_goals = GoalsOf(m, a)
             /\ normalised[m].team_b_goals = GoalsOf(m, b)
             /\ normalised[m].winner_side = "TEAM_A" <=> fct_matches(m).winner = Us(m, a)
             /\ normalised[m].winner_side = "TEAM_B" <=> fct_matches(m).winner = Us(m, b)
             /\ normalised[m].winner_side = "DRAW" <=> fct_matches(m).winner = "DRAW"
  <2> DEFINE match == fct_matches(m)
             f == Fixtures[m]
  <2>1. /\ m \in MatchIds /\ normalised[m] = Normalised(m)
        /\ {f.home, f.away} = {a, b}
    BY DEF Meetings, IsMeeting
  <2>2. f.home \in Nat /\ f.away \in Nat /\ f.home # f.away
    BY <2>1, FixtureTypes
  <2>3. match.winner \in {"HOME_TEAM", "AWAY_TEAM", "DRAW", "null"}
    BY <2>1, MatchFacts
  <2>4. /\ f.home < f.away <=> f.home = a
        /\ f.home = a <=> f.home # b
    BY <1>1, <2>1, <2>2
  <2> HIDE DEF match, f
  <2>5. /\ Normalised(m).team_a_goals = GoalsOf(m, a)
        /\ Normalised(m).team_b_goals = GoalsOf(m, b)
    BY <2>4 DEF Normalised, GoalsOf, match, f
  <2>6. Normalised(m).winner_side =
           CASE match.winner = (IF f.home < f.away THEN "HOME_TEAM" ELSE "AWAY_TEAM")
                  -> "TEAM_A"
             [] match.winner = (IF f.home < f.away THEN "AWAY_TEAM" ELSE "HOME_TEAM")
                  -> "TEAM_B"
             [] OTHER -> match.winner
    BY DEF Normalised, match, f
  <2>7. Normalised(m).winner_side =
           IF match.winner = (IF f.home < f.away THEN "HOME_TEAM" ELSE "AWAY_TEAM")
           THEN "TEAM_A"
           ELSE IF match.winner = (IF f.home < f.away THEN "AWAY_TEAM" ELSE "HOME_TEAM")
           THEN "TEAM_B"
           ELSE match.winner
    BY <2>6, Zenon
  <2>8. /\ Us(m, a) = IF f.home = a THEN "HOME_TEAM" ELSE "AWAY_TEAM"
        /\ Us(m, b) = IF f.home = b THEN "HOME_TEAM" ELSE "AWAY_TEAM"
    BY DEF Us, f
  <2> QED BY <2>1, <2>3, <2>4, <2>5, <2>7, <2>8 DEF match
<1>5. mart_head_to_head(a, b) =
         [matches_played |-> Cardinality(meetings),
          wins |-> <<Cardinality(wonBy("TEAM_A")), Cardinality(wonBy("TEAM_B"))>>,
          draws |-> Cardinality(wonBy("DRAW")),
          goals |-> <<SumFunction([m \in meetings |-> normalised[m].team_a_goals]),
                      SumFunction([m \in meetings |-> normalised[m].team_b_goals])>>]
  BY DEF mart_head_to_head
<1>6. /\ wonBy("TEAM_A") = {m \in M : fct_matches(m).winner = Us(m, a)}
      /\ wonBy("TEAM_B") = {m \in M : fct_matches(m).winner = Us(m, b)}
      /\ wonBy("DRAW") = {m \in M : fct_matches(m).winner = "DRAW"}
      /\ [m \in meetings |-> normalised[m].team_a_goals] = [m \in M |-> GoalsOf(m, a)]
      /\ [m \in meetings |-> normalised[m].team_b_goals] = [m \in M |-> GoalsOf(m, b)]
  <2> HIDE DEF normalised, M
  <2> QED BY <1>3, <1>4
<1> HIDE DEF wonBy, meetings, M, normalised
<1> QED BY <1>3, <1>5, <1>6 DEF RecordOf, M

LEMMA MinMaxOfTwo ==
    ASSUME NEW a \in Int, NEW b \in Int, a < b
    PROVE  Min({a, b}) = a /\ Max({a, b}) = b /\ Min({b, a}) = a /\ Max({b, a}) = b
<1>1. Min({a, b}) = a
  <2>1. {a, b} \subseteq Int /\ a \in {a, b} /\ \A y \in {a, b} : a <= y
    OBVIOUS
  <2> QED BY <2>1, MinIs
<1>2. Max({a, b}) = b
  <2>1. {a, b} \subseteq Int /\ b \in {a, b} /\ \A y \in {a, b} : y <= b
    OBVIOUS
  <2> QED BY <2>1, MaxIs
<1>3. {a, b} = {b, a}
  OBVIOUS
<1> QED BY <1>1, <1>2, <1>3

(* Whichever team the caller names first, the record is seen from it.       *)
LEMMA RecordSeenFromFirst ==
    ASSUME TypeOK, NEW t \in Teams, NEW u \in Teams, t # u
    PROVE  PairRecord(t, u) = RecordOf(Meetings(t, u), t, u)
<1>1. t \in Int /\ u \in Int
  BY TeamsAreNumbers
<1>2. CASE t < u
  <2>1. mart_head_to_head(Min({t, u}), Max({t, u}))
          = RecordOf(Meetings(t, u), t, u)
    BY <1>1, <1>2, HeadToHeadIs, MinMaxOfTwo
  <2> QED BY <1>2, <2>1 DEF PairRecord, RecordOf
<1>3. CASE u < t
  <2>1. mart_head_to_head(Min({t, u}), Max({t, u}))
          = RecordOf(Meetings(u, t), u, t)
    BY <1>1, <1>3, HeadToHeadIs, MinMaxOfTwo
  <2>2. Meetings(u, t) = Meetings(t, u)
    BY DEF Meetings, IsMeeting
  <2>3. ~ (t < u)
    BY <1>1, <1>3
  <2> DEFINE h == mart_head_to_head(Min({t, u}), Max({t, u}))
  <2>4. PairRecord(t, u)
          = [h EXCEPT !.wins = <<@[2], @[1]>>, !.goals = <<@[2], @[1]>>]
    BY <2>3, Zenon DEF PairRecord
  <2>5. h = RecordOf(Meetings(t, u), u, t)
    BY <2>1, <2>2
  <2> HIDE DEF h
  <2> QED BY <2>4, <2>5 DEF RecordOf
<1> QED BY <1>1, <1>2, <1>3

LEMMA SideGoals ==
    ASSUME NEW m \in MatchIds, NEW h \in BOOLEAN
    PROVE  Side(m, h).goals = IF h \/ fct_matches(m).full_time = <<>>
                              THEN fct_matches(m).full_time
                              ELSE <<fct_matches(m).full_time[2],
                                     fct_matches(m).full_time[1]>>
BY DEF Side

\* The row of a match that a team played, from the side of the team.
SideOf(m, t) == Side(m, Fixtures[m].home = t)

LEMMA PairSides ==
    ASSUME NEW t \in Teams, NEW u \in Teams, t # u, NEW m \in MatchIds,
           {Fixtures[m].home, Fixtures[m].away} = {t, u}
    PROVE  /\ SideOf(m, t) \in fct_team_matches
           /\ SideOf(m, t).team = t /\ SideOf(m, t).opponent = u
           /\ SideOf(m, t).match_id = m
           /\ SideOf(m, t).status = fct_matches(m).status
           /\ \A r \in fct_team_matches :
                 r.match_id = m /\ r.team = t => r = SideOf(m, t)
<1> DEFINE h == Fixtures[m].home = t
<1>1. h \in BOOLEAN /\ Fixtures[m].home # Fixtures[m].away
  BY FixtureTypes
<1>2. IF h THEN Fixtures[m].away = u ELSE Fixtures[m].home = u /\ Fixtures[m].away = t
  BY <1>1
<1>3. \A k \in BOOLEAN : Side(m, k).team = t => k = h
  BY <1>1, <1>2, SideFields
<1>4. /\ Side(m, h).match_id = m /\ Side(m, h).status = fct_matches(m).status
      /\ Side(m, h).team = IF h THEN Fixtures[m].home ELSE Fixtures[m].away
      /\ Side(m, h).opponent = IF h THEN Fixtures[m].away ELSE Fixtures[m].home
      /\ Side(m, h) \in fct_team_matches
  BY <1>1, SideFields
<1>5. ASSUME NEW r \in fct_team_matches, r.match_id = m, r.team = t
      PROVE  r = Side(m, h)
  <2>1. PICK n \in MatchIds, k \in BOOLEAN : r = Side(n, k)
    BY DEF fct_team_matches
  <2>2. n = m
    BY <1>5, <2>1, SideFields
  <2> QED BY <1>3, <1>5, <2>1, <2>2
<1> QED BY <1>2, <1>4, <1>5 DEF SideOf

(* What the row of a team says of the match, goes by the winner too.        *)
LEMMA SideByWinner ==
    ASSUME TypeOK, NEW t \in Teams, NEW u \in Teams, t # u,
           NEW m \in Meetings(t, u)
    PROVE  /\ SideOf(m, t).result = "W" <=> fct_matches(m).winner = Us(m, t)
           /\ SideOf(m, t).result = "L" <=> fct_matches(m).winner = Us(m, u)
           /\ SideOf(m, t).result = "D" <=> fct_matches(m).winner = "DRAW"
<1>1. /\ m \in MatchIds /\ {Fixtures[m].home, Fixtures[m].away} = {t, u}
      /\ fct_matches(m).status \in FinishedStatuses
  BY DEF Meetings, IsMeeting
<1>2. Fixtures[m].home # Fixtures[m].away
  BY <1>1, FixtureTypes
<1> DEFINE h == Fixtures[m].home = t
           w == fct_matches(m).winner
<1>3. /\ h \in BOOLEAN
      /\ Us(m, t) = IF h THEN "HOME_TEAM" ELSE "AWAY_TEAM"
      /\ Us(m, u) = IF h THEN "AWAY_TEAM" ELSE "HOME_TEAM"
  BY <1>1, <1>2 DEF Us
<1>4. w \in {"HOME_TEAM", "AWAY_TEAM", "DRAW", "null"}
  BY <1>1, MatchFacts
<1>5. SideOf(m, t).result
        = ResultOf(fct_matches(m), IF h THEN "HOME_TEAM" ELSE "AWAY_TEAM")
  BY <1>1, <1>3, ResultByWinner, SideFields DEF SideOf
<1>6. ResultOf(fct_matches(m), IF h THEN "HOME_TEAM" ELSE "AWAY_TEAM")
        = IF w = "null" THEN "null" ELSE IF w = "DRAW" THEN "D"
          ELSE IF w = (IF h THEN "HOME_TEAM" ELSE "AWAY_TEAM") THEN "W" ELSE "L"
  BY <1>1 DEF ResultOf
<1> HIDE DEF h, w
<1> QED BY <1>3, <1>4, <1>5, <1>6 DEF w

\* The rows of the decided matches of a pair, from the side of the first.
RowsOfPair(t, u) ==
    {r \in fct_team_matches :
        r.team = t /\ r.opponent = u /\ r.status \in FinishedStatuses}

LEMMA OneRowPerMeeting ==
    ASSUME TypeOK, NEW t \in Teams, NEW u \in Teams, t # u
    PROVE  /\ IsFiniteSet(Meetings(t, u))
           /\ [m \in Meetings(t, u) |-> SideOf(m, t)]
                 \in Bijection(Meetings(t, u), RowsOfPair(t, u))
<1> DEFINE M == Meetings(t, u)
           B == RowsOfPair(t, u)
           b == [m \in M |-> SideOf(m, t)]
<1>1. IsFiniteSet(M)
  BY MatchIdsFinite, FS_Subset DEF Meetings, IsMeeting
<1>2. ASSUME NEW m \in M
      PROVE  /\ m \in MatchIds /\ {Fixtures[m].home, Fixtures[m].away} = {t, u}
             /\ fct_matches(m).status \in FinishedStatuses
  BY DEF Meetings, IsMeeting
<1>3. ASSUME NEW m \in M
      PROVE  b[m] \in B /\ b[m].match_id = m
  <2>1. /\ m \in MatchIds /\ {Fixtures[m].home, Fixtures[m].away} = {t, u}
        /\ fct_matches(m).status \in FinishedStatuses
    BY <1>2
  <2>2. /\ SideOf(m, t) \in fct_team_matches
        /\ SideOf(m, t).team = t /\ SideOf(m, t).opponent = u
        /\ SideOf(m, t).match_id = m
        /\ SideOf(m, t).status = fct_matches(m).status
    BY <2>1, PairSides
  <2>3. SideOf(m, t) \in B
    BY <2>1, <2>2 DEF RowsOfPair
  <2> QED BY <2>2, <2>3
<1>4. ASSUME NEW r \in B
      PROVE  \E m \in M : b[m] = r
  <2>1. /\ r \in fct_team_matches /\ r.team = t /\ r.opponent = u
        /\ r.status \in FinishedStatuses
    BY DEF RowsOfPair
  <2>2. PICK m \in MatchIds, h \in BOOLEAN : r = Side(m, h)
    BY <2>1 DEF fct_team_matches
  <2>3. /\ r.match_id = m /\ r.status = fct_matches(m).status
        /\ r.team = IF h THEN Fixtures[m].home ELSE Fixtures[m].away
        /\ r.opponent = IF h THEN Fixtures[m].away ELSE Fixtures[m].home
    BY <2>2, SideFields
  <2>4. {Fixtures[m].home, Fixtures[m].away} = {t, u}
    BY <2>1, <2>3
  <2>5. m \in M
    BY <2>1, <2>3, <2>4 DEF Meetings, IsMeeting
  <2>6. r = SideOf(m, t)
    BY <2>1, <2>3, <2>4, PairSides
  <2> QED BY <2>5, <2>6
<1> HIDE DEF M, B
<1>5. b \in [M -> B] /\ \A m, n \in M : b[m] = b[n] => m = n
  BY <1>3
<1>6. \A r \in B : \E m \in M : b[m] = r
  BY <1>4
<1> HIDE DEF b
<1>7. b \in Bijection(M, B)
  BY <1>5, <1>6 DEF Bijection, Injection, Surjection, IsInjective
<1> QED BY <1>1, <1>7 DEF M, B, b

(* A match without a decision has no result.                                *)
LEMMA ResultOfDecided ==
    ASSUME TypeOK, NEW r \in fct_team_matches, r.result # "null"
    PROVE  r.status \in FinishedStatuses
<1>1. PICK m \in MatchIds, h \in BOOLEAN : r = Side(m, h)
  BY DEF fct_team_matches
<1>2. r.result = Result(fct_matches(m), h) /\ r.status = fct_matches(m).status
  BY <1>1, SideFields
<1>3. Result(fct_matches(m), h)
        = ResultOf(fct_matches(m), IF h THEN "HOME_TEAM" ELSE "AWAY_TEAM")
  BY ResultByWinner
<1> QED BY <1>2, <1>3 DEF ResultOf

LEMMA PairCounts ==
    ASSUME TypeOK, NEW t \in Teams, NEW u \in Teams, t # u,
           NEW result \in {"W", "D", "L"},
           NEW A \in SUBSET Meetings(t, u),
           \A m \in Meetings(t, u) :
              m \in A <=> SideOf(m, t).result = result
    PROVE  Cardinality(A) = Cardinality({r \in fct_team_matches :
                               r.team = t /\ r.opponent = u /\ r.result = result})
<1> DEFINE M == Meetings(t, u)
           R == RowsOfPair(t, u)
           B == {r \in R : r.result = result}
           b == [m \in M |-> SideOf(m, t)]
<1>1. IsFiniteSet(M) /\ b \in Bijection(M, R)
  BY OneRowPerMeeting
<1>2. \A m \in M : m \in A <=> b[m] \in B
  <2>1. \A m \in M : b[m] \in R
    BY <1>1 DEF Bijection, Injection, Surjection
  <2> HIDE DEF R, M
  <2> QED BY <2>1 DEF M
<1>3. B = {r \in fct_team_matches : r.team = t /\ r.opponent = u /\ r.result = result}
  BY ResultOfDecided DEF RowsOfPair
<1>4. B \in SUBSET R
  OBVIOUS
<1> HIDE DEF B, R, b, M
<1>5. Cardinality(A) = Cardinality(B)
  BY <1>1, <1>2, <1>4, PartCount DEF M
<1> QED BY <1>3, <1>5

(* The goals of a pair, from the matches and from the rows of one side.     *)
LEMMA PairGoals ==
    ASSUME TypeOK, NEW t \in Teams, NEW u \in Teams, t # u,
           NEW i \in {1, 2}, NEW who, who = IF i = 1 THEN t ELSE u
    PROVE  SumFunction([m \in Meetings(t, u) |-> GoalsOf(m, who)])
             = SumFunction([r \in {q \in fct_team_matches :
                                      /\ q.team = t /\ q.opponent = u
                                      /\ q.status = "FINISHED" /\ q.goals # <<>>}
                              |-> r.goals[i]])
<1> DEFINE M == Meetings(t, u)
           R == RowsOfPair(t, u)
           b == [m \in M |-> SideOf(m, t)]
           f == [m \in M |-> GoalsOf(m, who)]
           A == {m \in M : fct_matches(m).full_time # <<>>}
           B == {q \in fct_team_matches : /\ q.team = t /\ q.opponent = u
                                          /\ q.status = "FINISHED" /\ q.goals # <<>>}
           g == [r \in B |-> r.goals[i]]
           a == [m \in A |-> b[m]]
<1>1. IsFiniteSet(M) /\ b \in Bijection(M, R)
  BY OneRowPerMeeting
<1>2. ASSUME NEW m \in M
      PROVE  /\ f[m] \in Int
             /\ m \notin A => f[m] = 0
             /\ m \in A <=> b[m] \in B
             /\ m \in A => f[m] = b[m].goals[i]
  <2> DEFINE h == Fixtures[m].home = t
             s == fct_matches(m).full_time
  <2>1. /\ m \in MatchIds /\ {Fixtures[m].home, Fixtures[m].away} = {t, u}
        /\ fct_matches(m).status \in FinishedStatuses
    BY DEF Meetings, IsMeeting
  <2>2. h \in BOOLEAN /\ Fixtures[m].home # Fixtures[m].away
    BY <2>1, FixtureTypes
  <2>3. /\ b[m].team = t /\ b[m].opponent = u
        /\ b[m].status = fct_matches(m).status
        /\ b[m] \in fct_team_matches
    BY <2>1, PairSides
  <2>4. b[m].goals = IF h \/ s = <<>> THEN s ELSE <<s[2], s[1]>>
    BY <2>1, <2>2, SideGoals DEF SideOf
  <2>5. s = <<>> \/ s \in Nat \X Nat
    BY <2>1, MatchFacts
  <2>6. fct_matches(m).status = "AWARDED" => s = <<>>
    BY <2>1, MatchFacts
  <2>7. f[m] = IF s = <<>> THEN 0
               ELSE IF Fixtures[m].home = who THEN s[1] ELSE s[2]
    BY DEF GoalsOf
  <2>8. m \in A <=> s # <<>>
    OBVIOUS
  <2>9. b[m] \in B <=> fct_matches(m).status = "FINISHED" /\ b[m].goals # <<>>
    BY <2>3
  <2>10. \A x \in Nat \X Nat : x # <<>> /\ x[1] \in Int /\ x[2] \in Int
    OBVIOUS
  <2>11. <<s[2], s[1]>> # <<>>
    OBVIOUS
  <2>12. m \in A <=> b[m] \in B
    <3> HIDE DEF A, B, b, s, f, h
    <3> QED BY <2>1, <2>4, <2>6, <2>8, <2>9, <2>11 DEF FinishedStatuses, s
  <2>13. Fixtures[m].home = u <=> ~ h
    BY <2>1, <2>2
  <2>14. f[m] \in Int /\ (m \notin A => f[m] = 0)
    <3> HIDE DEF A, B, b, s, f, h
    <3> QED BY <2>5, <2>7, <2>8, <2>10
  <2>15. m \in A => f[m] = b[m].goals[i]
    <3> HIDE DEF A, B, b, s, f
    <3>1. CASE i = 1
      BY <2>4, <2>7, <2>8, <2>13, <3>1
    <3>2. CASE i = 2
      BY <2>4, <2>7, <2>8, <2>13, <3>2
    <3> QED BY <3>1, <3>2
  <2> QED BY <2>12, <2>14, <2>15
<1>3. A \in SUBSET M /\ B \in SUBSET R
  BY DEF RowsOfPair, FinishedStatuses
<1>4. DOMAIN f = M /\ DOMAIN g = B /\ \A r \in B : g[r] = r.goals[i]
  OBVIOUS
<1>5. \A m \in A : a[m] = b[m] /\ m \in M
  OBVIOUS
<1>6. SumFunction(f) = SumFunctionOnSet(f, M) /\ SumFunction(g) = SumFunctionOnSet(g, B)
  BY <1>4 DEF SumFunction
<1>7. a \in Bijection(A, B)
  <2> HIDE DEF A, B, b, f, g, M, R
  <2> QED BY <1>1, <1>2, <1>3, PartBijection
<1> HIDE DEF A, B, a, b, f, g, M, R
<1>8. \A m \in M : f[m] \in Int
  BY <1>2
<1>9. \A m \in M \ A : f[m] = 0
  BY <1>2
<1>10. SumFunctionOnSet(f, M) = SumFunctionOnSet(f, A)
  BY <1>1, <1>3, <1>8, <1>9, SumNonZero
<1>11. \A m \in A : f[m] \in Int /\ g[a[m]] = f[m]
  BY <1>2, <1>4, <1>5
<1>12. IsFiniteSet(A)
  BY <1>1, <1>3, FS_Subset
<1>13. SumFunctionOnSet(g, B) = SumFunctionOnSet(f, A)
  BY <1>7, <1>11, <1>12, SumRenamed
<1> QED BY <1>6, <1>10, <1>13 DEF f, g, M, B

LEMMA HeadToHeadFromTypes == TypeOK => HeadToHeadAgrees
<1> SUFFICES ASSUME TypeOK, NEW t \in Teams, NEW u \in Teams \ {t}
             PROVE  LET rows == fct_team_matches
                        Goals(i, ms) == SumFunction([r \in ms |-> r.goals[i]])
                        meetings == {r \in rows : r.team = t /\ r.opponent = u}
                        With(result) ==
                            Cardinality({r \in meetings : r.result = result})
                        scored == {r \in meetings : r.status = "FINISHED" /\ r.goals # <<>>}
                    IN  PairRecord(t, u) =
                          [matches_played |-> Cardinality(Meetings(t, u)),
                           wins |-> <<With("W"), With("L")>>,
                           draws |-> With("D"),
                           goals |-> <<Goals(1, scored), Goals(2, scored)>>]
  BY DEF HeadToHeadAgrees
<1> DEFINE M == Meetings(t, u)
           meetings == {r \in fct_team_matches : r.team = t /\ r.opponent = u}
           With(result) == {r \in meetings : r.result = result}
           scored == {r \in meetings : r.status = "FINISHED" /\ r.goals # <<>>}
           Rows(result) == {r \in fct_team_matches :
                               r.team = t /\ r.opponent = u /\ r.result = result}
           won == {m \in M : fct_matches(m).winner = Us(m, t)}
           lost == {m \in M : fct_matches(m).winner = Us(m, u)}
           drawn == {m \in M : fct_matches(m).winner = "DRAW"}
<1>1. PairRecord(t, u) = RecordOf(M, t, u)
  BY RecordSeenFromFirst
<1>2. With("W") = Rows("W") /\ With("L") = Rows("L") /\ With("D") = Rows("D")
  OBVIOUS
<1>3. scored = {q \in fct_team_matches : /\ q.team = t /\ q.opponent = u
                                         /\ q.status = "FINISHED" /\ q.goals # <<>>}
  OBVIOUS
<1>4. \A m \in M : /\ m \in won <=> SideOf(m, t).result = "W"
                   /\ m \in lost <=> SideOf(m, t).result = "L"
                   /\ m \in drawn <=> SideOf(m, t).result = "D"
  BY SideByWinner
<1>5. won \in SUBSET M /\ lost \in SUBSET M /\ drawn \in SUBSET M
  OBVIOUS
<1>6. Cardinality(won) = Cardinality(Rows("W"))
  <2> HIDE DEF won
  <2> QED BY <1>4, <1>5, PairCounts
<1>7. Cardinality(lost) = Cardinality(Rows("L"))
  <2> HIDE DEF lost
  <2> QED BY <1>4, <1>5, PairCounts
<1>8. Cardinality(drawn) = Cardinality(Rows("D"))
  <2> HIDE DEF drawn
  <2> QED BY <1>4, <1>5, PairCounts
<1>9. SumFunction([m \in M |-> GoalsOf(m, t)]) = SumFunction([r \in scored |-> r.goals[1]])
  <2> HIDE DEF scored
  <2>1. 1 \in {1, 2} /\ t = IF 1 = 1 THEN t ELSE u
    OBVIOUS
  <2> QED BY <1>3, <2>1, PairGoals
<1>10. SumFunction([m \in M |-> GoalsOf(m, u)]) = SumFunction([r \in scored |-> r.goals[2]])
  <2> HIDE DEF scored
  <2>1. 2 \in {1, 2} /\ u = IF 2 = 1 THEN t ELSE u
    OBVIOUS
  <2> QED BY <1>3, <2>1, PairGoals
<1>11. RecordOf(M, t, u) = [matches_played |-> Cardinality(M),
                            wins |-> <<Cardinality(won), Cardinality(lost)>>,
                            draws |-> Cardinality(drawn),
                            goals |-> <<SumFunction([m \in M |-> GoalsOf(m, t)]),
                                        SumFunction([m \in M |-> GoalsOf(m, u)])>>]
  BY DEF RecordOf
<1> HIDE DEF won, lost, drawn, scored, With, Rows, meetings
<1>12. PairRecord(t, u)
        = [matches_played |-> Cardinality(M),
           wins |-> <<Cardinality(With("W")), Cardinality(With("L"))>>,
           draws |-> Cardinality(With("D")),
           goals |-> <<SumFunction([r \in scored |-> r.goals[1]]),
                       SumFunction([r \in scored |-> r.goals[2]])>>]
  BY <1>1, <1>2, <1>6, <1>7, <1>8, <1>9, <1>10, <1>11
<1> QED BY <1>12 DEF With, scored, meetings

(* Whichever team a page asks about first, the record of a pair counts by   *)
(* the source's winner what the rows of the matches count by the goals      *)
(* (get_head_to_head of warehouse/queries.py, mart_head_to_head.sql).       *)
THEOREM HeadToHeadIsTheMatches == Spec => []HeadToHeadAgrees
BY MatchesTyped, HeadToHeadFromTypes, PTL

-----------------------------------------------------------------------------
(* mart_cross_league_stats against mart_head_to_head *)

LEMMA KeysFinite ==
    /\ IsFiniteSet(Teams) /\ IsFiniteSet(Seasons) /\ IsFiniteSet(Competitions \X Seasons)
    /\ IsFiniteSet({p \in Teams \X Teams : p[1] < p[2]})
<1> DEFINE home == [m \in MatchIds |-> Fixtures[m].home]
           away == [m \in MatchIds |-> Fixtures[m].away]
           comp == [m \in MatchIds |-> Fixtures[m].competition]
           year == [m \in MatchIds |-> Fixtures[m].season]
<1>1. ASSUME NEW f, DOMAIN f = MatchIds, NEW T, T = {f[m] : m \in MatchIds}
      PROVE  IsFiniteSet(T)
  <2>1. [m \in MatchIds |-> f[m]] \in Surjection(MatchIds, T)
    BY <1>1 DEF Surjection
  <2> QED BY <2>1, MatchIdsFinite, FS_Surjection
<1>2. IsFiniteSet({home[m] : m \in MatchIds}) /\ IsFiniteSet({away[m] : m \in MatchIds})
  <2>1. DOMAIN home = MatchIds /\ DOMAIN away = MatchIds
    OBVIOUS
  <2> HIDE DEF home, away
  <2> QED BY <1>1, <2>1
<1>3. IsFiniteSet({comp[m] : m \in MatchIds}) /\ IsFiniteSet({year[m] : m \in MatchIds})
  <2>1. DOMAIN comp = MatchIds /\ DOMAIN year = MatchIds
    OBVIOUS
  <2> HIDE DEF comp, year
  <2> QED BY <1>1, <2>1
<1>4. /\ Teams = {home[m] : m \in MatchIds} \cup {away[m] : m \in MatchIds}
      /\ Competitions = {comp[m] : m \in MatchIds}
      /\ Seasons = {year[m] : m \in MatchIds}
  BY DEF Teams, Competitions, Seasons
<1> HIDE DEF home, away, comp, year
<1>5. IsFiniteSet(Teams)
  BY <1>2, <1>4, FS_Union
<1>6. IsFiniteSet(Teams \X Teams) /\ IsFiniteSet(Competitions \X Seasons)
  BY <1>3, <1>4, <1>5, FS_Product
<1>7. IsFiniteSet({p \in Teams \X Teams : p[1] < p[2]})
  BY <1>6, FS_Subset
<1>8. IsFiniteSet(Seasons)
  BY <1>3, <1>4
<1> QED BY <1>5, <1>6, <1>7, <1>8

\* The decided matches and the ones with a score.
DecidedMatches == {m \in MatchIds : /\ fct_matches(m).status \in FinishedStatuses
                                    /\ fct_matches(m).winner # "null"}

ScoredMatches == {m \in MatchIds : /\ fct_matches(m).status \in FinishedStatuses
                                   /\ fct_matches(m).full_time # <<>>}

GoalsIn(m) == fct_matches(m).full_time[1] + fct_matches(m).full_time[2]

Pair(m) == IF Fixtures[m].home < Fixtures[m].away
           THEN <<Fixtures[m].home, Fixtures[m].away>>
           ELSE <<Fixtures[m].away, Fixtures[m].home>>

LEMMA PairOf ==
    ASSUME NEW m \in MatchIds
    PROVE  /\ Pair(m) \in {p \in Teams \X Teams : p[1] < p[2]}
           /\ \A p \in Teams \X Teams :
                 p[1] < p[2] =>
                    (Pair(m) = p <=> {Fixtures[m].home, Fixtures[m].away} = {p[1], p[2]})
<1>1. /\ Fixtures[m].home \in Teams /\ Fixtures[m].away \in Teams
      /\ Fixtures[m].home \in Int /\ Fixtures[m].away \in Int
      /\ Fixtures[m].home # Fixtures[m].away
  BY FixtureTypes DEF Teams
<1>2. Pair(m) \in {p \in Teams \X Teams : p[1] < p[2]}
  BY <1>1 DEF Pair
<1>3. ASSUME NEW p \in Teams \X Teams, p[1] < p[2]
      PROVE  Pair(m) = p <=> {Fixtures[m].home, Fixtures[m].away} = {p[1], p[2]}
  <2>1. p[1] \in Int /\ p[2] \in Int /\ p = <<p[1], p[2]>>
    <3>1. p[1] \in Teams /\ p[2] \in Teams /\ p = <<p[1], p[2]>>
      OBVIOUS
    <3>2. Teams \subseteq Int
      BY TeamsAreNumbers
    <3> QED BY <3>1, <3>2
  <2>2. Pair(m) = p <=> Pair(m)[1] = p[1] /\ Pair(m)[2] = p[2]
    BY <2>1 DEF Pair
  <2>3. Pair(m)[1] \in Int /\ Pair(m)[2] \in Int /\ Pair(m)[1] < Pair(m)[2]
        /\ {Pair(m)[1], Pair(m)[2]} = {Fixtures[m].home, Fixtures[m].away}
    BY <1>1 DEF Pair
  <2> DEFINE a == Pair(m)[1]
             b == Pair(m)[2]
  <2> HIDE DEF a, b
  <2>4. {a, b} = {p[1], p[2]} <=> a = p[1] /\ b = p[2]
    BY <1>3, <2>1, <2>3 DEF a, b
  <2> QED BY <2>2, <2>3, <2>4 DEF a, b
<1> QED BY <1>2, <1>3

(* The wins and draws of a pair are its decided matches, once each.         *)
LEMMA ResultsOfPair ==
    ASSUME TypeOK, NEW p \in Teams \X Teams, p[1] < p[2]
    PROVE  LET h == mart_head_to_head(p[1], p[2]) IN
           h.wins[1] + h.wins[2] + h.draws
             = Cardinality({m \in DecidedMatches : Pair(m) = p})
<1> DEFINE t == p[1]
           u == p[2]
           M == Meetings(t, u)
           won == {m \in M : fct_matches(m).winner = Us(m, t)}
           lost == {m \in M : fct_matches(m).winner = Us(m, u)}
           drawn == {m \in M : fct_matches(m).winner = "DRAW"}
           D == {m \in DecidedMatches : Pair(m) = p}
           h == mart_head_to_head(t, u)
<1>1. h = RecordOf(M, t, u)
  BY HeadToHeadIs
<1>2. /\ h.wins[1] = Cardinality(won) /\ h.wins[2] = Cardinality(lost)
      /\ h.draws = Cardinality(drawn)
  BY <1>1 DEF RecordOf
<1>3. IsFiniteSet(M)
  BY MatchIdsFinite, FS_Subset DEF Meetings, IsMeeting
<1>4. IsFiniteSet(won) /\ IsFiniteSet(lost) /\ IsFiniteSet(drawn)
  <2>1. won \subseteq M /\ lost \subseteq M /\ drawn \subseteq M
    OBVIOUS
  <2> HIDE DEF won, lost, drawn, M
  <2> QED BY <1>3, <2>1, FS_Subset
<1>5. ASSUME NEW m \in M
      PROVE  /\ m \in D <=> m \in won \cup lost \cup drawn
             /\ ~ (m \in won /\ m \in lost) /\ ~ (m \in won /\ m \in drawn)
             /\ ~ (m \in lost /\ m \in drawn)
  <2>1. /\ m \in MatchIds /\ {Fixtures[m].home, Fixtures[m].away} = {t, u}
        /\ fct_matches(m).status \in FinishedStatuses
    BY DEF Meetings, IsMeeting
  <2>2. Fixtures[m].home # Fixtures[m].away
    BY <2>1, FixtureTypes
  <2>3. /\ Us(m, t) = IF Fixtures[m].home = t THEN "HOME_TEAM" ELSE "AWAY_TEAM"
        /\ Us(m, u) = IF Fixtures[m].home = t THEN "AWAY_TEAM" ELSE "HOME_TEAM"
    BY <2>1, <2>2 DEF Us
  <2>4. fct_matches(m).winner \in {"HOME_TEAM", "AWAY_TEAM", "DRAW", "null"}
    BY <2>1, MatchFacts
  <2>5. m \in D <=> fct_matches(m).winner # "null"
    BY <2>1, PairOf DEF DecidedMatches
  <2> QED BY <2>3, <2>4, <2>5
<1>6. D \subseteq M
  BY PairOf DEF DecidedMatches, Meetings, IsMeeting
<1>7. /\ D = (won \cup lost) \cup drawn /\ won \cap lost = {}
      /\ (won \cup lost) \cap drawn = {}
  <2>1. won \subseteq M /\ lost \subseteq M /\ drawn \subseteq M
    OBVIOUS
  <2> HIDE DEF won, lost, drawn, M, D
  <2> QED BY <1>5, <1>6, <2>1
<1> HIDE DEF won, lost, drawn, M, D
<1>8. /\ IsFiniteSet(won \cup lost)
      /\ Cardinality(won \cup lost) = Cardinality(won) + Cardinality(lost)
  BY <1>4, <1>7, DisjointCount
<1>9. Cardinality(D) = Cardinality(won \cup lost) + Cardinality(drawn)
  BY <1>4, <1>7, <1>8, DisjointCount
<1> QED BY <1>2, <1>8, <1>9 DEF D

(* The goals of a pair are those of its matches with a score.               *)
LEMMA GoalsOfPair ==
    ASSUME TypeOK, NEW p \in Teams \X Teams, p[1] < p[2]
    PROVE  LET h == mart_head_to_head(p[1], p[2]) IN
           h.goals[1] + h.goals[2]
             = SumFunctionOnSet([m \in ScoredMatches |-> GoalsIn(m)],
                                {m \in ScoredMatches : Pair(m) = p})
<1> DEFINE t == p[1]
           u == p[2]
           M == Meetings(t, u)
           f == [m \in M |-> GoalsOf(m, t)]
           g == [m \in M |-> GoalsOf(m, u)]
           both == [m \in M |-> GoalsOf(m, t) + GoalsOf(m, u)]
           S == {m \in ScoredMatches : Pair(m) = p}
           total == [m \in ScoredMatches |-> GoalsIn(m)]
           h == mart_head_to_head(t, u)
<1>1. h = RecordOf(M, t, u)
  BY HeadToHeadIs
<1>2. h.goals[1] = SumFunction(f) /\ h.goals[2] = SumFunction(g)
  BY <1>1 DEF RecordOf
<1>3. SumFunction(f) = SumFunctionOnSet(f, M) /\ SumFunction(g) = SumFunctionOnSet(g, M)
  BY DEF SumFunction
<1>4. IsFiniteSet(M)
  BY MatchIdsFinite, FS_Subset DEF Meetings, IsMeeting
<1>5. ASSUME NEW m \in M
      PROVE  /\ f[m] \in Int /\ g[m] \in Int /\ both[m] = f[m] + g[m]
             /\ m \notin S => both[m] = 0
             /\ m \in S => both[m] = total[m]
  <2> DEFINE s == fct_matches(m).full_time
  <2>1. /\ m \in MatchIds /\ {Fixtures[m].home, Fixtures[m].away} = {t, u}
        /\ fct_matches(m).status \in FinishedStatuses
    BY DEF Meetings, IsMeeting
  <2>2. Fixtures[m].home # Fixtures[m].away
    BY <2>1, FixtureTypes
  <2>3. /\ f[m] = IF s = <<>> THEN 0 ELSE IF Fixtures[m].home = t THEN s[1] ELSE s[2]
        /\ g[m] = IF s = <<>> THEN 0 ELSE IF Fixtures[m].home = t THEN s[2] ELSE s[1]
    BY <2>1, <2>2 DEF GoalsOf
  <2>4. s # <<>> => s[1] \in Int /\ s[2] \in Int
    <3>1. s = <<>> \/ s \in Nat \X Nat
      BY <2>1, MatchFacts
    <3> QED BY <3>1
  <2>5. both[m] = f[m] + g[m]
    OBVIOUS
  <2>6. m \in S <=> s # <<>>
    BY <2>1, PairOf DEF ScoredMatches
  <2>7. m \in S => total[m] = s[1] + s[2]
    BY DEF GoalsIn
  <2> HIDE DEF s, f, g, both, S, total
  <2>8. f[m] \in Int /\ g[m] \in Int
    BY <2>3, <2>4
  <2>9. m \notin S => both[m] = 0
    BY <2>3, <2>5, <2>6
  <2>10. m \in S => both[m] = total[m]
    BY <2>3, <2>4, <2>5, <2>6, <2>7
  <2> QED BY <2>5, <2>8, <2>9, <2>10
<1>6. S \subseteq M
  BY PairOf DEF ScoredMatches, Meetings, IsMeeting
<1> HIDE DEF f, g, both, S, total, M
<1>7. \A m \in M : /\ f[m] \in Int /\ g[m] \in Int /\ both[m] = f[m] + g[m]
                   /\ both[m] \in Int
  BY <1>5
<1>8. SumFunctionOnSet(both, M) = SumFunctionOnSet(f, M) + SumFunctionOnSet(g, M)
  BY <1>4, <1>7, SumPlus
<1>9. \A m \in M \ S : both[m] = 0
  BY <1>5
<1>10. SumFunctionOnSet(both, M) = SumFunctionOnSet(both, S)
  BY <1>4, <1>6, <1>7, <1>9, SumNonZero
<1>11. IsFiniteSet(S) /\ \A m \in S : both[m] \in Int /\ both[m] = total[m]
  BY <1>4, <1>5, <1>6, <1>7, FS_Subset
<1>12. SumFunctionOnSet(both, S) = SumFunctionOnSet(total, S)
  BY <1>11, SumSame
<1> QED BY <1>2, <1>3, <1>8, <1>10, <1>12 DEF total, S

\* The rows of a season's decided matches, from the home side.
HomeRows(c, y) ==
    {r \in fct_team_matches : /\ r.competition = c /\ r.season = y
                              /\ r.is_home /\ r.status \in FinishedStatuses}

Season(m) == <<Fixtures[m].competition, Fixtures[m].season>>

LEMMA HomeSides ==
    /\ IsFiniteSet(MatchIds)
    /\ [m \in MatchIds |-> Side(m, TRUE)]
          \in Bijection(MatchIds, {r \in fct_team_matches : r.is_home})
<1> DEFINE H == {r \in fct_team_matches : r.is_home}
           b == [m \in MatchIds |-> Side(m, TRUE)]
<1>1. \A m \in MatchIds : b[m] \in H /\ b[m].match_id = m
  BY SideFields
<1>2. ASSUME NEW r \in H
      PROVE  \E m \in MatchIds : b[m] = r
  <2>1. PICK m \in MatchIds, h \in BOOLEAN : r = Side(m, h)
    BY DEF fct_team_matches
  <2>2. h = TRUE
    BY <2>1, SideFields
  <2> QED BY <2>1, <2>2
<1>3. b \in [MatchIds -> H]
  <2> HIDE DEF H
  <2> QED BY <1>1
<1> HIDE DEF b, H
<1>4. b \in Bijection(MatchIds, H)
  BY <1>1, <1>2, <1>3 DEF Bijection, Injection, Surjection, IsInjective
<1> QED BY <1>4, MatchIdsFinite DEF b, H

LEMMA CountedInSeason ==
    ASSUME TypeOK, NEW c, NEW y
    PROVE  mart_cross_league_stats(c, y, fct_team_matches).home_win_rate[2]
             = Cardinality({m \in DecidedMatches : Season(m) = <<c, y>>})
<1> DEFINE D == {m \in DecidedMatches : Season(m) = <<c, y>>}
           B == Decided(HomeRows(c, y))
           H == {r \in fct_team_matches : r.is_home}
           b == [m \in MatchIds |-> Side(m, TRUE)]
<1>1. mart_cross_league_stats(c, y, fct_team_matches).home_win_rate[2] = Cardinality(B)
  BY DEF mart_cross_league_stats, HomeWinRate, HomeRows
<1>2. D \in SUBSET MatchIds /\ B \in SUBSET H
  BY DEF DecidedMatches, Decided, HomeRows
<1>3. ASSUME NEW m \in MatchIds
      PROVE  m \in D <=> b[m] \in B
  <2>1. /\ b[m].competition = Fixtures[m].competition
        /\ b[m].season = Fixtures[m].season
        /\ b[m].is_home /\ b[m].status = fct_matches(m).status
        /\ b[m] \in fct_team_matches
        /\ b[m].result = Result(fct_matches(m), TRUE)
    BY SideFields
  <2>2. b[m].result = ResultOf(fct_matches(m), "HOME_TEAM")
    BY <2>1, ResultByWinner
  <2>3. b[m].result # "null" <=> /\ fct_matches(m).status \in FinishedStatuses
                                 /\ fct_matches(m).winner # "null"
    BY <2>2 DEF ResultOf
  <2>4. Season(m) = <<c, y>> <=> Fixtures[m].competition = c /\ Fixtures[m].season = y
    BY DEF Season
  <2> HIDE DEF b
  <2> QED BY <2>1, <2>3, <2>4 DEF DecidedMatches, Decided, HomeRows
<1>4. b \in Bijection(MatchIds, H)
  BY HomeSides
<1> HIDE DEF D, B, b, H
<1>5. Cardinality(D) = Cardinality(B)
  BY <1>2, <1>3, <1>4, HomeSides, PartCount
<1> QED BY <1>1, <1>5 DEF D

LEMMA ScoredInSeason ==
    ASSUME TypeOK, NEW c, NEW y
    PROVE  mart_cross_league_stats(c, y, fct_team_matches).goals_per_match[1]
             = SumFunctionOnSet([m \in ScoredMatches |-> GoalsIn(m)],
                                {m \in ScoredMatches : Season(m) = <<c, y>>})
<1> DEFINE S == {m \in ScoredMatches : Season(m) = <<c, y>>}
           B == {r \in {q \in HomeRows(c, y) : q.status = "FINISHED"} : r.goals # <<>>}
           H == {r \in fct_team_matches : r.is_home}
           b == [m \in MatchIds |-> Side(m, TRUE)]
           a == [m \in S |-> b[m]]
           f == [m \in ScoredMatches |-> GoalsIn(m)]
           g == [r \in B |-> r.goals[1] + r.goals[2]]
<1>1. mart_cross_league_stats(c, y, fct_team_matches).goals_per_match[1] = SumFunction(g)
  BY DEF mart_cross_league_stats, HomeRows
<1>2. S \in SUBSET MatchIds /\ B \in SUBSET H
  BY DEF ScoredMatches, HomeRows
<1>3. ASSUME NEW m \in MatchIds
      PROVE  /\ m \in S <=> b[m] \in B
             /\ m \in S => f[m] \in Int /\ f[m] = b[m].goals[1] + b[m].goals[2]
  <2> DEFINE s == fct_matches(m).full_time
  <2>1. /\ b[m].competition = Fixtures[m].competition
        /\ b[m].season = Fixtures[m].season
        /\ b[m].is_home /\ b[m].status = fct_matches(m).status
        /\ b[m] \in fct_team_matches
    BY SideFields
  <2>2. b[m].goals = s
    BY SideGoals
  <2>3. Season(m) = <<c, y>> <=> Fixtures[m].competition = c /\ Fixtures[m].season = y
    BY DEF Season
  <2>4. fct_matches(m).status = "AWARDED" => s = <<>>
    BY MatchFacts
  <2>5. s # <<>> => s[1] \in Int /\ s[2] \in Int
    <3>1. s = <<>> \/ s \in Nat \X Nat
      BY MatchFacts
    <3> QED BY <3>1
  <2>6. m \in S => f[m] = s[1] + s[2] /\ s # <<>>
    BY DEF GoalsIn, ScoredMatches
  <2>7. m \in S <=> /\ fct_matches(m).status \in FinishedStatuses /\ s # <<>>
                    /\ Season(m) = <<c, y>>
    BY DEF ScoredMatches
  <2>8. b[m] \in B <=> /\ b[m] \in HomeRows(c, y)
                       /\ b[m].status = "FINISHED" /\ b[m].goals # <<>>
    OBVIOUS
  <2> HIDE DEF b, S, B, s, f
  <2>9. m \in S <=> b[m] \in B
    BY <2>1, <2>2, <2>3, <2>4, <2>7, <2>8 DEF FinishedStatuses, HomeRows
  <2> QED BY <2>2, <2>5, <2>6, <2>9
<1>4. b \in Bijection(MatchIds, H)
  BY HomeSides
<1>5. DOMAIN g = B /\ \A r \in B : g[r] = r.goals[1] + r.goals[2]
  OBVIOUS
<1>6. \A m \in S : a[m] = b[m]
  OBVIOUS
<1>7. a \in Bijection(S, B)
  <2> HIDE DEF S, B, b, H
  <2>1. \A m \in MatchIds : m \in S <=> b[m] \in B
    BY <1>3
  <2> QED BY <1>2, <1>4, <2>1, PartBijection
<1> HIDE DEF S, B, b, H, a, f, g
<1>8. IsFiniteSet(S)
  BY <1>2, MatchIdsFinite, FS_Subset
<1>9. \A m \in S : a[m] \in B
  BY <1>2, <1>3, <1>6
<1>10. \A m \in S : f[m] \in Int /\ g[a[m]] = f[m]
  BY <1>2, <1>3, <1>5, <1>6, <1>9
<1>11. SumFunctionOnSet(g, B) = SumFunctionOnSet(f, S)
  BY <1>7, <1>8, <1>10, SumRenamed
<1> QED BY <1>1, <1>5, <1>11 DEF SumFunction, f, S

LEMMA StatsFromTypes == TypeOK => StatsConserve
<1> SUFFICES ASSUME TypeOK PROVE StatsConserve
  OBVIOUS
<1> DEFINE pairs == {p \in Teams \X Teams : p[1] < p[2]}
           results(p) == LET h == mart_head_to_head(p[1], p[2])
                         IN  h.wins[1] + h.wins[2] + h.draws
           goals(p)   == LET h == mart_head_to_head(p[1], p[2])
                         IN  h.goals[1] + h.goals[2]
           counted(cs) == mart_cross_league_stats(cs[1], cs[2], fct_team_matches).home_win_rate[2]
           scored(cs) == mart_cross_league_stats(cs[1], cs[2], fct_team_matches).goals_per_match[1]
           all == Competitions \X Seasons
           D == DecidedMatches
           S == ScoredMatches
           one == [m \in D |-> 1]
           inMatch == [m \in S |-> GoalsIn(m)]
<1>1. /\ D \subseteq MatchIds /\ S \subseteq MatchIds
      /\ IsFiniteSet(D) /\ IsFiniteSet(S)
      /\ IsFiniteSet(pairs) /\ IsFiniteSet(all)
  <2>1. D \subseteq MatchIds /\ S \subseteq MatchIds
    BY DEF DecidedMatches, ScoredMatches
  <2> HIDE DEF D, S
  <2> QED BY <2>1, MatchIdsFinite, FS_Subset, KeysFinite
<1>2. /\ \A m \in MatchIds : Pair(m) \in pairs
      /\ \A m \in MatchIds : Season(m) \in all
  <2>1. \A m \in MatchIds : Pair(m) \in pairs
    BY PairOf
  <2> QED BY <2>1 DEF Season, Competitions, Seasons
<1>3. \A m \in S : inMatch[m] \in Int
  <2> SUFFICES ASSUME NEW m \in S PROVE fct_matches(m).full_time \in Nat \X Nat
    BY DEF GoalsIn
  <2> QED BY <1>1, MatchFacts DEF ScoredMatches
<1>4. \A m \in D : one[m] \in Int /\ one[m] = 1
  OBVIOUS
<1>5. ASSUME NEW p \in pairs
      PROVE  /\ results(p) = Cardinality({m \in D : Pair(m) = p})
             /\ goals(p) = SumFunctionOnSet(inMatch, {m \in S : Pair(m) = p})
  BY ResultsOfPair, GoalsOfPair
<1>6. ASSUME NEW cs \in all
      PROVE  /\ counted(cs) = Cardinality({m \in D : Season(m) = cs})
             /\ scored(cs) = SumFunctionOnSet(inMatch, {m \in S : Season(m) = cs})
  <2>1. cs = <<cs[1], cs[2]>>
    OBVIOUS
  <2> QED BY <2>1, CountedInSeason, ScoredInSeason
<1> HIDE DEF pairs, all, D, S, one, inMatch, results, goals, counted, scored
<1>7. ASSUME NEW K, IsFiniteSet(K), NEW key \in [D -> K],
             NEW n, \A k \in K : n[k] = Cardinality({m \in D : key[m] = k})
      PROVE  SumFunctionOnSet(n, K) = Cardinality(D)
  <2>1. ASSUME NEW k \in K
        PROVE  n[k] = SumFunctionOnSet(one, {m \in D : key[m] = k})
    <3> DEFINE part == {m \in D : key[m] = k}
    <3>1. part \subseteq D
      OBVIOUS
    <3>2. n[k] = Cardinality(part)
      BY <1>7
    <3> HIDE DEF part
    <3>3. IsFiniteSet(part) /\ \A m \in part : one[m] = 1
      BY <1>1, <1>4, <3>1, FS_Subset
    <3>4. SumFunctionOnSet(one, part) = Cardinality(part)
      BY <3>3, SumOfOnes
    <3> QED BY <3>2, <3>4 DEF part
  <2>2. SumFunctionOnSet(n, K) = SumFunctionOnSet(one, D)
    BY <1>1, <1>4, <1>7, <2>1, SumByGroups
  <2> QED BY <1>1, <1>4, <2>2, SumOfOnes
<1>8. ASSUME NEW K, IsFiniteSet(K), NEW key \in [S -> K],
             NEW n, \A k \in K : n[k] = SumFunctionOnSet(inMatch, {m \in S : key[m] = k})
      PROVE  SumFunctionOnSet(n, K) = SumFunctionOnSet(inMatch, S)
  <2>1. IsFiniteSet(S) /\ IsFiniteSet(K) /\ key \in [S -> K]
    BY <1>1, <1>8
  <2>2. \A k \in K : n[k] = SumFunctionOnSet(inMatch, {m \in S : key[m] = k})
    BY <1>8
  <2> QED BY <1>3, <2>1, <2>2, SumByGroups
<1>9. SumFunction([p \in pairs |-> results(p)]) = Cardinality(D)
  <2> DEFINE key == [m \in D |-> Pair(m)]
             n == [p \in pairs |-> results(p)]
  <2>1. key \in [D -> pairs]
    BY <1>1, <1>2
  <2>2. \A p \in pairs : n[p] = Cardinality({m \in D : key[m] = p})
    <3> SUFFICES ASSUME NEW p \in pairs
                 PROVE  n[p] = Cardinality({m \in D : key[m] = p})
      OBVIOUS
    <3>1. {m \in D : key[m] = p} = {m \in D : Pair(m) = p}
      OBVIOUS
    <3> QED BY <1>5, <3>1
  <2>3. SumFunction(n) = SumFunctionOnSet(n, pairs)
    BY DEF SumFunction
  <2> HIDE DEF key, n
  <2> QED BY <1>1, <1>7, <2>1, <2>2, <2>3 DEF n
<1>10. SumFunction([cs \in all |-> counted(cs)]) = Cardinality(D)
  <2> DEFINE key == [m \in D |-> Season(m)]
             n == [cs \in all |-> counted(cs)]
  <2>1. key \in [D -> all]
    BY <1>1, <1>2
  <2>2. \A cs \in all : n[cs] = Cardinality({m \in D : key[m] = cs})
    <3> SUFFICES ASSUME NEW cs \in all
                 PROVE  n[cs] = Cardinality({m \in D : key[m] = cs})
      OBVIOUS
    <3>1. {m \in D : key[m] = cs} = {m \in D : Season(m) = cs}
      OBVIOUS
    <3> QED BY <1>6, <3>1
  <2>3. SumFunction(n) = SumFunctionOnSet(n, all)
    BY DEF SumFunction
  <2> HIDE DEF key, n
  <2> QED BY <1>1, <1>7, <2>1, <2>2, <2>3 DEF n
<1>11. SumFunction([p \in pairs |-> goals(p)]) = SumFunctionOnSet(inMatch, S)
  <2> DEFINE key == [m \in S |-> Pair(m)]
             n == [p \in pairs |-> goals(p)]
  <2>1. key \in [S -> pairs]
    BY <1>1, <1>2
  <2>2. \A p \in pairs : n[p] = SumFunctionOnSet(inMatch, {m \in S : key[m] = p})
    <3> SUFFICES ASSUME NEW p \in pairs
                 PROVE  n[p] = SumFunctionOnSet(inMatch, {m \in S : key[m] = p})
      OBVIOUS
    <3>1. {m \in S : key[m] = p} = {m \in S : Pair(m) = p}
      OBVIOUS
    <3> QED BY <1>5, <3>1
  <2>3. SumFunction(n) = SumFunctionOnSet(n, pairs)
    BY DEF SumFunction
  <2> HIDE DEF key, n
  <2> QED BY <1>1, <1>8, <2>1, <2>2, <2>3 DEF n
<1>12. SumFunction([cs \in all |-> scored(cs)]) = SumFunctionOnSet(inMatch, S)
  <2> DEFINE key == [m \in S |-> Season(m)]
             n == [cs \in all |-> scored(cs)]
  <2>1. key \in [S -> all]
    BY <1>1, <1>2
  <2>2. \A cs \in all : n[cs] = SumFunctionOnSet(inMatch, {m \in S : key[m] = cs})
    <3> SUFFICES ASSUME NEW cs \in all
                 PROVE  n[cs] = SumFunctionOnSet(inMatch, {m \in S : key[m] = cs})
      OBVIOUS
    <3>1. {m \in S : key[m] = cs} = {m \in S : Season(m) = cs}
      OBVIOUS
    <3> QED BY <1>6, <3>1
  <2>3. SumFunction(n) = SumFunctionOnSet(n, all)
    BY DEF SumFunction
  <2> HIDE DEF key, n
  <2> QED BY <1>1, <1>8, <2>1, <2>2, <2>3 DEF n
<1> QED BY <1>9, <1>10, <1>11, <1>12
        DEF StatsConserve, pairs, all, results, goals, counted, scored

(* Over everything, the averages per season (mart_cross_league_stats.sql)   *)
(* and the records per pair (mart_head_to_head.sql) count the same results  *)
(* and the same goals: no match is lost or counted twice by either.         *)
THEOREM StatsAreConserved == Spec => []StatsConserve
BY MatchesTyped, StatsFromTypes, PTL

-----------------------------------------------------------------------------
(* mart_standings_over_time: the reconstructed table of a season            *)

(* Three points for a win and one for a draw add up by counting.            *)
LEMMA PointsByCounting ==
    ASSUME NEW S, IsFiniteSet(S)
    PROVE  SumFunction([q \in S |-> Points(q)])
             = 3 * Cardinality({q \in S : q.result = "W"})
                 + Cardinality({q \in S : q.result = "D"})
<1> DEFINE W == {q \in S : q.result = "W"}
           D == {q \in S : q.result = "D"}
           p == [q \in S |-> Points(q)]
           w1 == [q \in S |-> IF q \in W THEN 1 ELSE 0]
           w2 == [q \in S |-> IF q \in W THEN 2 ELSE 0]
           w3 == [q \in S |-> IF q \in W THEN 3 ELSE 0]
           d == [q \in S |-> IF q \in D THEN 1 ELSE 0]
<1>1. \A q \in S : p[q] = IF q.result = "W" THEN 3 ELSE IF q.result = "D" THEN 1 ELSE 0
  BY DEF Points
<1>2. W \in SUBSET S /\ D \in SUBSET S
  OBVIOUS
<1>3. \A q \in S : /\ p[q] = w3[q] + d[q]
                   /\ w3[q] = w1[q] + w2[q] /\ w2[q] = w1[q] + w1[q]
                   /\ w1[q] \in Int /\ w2[q] \in Int /\ w3[q] \in Int /\ d[q] \in Int
                   /\ w1[q] = (IF q \in W THEN 1 ELSE 0)
                   /\ d[q] = (IF q \in D THEN 1 ELSE 0)
  BY <1>1
<1>4. SumFunction(p) = SumFunctionOnSet(p, S)
  BY DEF SumFunction
<1> HIDE DEF W, D, p, w1, w2, w3, d
<1>5. SumFunctionOnSet(p, S) = SumFunctionOnSet(w3, S) + SumFunctionOnSet(d, S)
  BY <1>3, SumPlus
<1>6. SumFunctionOnSet(w3, S) = SumFunctionOnSet(w1, S) + SumFunctionOnSet(w2, S)
  BY <1>3, SumPlus
<1>7. SumFunctionOnSet(w2, S) = SumFunctionOnSet(w1, S) + SumFunctionOnSet(w1, S)
  BY <1>3, SumPlus
<1>8. SumFunctionOnSet(w1, S) = Cardinality(W) /\ SumFunctionOnSet(d, S) = Cardinality(D)
  BY <1>2, <1>3, CountAsSum
<1>9. Cardinality(W) \in Nat /\ Cardinality(D) \in Nat
  BY <1>2, FS_Subset, FS_CardinalityType
<1>10. SumFunctionOnSet(p, S) = 3 * Cardinality(W) + Cardinality(D)
  <2> DEFINE w == Cardinality(W)
             e == Cardinality(D)
  <2> HIDE DEF w, e
  <2> QED BY <1>5, <1>6, <1>7, <1>8, <1>9 DEF w, e
<1> QED BY <1>4, <1>10 DEF p, W, D

(* A sum that skips the matches without goals is one that counts them as    *)
(* none.                                                                    *)
LEMMA GoalsByCounting ==
    ASSUME NEW S, IsFiniteSet(S), \E r \in S : r.goals # <<>>,
           \A r \in S : r.goals = <<>> \/ r.goals \in Nat \X Nat
    PROVE  /\ SumOfGoals(GoalsFor, S)
                = SumFunction([w \in S |-> IF w.goals = <<>> THEN 0 ELSE w.goals[1]])
           /\ SumOfGoals(GoalDifference, S)
                = SumFunction([w \in S |-> IF w.goals = <<>> THEN 0 ELSE w.goals[1]])
                    - SumFunction([w \in S |-> IF w.goals = <<>> THEN 0 ELSE w.goals[2]])
<1> DEFINE T == {r \in S : r.goals # <<>>}
           own == [w \in S |-> IF w.goals = <<>> THEN 0 ELSE w.goals[1]]
           others == [w \in S |-> IF w.goals = <<>> THEN 0 ELSE w.goals[2]]
           diff == [w \in S |-> IF w.goals = <<>> THEN 0 ELSE w.goals[1] - w.goals[2]]
           f == [r \in T |-> r.goals[1]]
           d == [r \in T |-> r.goals[1] - r.goals[2]]
<1>1. T # {} /\ T \in SUBSET S
  OBVIOUS
<1>2. \A x \in Nat \X Nat : x # <<>> /\ x[1] \in Int /\ x[2] \in Int
  OBVIOUS
<1>3. ASSUME NEW r \in S
      PROVE  /\ own[r] \in Int /\ others[r] \in Int /\ diff[r] \in Int
             /\ own[r] = diff[r] + others[r]
             /\ r \in T => own[r] = f[r] /\ diff[r] = d[r]
             /\ r \notin T => own[r] = 0 /\ diff[r] = 0
  <2>1. CASE r.goals = <<>>
    BY <2>1
  <2>2. CASE r.goals # <<>>
    <3>1. r.goals[1] \in Int /\ r.goals[2] \in Int
      BY <1>2, <2>2
    <3> QED BY <2>2, <3>1
  <2> QED BY <2>1, <2>2
<1>4. /\ SumOfGoals(GoalsFor, S) = SumFunction(f)
      /\ SumOfGoals(GoalDifference, S) = SumFunction(d)
  BY <1>1 DEF SumOfGoals, GoalsFor, GoalDifference
<1>5. /\ SumFunction(f) = SumFunctionOnSet(f, T) /\ SumFunction(d) = SumFunctionOnSet(d, T)
      /\ SumFunction(own) = SumFunctionOnSet(own, S)
      /\ SumFunction(others) = SumFunctionOnSet(others, S)
  BY DEF SumFunction
<1> HIDE DEF T, own, others, diff, f, d
<1>6. IsFiniteSet(T)
  BY <1>1, FS_Subset
<1>7. SumFunctionOnSet(own, S) = SumFunctionOnSet(own, T)
  <2>1. \A r \in S \ T : own[r] = 0
    BY <1>3
  <2>2. \A r \in S : own[r] \in Int
    BY <1>3
  <2> QED BY <1>1, <2>1, <2>2, SumNonZero
<1>8. SumFunctionOnSet(diff, S) = SumFunctionOnSet(diff, T)
  <2>1. \A r \in S \ T : diff[r] = 0
    BY <1>3
  <2>2. \A r \in S : diff[r] \in Int
    BY <1>3
  <2> QED BY <1>1, <2>1, <2>2, SumNonZero
<1>9. SumFunctionOnSet(own, T) = SumFunctionOnSet(f, T)
  <2>1. \A r \in T : own[r] \in Int /\ own[r] = f[r]
    BY <1>1, <1>3
  <2> QED BY <1>6, <2>1, SumSame
<1>10. SumFunctionOnSet(diff, T) = SumFunctionOnSet(d, T)
  <2>1. \A r \in T : diff[r] \in Int /\ diff[r] = d[r]
    BY <1>1, <1>3
  <2> QED BY <1>6, <2>1, SumSame
<1>11. SumFunctionOnSet(own, S) = SumFunctionOnSet(diff, S) + SumFunctionOnSet(others, S)
  <2>1. \A r \in S : /\ diff[r] \in Int /\ others[r] \in Int
                     /\ own[r] = diff[r] + others[r]
    BY <1>3
  <2> QED BY <2>1, SumPlus
<1>12. /\ SumFunctionOnSet(own, S) \in Int /\ SumFunctionOnSet(diff, S) \in Int
       /\ SumFunctionOnSet(others, S) \in Int
  <2>1. \A r \in S : own[r] \in Int /\ diff[r] \in Int /\ others[r] \in Int
    BY <1>3
  <2> QED BY <2>1, SumType
<1>13. SumFunctionOnSet(diff, S) = SumFunctionOnSet(own, S) - SumFunctionOnSet(others, S)
  BY <1>11, <1>12
<1> QED BY <1>4, <1>5, <1>7, <1>8, <1>9, <1>10, <1>13 DEF own, others

\* The row of the mart that a match of a team gives.
Standing(r, T) ==
    LET key == Cumulative(r, T).key IN
    [row |-> r, key |-> key,
     position |-> 1 + Cardinality({d \in {Cumulative(q, T) : q \in T} :
                          /\ SameTable(d.row, r)
                          /\ Matchday(d.row) = Matchday(r)
                          /\ Ahead(d.key, key)})]

\* The rows of the phase that has a table, decided or not.
Phase(c, y, g) ==
    {r \in fct_team_matches :
        /\ r.competition = c /\ r.season = y /\ Fixtures[r.match_id].group = g
        /\ Fixtures[r.match_id].stage \in StandingsPhaseStages}

\* A table, its last matchday and the rows on it.
Table(c, y, g) == Decided(Phase(c, y, g))
LastDay(L) == Max({Matchday(r) : r \in L})
LastDayRows(L) == {r \in L : Matchday(r) = LastDay(L)}

LEMMA TableIs ==
    ASSUME NEW c, NEW y, NEW g
    PROVE  Table(c, y, g) =
             {r \in TeamMatches(fct_team_matches) :
                 r.competition = c /\ r.season = y /\ Fixtures[r.match_id].group = g}
BY DEF Table, Phase, Decided, TeamMatches

LEMMA MartIsStandings ==
    ASSUME NEW rows
    PROVE  mart_standings_over_time(rows)
             = {Standing(r, TeamMatches(rows)) : r \in TeamMatches(rows)}
<1> DEFINE T == TeamMatches(rows)
           cumulative == {Cumulative(r, T) : r \in T}
           position(c) == 1 + Cardinality({d \in cumulative :
                               /\ SameTable(d.row, c.row)
                               /\ Matchday(d.row) = Matchday(c.row)
                               /\ Ahead(d.key, c.key)})
<1>1. mart_standings_over_time(rows)
        = {[row |-> c.row, key |-> c.key, position |-> position(c)] : c \in cumulative}
  BY DEF mart_standings_over_time
<1>2. ASSUME NEW r \in T
      PROVE  [row |-> Cumulative(r, T).row, key |-> Cumulative(r, T).key,
              position |-> position(Cumulative(r, T))] = Standing(r, T)
  <2>1. Cumulative(r, T).row = r
    BY DEF Cumulative
  <2> QED BY <2>1 DEF Standing
<1> HIDE DEF T, position
<1>3. {[row |-> c.row, key |-> c.key, position |-> position(c)] : c \in cumulative}
        = {[row |-> Cumulative(r, T).row, key |-> Cumulative(r, T).key,
            position |-> position(Cumulative(r, T))] : r \in T}
  OBVIOUS
<1>4. @ = {Standing(r, T) : r \in T}
  BY <1>2
<1> QED BY <1>1, <1>3, <1>4 DEF T

LEMMA TableFacts ==
    ASSUME TypeOK, NEW c, NEW y, NEW g
    PROVE  /\ IsFiniteSet(Table(c, y, g))
           /\ \A r \in Table(c, y, g) :
                 /\ r \in TeamMatches(fct_team_matches) /\ r \in fct_team_matches
                 /\ r.match_id \in MatchIds /\ Matchday(r) \in Int
                 /\ r.goals = <<>> \/ r.goals \in Nat \X Nat
                 /\ Fixtures[r.match_id].stage \in StandingsPhaseStages
           /\ \A r \in Table(c, y, g), q \in TeamMatches(fct_team_matches) :
                 SameTable(q, r) <=> q \in Table(c, y, g)
<1> DEFINE L == Table(c, y, g)
<1>1. IsFiniteSet(L)
  <2>1. L \subseteq fct_team_matches /\ IsFiniteSet(fct_team_matches)
    BY TeamRowFacts, TableIs DEF TeamMatches, Decided
  <2> QED BY <2>1, FS_Subset
<1>2. ASSUME NEW r \in L
      PROVE  /\ r \in TeamMatches(fct_team_matches) /\ r \in fct_team_matches
             /\ r.match_id \in MatchIds /\ Matchday(r) \in Int
             /\ r.goals = <<>> \/ r.goals \in Nat \X Nat
             /\ Fixtures[r.match_id].stage \in StandingsPhaseStages
  <2>1. /\ r \in TeamMatches(fct_team_matches) /\ r \in fct_team_matches
        /\ Fixtures[r.match_id].stage \in StandingsPhaseStages
    BY TableIs DEF TeamMatches, Decided
  <2>2. PICK m \in MatchIds, h \in BOOLEAN : r = Side(m, h)
    BY <2>1 DEF fct_team_matches
  <2>3. r.match_id = m /\ Matchday(r) \in Int
    BY <2>2, SideFields, FixtureTypes DEF Matchday
  <2> DEFINE s == fct_matches(m).full_time
  <2>4. s = <<>> \/ s \in Nat \X Nat
    BY MatchFacts
  <2>5. r.goals = IF h \/ s = <<>> THEN s ELSE <<s[2], s[1]>>
    BY <2>2, SideGoals
  <2> HIDE DEF s
  <2>6. r.goals = <<>> \/ r.goals \in Nat \X Nat
    BY <2>4, <2>5
  <2> QED BY <2>1, <2>3, <2>6
<1>3. ASSUME NEW r \in L, NEW q \in TeamMatches(fct_team_matches)
      PROVE  SameTable(q, r) <=> q \in L
  BY TableIs DEF SameTable
<1> QED BY <1>1, <1>2, <1>3

LEMMA LastDayIs ==
    ASSUME TypeOK, NEW c, NEW y, NEW g, Table(c, y, g) # {}
    PROVE  /\ LastDay(Table(c, y, g)) \in Int
           /\ LastDayRows(Table(c, y, g)) # {}
           /\ \A r \in Table(c, y, g) : Matchday(r) <= LastDay(Table(c, y, g))
<1> DEFINE L == Table(c, y, g)
           days == {Matchday(r) : r \in L}
           f == [r \in L |-> Matchday(r)]
<1>1. IsFiniteSet(L) /\ \A r \in L : Matchday(r) \in Int
  BY TableFacts
<1>2. f \in Surjection(L, days)
  BY DEF Surjection
<1>3. days # {} /\ days \subseteq Int
  BY <1>1
<1> HIDE DEF days, f, L
<1>4. IsFiniteSet(days)
  BY <1>1, <1>2, FS_Surjection
<1>5. Max(days) \in days /\ \A d \in days : d <= Max(days)
  BY <1>3, <1>4, MaxExists
<1>6. LastDay(L) = Max(days)
  BY DEF LastDay, days
<1> QED BY <1>3, <1>5, <1>6 DEF LastDayRows, days, L

(* What the query for a past season gives of a table: the rows on its last  *)
(* matchday.                                                                *)
LEMMA FinalRowsAre ==
    ASSUME TypeOK, NEW c, NEW y, NEW g
    PROVE  {s \in get_reconstructed_final_standings(c, y, fct_team_matches) :
               Fixtures[s.row.match_id].group = g}
             = {Standing(r, TeamMatches(fct_team_matches)) :
                   r \in LastDayRows(Table(c, y, g))}
<1> DEFINE T == TeamMatches(fct_team_matches)
           L == Table(c, y, g)
           St(r) == Standing(r, T)
           mart == {s \in {St(r) : r \in T} :
                       s.row.competition = c /\ s.row.season = y}
<1>1. \A r : St(r).row = r
  BY DEF Standing
<1>2. get_reconstructed_final_standings(c, y, fct_team_matches)
        = {s \in mart : \A q \in mart : SameTable(q.row, s.row)
                                          => Matchday(q.row) <= Matchday(s.row)}
  BY MartIsStandings DEF get_reconstructed_final_standings
<1>3. \A r \in T : r \in L <=> /\ r.competition = c /\ r.season = y
                              /\ Fixtures[r.match_id].group = g
  BY TableIs
<1>4. /\ L \subseteq T
      /\ \A r \in L : Matchday(r) \in Int
      /\ \A r \in L, q \in T : SameTable(q, r) <=> q \in L
  <2>1. L \subseteq T
    BY TableIs
  <2> HIDE DEF L, T
  <2> QED BY <2>1, TableFacts DEF L, T
<1>5. L # {} => /\ LastDay(L) \in Int /\ LastDayRows(L) # {}
                /\ \A r \in L : Matchday(r) <= LastDay(L)
  BY LastDayIs
<1> HIDE DEF T, L, St
<1>6. ASSUME NEW r \in L
      PROVE  (\A q \in mart : SameTable(q.row, r) => Matchday(q.row) <= Matchday(r))
               <=> r \in LastDayRows(L)
  <2>1. ASSUME \A q \in mart : SameTable(q.row, r) => Matchday(q.row) <= Matchday(r)
        PROVE  r \in LastDayRows(L)
    <3>1. PICK z \in LastDayRows(L) : TRUE
      BY <1>5
    <3>2. z \in L /\ Matchday(z) = LastDay(L) /\ z \in T
      BY <1>4, <3>1 DEF LastDayRows
    <3>3. St(z) \in mart /\ St(z).row = z /\ SameTable(z, r)
      BY <1>1, <1>3, <1>4, <3>2
    <3>4. Matchday(z) <= Matchday(r) /\ Matchday(r) <= LastDay(L)
      BY <1>5, <2>1, <3>3
    <3>5. Matchday(r) = LastDay(L)
      BY <1>4, <1>5, <3>2, <3>4
    <3> QED BY <3>5 DEF LastDayRows
  <2>2. ASSUME r \in LastDayRows(L), NEW q \in mart, SameTable(q.row, r)
        PROVE  Matchday(q.row) <= Matchday(r)
    <3>1. q.row \in T
      BY <1>1
    <3>2. q.row \in L
      BY <1>4, <2>2, <3>1
    <3> QED BY <1>5, <2>2, <3>2 DEF LastDayRows
  <2> QED BY <2>1, <2>2
<1>7. ASSUME NEW s \in mart, Fixtures[s.row.match_id].group = g,
             \A q \in mart : SameTable(q.row, s.row) => Matchday(q.row) <= Matchday(s.row)
      PROVE  s \in {St(r) : r \in LastDayRows(L)}
  <2>1. PICK r \in T : s = St(r)
    OBVIOUS
  <2>2. s.row = r
    BY <1>1, <2>1
  <2>3. r \in L
    BY <1>3, <1>7, <2>2
  <2> QED BY <1>6, <1>7, <2>1, <2>2, <2>3
<1>8. ASSUME NEW r \in LastDayRows(L)
      PROVE  /\ St(r) \in mart /\ Fixtures[St(r).row.match_id].group = g
             /\ \A q \in mart : SameTable(q.row, St(r).row)
                                  => Matchday(q.row) <= Matchday(St(r).row)
  <2>1. r \in L /\ r \in T
    BY <1>4 DEF LastDayRows
  <2>2. St(r).row = r
    BY <1>1
  <2> QED BY <1>3, <1>6, <2>1, <2>2
<1> HIDE DEF mart
<1>9. {s \in {z \in mart : \A q \in mart : SameTable(q.row, z.row)
                                             => Matchday(q.row) <= Matchday(z.row)} :
         Fixtures[s.row.match_id].group = g}
        = {St(r) : r \in LastDayRows(L)}
  BY <1>7, <1>8
<1> QED BY <1>2, <1>9 DEF St, T, L

\* The rows of a team in a table, its points and goals there.
OwnRows(L, t) == {r \in L : r.team = t}

TallyOf(L, t) ==
    LET own == OwnRows(L, t)
        goals(i) == SumFunction([w \in own |-> IF w.goals = <<>> THEN 0 ELSE w.goals[i]])
        with(result) == Cardinality({r \in own : r.result = result})
    IN  <<3 * with("W") + with("D"), goals(1) - goals(2), goals(1)>>

(* On the last matchday, the sums up to it are the sums over everything.    *)
LEMMA LastSumsAreTally ==
    ASSUME TypeOK, NEW c, NEW y, NEW g, NEW r \in LastDayRows(Table(c, y, g)),
           \E q \in OwnRows(Table(c, y, g), r.team) : q.goals # <<>>
    PROVE  Cumulative(r, TeamMatches(fct_team_matches)).key
             = TallyOf(Table(c, y, g), r.team)
<1> DEFINE T == TeamMatches(fct_team_matches)
           L == Table(c, y, g)
           own == OwnRows(L, r.team)
<1>1. /\ r \in L /\ Matchday(r) = LastDay(L) /\ L # {}
  BY DEF LastDayRows
<1>2. /\ IsFiniteSet(L) /\ \A q \in L : q.goals = <<>> \/ q.goals \in Nat \X Nat
  BY TableFacts
<1>3. \A q \in L : Matchday(q) <= LastDay(L)
  BY <1>1, LastDayIs
<1>4. L \subseteq T
  BY TableIs
<1>5. \A q \in T : SameTable(q, r) <=> q \in L
  <2> HIDE DEF L, T
  <2> QED BY <1>1, TableFacts DEF L, T
<1> HIDE DEF L, T
<1>6. Frame(r, T) = own
  BY <1>1, <1>3, <1>4, <1>5 DEF Frame, OwnRows
<1>7. IsFiniteSet(own) /\ own \subseteq L
  BY <1>2, FS_Subset DEF OwnRows
<1>8. \A q \in own : q.goals = <<>> \/ q.goals \in Nat \X Nat
  BY <1>2, <1>7
<1>9. \E q \in own : q.goals # <<>>
  BY DEF L
<1> HIDE DEF own
<1>10. SumFunction([q \in own |-> Points(q)])
         = 3 * Cardinality({q \in own : q.result = "W"})
             + Cardinality({q \in own : q.result = "D"})
  BY <1>7, PointsByCounting
<1>11. /\ SumOfGoals(GoalsFor, own)
            = SumFunction([w \in own |-> IF w.goals = <<>> THEN 0 ELSE w.goals[1]])
       /\ SumOfGoals(GoalDifference, own)
            = SumFunction([w \in own |-> IF w.goals = <<>> THEN 0 ELSE w.goals[1]])
                - SumFunction([w \in own |-> IF w.goals = <<>> THEN 0 ELSE w.goals[2]])
  BY <1>7, <1>8, <1>9, GoalsByCounting
<1>12. Cumulative(r, T).key = <<SumFunction([q \in own |-> Points(q)]),
                                SumOfGoals(GoalDifference, own),
                                SumOfGoals(GoalsFor, own)>>
  BY <1>6 DEF Cumulative
<1> QED BY <1>10, <1>11, <1>12 DEF TallyOf, own, L, T

(* The place of a row among the rows of its last matchday is that of its    *)
(* team among the teams.                                                    *)
LEMMA PlaceAmongTeams ==
    ASSUME TypeOK, NEW c, NEW y, NEW g, NEW members, NEW rowOf,
           \A t \in members : rowOf[t] \in LastDayRows(Table(c, y, g)) /\ rowOf[t].team = t,
           \A r \in LastDayRows(Table(c, y, g)) : r.team \in members /\ r = rowOf[r.team],
           IsFiniteSet(members),
           \A t \in members :
              Cumulative(rowOf[t], TeamMatches(fct_team_matches)).key
                = TallyOf(Table(c, y, g), t),
           NEW t \in members
    PROVE  Standing(rowOf[t], TeamMatches(fct_team_matches)).position
             = 1 + Cardinality({u \in members : Ahead(TallyOf(Table(c, y, g), u),
                                                      TallyOf(Table(c, y, g), t))})
<1> DEFINE T == TeamMatches(fct_team_matches)
           L == Table(c, y, g)
           tally(u) == TallyOf(L, u)
           A == {u \in members : Ahead(tally(u), tally(t))}
           all == {Cumulative(q, T) : q \in T}
           D == {d \in all : /\ SameTable(d.row, rowOf[t])
                             /\ Matchday(d.row) = Matchday(rowOf[t])
                             /\ Ahead(d.key, Cumulative(rowOf[t], T).key)}
           b == [u \in A |-> Cumulative(rowOf[u], T)]
<1>1. Standing(rowOf[t], T).position = 1 + Cardinality(D)
  BY DEF Standing
<1>2. \A q : Cumulative(q, T).row = q
  BY DEF Cumulative
<1>3. \A r \in L, q \in T : SameTable(q, r) <=> q \in L
  <2> HIDE DEF L, T
  <2> QED BY TableFacts DEF L, T
<1>4. L \subseteq T
  BY TableIs
<1>5. \A u \in members : /\ rowOf[u] \in L /\ Matchday(rowOf[u]) = LastDay(L)
                         /\ rowOf[u].team = u
                         /\ Cumulative(rowOf[u], T).key = tally(u)
  BY DEF LastDayRows
<1>6. \A r \in L : Matchday(r) = LastDay(L) => r.team \in members /\ r = rowOf[r.team]
  BY DEF LastDayRows
<1> HIDE DEF T, L, tally, all
<1>7. \A u \in A : b[u] \in D
  <2> SUFFICES ASSUME NEW u \in A PROVE b[u] \in D
    OBVIOUS
  <2>1. /\ u \in members /\ b[u] = Cumulative(rowOf[u], T) /\ b[u].row = rowOf[u]
        /\ Ahead(tally(u), tally(t))
    BY <1>2
  <2>2. rowOf[u] \in L /\ rowOf[u] \in T /\ rowOf[t] \in L
    BY <1>4, <1>5, <2>1
  <2>3. b[u] \in all
    BY <2>1, <2>2 DEF all
  <2>4. SameTable(b[u].row, rowOf[t]) /\ Matchday(b[u].row) = Matchday(rowOf[t])
    BY <1>3, <1>5, <2>1, <2>2
  <2>5. Ahead(b[u].key, Cumulative(rowOf[t], T).key)
    BY <1>5, <2>1
  <2> QED BY <2>3, <2>4, <2>5
<1>8. ASSUME NEW d \in D
      PROVE  \E u \in A : b[u] = d
  <2>1. PICK q \in T : d = Cumulative(q, T)
    BY DEF all
  <2>2. d.row = q
    BY <1>2, <2>1
  <2>3. q \in L /\ Matchday(q) = LastDay(L)
    BY <1>3, <1>5, <2>2
  <2>4. q.team \in members /\ q = rowOf[q.team]
    BY <1>6, <2>3
  <2>5. Ahead(d.key, tally(t)) /\ d.key = tally(q.team)
    BY <1>5, <2>1, <2>4
  <2> QED BY <2>1, <2>4, <2>5
<1>9. \A u, v \in A : b[u] = b[v] => u = v
  <2> SUFFICES ASSUME NEW u \in A, NEW v \in A, b[u] = b[v] PROVE u = v
    OBVIOUS
  <2>1. b[u].row = rowOf[u] /\ b[v].row = rowOf[v]
    BY <1>2
  <2> QED BY <1>5, <2>1
<1>10. b = [u \in A |-> b[u]] /\ A \subseteq members
  OBVIOUS
<1> HIDE DEF A, D, b
<1>11. b \in Bijection(A, D)
  BY <1>7, <1>8, <1>9, <1>10 DEF Bijection, Injection, Surjection, IsInjective
<1>12. IsFiniteSet(A)
  BY <1>10, FS_Subset
<1>13. Cardinality(D) = Cardinality(A)
  BY <1>11, <1>12, SameCount
<1> QED BY <1>1, <1>13 DEF A, tally, L, T

\* The teams of a table, and when its last matchday says everything.
Members(c, y, g) == {r.team : r \in Phase(c, y, g)}

Complete(L, members) ==
    /\ L # {}
    /\ \A t \in members : /\ \E r \in OwnRows(L, t) : Matchday(r) = LastDay(L)
                          /\ \E r \in OwnRows(L, t) : r.goals # <<>>

LEMMA FinalTableOfMembers ==
    ASSUME TypeOK, OneMatchPerMatchday, NEW c, NEW y, NEW g,
           Complete(Table(c, y, g), Members(c, y, g))
    PROVE  {<<s.row.team, s.key, s.position>> :
               s \in {z \in get_reconstructed_final_standings(c, y, fct_team_matches) :
                         Fixtures[z.row.match_id].group = g}}
             = {<<t, TallyOf(Table(c, y, g), t),
                  1 + Cardinality({u \in Members(c, y, g) :
                         Ahead(TallyOf(Table(c, y, g), u), TallyOf(Table(c, y, g), t))})>> :
                   t \in Members(c, y, g)}
<1> DEFINE T == TeamMatches(fct_team_matches)
           L == Table(c, y, g)
           members == Members(c, y, g)
           last == LastDayRows(L)
           place(t) == 1 + Cardinality({u \in members :
                                           Ahead(TallyOf(L, u), TallyOf(L, t))})
           rowOf == [t \in members |-> CHOOSE r \in last : r.team = t]
<1>1. \A r \in L : r.team \in members
  <2> SUFFICES ASSUME NEW r \in L PROVE r.team \in members
    OBVIOUS
  <2>1. /\ r \in fct_team_matches
        /\ Fixtures[r.match_id].stage \in StandingsPhaseStages
    BY TableFacts
  <2>2. /\ r.competition = c /\ r.season = y /\ Fixtures[r.match_id].group = g
    BY TableIs
  <2> QED BY <2>1, <2>2 DEF Members, Phase
<1>2. \A t \in members : \E r \in last : r.team = t
  BY DEF Complete, OwnRows, LastDayRows
<1>3. \A r, q \in last : r.team = q.team => r = q
  <2> SUFFICES ASSUME NEW r \in last, NEW q \in last, r.team = q.team PROVE r = q
    OBVIOUS
  <2>1. r \in L /\ q \in L /\ Matchday(r) = Matchday(q)
    BY DEF LastDayRows
  <2>2. r \in T /\ q \in T /\ SameTable(r, q)
    BY <2>1, TableIs DEF SameTable
  <2>3. OneRowPerMatchday
    BY OneRowFromTypes
  <2> QED BY <2>1, <2>2, <2>3 DEF OneRowPerMatchday
<1>4. IsFiniteSet(members)
  <2> DEFINE R == Phase(c, y, g)
             f == [q \in R |-> q.team]
  <2>1. members = {q.team : q \in R} /\ R \subseteq fct_team_matches
    BY DEF Members, Phase
  <2>2. f \in Surjection(R, members)
    <3> HIDE DEF R, members
    <3> QED BY <2>1 DEF Surjection
  <2> HIDE DEF R, f, members
  <2>3. IsFiniteSet(R)
    BY <2>1, TeamRowFacts, FS_Subset
  <2> QED BY <2>2, <2>3, FS_Surjection
<1>5. \A t \in members : \E q \in OwnRows(L, t) : q.goals # <<>>
  BY DEF Complete
<1>6. last \subseteq L
  BY DEF LastDayRows
<1> HIDE DEF L, members, last
<1>7. \A t \in members : rowOf[t] \in last /\ rowOf[t].team = t
  BY <1>2
<1>8. \A r \in last : r.team \in members /\ r = rowOf[r.team]
  BY <1>1, <1>3, <1>6, <1>7
<1> HIDE DEF rowOf
<1>9. ASSUME NEW t \in members
      PROVE  Cumulative(rowOf[t], T).key = TallyOf(L, t)
  <2>1. rowOf[t] \in LastDayRows(Table(c, y, g)) /\ rowOf[t].team = t
    BY <1>7 DEF last, L
  <2>2. \E q \in OwnRows(Table(c, y, g), rowOf[t].team) : q.goals # <<>>
    BY <1>5, <2>1 DEF L
  <2> HIDE DEF T
  <2> QED BY <2>1, <2>2, LastSumsAreTally DEF L, T
<1>10. ASSUME NEW t \in members
       PROVE  Standing(rowOf[t], T).position = place(t)
  <2>1. /\ \A u \in members : /\ rowOf[u] \in LastDayRows(Table(c, y, g))
                              /\ rowOf[u].team = u
        /\ \A r \in LastDayRows(Table(c, y, g)) : r.team \in members /\ r = rowOf[r.team]
        /\ \A u \in members : Cumulative(rowOf[u], TeamMatches(fct_team_matches)).key
                                = TallyOf(Table(c, y, g), u)
    BY <1>7, <1>8, <1>9 DEF last, L
  <2>2. Standing(rowOf[t], TeamMatches(fct_team_matches)).position
          = 1 + Cardinality({u \in members : Ahead(TallyOf(Table(c, y, g), u),
                                                   TallyOf(Table(c, y, g), t))})
    BY <1>4, <2>1, PlaceAmongTeams
  <2> QED BY <2>2 DEF L
<1>11. ASSUME NEW r \in last
       PROVE  LET s == Standing(r, T) IN
              <<s.row.team, s.key, s.position>>
                = <<r.team, TallyOf(L, r.team), place(r.team)>>
  <2>1. Standing(r, T).row = r /\ Standing(r, T).key = Cumulative(r, T).key
    BY DEF Standing
  <2> HIDE DEF T, place
  <2> QED BY <1>8, <1>9, <1>10, <2>1
<1>12. {z \in get_reconstructed_final_standings(c, y, fct_team_matches) :
           Fixtures[z.row.match_id].group = g}
         = {Standing(r, T) : r \in last}
  BY FinalRowsAre DEF last, L
<1> HIDE DEF T, place
<1>13. {<<s.row.team, s.key, s.position>> : s \in {Standing(r, T) : r \in last}}
         = {<<t, TallyOf(L, t), place(t)>> : t \in members}
  <2>1. {<<s.row.team, s.key, s.position>> : s \in {Standing(r, T) : r \in last}}
          = {<<r.team, TallyOf(L, r.team), place(r.team)>> : r \in last}
    BY <1>11
  <2>2. @ = {<<t, TallyOf(L, t), place(t)>> : t \in members}
    BY <1>7, <1>8
  <2> QED BY <2>1, <2>2
<1> QED BY <1>12, <1>13 DEF place, L, members

LEMMA FinalTableFromTypes ==
    ASSUME TypeOK, OneMatchPerMatchday PROVE FinalTableRight
<1> SUFFICES ASSUME NEW c \in Competitions, NEW y \in Seasons,
                    NEW g \in {Fixtures[m].group : m \in MatchIds}
             PROVE  LET members == Members(c, y, g)
                        L == Table(c, y, g)
                        tally == [t \in members |-> TallyOf(L, t)]
                        place(t) == 1 + Cardinality({u \in members :
                                                        Ahead(tally[u], tally[t])})
                        table == {s \in get_reconstructed_final_standings(
                                            c, y, fct_team_matches) :
                                     Fixtures[s.row.match_id].group = g}
                    IN  Complete(L, members) =>
                          {<<s.row.team, s.key, s.position>> : s \in table}
                            = {<<t, tally[t], place(t)>> : t \in members}
  BY DEF FinalTableRight, Complete, Members, Phase, Table, LastDay, OwnRows, TallyOf
<1> DEFINE members == Members(c, y, g)
           L == Table(c, y, g)
           tally == [t \in members |-> TallyOf(L, t)]
           place(t) == 1 + Cardinality({u \in members : Ahead(tally[u], tally[t])})
           table == {s \in get_reconstructed_final_standings(c, y, fct_team_matches) :
                        Fixtures[s.row.match_id].group = g}
           Place(t) == 1 + Cardinality({u \in members :
                                           Ahead(TallyOf(L, u), TallyOf(L, t))})
<1> SUFFICES ASSUME Complete(L, members)
             PROVE  {<<s.row.team, s.key, s.position>> : s \in table}
                      = {<<t, tally[t], place(t)>> : t \in members}
  OBVIOUS
<1>1. {<<s.row.team, s.key, s.position>> : s \in table}
        = {<<t, TallyOf(L, t), Place(t)>> : t \in members}
  BY FinalTableOfMembers
<1>2. ASSUME NEW t \in members
      PROVE  tally[t] = TallyOf(L, t) /\ place(t) = Place(t)
  <2>1. {u \in members : Ahead(tally[u], tally[t])}
          = {u \in members : Ahead(TallyOf(L, u), TallyOf(L, t))}
    <3> HIDE DEF members, L
    <3> QED OBVIOUS
  <2> QED BY <2>1
<1>3. {<<t, TallyOf(L, t), Place(t)>> : t \in members}
        = {<<t, tally[t], place(t)>> : t \in members}
  <2> HIDE DEF members, L, tally, place, Place
  <2> QED BY <1>2
<1> QED BY <1>1, <1>3

(* Once every team of a table has its last matchday and a score, the table  *)
(* reconstructed for a past season (mart_standings_over_time.sql, queries   *)
(* .py get_reconstructed_final_standings) holds every team once, with all   *)
(* its points and goals and in its place, in whichever order matches were   *)
(* played.                                                                  *)
THEOREM FinalTableIsTheTable ==
    ASSUME OneMatchPerMatchday PROVE Spec => []FinalTableRight
BY MatchesTyped, FinalTableFromTypes, PTL

=============================================================================
