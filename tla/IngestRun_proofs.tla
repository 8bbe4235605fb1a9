-------------------------- MODULE IngestRun_proofs --------------------------
(***************************************************************************)
(* Theorems about IngestRun, for any competitions, teams and players, any   *)
(* set of resources and season years, any order of the generators and any   *)
(* number of runs, crashes and changes of the API.                          *)
(***************************************************************************)
EXTENDS IngestRun, FiniteSetTheorems, WellFoundedInduction, TLAPS

Blocks == Seq(Seq(Urls) \ {<<>>})

(* The URLs in a sequence of blocks.                                        *)
Wanted(blocks) ==
    {u \in Urls : \E i \in 1 .. Len(blocks) :
                    \E j \in 1 .. Len(blocks[i]) : u = blocks[i][j]}

-----------------------------------------------------------------------------
(* Years *)

LEMMA YearsBounded == MaxYear \in Nat /\ \A y \in Years : y \in Nat /\ 1 <= y /\ y <= MaxYear
<1>1. MaxYear \in Nat
  BY IngestAssumption
<1> QED BY <1>1 DEF Years

(* discover_current_season finds a newest year when there is one at all.    *)
LEMMA NewestExists ==
    ASSUME NEW ys, ys \subseteq Years, ys # {}
    PROVE  Discovered(ys) \in ys /\ \A y \in ys : Discovered(ys) >= y
<1> DEFINE R == OpToRel(<, Nat)
           T == {MaxYear - y : y \in ys}
<1>1. MaxYear \in Nat /\ \A y \in ys : y \in Nat /\ MaxYear - y \in Nat
  BY YearsBounded
<1>2. T \subseteq Nat /\ T # {}
  BY <1>1
<1>3. PICK x \in T : \A y \in T : ~ (<<y, x>> \in R)
  <2> HIDE DEF T, R
  <2>1. IsWellFoundedOn(R, Nat)
    BY NatLessThanWellFounded DEF R
  <2> QED BY <1>2, <2>1, WFMin
<1>4. \A y \in T : ~ (y < x)
  BY <1>2, <1>3 DEF OpToRel
<1>5. PICK z \in ys : x = MaxYear - z
  BY <1>3
<1>6. ASSUME NEW y \in ys PROVE z >= y
  <2>1. ~ (MaxYear - y < MaxYear - z)
    BY <1>4, <1>5
  <2> HIDE DEF T, R
  <2> QED BY <2>1, <1>1
<1> QED BY <1>6 DEF Discovered

-----------------------------------------------------------------------------
(* What the generators read *)

LEMMA CodesSeq == Codes \in Seq(STRING) /\ Code = {Codes[i] : i \in 1 .. Len(Codes)}
<1>1. Codes \in Seq(STRING)
  BY IngestAssumption
<1> QED BY <1>1 DEF Code, Range

LEMMA UrlsMembers ==
    /\ CompetitionsUrl \in Urls
    /\ \A c \in Code : TeamsUrl(c) \in Urls /\ StandingsUrl(c) \in Urls
    /\ \A c \in Code, y \in Years : MatchesUrl(c, y) \in Urls /\ ScorersUrl(c, y) \in Urls
BY DEF Urls

PerCompetition == AllResources \ {"competitions"}

LEMMA BlockType ==
    ASSUME NEW r \in PerCompetition, NEW c \in Code,
           NEW years \in Seq(Years), years # <<>>
    PROVE  Block(r, c, years) \in Seq(Urls) \ {<<>>}
<1> DEFINE n == Len(years)
<1>1. n \in Nat /\ n > 0 /\ \A j \in 1 .. n : years[j] \in Years
  OBVIOUS
<1>2. CASE r \in {"teams", "players", "squad_observations"}
  <2>1. Block(r, c, years) = <<TeamsUrl(c)>>
    BY <1>2 DEF Block
  <2> QED BY <2>1, UrlsMembers
<1>3. CASE r = "standings"
  <2>1. Block(r, c, years) = <<StandingsUrl(c)>>
    BY <1>3 DEF Block
  <2> QED BY <2>1, UrlsMembers
<1>4. CASE r = "matches"
  <2>1. Block(r, c, years) = [j \in 1 .. n |-> MatchesUrl(c, years[j])]
    BY <1>4 DEF Block
  <2>2. \A j \in 1 .. n : MatchesUrl(c, years[j]) \in Urls
    BY <1>1, UrlsMembers
  <2> QED BY <1>1, <2>1, <2>2
<1>5. CASE r = "scorers"
  <2>1. Block(r, c, years) = [j \in 1 .. n |-> ScorersUrl(c, years[j])]
    BY <1>5 DEF Block
  <2>2. \A j \in 1 .. n : ScorersUrl(c, years[j]) \in Urls
    BY <1>1, UrlsMembers
  <2> QED BY <1>1, <2>1, <2>2
<1>6. CASE r = "seasons"
  <2> DEFINE At(j) == IF j = 2 * n + 1 THEN StandingsUrl(c)
                      ELSE IF j % 2 = 1 THEN MatchesUrl(c, years[(j + 1) \div 2])
                      ELSE ScorersUrl(c, years[j \div 2])
  <2>1. Block(r, c, years) = [j \in 1 .. 2 * n + 1 |-> At(j)]
    BY <1>6 DEF Block
  <2>2. ASSUME NEW j \in 1 .. 2 * n + 1 PROVE At(j) \in Urls
    <3>1. CASE j = 2 * n + 1
      BY <3>1, UrlsMembers
    <3>2. CASE j # 2 * n + 1 /\ j % 2 = 1
      <4>1. (j + 1) \div 2 \in 1 .. n
        BY <1>1, <3>2
      <4>2. years[(j + 1) \div 2] \in Years
        BY <1>1, <4>1
      <4> QED BY <3>2, <4>2, UrlsMembers
    <3>3. CASE j # 2 * n + 1 /\ j % 2 # 1
      <4>1. j \div 2 \in 1 .. n
        BY <1>1, <3>3
      <4>2. years[j \div 2] \in Years
        BY <1>1, <4>1
      <4> QED BY <3>3, <4>2, UrlsMembers
    <3> QED BY <3>1, <3>2, <3>3
  <2>3. 2 * n + 1 \in Nat /\ 2 * n + 1 > 0
    BY <1>1
  <2> HIDE DEF At, n
  <2> QED BY <2>1, <2>2, <2>3
<1> QED BY <1>2, <1>3, <1>4, <1>5, <1>6 DEF PerCompetition, AllResources

LEMMA ReadsType ==
    ASSUME NEW r \in AllResources, NEW years \in Seq(Years), years # <<>>
    PROVE  Reads(r, years) \in Blocks
<1> DEFINE blocks == [i \in DOMAIN Codes |-> Block(r, Codes[i], years)]
<1>1. r # "competitions" => blocks \in Blocks
  <2> SUFFICES ASSUME r # "competitions" PROVE blocks \in Blocks
    OBVIOUS
  <2>1. DOMAIN Codes = 1 .. Len(Codes) /\ Len(Codes) \in Nat
    BY CodesSeq
  <2>2. \A i \in 1 .. Len(Codes) : Block(r, Codes[i], years) \in Seq(Urls) \ {<<>>}
    BY CodesSeq, BlockType DEF PerCompetition
  <2> QED BY <2>1, <2>2 DEF Blocks
<1>2. << <<CompetitionsUrl>> >> \in Blocks
  BY UrlsMembers DEF Blocks
<1>3. r # "competitions" => << <<CompetitionsUrl>> >> \o blocks \in Blocks
  <2> HIDE DEF blocks
  <2> QED BY <1>1, <1>2 DEF Blocks
<1>4. CASE r = "competitions"
  BY <1>2, <1>4 DEF Reads
<1>5. CASE r = "seasons"
  BY <1>3, <1>5 DEF Reads
<1>6. CASE r \notin {"competitions", "seasons"}
  BY <1>1, <1>6 DEF Reads
<1> QED BY <1>4, <1>5, <1>6

\* A generator other than competitions and seasons reads one block per
\* competition; seasons reads one more before.
LEMMA WantedPerCode ==
    ASSUME NEW r \in PerCompetition \ {"seasons"},
           NEW years \in Seq(Years), years # <<>>, NEW u
    PROVE  u \in Wanted(Reads(r, years)) <=>
              /\ u \in Urls
              /\ \E c \in Code : \E j \in 1 .. Len(Block(r, c, years)) :
                    u = Block(r, c, years)[j]
<1>1. Reads(r, years) = [i \in 1 .. Len(Codes) |-> Block(r, Codes[i], years)]
  BY CodesSeq DEF Reads, PerCompetition
<1>2. Len(Reads(r, years)) = Len(Codes) /\ Len(Codes) \in Nat
  BY <1>1, CodesSeq
<1> QED BY <1>1, <1>2, CodesSeq DEF Wanted

LEMMA WantedBySeasons ==
    ASSUME NEW years \in Seq(Years), years # <<>>, NEW c \in Code,
           NEW j \in 1 .. Len(Block("seasons", c, years)), NEW u \in Urls,
           u = Block("seasons", c, years)[j]
    PROVE  u \in Wanted(Reads("seasons", years))
<1> DEFINE first == << <<CompetitionsUrl>> >>
           blocks == [i \in 1 .. Len(Codes) |-> Block("seasons", Codes[i], years)]
<1>1. Reads("seasons", years) = first \o blocks
  BY CodesSeq DEF Reads
<1>2. PICK i \in 1 .. Len(Codes) : c = Codes[i]
  BY CodesSeq
<1>3. /\ Len(first \o blocks) = Len(Codes) + 1 /\ Len(Codes) \in Nat
      /\ (first \o blocks)[i + 1] = Block("seasons", c, years)
  BY <1>2, CodesSeq
<1> HIDE DEF first, blocks
<1>4. i + 1 \in 1 .. Len(first \o blocks)
  BY <1>3
<1> QED BY <1>1, <1>3, <1>4 DEF Wanted

(* Every envelope that matches, scorers or standings rows are taken from is *)
(* read for seasons too.                                                    *)
LEMMA SeasonsReadsAll ==
    ASSUME NEW r \in {"matches", "scorers", "standings"},
           NEW years \in Seq(Years), years # <<>>
    PROVE  Wanted(Reads(r, years)) \subseteq Wanted(Reads("seasons", years))
<1> DEFINE n == Len(years)
<1> SUFFICES ASSUME NEW u \in Wanted(Reads(r, years))
             PROVE  u \in Wanted(Reads("seasons", years))
  OBVIOUS
<1>1. PICK c \in Code : \E j \in 1 .. Len(Block(r, c, years)) : u = Block(r, c, years)[j]
  BY WantedPerCode DEF PerCompetition, AllResources
<1>2. n \in Nat /\ n > 0
  OBVIOUS
<1>3. /\ Len(Block("seasons", c, years)) = 2 * n + 1
      /\ \A k \in 1 .. 2 * n + 1 :
            Block("seasons", c, years)[k] =
                IF k = 2 * n + 1 THEN StandingsUrl(c)
                ELSE IF k % 2 = 1 THEN MatchesUrl(c, years[(k + 1) \div 2])
                ELSE ScorersUrl(c, years[k \div 2])
  BY <1>2 DEF Block
<1>4. \E k \in 1 .. 2 * n + 1 : u = Block("seasons", c, years)[k]
  <2>1. CASE r = "standings"
    <3>1. u = StandingsUrl(c)
      BY <1>1, <2>1 DEF Block
    <3>2. 2 * n + 1 \in 1 .. 2 * n + 1
      BY <1>2
    <3> QED BY <3>1, <3>2, <1>3
  <2>2. CASE r = "matches"
    <3>1. PICK j \in 1 .. n : u = MatchesUrl(c, years[j])
      BY <1>1, <2>2 DEF Block
    <3>2. /\ 2 * j - 1 \in 1 .. 2 * n + 1 /\ 2 * j - 1 # 2 * n + 1
          /\ (2 * j - 1) % 2 = 1 /\ (2 * j - 1 + 1) \div 2 = j
      BY <1>2
    <3> QED BY <3>1, <3>2, <1>3
  <2>3. CASE r = "scorers"
    <3>1. PICK j \in 1 .. n : u = ScorersUrl(c, years[j])
      BY <1>1, <2>3 DEF Block
    <3>2. /\ 2 * j \in 1 .. 2 * n + 1 /\ 2 * j # 2 * n + 1
          /\ (2 * j) % 2 # 1 /\ (2 * j) \div 2 = j
      BY <1>2
    <3> QED BY <3>1, <3>2, <1>3
  <2> QED BY <2>1, <2>2, <2>3
<1>5. u \in Urls
  BY DEF Wanted
<1> QED BY <1>3, <1>4, <1>5, WantedBySeasons

LEMMA SquadReads ==
    ASSUME NEW years \in Seq(Years)
    PROVE  Reads("squad_observations", years) = Reads("players", years)
BY DEF Reads, Block

LEMMA MatchesRead ==
    ASSUME NEW c \in Code, NEW y \in Years
    PROVE  MatchesUrl(c, y) \in Wanted(Reads("matches", <<y>>))
<1>1. Block("matches", c, <<y>>) = [j \in 1 .. 1 |-> MatchesUrl(c, <<y>>[j])]
  BY DEF Block
<1>2. Len(Block("matches", c, <<y>>)) = 1 /\ Block("matches", c, <<y>>)[1] = MatchesUrl(c, y)
  BY <1>1
<1>3. <<y>> \in Seq(Years) /\ <<y>> # <<>> /\ "matches" \in PerCompetition \ {"seasons"}
  BY DEF PerCompetition, AllResources
<1>4. 1 \in 1 .. Len(Block("matches", c, <<y>>))
  BY <1>2
<1>5. \E d \in Code : \E j \in 1 .. Len(Block("matches", d, <<y>>)) :
          MatchesUrl(c, y) = Block("matches", d, <<y>>)[j]
  BY <1>2, <1>4
<1>6. MatchesUrl(c, y) \in Urls
  BY UrlsMembers
<1> QED BY <1>3, <1>5, <1>6, WantedPerCode

(* A read takes the first URL of the first block away, and no other.        *)
LEMMA AfterFirstType ==
    ASSUME NEW b \in Blocks, b # <<>>
    PROVE  /\ AfterFirst(b) \in Blocks
           /\ Head(Head(b)) \in Urls
           /\ Wanted(b) = Wanted(AfterFirst(b)) \cup {Head(Head(b))}
<1> DEFINE h == Head(b)
           t == Tail(b)
           m == Len(b)
<1>1. /\ m \in Nat /\ m > 0 /\ h = b[1]
      /\ h \in Seq(Urls) /\ h # <<>> /\ Len(h) \in Nat /\ Len(h) > 0
      /\ t \in Blocks /\ Len(t) = m - 1 /\ \A i \in 1 .. m - 1 : t[i] = b[i + 1]
  BY DEF Blocks
<1>2. Head(h) = h[1] /\ h[1] \in Urls
  BY <1>1
<1>3. CASE Len(h) = 1
  <2>1. AfterFirst(b) = t
    BY <1>3 DEF AfterFirst
  <2>2. ASSUME NEW u PROVE u \in Wanted(b) <=> u \in Wanted(t) \/ u = h[1]
    <3>1. ASSUME u \in Wanted(b) PROVE u \in Wanted(t) \/ u = h[1]
      <4>1. PICK i \in 1 .. m : \E j \in 1 .. Len(b[i]) : u = b[i][j]
        BY <3>1 DEF Wanted
      <4>2. CASE i = 1
        BY <4>1, <4>2, <1>1, <1>3
      <4>3. CASE i # 1
        <5>1. i - 1 \in 1 .. Len(t) /\ t[i - 1] = b[i]
          BY <4>3, <1>1
        <5> QED BY <5>1, <4>1, <3>1 DEF Wanted
      <4> QED BY <4>2, <4>3
    <3>2. ASSUME u \in Wanted(t) PROVE u \in Wanted(b)
      <4>1. PICK i \in 1 .. Len(t) : \E j \in 1 .. Len(t[i]) : u = t[i][j]
        BY <3>2 DEF Wanted
      <4>2. i + 1 \in 1 .. m /\ b[i + 1] = t[i]
        BY <4>1, <1>1
      <4> QED BY <4>1, <4>2, <3>2 DEF Wanted
    <3>3. h[1] \in Wanted(b)
      BY <1>1, <1>2 DEF Wanted
    <3> QED BY <3>1, <3>2, <3>3
  <2> QED BY <1>1, <1>2, <2>1, <2>2
<1>4. CASE Len(h) # 1
  <2> DEFINE k == Tail(h)
             a == <<k>> \o t
  <2>1. AfterFirst(b) = a
    BY <1>4 DEF AfterFirst
  <2>2. /\ k \in Seq(Urls) /\ Len(k) = Len(h) - 1 /\ k # <<>>
        /\ \A j \in 1 .. Len(h) - 1 : k[j] = h[j + 1]
    <3> HIDE DEF h
    <3>1. /\ k \in Seq(Urls) /\ Len(k) = Len(h) - 1
          /\ \A j \in 1 .. Len(h) - 1 : k[j] = h[j + 1]
      BY <1>1
    <3>2. Len(k) # 0
      BY <1>1, <1>4, <3>1
    <3> QED BY <3>1, <3>2
  <2>3. /\ a \in Blocks /\ Len(a) = m /\ a[1] = k
        /\ \A i \in 2 .. m : a[i] = b[i]
    <3> HIDE DEF k, t
    <3>1. <<k>> \in Blocks
      BY <2>2 DEF Blocks
    <3>2. a \in Blocks /\ Len(a) = m
      BY <3>1, <1>1 DEF Blocks
    <3>3. a[1] = k
      BY <1>1 DEF Blocks
    <3>4. ASSUME NEW i \in 2 .. m PROVE a[i] = b[i]
      <4>1. i - 1 \in 1 .. m - 1 /\ i \in 1 .. Len(t) + 1
        BY <1>1
      <4>2. a[i] = t[i - 1]
        BY <1>1, <4>1 DEF Blocks
      <4>3. t[i - 1] = b[i - 1 + 1] /\ i - 1 + 1 = i
        BY <1>1, <4>1
      <4> QED BY <4>2, <4>3
    <3> QED BY <3>2, <3>3, <3>4
  <2> HIDE DEF k, a, t, h
  <2>4. ASSUME NEW u PROVE u \in Wanted(b) <=> u \in Wanted(a) \/ u = h[1]
    <3>1. ASSUME u \in Wanted(b) PROVE u \in Wanted(a) \/ u = h[1]
      <4>1. PICK i \in 1 .. m : \E j \in 1 .. Len(b[i]) : u = b[i][j]
        BY <3>1 DEF Wanted
      <4>2. CASE i = 1
        <5>1. PICK j \in 1 .. Len(h) : u = h[j]
          BY <4>1, <4>2, <1>1
        <5>2. j # 1 => j - 1 \in 1 .. Len(k) /\ u = k[j - 1]
          BY <5>1, <2>2, <1>1
        <5>3. 1 \in 1 .. Len(a)
          BY <2>3, <1>1
        <5> QED BY <5>1, <5>2, <5>3, <2>3, <3>1 DEF Wanted
      <4>3. CASE i # 1
        <5>1. i \in 2 .. m /\ i \in 1 .. Len(a)
          BY <4>3, <2>3, <1>1
        <5>2. a[i] = b[i]
          BY <5>1, <2>3
        <5> QED BY <5>1, <5>2, <4>1, <3>1 DEF Wanted
      <4> QED BY <4>2, <4>3
    <3>2. ASSUME u \in Wanted(a) PROVE u \in Wanted(b)
      <4>1. PICK i \in 1 .. m : \E j \in 1 .. Len(a[i]) : u = a[i][j]
        BY <3>2, <2>3 DEF Wanted
      <4>2. CASE i = 1
        <5>1. PICK j \in 1 .. Len(k) : u = k[j]
          BY <4>1, <4>2, <2>3
        <5>2. j + 1 \in 1 .. Len(h) /\ u = h[j + 1] /\ 1 \in 1 .. m
          BY <5>1, <2>2, <1>1
        <5> QED BY <5>2, <1>1, <3>2 DEF Wanted
      <4>3. CASE i # 1
        <5>1. i \in 2 .. m
          BY <4>3, <1>1
        <5> QED BY <5>1, <2>3, <4>1, <3>2 DEF Wanted
      <4> QED BY <4>2, <4>3
    <3>3. h[1] \in Wanted(b)
      BY <1>1, <1>2 DEF Wanted
    <3> QED BY <3>1, <3>2, <3>3
  <2>5. Wanted(b) = Wanted(a) \cup {h[1]}
    BY <2>4
  <2> QED BY <1>2, <2>1, <2>3, <2>5 DEF h
<1> QED BY <1>3, <1>4

-----------------------------------------------------------------------------
(* The invariant *)

ApiTyped ==
    /\ current \in [Code -> 0 .. MaxYear]
    /\ published \in [Code -> BOOLEAN]
    /\ \A c \in Code : published[c] => current[c] > 0

Typed ==
    /\ TypeOK /\ ApiTyped
    /\ responses = [u \in Urls |-> responses[u]]
    /\ asked \in [Urls -> Nat]
    /\ todo \in [Resources -> Blocks]
    /\ rows = [r \in Resources |-> rows[r]]
    /\ tables = [r \in Resources |-> tables[r]]

(* The cache has asked once for what it holds, and not for anything else.   *)
AskedOnce ==
    \A u \in Urls :
        /\ responses[u].ids \subseteq SeasonIds
        /\ asked[u] <= 1
        /\ responses[u] = Unasked => asked[u] = 0

(* A generator has yielded the rows of the URLs that it has read, which     *)
(* stay in the cache.                                                       *)
ReadYielded ==
    stage = "extract" =>
        \A r \in Resources : \A u \in Wanted(Reads(r, seasons)) :
            \/ u \in Wanted(todo[r])
            \/ responses[u] # Unasked /\ RowsFrom(r, responses[u]) \subseteq rows[r]

YieldedRead ==
    stage = "extract" =>
        \A r \in Resources : \A row \in rows[r] :
            \E u \in Wanted(Reads(r, seasons)) :
                responses[u] # Unasked /\ row \in RowsFrom(r, responses[u])

LeftWanted ==
    stage = "extract" =>
        \A r \in Resources : Wanted(todo[r]) \subseteq Wanted(Reads(r, seasons))

(* The season a run was promised for is the one it asks for, and the        *)
(* matches of it that it gets name it.                                      *)
PromiseAsked ==
    stage = "extract" =>
        /\ seasons # <<>>
        /\ \A s \in promised :
              /\ seasons = <<s[2]>> /\ s[2] <= current[s[1]]
              /\ responses[MatchesUrl(s[1], s[2])] # Unasked =>
                    s \in responses[MatchesUrl(s[1], s[2])].ids

IdleLoadsNothing == stage # "load" => toLoad = {}

(* Once everything has been read, the rows of the resources fit.            *)
Gathered == stage = "load" \/ Completed

SeasonsIncluded ==
    Gathered /\ "seasons" \in Resources =>
        \A r \in SeasonTables : \A row \in rows[r] : <<row[1], row[2]>> \in rows["seasons"]

SquadsAgree ==
    Gathered /\ {"players", "squad_observations"} \subseteq Resources =>
        \A x \in rows["players"] : <<x[2], x[1], runDate>> \in rows["squad_observations"]

PromiseRead == Gathered /\ "matches" \in Resources => promised \subseteq rows["matches"]

(* A table that is written has, for every row of the run, one of its key.   *)
Written ==
    Gathered => \A r \in Resources : r \notin toLoad =>
        \A x \in rows[r] : \E y \in tables[r] : y \in rows[r] /\ Key(r, y) = Key(r, x)

(* A player's club is in the observations, or will be before the run ends.  *)
Recorded(x) == \E y \in tables["squad_observations"] : y[1] = x[2] /\ y[2] = x[1]

Pending(x) ==
    /\ stage = "load" /\ "squad_observations" \in toLoad
    /\ "players" \notin toLoad /\ x \in rows["players"]

OnRecord ==
    {"players", "squad_observations"} \subseteq Resources =>
        \A x \in tables["players"] \ torn : Recorded(x) \/ Pending(x)

IInv ==
    /\ Typed /\ AskedOnce /\ ReadYielded /\ YieldedRead /\ LeftWanted /\ PromiseAsked
    /\ IdleLoadsNothing /\ SeasonsIncluded /\ SquadsAgree /\ PromiseRead
    /\ Written /\ OnRecord

-----------------------------------------------------------------------------
(* What the API answers *)

LEMMA CurrentTyped ==
    ASSUME ApiTyped
    PROVE  /\ CurrentSeasons \subseteq SeasonIds
           /\ \A s \in CurrentSeasons : s[1] \in Code /\ s[2] \in Years /\ s = <<s[1], s[2]>>
                                        /\ s[2] = current[s[1]]
<1>1. \A c \in Code : current[c] > 0 => current[c] \in Years
  BY YearsBounded DEF ApiTyped, Years
<1> QED BY <1>1 DEF CurrentSeasons, Season, SeasonIds

LEMMA AnswerTyped ==
    ASSUME ApiTyped, NEW u \in Urls
    PROVE  /\ Answer(u).status \in {"found", "notFound"}
           /\ Answer(u) # Unasked
           /\ Answer(u).ids \subseteq SeasonIds
<1> SUFFICES Answer(u).status \in {"found", "notFound"} /\ Answer(u).ids \subseteq SeasonIds
  BY DEF Unasked
<1>1. CASE u = CompetitionsUrl
  <2>1. Answer(u) = Found(CurrentSeasons, <<>>)
    BY <1>1 DEF Answer, CompetitionsUrl, Url
  <2> QED BY <2>1, CurrentTyped DEF Found
<1>2. CASE \E c \in Code : u = TeamsUrl(c)
  <2>1. Answer(u) = Found({}, Squads(u.code))
    BY <1>2 DEF Answer, TeamsUrl, Url
  <2> QED BY <2>1 DEF Found
<1>3. CASE \E c \in Code, y \in Years : u = MatchesUrl(c, y) \/ u = ScorersUrl(c, y)
  <2>1. PICK c \in Code, y \in Years : u = MatchesUrl(c, y) \/ u = ScorersUrl(c, y)
    BY <1>3
  <2>2. u.code = c /\ u.year = y /\ u.what \in {"matches", "scorers"}
    BY <2>1 DEF MatchesUrl, ScorersUrl, Url
  <2>3. Answer(u) = Found(IF y <= current[c] THEN {Season(c, y)} ELSE {}, <<>>)
    BY <2>2 DEF Answer
  <2> QED BY <2>3 DEF Found, Season, SeasonIds
<1>4. CASE \E c \in Code : u = StandingsUrl(c)
  <2>1. PICK c \in Code : u = StandingsUrl(c)
    BY <1>4
  <2>2. u.code = c /\ u.what = "standings"
    BY <2>1 DEF StandingsUrl, Url
  <2>3. Answer(u) = IF published[c] THEN Found({Season(c, current[c])}, <<>>) ELSE NotFound
    BY <2>2 DEF Answer
  <2>4. published[c] => current[c] \in Years
    BY YearsBounded DEF ApiTyped, Years
  <2> QED BY <2>3, <2>4 DEF Found, NotFound, Season, SeasonIds
<1> QED BY <1>1, <1>2, <1>3, <1>4 DEF Urls

LEMMA MatchesAnswer ==
    ASSUME NEW c \in Code, NEW y \in Years, y <= current[c]
    PROVE  <<c, y>> \in Answer(MatchesUrl(c, y)).ids
<1> DEFINE u == MatchesUrl(c, y)
<1>1. u.code = c /\ u.year = y /\ u.what = "matches"
  BY DEF MatchesUrl, Url
<1>2. Answer(u) = Found({Season(c, y)}, <<>>)
  BY <1>1 DEF Answer
<1> QED BY <1>2 DEF Found, Season

-----------------------------------------------------------------------------
(* Initial states, and the steps that begin and end a run *)

LEMMA NothingAsked ==
    /\ NoResponses = [u \in Urls |-> NoResponses[u]]
    /\ NeverAsked \in [Urls -> Nat]
    /\ \A u \in Urls : NoResponses[u] = Unasked /\ NeverAsked[u] = 0
    /\ Unasked.ids = {}
BY DEF NoResponses, NeverAsked, Unasked

LEMMA FreshTyped ==
    /\ Fresh(<<>>) \in [Resources -> Blocks]
    /\ Fresh({}) = [r \in Resources |-> Fresh({})[r]]
    /\ \A r \in Resources : Fresh({})[r] = {}
<1>1. <<>> \in Blocks
  BY DEF Blocks
<1> QED BY <1>1 DEF Fresh

LEMMA InitInvariant == Init => IInv
<1> SUFFICES ASSUME Init PROVE IInv
  OBVIOUS
<1>1. ApiTyped
  BY DEF Init, ApiTyped
<1>2. TypeOK
  <2>1. \A r \in Resources : todo[r] \in Seq(Seq(Urls) \ {<<>>})
    BY FreshTyped DEF Init, Blocks
  <2>2. DOMAIN responses = Urls /\ DOMAIN asked = Urls
    BY DEF Init, NoResponses, NeverAsked
  <2>3. seasons \in Seq(Years) /\ today \in Nat /\ runDate \in 0 .. today
    BY DEF Init
  <2> QED BY <2>1, <2>2, <2>3 DEF Init, TypeOK
<1>3. Typed
  BY <1>1, <1>2, NothingAsked, FreshTyped DEF Init, Typed
<1>4. AskedOnce
  BY NothingAsked DEF Init, AskedOnce
<1>5. ~ Gathered /\ stage = "idle" /\ toLoad = {}
  BY DEF Init, Gathered, Completed
<1>6. OnRecord
  BY FreshTyped DEF Init, OnRecord
<1> QED BY <1>3, <1>4, <1>5, <1>6 DEF IInv, ReadYielded, YieldedRead, LeftWanted, PromiseAsked,
       IdleLoadsNothing, SeasonsIncluded, SquadsAgree, PromiseRead, Written

(* Nothing of a failed run is left but the tables it had written.           *)
LEMMA GiveUpInvariant ==
    ASSUME IInv, NEW how \in {"failed", "aborted"}, GiveUp(how),
           UNCHANGED <<apiVars, today, tables>>,
           toLoad' = {}, torn \subseteq torn',
           stage = "load" /\ "players" \in Resources => rows["players"] \subseteq torn'
    PROVE  IInv'
<1>1. ApiTyped'
  BY DEF IInv, Typed, ApiTyped, apiVars
<1>2. TypeOK'
  <2>1. \A r \in Resources : todo'[r] \in Seq(Seq(Urls) \ {<<>>})
    BY FreshTyped DEF GiveUp, ProcessEnds, Blocks
  <2>2. <<>> \in Seq(Years) /\ 0 \in 0 .. today /\ {} \subseteq SeasonIds
    BY DEF IInv, Typed, TypeOK
  <2> QED BY <2>1, <2>2, NothingAsked
      DEF GiveUp, ProcessEnds, IInv, Typed, TypeOK, NoResponses, NeverAsked, apiVars
<1>3. Typed'
  BY <1>1, <1>2, NothingAsked, FreshTyped DEF GiveUp, ProcessEnds, IInv, Typed
<1>4. AskedOnce'
  BY NothingAsked DEF GiveUp, ProcessEnds, AskedOnce
<1>5. stage' = "idle" /\ ~ Gathered'
  BY DEF GiveUp, ProcessEnds, Gathered, Completed
<1>6. OnRecord'
  BY DEF IInv, OnRecord, Recorded, Pending
<1> QED BY <1>3, <1>4, <1>5, <1>6 DEF IInv, ReadYielded, YieldedRead, LeftWanted, PromiseAsked,
       IdleLoadsNothing, SeasonsIncluded, SquadsAgree, PromiseRead, Written

(* A run begins with an empty cache and everything still to read.           *)
LEMMA RunInvariant ==
    ASSUME IInv, stage # "load", NEW years \in Seq(Years), years # <<>>, Run(years),
           UNCHANGED <<apiVars, today, toLoad, tables, torn>>,
           outcome' \in {"none", "completed", "failed", "aborted"},
           promised' \subseteq SeasonIds,
           \A s \in promised' : years = <<s[2]>> /\ s[1] \in Code /\ s[2] \in Years
                                /\ s[2] <= current[s[1]]
    PROVE  IInv'
<1>1. ApiTyped'
  BY DEF IInv, Typed, ApiTyped, apiVars
<1>2. \A r \in Resources : todo'[r] = Reads(r, years) /\ todo'[r] \in Blocks
  BY ReadsType, IngestAssumption DEF Run
<1>3. todo' \in [Resources -> Blocks]
  BY <1>2 DEF Run
<1>4. TypeOK'
  <2>1. today \in 0 .. today
    BY DEF IInv, Typed, TypeOK
  <2> QED BY <1>2, <2>1, NothingAsked
      DEF Run, IInv, Typed, TypeOK, NoResponses, NeverAsked, Blocks, apiVars
<1>5. Typed'
  BY <1>1, <1>3, <1>4, NothingAsked, FreshTyped DEF Run, IInv, Typed
<1>6. AskedOnce'
  BY NothingAsked DEF Run, AskedOnce
<1>7. ReadYielded' /\ YieldedRead' /\ LeftWanted'
  BY <1>2, FreshTyped DEF Run, ReadYielded, YieldedRead, LeftWanted
<1>8. PromiseAsked'
  BY NothingAsked, UrlsMembers DEF Run, PromiseAsked, apiVars
<1>9. stage' = "extract" /\ ~ Gathered' /\ toLoad' = {}
  BY DEF Run, Gathered, Completed, IInv, IdleLoadsNothing
<1>10. OnRecord'
  BY DEF IInv, OnRecord, Recorded, Pending
<1> QED BY <1>5, <1>6, <1>7, <1>8, <1>9, <1>10 DEF IInv, IdleLoadsNothing,
       SeasonsIncluded, SquadsAgree, PromiseRead, Written

LEMMA StartInvariant == ASSUME IInv, Start PROVE IInv'
<1>1. TypeOK'
  <2>1. 0 \in 0 .. today /\ {} \subseteq SeasonIds
    BY DEF IInv, Typed, TypeOK
  <2> QED BY <2>1 DEF Start, IInv, Typed, TypeOK, apiVars, cacheVars
<1>2. Typed'
  BY <1>1, FreshTyped DEF Start, IInv, Typed, ApiTyped, apiVars, cacheVars
<1>3. AskedOnce'
  BY DEF Start, IInv, AskedOnce, cacheVars
<1>4. stage' = "discover" /\ ~ Gathered' /\ toLoad' = {}
  BY DEF Start, Gathered, Completed, IInv, IdleLoadsNothing
<1>5. OnRecord'
  BY DEF Start, IInv, OnRecord, Recorded, Pending
<1> QED BY <1>2, <1>3, <1>4, <1>5 DEF IInv, ReadYielded, YieldedRead, LeftWanted, PromiseAsked,
       IdleLoadsNothing, SeasonsIncluded, SquadsAgree, PromiseRead, Written

LEMMA BackfillInvariant ==
    ASSUME IInv, NEW years \in Backfills, Backfill(years) PROVE IInv'
<1>1. years \in Seq(Years) /\ years # <<>>
  BY IngestAssumption
<1> QED BY <1>1, RunInvariant DEF Backfill

LEMMA DiscoverInvariant == ASSUME IInv, Discover PROVE IInv'
<1> DEFINE ys == {s[2] : s \in CurrentSeasons}
<1>1. CASE ys = {}
  <2>1. GiveUp("failed") /\ torn' = torn /\ stage = "discover" /\ toLoad' = {}
    BY <1>1 DEF Discover, IInv, IdleLoadsNothing
  <2> QED BY <2>1, GiveUpInvariant DEF Discover, IInv, Typed, TypeOK
<1>2. CASE ys # {}
  <2>1. /\ Run(<<Discovered(ys)>>) /\ UNCHANGED outcome
        /\ promised' = {s \in CurrentSeasons : \A y \in ys : s[2] >= y}
    BY <1>2 DEF Discover
  <2>2. ApiTyped /\ ys \subseteq Years
    BY CurrentTyped DEF IInv, Typed
  <2>3. Discovered(ys) \in ys /\ \A y \in ys : Discovered(ys) >= y
    BY <1>2, <2>2, NewestExists
  <2>4. ASSUME NEW s \in promised'
        PROVE  /\ <<Discovered(ys)>> = <<s[2]>> /\ s[1] \in Code /\ s[2] \in Years
               /\ s[2] <= current[s[1]]
    <3>1. s \in CurrentSeasons /\ \A y \in ys : s[2] >= y
      BY <2>1
    <3>2. s[1] \in Code /\ s[2] \in Years /\ s[2] = current[s[1]]
      BY <2>2, <3>1, CurrentTyped
    <3>3. s[2] \in ys
      BY <3>1
    <3>4. Discovered(ys) >= s[2] /\ s[2] >= Discovered(ys)
      BY <2>3, <3>1, <3>3
    <3> HIDE DEF ys
    <3>5. Discovered(ys) \in Nat /\ s[2] \in Nat
      BY <2>2, <2>3, <3>2, YearsBounded
    <3> QED BY <3>2, <3>4, <3>5
  <2>5. promised' \subseteq SeasonIds
    BY <2>1, <2>2, CurrentTyped
  <2>6. <<Discovered(ys)>> \in Seq(Years) /\ <<Discovered(ys)>> # <<>>
    BY <2>2, <2>3
  <2> HIDE DEF ys
  <2> QED BY <2>1, <2>4, <2>5, <2>6, RunInvariant DEF Discover, IInv, Typed, TypeOK
<1> QED BY <1>1, <1>2

-----------------------------------------------------------------------------
(* The API changes, the day passes *)

(* A run notices nothing of the API but what it asks for.                   *)
LEMMA OutsideInvariant ==
    ASSUME IInv, UNCHANGED <<stage, runVars, toLoad, tables, outcome, torn>>,
           ApiTyped', club' \in [Players -> Teams], today' \in Nat, today <= today',
           \A c \in Code : current[c] <= current'[c]
    PROVE  IInv'
<1>1. TypeOK'
  <2>1. runDate' \in 0 .. today'
    BY DEF IInv, Typed, TypeOK, runVars
  <2> QED BY <2>1 DEF IInv, Typed, TypeOK, ApiTyped, runVars, cacheVars
<1>2. Typed'
  BY <1>1 DEF IInv, Typed, runVars, cacheVars
<1>3. AskedOnce' /\ ReadYielded' /\ YieldedRead' /\ LeftWanted'
  <2>1. \A q, u : RowsFrom(q, responses[u])' = RowsFrom(q, responses[u])
    BY DEF RowsFrom, runVars, cacheVars
  <2>2. AskedOnce' /\ LeftWanted'
    BY DEF IInv, AskedOnce, LeftWanted, runVars, cacheVars
  <2>3. ReadYielded' /\ YieldedRead'
    BY <2>1 DEF IInv, ReadYielded, YieldedRead, runVars, cacheVars
  <2> QED BY <2>2, <2>3
<1>4. PromiseAsked'
  <2>1. \A s \in promised : s[1] \in Code /\ s[2] \in Nat
    BY YearsBounded DEF IInv, Typed, TypeOK, SeasonIds
  <2>2. \A c \in Code : current[c] \in Nat /\ current'[c] \in Nat
    BY YearsBounded DEF IInv, Typed, ApiTyped
  <2>3. \A s \in promised : s[2] <= current[s[1]] => s[2] <= current'[s[1]]
    BY <2>1, <2>2
  <2> QED BY <2>3 DEF IInv, PromiseAsked, runVars, cacheVars
<1>5. /\ IdleLoadsNothing' /\ SeasonsIncluded' /\ SquadsAgree'
      /\ PromiseRead' /\ Written' /\ OnRecord'
  BY DEF IInv, IdleLoadsNothing, SeasonsIncluded, SquadsAgree, PromiseRead, Written,
     OnRecord, Recorded, Pending, Gathered, Completed, runVars
<1> QED BY <1>2, <1>3, <1>4, <1>5 DEF IInv

LEMMA ApiInvariant == ASSUME IInv, Api PROVE IInv'
<1>1. /\ \A c \in Code : current[c] \in Nat /\ current[c] <= MaxYear
      /\ MaxYear \in Nat /\ today \in Nat /\ club \in [Players -> Teams]
  BY YearsBounded DEF IInv, Typed, TypeOK, ApiTyped
<1>2. ASSUME NEW c \in Code, RollOver(c) PROVE IInv'
  <2>1. ApiTyped'
    BY <1>1, <1>2 DEF RollOver, IInv, Typed, ApiTyped
  <2>2. \A d \in Code : current[d] <= current'[d]
    BY <1>1, <1>2 DEF RollOver, IInv, Typed, ApiTyped
  <2> QED BY <1>1, <1>2, <2>1, <2>2, OutsideInvariant DEF RollOver, ApiChanges
<1>3. ASSUME NEW c \in Code, PublishTable(c) PROVE IInv'
  <2>1. ApiTyped'
    BY <1>3 DEF PublishTable, IInv, Typed, ApiTyped
  <2>2. \A d \in Code : current[d] <= current'[d]
    BY <1>1, <1>3 DEF PublishTable
  <2> QED BY <1>1, <1>3, <2>1, <2>2, OutsideInvariant DEF PublishTable, ApiChanges
<1>4. ASSUME NEW p \in Players, NEW t \in Teams, Transfer(p, t) PROVE IInv'
  <2>1. ApiTyped' /\ club' \in [Players -> Teams]
    BY <1>1, <1>4 DEF Transfer, IInv, Typed, ApiTyped
  <2>2. \A d \in Code : current[d] <= current'[d]
    BY <1>1, <1>4 DEF Transfer
  <2> QED BY <1>1, <1>4, <2>1, <2>2, OutsideInvariant DEF Transfer, ApiChanges
<1>5. CASE NextDay
  <2>1. ApiTyped' /\ \A d \in Code : current[d] <= current'[d]
    BY <1>1, <1>5 DEF NextDay, apiVars, IInv, Typed, ApiTyped
  <2> QED BY <1>1, <1>5, <2>1, OutsideInvariant DEF NextDay, apiVars
<1> QED BY <1>2, <1>3, <1>4, <1>5 DEF Api

-----------------------------------------------------------------------------
(* The generators read *)

(* The cache keeps what it has, and holds the payload of the URL read.      *)
LEMMA CacheGetEffect ==
    ASSUME IInv, NEW u \in Urls, CacheGet(u)
    PROVE  /\ responses'[u] = Got(u) /\ Got(u) # Unasked
           /\ \A w \in Urls : responses[w] # Unasked => responses'[w] = responses[w]
           /\ \A w \in Urls : w # u => responses'[w] = responses[w]
           /\ responses' = [w \in Urls |-> responses'[w]]
           /\ asked' \in [Urls -> Nat]
           /\ AskedOnce'
<1>1. responses = [w \in Urls |-> responses[w]] /\ asked \in [Urls -> Nat] /\ ApiTyped
  BY DEF IInv, Typed
<1>2. Answer(u) # Unasked /\ Answer(u).ids \subseteq SeasonIds
  BY <1>1, AnswerTyped
<1>3. CASE responses[u] # Unasked
  BY <1>1, <1>3 DEF CacheGet, Got, IInv, AskedOnce, cacheVars
<1>4. CASE responses[u] = Unasked
  <2>1. /\ responses' = [responses EXCEPT ![u] = Answer(u)]
        /\ asked' = [asked EXCEPT ![u] = @ + 1]
    BY <1>4 DEF CacheGet, Memoized
  <2>2. asked[u] = 0
    BY <1>4 DEF IInv, AskedOnce
  <2>3. AskedOnce'
    BY <1>1, <1>2, <2>1, <2>2 DEF IInv, AskedOnce
  <2> QED BY <1>1, <1>2, <1>4, <2>1, <2>3 DEF Got
<1> QED BY <1>3, <1>4

LEMMA ReadInvariant ==
    ASSUME IInv, NEW r \in Resources, Read(r)
    PROVE  IInv'
<1> DEFINE u == Head(Head(todo[r]))
<1>1. stage = "extract" /\ todo[r] # <<>> /\ todo[r] \in Blocks
  BY DEF Read, IInv, Typed
<1>2. /\ AfterFirst(todo[r]) \in Blocks /\ u \in Urls
      /\ Wanted(todo[r]) = Wanted(AfterFirst(todo[r])) \cup {u}
  BY <1>1, AfterFirstType
<1> HIDE DEF u
<1>3. CASE Got(u).status = "found" \/ Suppresses404(r, u)
  <2>1. /\ CacheGet(u)
        /\ rows' = [rows EXCEPT ![r] = @ \cup RowsFrom(r, Got(u))]
        /\ todo' = [todo EXCEPT ![r] = AfterFirst(@)]
        /\ UNCHANGED <<stage, outcome, seasons, runDate, promised>>
        /\ UNCHANGED <<apiVars, today, toLoad, tables, torn, runs>>
    BY <1>3 DEF Read, u
  <2>2. /\ responses'[u] = Got(u) /\ Got(u) # Unasked
        /\ \A w \in Urls : responses[w] # Unasked => responses'[w] = responses[w]
        /\ \A w \in Urls : w # u => responses'[w] = responses[w]
        /\ responses' = [w \in Urls |-> responses'[w]]
        /\ asked' \in [Urls -> Nat] /\ AskedOnce'
    BY <1>2, <2>1, CacheGetEffect
  <2>3. todo' \in [Resources -> Blocks] /\ rows' = [q \in Resources |-> rows'[q]]
    BY <1>2, <2>1 DEF IInv, Typed
  <2>4. Typed'
    <3>1. ApiTyped'
      BY <2>1 DEF IInv, Typed, ApiTyped, apiVars
    <3>2. \A q \in Resources : todo'[q] \in Seq(Seq(Urls) \ {<<>>})
      BY <2>3 DEF Blocks
    <3>3. DOMAIN responses' = Urls /\ DOMAIN asked' = Urls
      BY <2>2
    <3>4. TypeOK'
      BY <2>1, <3>2, <3>3 DEF IInv, Typed, TypeOK, apiVars
    <3> QED BY <2>1, <2>2, <2>3, <3>1, <3>4 DEF IInv, Typed
  <2>5. ReadYielded'
    <3> SUFFICES ASSUME NEW q \in Resources, NEW w \in Wanted(Reads(q, seasons))
                 PROVE  \/ w \in Wanted(todo'[q])
                        \/ (responses[w] # Unasked /\ RowsFrom(q, responses[w]) \subseteq rows[q])'
      BY <2>1 DEF ReadYielded
    <3>1. RowsFrom(q, responses[w])' = RowsFrom(q, responses'[w])
      BY <2>1 DEF RowsFrom
    <3>2. w \in Urls
      BY DEF Wanted
    <3>3. \/ w \in Wanted(todo[q])
          \/ responses[w] # Unasked /\ RowsFrom(q, responses[w]) \subseteq rows[q]
      BY <1>1 DEF IInv, ReadYielded
    <3>4. rows[q] \subseteq rows'[q]
      BY <2>1 DEF IInv, Typed
    <3>5. CASE responses[w] # Unasked /\ RowsFrom(q, responses[w]) \subseteq rows[q]
      BY <2>2, <3>1, <3>2, <3>4, <3>5
    <3>6. CASE w \in Wanted(todo[q]) /\ (q # r \/ w # u)
      BY <1>2, <2>1, <3>6 DEF IInv, Typed
    <3>7. CASE q = r /\ w = u
      <4>1. RowsFrom(r, Got(u)) \subseteq rows'[r]
        BY <2>1 DEF IInv, Typed
      <4> QED BY <2>2, <3>1, <3>7, <4>1
    <3> QED BY <3>3, <3>5, <3>6, <3>7
  <2>6. YieldedRead'
    <3> SUFFICES ASSUME NEW q \in Resources, NEW row \in rows'[q]
                 PROVE  \E w \in Wanted(Reads(q, seasons)) :
                            (responses[w] # Unasked /\ row \in RowsFrom(q, responses[w]))'
      BY <2>1 DEF YieldedRead
    <3>1. \A w : RowsFrom(q, responses[w])' = RowsFrom(q, responses'[w])
      BY <2>1 DEF RowsFrom
    <3>2. CASE row \in rows[q]
      <4>1. PICK w \in Wanted(Reads(q, seasons)) :
                    responses[w] # Unasked /\ row \in RowsFrom(q, responses[w])
        BY <1>1, <3>2 DEF IInv, YieldedRead
      <4>2. w \in Urls /\ responses'[w] = responses[w]
        BY <2>2, <4>1 DEF Wanted
      <4> QED BY <3>1, <4>1, <4>2
    <3>3. CASE q = r /\ row \in RowsFrom(r, Got(u))
      <4>1. u \in Wanted(Reads(r, seasons))
        BY <1>1, <1>2 DEF IInv, LeftWanted
      <4> QED BY <2>2, <3>1, <3>3, <4>1
    <3>4. row \in rows[q] \/ (q = r /\ row \in RowsFrom(r, Got(u)))
      BY <2>1 DEF IInv, Typed
    <3> QED BY <3>2, <3>3, <3>4
  <2>7. LeftWanted'
    <3> SUFFICES ASSUME NEW q \in Resources
                 PROVE  Wanted(todo'[q]) \subseteq Wanted(Reads(q, seasons))
      BY <2>1 DEF LeftWanted
    <3>1. Wanted(todo[q]) \subseteq Wanted(Reads(q, seasons))
      BY <1>1 DEF IInv, LeftWanted
    <3>2. Wanted(todo'[q]) \subseteq Wanted(todo[q])
      BY <1>2, <2>1 DEF IInv, Typed
    <3> QED BY <3>1, <3>2
  <2>8. PromiseAsked'
    <3> SUFFICES ASSUME NEW s \in promised,
                        responses'[MatchesUrl(s[1], s[2])] # Unasked
                 PROVE  s \in responses'[MatchesUrl(s[1], s[2])].ids
      BY <1>1, <2>1 DEF IInv, PromiseAsked, apiVars
    <3> DEFINE w == MatchesUrl(s[1], s[2])
    <3>1. s[1] \in Code /\ s[2] \in Years /\ s = <<s[1], s[2]>>
      BY DEF IInv, Typed, TypeOK, SeasonIds
    <3>2. w \in Urls
      BY <3>1, UrlsMembers
    <3>3. s[2] <= current[s[1]] /\ (responses[w] # Unasked => s \in responses[w].ids)
      BY <1>1 DEF IInv, PromiseAsked
    <3>4. s \in Answer(w).ids
      BY <3>1, <3>3, MatchesAnswer
    <3> HIDE DEF w
    <3>5. CASE responses[w] # Unasked
      BY <2>2, <3>2, <3>3, <3>5 DEF w
    <3>6. CASE responses[w] = Unasked
      <4>1. w = u
        BY <2>2, <3>2, <3>6 DEF w
      <4>2. responses'[w] = Answer(w)
        BY <2>2, <3>6, <4>1 DEF Got
      <4> QED BY <3>4, <4>2 DEF w
    <3> QED BY <3>5, <3>6
  <2>9. IdleLoadsNothing' /\ ~ Gathered'
    BY <1>1, <2>1 DEF IInv, IdleLoadsNothing, Gathered, Completed
  <2>10. OnRecord'
    BY <1>1, <2>1 DEF IInv, OnRecord, Recorded, Pending
  <2> QED BY <2>2, <2>4, <2>5, <2>6, <2>7, <2>8, <2>9, <2>10
      DEF IInv, SeasonsIncluded, SquadsAgree, PromiseRead, Written
<1>4. CASE ~ (Got(u).status = "found" \/ Suppresses404(r, u))
  <2>1. GiveUp("failed") /\ UNCHANGED <<apiVars, today, toLoad, tables, torn>>
    BY <1>4 DEF Read, u
  <2>2. toLoad' = {}
    BY <1>1, <2>1 DEF IInv, IdleLoadsNothing
  <2> QED BY <1>1, <2>1, <2>2, GiveUpInvariant
<1> QED BY <1>3, <1>4

-----------------------------------------------------------------------------
(* The rows are complete *)

(* Once nothing is left to read, a generator has yielded what the URLs it   *)
(* wanted gave, and nothing else.                                           *)
LEMMA AllYielded ==
    ASSUME IInv, stage = "extract", NEW r \in Resources, todo[r] = <<>>
    PROVE  /\ \A u \in Wanted(Reads(r, seasons)) :
                responses[u] # Unasked /\ RowsFrom(r, responses[u]) \subseteq rows[r]
           /\ \A row \in rows[r] : \E u \in Wanted(Reads(r, seasons)) :
                row \in RowsFrom(r, responses[u])
<1>1. Wanted(todo[r]) = {}
  BY DEF Wanted
<1> QED BY <1>1 DEF IInv, ReadYielded, YieldedRead

LEMMA NormalizeInvariant == ASSUME IInv, Normalize PROVE IInv'
<1>1. /\ stage = "extract" /\ stage' = "load" /\ toLoad' = Resources
      /\ UNCHANGED <<apiVars, today, runVars, tables, outcome, torn, runs>>
      /\ \A r \in Resources : todo[r] = <<>>
  BY DEF Normalize
<1>2. Typed'
  <2>1. TypeOK'
    BY <1>1 DEF IInv, Typed, TypeOK, apiVars, runVars, cacheVars
  <2> QED BY <1>1, <2>1 DEF IInv, Typed, ApiTyped, apiVars, runVars, cacheVars
<1>3. AskedOnce' /\ IdleLoadsNothing'
  BY <1>1 DEF IInv, AskedOnce, IdleLoadsNothing, runVars, cacheVars
<1>4. seasons \in Seq(Years) /\ seasons # <<>>
  BY <1>1 DEF IInv, Typed, TypeOK, PromiseAsked
<1>5. \A u \in Urls : responses[u].ids \subseteq SeasonIds
  BY DEF IInv, AskedOnce
<1>6. SeasonsIncluded'
  <2> SUFFICES ASSUME "seasons" \in Resources, NEW r \in SeasonTables, NEW row \in rows[r]
               PROVE  <<row[1], row[2]>> \in rows["seasons"]
    BY <1>1 DEF SeasonsIncluded, runVars
  <2>1. r \in Resources /\ r \in {"matches", "scorers", "standings"}
    BY DEF SeasonTables
  <2>2. PICK u \in Wanted(Reads(r, seasons)) : row \in RowsFrom(r, responses[u])
    BY <1>1, <2>1, AllYielded
  <2>3. u \in Wanted(Reads("seasons", seasons)) /\ u \in Urls
    BY <1>4, <2>1, <2>2, SeasonsReadsAll DEF Wanted
  <2>4. RowsFrom("seasons", responses[u]) \subseteq rows["seasons"]
    BY <1>1, <2>3, AllYielded
  <2>5. responses[u].ids \subseteq rows["seasons"]
    BY <2>4 DEF RowsFrom
  <2>6. <<row[1], row[2]>> \in responses[u].ids
    <3>1. CASE r \in {"matches", "scorers"}
      <4>1. row \in responses[u].ids
        BY <2>2, <3>1 DEF RowsFrom
      <4> QED BY <4>1, <1>5, <2>3 DEF SeasonIds
    <3>2. CASE r = "standings"
      <4>1. PICK s \in responses[u].ids : row = <<s[1], s[2], runDate>>
        BY <2>2, <3>2 DEF RowsFrom
      <4>2. s = <<s[1], s[2]>>
        BY <1>5, <2>3 DEF SeasonIds
      <4> QED BY <4>1, <4>2
    <3> QED BY <2>1, <3>1, <3>2
  <2> QED BY <2>5, <2>6
<1>7. SquadsAgree'
  <2> SUFFICES ASSUME {"players", "squad_observations"} \subseteq Resources,
                      NEW x \in rows["players"]
               PROVE  <<x[2], x[1], runDate>> \in rows["squad_observations"]
    BY <1>1 DEF SquadsAgree, runVars
  <2>1. PICK u \in Wanted(Reads("players", seasons)) : x \in RowsFrom("players", responses[u])
    BY <1>1, AllYielded
  <2>2. RowsFrom("squad_observations", responses[u]) \subseteq rows["squad_observations"]
    BY <1>1, <1>4, SquadReads, AllYielded
  <2> DEFINE listed == UNION {{t} \X responses[u].squads[t] : t \in DOMAIN responses[u].squads}
  <2>3. /\ RowsFrom("players", responses[u]) = {<<m[2], m[1]>> : m \in listed}
        /\ RowsFrom("squad_observations", responses[u]) = {<<m[1], m[2], runDate>> : m \in listed}
    BY DEF RowsFrom
  <2> HIDE DEF listed
  <2>4. PICK m \in listed : x = <<m[2], m[1]>>
    BY <2>1, <2>3
  <2>5. <<m[1], m[2], runDate>> \in RowsFrom("squad_observations", responses[u])
    BY <2>3
  <2> QED BY <2>2, <2>4, <2>5
<1>8. PromiseRead'
  <2> SUFFICES ASSUME "matches" \in Resources, NEW s \in promised
               PROVE  s \in rows["matches"]
    BY <1>1 DEF PromiseRead, runVars
  <2> DEFINE u == MatchesUrl(s[1], s[2])
  <2>1. s[1] \in Code /\ s[2] \in Years
    BY DEF IInv, Typed, TypeOK, SeasonIds
  <2>2. seasons = <<s[2]>> /\ (responses[u] # Unasked => s \in responses[u].ids)
    BY <1>1 DEF IInv, PromiseAsked
  <2>3. u \in Wanted(Reads("matches", seasons))
    BY <2>1, <2>2, MatchesRead
  <2>4. responses[u] # Unasked /\ RowsFrom("matches", responses[u]) \subseteq rows["matches"]
    BY <1>1, <2>3, AllYielded
  <2> HIDE DEF u
  <2> QED BY <2>2, <2>4 DEF RowsFrom
<1>9. Written' /\ ReadYielded' /\ YieldedRead' /\ LeftWanted' /\ PromiseAsked'
  BY <1>1 DEF Written, ReadYielded, YieldedRead, LeftWanted, PromiseAsked
<1>10. OnRecord'
  BY <1>1 DEF IInv, OnRecord, Recorded, Pending
<1> QED BY <1>2, <1>3, <1>6, <1>7, <1>8, <1>9, <1>10 DEF IInv

-----------------------------------------------------------------------------
(* The loader writes *)

(* A load keeps a row for each key of the run, takes in nothing but rows of *)
(* the run, and loses no row but where it replaces or updates.              *)
LEMMA LoadEffect ==
    ASSUME Typed, NEW r \in Resources, Load(r)
    PROVE  \E new :
              /\ tables' = [tables EXCEPT ![r] = new]
              /\ new \subseteq tables[r] \cup rows[r]
              /\ \A x \in rows[r] : \E y \in new : y \in rows[r] /\ Key(r, y) = Key(r, x)
              /\ r \notin {"competitions", "players"} => tables[r] \subseteq new
<1> DEFINE loaded == {Key(r, x) : x \in rows[r]}
           old == {x \in tables[r] : ~ Replaces(r) /\ Key(r, x) \notin loaded}
<1>1. PICK kept \in Deduplicated(r) : tables' = [tables EXCEPT ![r] = old \cup kept]
  BY DEF Load
<1>2. kept \subseteq rows[r]
  BY DEF Deduplicated
<1>3. ASSUME NEW x \in rows[r] PROVE \E y \in kept : Key(r, y) = Key(r, x)
  <2>1. Cardinality({y \in kept : Key(r, y) = Key(r, x)}) = 1
    BY DEF Deduplicated
  <2>2. {y \in kept : Key(r, y) = Key(r, x)} # {}
    BY <2>1, FS_EmptySet
  <2> QED BY <2>2
<1>4. ASSUME r \notin {"competitions", "players"}, NEW x \in tables[r]
      PROVE  x \in old \cup kept
  <2>1. ~ Replaces(r) /\ \A y : Key(r, y) = y
    BY <1>4 DEF Replaces, Key
  <2>2. CASE x \in rows[r]
    BY <1>3, <2>1, <2>2
  <2>3. CASE x \notin rows[r]
    BY <2>1, <2>3
  <2> QED BY <2>2, <2>3
<1>5. old \subseteq tables[r]
  OBVIOUS
<1> DEFINE new == old \cup kept
<1>6. new \subseteq tables[r] \cup rows[r]
  BY <1>2, <1>5
<1>7. \A x \in rows[r] : \E y \in new : y \in rows[r] /\ Key(r, y) = Key(r, x)
  BY <1>2, <1>3
<1>8. r \notin {"competitions", "players"} => tables[r] \subseteq new
  BY <1>4
<1>9. tables' = [tables EXCEPT ![r] = new]
  BY <1>1
<1> HIDE DEF new
<1> QED BY <1>6, <1>7, <1>8, <1>9

LEMMA LoadInvariant ==
    ASSUME IInv, NEW r \in Resources, Load(r)
    PROVE  IInv'
<1>1. /\ stage = "load" /\ r \in toLoad /\ toLoad' = toLoad \ {r}
      /\ UNCHANGED <<apiVars, today, stage, runVars, outcome, torn, runs>>
  BY DEF Load
<1>2. PICK new :
        /\ tables' = [tables EXCEPT ![r] = new]
        /\ new \subseteq tables[r] \cup rows[r]
        /\ \A x \in rows[r] : \E y \in new : y \in rows[r] /\ Key(r, y) = Key(r, x)
        /\ r \notin {"competitions", "players"} => tables[r] \subseteq new
  BY LoadEffect DEF IInv
<1>3. tables'[r] = new /\ \A q \in Resources \ {r} : tables'[q] = tables[q]
  BY <1>2 DEF IInv, Typed
<1>4. Typed'
  <2>1. TypeOK'
    BY <1>1 DEF IInv, Typed, TypeOK, apiVars, runVars, cacheVars
  <2> QED BY <1>1, <1>2, <2>1 DEF IInv, Typed, ApiTyped, apiVars, runVars, cacheVars
<1>5. /\ AskedOnce' /\ ReadYielded' /\ YieldedRead' /\ LeftWanted' /\ PromiseAsked'
      /\ IdleLoadsNothing'
  BY <1>1 DEF IInv, AskedOnce, ReadYielded, YieldedRead, LeftWanted, PromiseAsked,
     IdleLoadsNothing, runVars, cacheVars
<1>6. SeasonsIncluded' /\ SquadsAgree' /\ PromiseRead'
  BY <1>1 DEF IInv, SeasonsIncluded, SquadsAgree, PromiseRead, Gathered, runVars
<1>7. Written'
  <2> SUFFICES ASSUME NEW q \in Resources, q \notin toLoad', NEW x \in rows[q]
               PROVE  \E y \in tables'[q] : y \in rows[q] /\ Key(q, y) = Key(q, x)
    BY <1>1 DEF Written, Key, runVars
  <2>1. CASE q = r
    BY <1>2, <1>3, <2>1
  <2>2. CASE q # r
    BY <1>1, <1>3, <2>2 DEF IInv, Written, Gathered
  <2> QED BY <2>1, <2>2
<1>8. OnRecord'
  <2> SUFFICES ASSUME {"players", "squad_observations"} \subseteq Resources,
                      NEW x \in tables'["players"] \ torn
               PROVE  Recorded(x)' \/ Pending(x)'
    BY <1>1 DEF OnRecord
  <2>1. tables["squad_observations"] \subseteq tables'["squad_observations"]
    BY <1>2, <1>3
  <2>2. Recorded(x) => Recorded(x)'
    BY <2>1 DEF Recorded
  <2>3. x \in rows["players"] /\ "squad_observations" \notin toLoad' => Recorded(x)'
    <3> SUFFICES ASSUME x \in rows["players"], "squad_observations" \notin toLoad'
                 PROVE  Recorded(x)'
      OBVIOUS
    <3> DEFINE o == <<x[2], x[1], runDate>>
    <3>1. o \in rows["squad_observations"]
      BY <1>1 DEF IInv, SquadsAgree, Gathered
    <3>2. rows' = rows /\ stage' = "load"
      BY <1>1 DEF runVars
    <3>3. "squad_observations" \in Resources
      OBVIOUS
    <3>4. \A z \in rows["squad_observations"] : \E y \in tables'["squad_observations"] :
              Key("squad_observations", y) = Key("squad_observations", z)
      BY <1>7, <3>2, <3>3 DEF Written, Gathered, Key
    <3>5. \A y : Key("squad_observations", y) = y
      BY DEF Key
    <3> HIDE DEF o
    <3>6. o \in tables'["squad_observations"]
      BY <3>1, <3>4, <3>5
    <3> QED BY <3>6 DEF Recorded, o
  <2>4. CASE r = "players"
    <3>1. x \in tables["players"] \/ x \in rows["players"]
      BY <1>2, <1>3, <2>4
    <3>2. x \in tables["players"] => Recorded(x)
      BY <1>1, <2>4 DEF IInv, OnRecord, Pending
    <3>3. x \in rows["players"] /\ "squad_observations" \in toLoad' => Pending(x)'
      BY <1>1, <2>4 DEF Pending, runVars
    <3> QED BY <2>2, <2>3, <3>1, <3>2, <3>3
  <2>5. CASE r = "squad_observations"
    <3>1. x \in tables["players"]
      BY <1>3, <2>5
    <3>2. Recorded(x) \/ Pending(x)
      BY <3>1 DEF IInv, OnRecord
    <3>3. Pending(x) => x \in rows["players"] /\ "squad_observations" \notin toLoad'
      BY <1>1, <2>5 DEF Pending
    <3> QED BY <2>2, <2>3, <3>2, <3>3
  <2>6. CASE r \notin {"players", "squad_observations"}
    <3>1. x \in tables["players"]
      BY <1>3, <2>6
    <3>2. Recorded(x) \/ Pending(x)
      BY <3>1 DEF IInv, OnRecord
    <3>3. Pending(x) => Pending(x)'
      BY <1>1, <2>6 DEF Pending, runVars
    <3> QED BY <2>2, <3>2, <3>3
  <2> QED BY <2>4, <2>5, <2>6
<1> QED BY <1>4, <1>5, <1>6, <1>7, <1>8 DEF IInv

LEMMA FinishInvariant == ASSUME IInv, Finish PROVE IInv'
<1>1. /\ stage = "load" /\ stage' = "idle" /\ toLoad = {} /\ toLoad' = {}
      /\ outcome' = "completed" /\ seasons' = <<>>
      /\ responses' = NoResponses /\ asked' = NeverAsked /\ todo' = Fresh(<<>>)
      /\ UNCHANGED <<apiVars, today, runDate, rows, promised, tables, torn, runs>>
  BY DEF Finish, ProcessEnds
<1>2. TypeOK'
  <2>1. \A r \in Resources : todo'[r] \in Seq(Seq(Urls) \ {<<>>})
    BY <1>1, FreshTyped DEF Blocks
  <2>2. <<>> \in Seq(Years)
    OBVIOUS
  <2>3. DOMAIN responses' = Urls /\ DOMAIN asked' = Urls
    BY <1>1 DEF NoResponses, NeverAsked
  <2> QED BY <1>1, <2>1, <2>2, <2>3 DEF IInv, Typed, TypeOK, apiVars
<1>3. Typed'
  BY <1>1, <1>2, NothingAsked, FreshTyped DEF IInv, Typed, ApiTyped, apiVars
<1>4. AskedOnce'
  BY <1>1, NothingAsked DEF AskedOnce
<1>5. ReadYielded' /\ YieldedRead' /\ LeftWanted' /\ PromiseAsked' /\ IdleLoadsNothing'
  BY <1>1 DEF ReadYielded, YieldedRead, LeftWanted, PromiseAsked, IdleLoadsNothing
<1>6. SeasonsIncluded' /\ SquadsAgree' /\ PromiseRead'
  BY <1>1 DEF IInv, SeasonsIncluded, SquadsAgree, PromiseRead, Gathered
<1>7. Written'
  BY <1>1 DEF IInv, Written, Gathered, Key
<1>8. OnRecord'
  BY <1>1 DEF IInv, OnRecord, Recorded, Pending
<1> QED BY <1>3, <1>4, <1>5, <1>6, <1>7, <1>8 DEF IInv

LEMMA AbortInvariant == ASSUME IInv, Abort PROVE IInv'
<1>1. /\ GiveUp("aborted") /\ toLoad' = {}
      /\ UNCHANGED <<apiVars, today, tables>>
  BY DEF Abort
<1>2. /\ torn \subseteq torn'
      /\ stage = "load" /\ "players" \in Resources => rows["players"] \subseteq torn'
  BY DEF Abort
<1> QED BY <1>1, <1>2, GiveUpInvariant

LEMMA StutterInvariant == ASSUME IInv, UNCHANGED vars PROVE IInv'
<1>1. /\ UNCHANGED <<stage, runVars, toLoad, tables, outcome, torn, club, today>>
      /\ current' = current /\ published' = published
  BY DEF vars, apiVars
<1>2. ApiTyped' /\ \A c \in Code : current[c] <= current'[c]
  BY <1>1, YearsBounded DEF IInv, Typed, ApiTyped
<1>3. club' \in [Players -> Teams] /\ today' \in Nat /\ today <= today'
  BY <1>1 DEF IInv, Typed, TypeOK
<1> QED BY <1>1, <1>2, <1>3, OutsideInvariant

LEMMA NextInvariant == IInv /\ [Next]_vars => IInv'
BY ApiInvariant, StartInvariant, DiscoverInvariant, NormalizeInvariant, FinishInvariant,
   ReadInvariant, LoadInvariant, AbortInvariant, BackfillInvariant, StutterInvariant
   DEF Next, Progress

LEMMA Invariance == Spec => []IInv
BY InitInvariant, NextInvariant, PTL DEF Spec

LEMMA OnlyLoadWrites ==
    ASSUME IInv, [Next]_vars, ~ \E r \in Resources : Load(r)
    PROVE  tables' = tables
BY DEF Next, Api, Progress, RollOver, PublishTable, Transfer, ApiChanges, NextDay, Start,
   Backfill, Discover, Normalize, Read, Finish, Abort, vars

-----------------------------------------------------------------------------
(* Theorems *)

(* Every variable keeps its type through every run, retry and crash.        *)
THEOREM TypeCorrect == Spec => []TypeOK
<1>1. IInv => TypeOK
  BY DEF IInv, Typed
<1> QED BY <1>1, Invariance, PTL

(* ResponseCache asks for a URL at most once in a run, whether it answers   *)
(* with a payload or with a 404 (football_data_source.py:28, 35-39).        *)
THEOREM OncePerUrlHolds == Spec => []OncePerUrl
<1>1. IInv => OncePerUrl
  BY DEF IInv, AskedOnce, OncePerUrl
<1> QED BY <1>1, Invariance, PTL

(* After a completed run every season that its matches, scorers and         *)
(* standings name is in the seasons table: iter_seasons reads each envelope *)
(* they read, from the same cache (football_data_source.py:351-405).        *)
THEOREM SeasonsResolveHolds == Spec => []SeasonsResolve
<1>1. ASSUME IInv, Completed, "seasons" \in Resources,
             NEW r \in SeasonTables, NEW row \in rows[r]
      PROVE  <<row[1], row[2]>> \in tables["seasons"]
  <2>1. Gathered /\ toLoad = {}
    BY <1>1 DEF Gathered, Completed, IInv, IdleLoadsNothing
  <2>2. <<row[1], row[2]>> \in rows["seasons"]
    BY <1>1, <2>1 DEF IInv, SeasonsIncluded
  <2>3. \A y : Key("seasons", y) = y
    BY DEF Key
  <2>4. \A x \in rows["seasons"] : \E y \in tables["seasons"] :
            Key("seasons", y) = Key("seasons", x)
    BY <1>1, <2>1 DEF IInv, Written
  <2> QED BY <2>2, <2>3, <2>4
<1>2. IInv => SeasonsResolve
  BY <1>1 DEF SeasonsResolve
<1> QED BY <1>2, Invariance, PTL

(* A completed run that discovered its season has loaded the matches of     *)
(* every competition that was on it, however far the others lag behind      *)
(* (football_data_source.py:104-120).                                       *)
THEOREM NewestSeasonLoadedHolds == Spec => []NewestSeasonLoaded
<1>1. ASSUME IInv, Completed, "matches" \in Resources, NEW s \in promised
      PROVE  s \in tables["matches"]
  <2>1. Gathered /\ toLoad = {}
    BY <1>1 DEF Gathered, Completed, IInv, IdleLoadsNothing
  <2>2. s \in rows["matches"]
    BY <1>1, <2>1 DEF IInv, PromiseRead
  <2>3. \A y : Key("matches", y) = y
    BY DEF Key
  <2>4. \A x \in rows["matches"] : \E y \in tables["matches"] :
            Key("matches", y) = Key("matches", x)
    BY <1>1, <2>1 DEF IInv, Written
  <2> QED BY <2>2, <2>3, <2>4
<1>2. IInv => NewestSeasonLoaded
  BY <1>1 DEF NewestSeasonLoaded
<1> QED BY <1>2, Invariance, PTL

(* After a completed run the club in a player's row is one at which the     *)
(* squad observations of the run's date show the player: both resources     *)
(* read one cached payload (football_data_source.py:149-214).               *)
THEOREM ClubObservedHolds == Spec => []ClubObserved
<1>1. ASSUME IInv, Completed, {"players", "squad_observations"} \subseteq Resources,
             NEW x \in rows["players"]
      PROVE  \E y \in tables["players"] :
                /\ y[1] = x[1]
                /\ <<y[2], y[1], runDate>> \in tables["squad_observations"]
  <2>1. Gathered /\ toLoad = {}
    BY <1>1 DEF Gathered, Completed, IInv, IdleLoadsNothing
  <2>2. PICK y \in tables["players"] :
            y \in rows["players"] /\ Key("players", y) = Key("players", x)
    BY <1>1, <2>1 DEF IInv, Written
  <2>3. y[1] = x[1]
    BY <2>2 DEF Key
  <2>4. <<y[2], y[1], runDate>> \in rows["squad_observations"]
    BY <1>1, <2>1, <2>2 DEF IInv, SquadsAgree
  <2>5. \A z : Key("squad_observations", z) = z
    BY DEF Key
  <2>6. \A z \in rows["squad_observations"] : \E o \in tables["squad_observations"] :
            Key("squad_observations", o) = Key("squad_observations", z)
    BY <1>1, <2>1 DEF IInv, Written
  <2>7. <<y[2], y[1], runDate>> \in tables["squad_observations"]
    BY <2>4, <2>5, <2>6
  <2> QED BY <2>2, <2>3, <2>7
<1>2. IInv => ClubObserved
  BY <1>1 DEF ClubObserved
<1> QED BY <1>2, Invariance, PTL

(* No run deletes a season, match, scorer, squad observation or standings   *)
(* snapshot that another one loaded (football_data_source.py:297-299,       *)
(* 419-421).                                                                *)
THEOREM HistoryKeptHolds == Spec => HistoryKept
<1>1. ASSUME IInv, [Next]_vars, NEW r \in Resources \ {"competitions", "players"}
      PROVE  tables[r] \subseteq tables'[r]
  <2>1. CASE ~ \E q \in Resources : Load(q)
    <3>1. tables' = tables
      BY <1>1, <2>1, OnlyLoadWrites
    <3> QED BY <3>1
  <2>2. ASSUME NEW q \in Resources, Load(q) PROVE tables[r] \subseteq tables'[r]
    <3>1. PICK new : /\ tables' = [tables EXCEPT ![q] = new]
                     /\ q \notin {"competitions", "players"} => tables[q] \subseteq new
      BY <1>1, <2>2, LoadEffect DEF IInv
    <3> QED BY <1>1, <3>1 DEF IInv, Typed
  <2> QED BY <2>1, <2>2
<1>2. IInv /\ [Next]_vars =>
          [\A r \in Resources \ {"competitions", "players"} : tables[r] \subseteq tables'[r]]_vars
  BY <1>1
<1> QED BY <1>2, Invariance, PTL DEF Spec, HistoryKept

(* The club that a player's row loses stays on record in the squad          *)
(* observations (football_data_source.py:184-185), but for a row that a     *)
(* dying process wrote: players may be overwritten only while the           *)
(* observation of the old row's run has been written.                       *)
THEOREM ClubHistoryKeptHolds == Spec => ClubHistoryKept
<1>1. ASSUME IInv, [Next]_vars, {"players", "squad_observations"} \subseteq Resources,
             NEW x \in (tables["players"] \ tables'["players"]) \ torn
      PROVE  \E y \in tables'["squad_observations"] : y[1] = x[2] /\ y[2] = x[1]
  <2>1. PICK r \in Resources : Load(r)
    BY <1>1, OnlyLoadWrites
  <2>2. PICK new : tables' = [tables EXCEPT ![r] = new]
    BY <1>1, <2>1, LoadEffect DEF IInv
  <2>3. r = "players"
    BY <1>1, <2>2 DEF IInv, Typed
  <2>4. "players" \in toLoad
    BY <2>1, <2>3 DEF Load
  <2>5. Recorded(x)
    BY <1>1, <2>4 DEF IInv, OnRecord, Pending
  <2>6. tables'["squad_observations"] = tables["squad_observations"]
    BY <1>1, <2>2, <2>3 DEF IInv, Typed
  <2> QED BY <2>5, <2>6 DEF Recorded
<1>2. IInv /\ [Next]_vars =>
          [{"players", "squad_observations"} \subseteq Resources =>
              \A x \in (tables["players"] \ tables'["players"]) \ torn :
                  \E y \in tables'["squad_observations"] : y[1] = x[2] /\ y[2] = x[1]]_vars
  BY <1>1
<1> QED BY <1>2, Invariance, PTL DEF Spec, ClubHistoryKept

-----------------------------------------------------------------------------
(* Missing tables *)

(* Only a table can be missing.                                             *)
OnlyTablesMissing ==
    \A u \in Urls : \/ responses[u] = Unasked \/ responses[u].status = "found"
                    \/ u.what = "standings"

(* A run that goes on has no outcome yet.                                   *)
Undecided == stage # "idle" => outcome = "none"

LEMMA UndecidedInvariant == Undecided /\ [Next]_vars => Undecided'
BY DEF Undecided, Next, Progress, Api, RollOver, PublishTable, Transfer, NextDay, ApiChanges,
   Start, Backfill, Discover, Normalize, Load, Read, Finish, Abort, GiveUp, ProcessEnds, Run,
   vars

LEMMA AnswerFound ==
    ASSUME NEW u \in Urls, u.what # "standings"
    PROVE  Answer(u).status = "found"
<1>1. u.what \in {"competitions", "teams", "matches", "scorers", "standings"}
  <2>1. \/ u = CompetitionsUrl \/ \E c \in Code : u = TeamsUrl(c) \/ u = StandingsUrl(c)
        \/ \E c \in Code, y \in Years : u = MatchesUrl(c, y) \/ u = ScorersUrl(c, y)
    BY DEF Urls
  <2>2. /\ CompetitionsUrl.what = "competitions"
        /\ \A c \in Code : TeamsUrl(c).what = "teams" /\ StandingsUrl(c).what = "standings"
        /\ \A c \in Code, y \in Years :
              MatchesUrl(c, y).what = "matches" /\ ScorersUrl(c, y).what = "scorers"
    BY DEF Url, CompetitionsUrl, TeamsUrl, MatchesUrl, ScorersUrl, StandingsUrl
  <2>3. CASE u = CompetitionsUrl
    BY <2>2, <2>3
  <2>4. CASE \E c \in Code : u = TeamsUrl(c) \/ u = StandingsUrl(c)
    BY <2>2, <2>4
  <2>5. CASE \E c \in Code, y \in Years : u = MatchesUrl(c, y) \/ u = ScorersUrl(c, y)
    BY <2>2, <2>5
  <2> QED BY <2>1, <2>3, <2>4, <2>5
<1>2. Answer(u) = Found(Answer(u).ids, Answer(u).squads)
  BY <1>1 DEF Answer, Found
<1> QED BY <1>2 DEF Found

(* standings and seasons are the only generators that ask for a table.      *)
LEMMA OthersReadNoTable ==
    ASSUME NEW r \in AllResources \ {"standings", "seasons"},
           NEW years \in Seq(Years), years # <<>>, NEW u \in Wanted(Reads(r, years))
    PROVE  u.what # "standings"
<1>1. CASE r = "competitions"
  <2>1. Reads(r, years) = << <<CompetitionsUrl>> >>
    BY <1>1 DEF Reads
  <2>2. u = CompetitionsUrl
    BY <2>1 DEF Wanted
  <2> QED BY <2>2 DEF CompetitionsUrl, Url
<1>2. CASE r # "competitions"
  <2>1. PICK c \in Code : \E j \in 1 .. Len(Block(r, c, years)) : u = Block(r, c, years)[j]
    BY <1>2, WantedPerCode DEF PerCompetition
  <2>2. CASE r \in {"teams", "players", "squad_observations"}
    <3>1. u = TeamsUrl(c)
      BY <2>1, <2>2 DEF Block
    <3> QED BY <3>1 DEF TeamsUrl, Url
  <2>3. CASE r = "matches"
    <3>1. PICK j \in 1 .. Len(years) : u = MatchesUrl(c, years[j])
      BY <2>1, <2>3 DEF Block
    <3> QED BY <3>1 DEF MatchesUrl, Url
  <2>4. CASE r = "scorers"
    <3>1. PICK j \in 1 .. Len(years) : u = ScorersUrl(c, years[j])
      BY <2>1, <2>4 DEF Block
    <3> QED BY <3>1 DEF ScorersUrl, Url
  <2> QED BY <1>2, <2>2, <2>3, <2>4 DEF AllResources
<1> QED BY <1>1, <1>2

LEMMA MissingInvariant == IInv /\ OnlyTablesMissing /\ [Next]_vars => OnlyTablesMissing'
<1> SUFFICES ASSUME IInv, OnlyTablesMissing, [Next]_vars PROVE OnlyTablesMissing'
  OBVIOUS
<1>1. CASE UNCHANGED responses
  BY <1>1 DEF OnlyTablesMissing
<1>2. CASE responses' = NoResponses
  BY <1>2 DEF OnlyTablesMissing, NoResponses
<1>3. ASSUME NEW r \in Resources, Read(r), responses' # NoResponses
      PROVE  OnlyTablesMissing'
  <2> DEFINE u == Head(Head(todo[r]))
  <2>1. stage = "extract" /\ todo[r] # <<>> /\ todo[r] \in Blocks
    BY <1>3 DEF Read, IInv, Typed
  <2>2. u \in Urls
    BY <2>1, AfterFirstType
  <2>3. CacheGet(u)
    BY <1>3 DEF Read, GiveUp, ProcessEnds
  <2> HIDE DEF u
  <2>4. \A w \in Urls : responses'[w] = responses[w] \/ (w = u /\ responses'[w] = Answer(w))
    BY <2>2, <2>3 DEF CacheGet, Memoized, cacheVars, IInv, Typed
  <2> QED BY <2>4, AnswerFound DEF OnlyTablesMissing
<1>4. \/ UNCHANGED responses \/ responses' = NoResponses
      \/ \E r \in Resources : Read(r)
  BY DEF Next, Progress, Api, RollOver, PublishTable, Transfer, NextDay, ApiChanges, Start,
     Backfill, Discover, Normalize, Load, Finish, Abort, GiveUp, ProcessEnds, Run,
     vars, runVars, cacheVars
<1> QED BY <1>1, <1>2, <1>3, <1>4

(* A run that has its seasons never fails by itself: the table that is      *)
(* missing all summer is suppressed in each of the two generators that ask  *)
(* for it, whether the 404 comes from the API or from the cache, and no     *)
(* other request is answered with one (football_data_source.py:395, 428).   *)
THEOREM MissingTableNeverFails ==
    Spec => [][stage = "extract" => outcome' # "failed"]_vars
<1>1. Init => OnlyTablesMissing /\ Undecided
  BY DEF Init, OnlyTablesMissing, NoResponses, Undecided
<1>2. ASSUME IInv, OnlyTablesMissing, Undecided, [Next]_vars, stage = "extract", vars' # vars
      PROVE  outcome' # "failed"
  <2>1. outcome # "failed"
    BY <1>2 DEF Undecided
  <2>2. ASSUME NEW r \in Resources, Read(r) PROVE outcome' # "failed"
    <3> DEFINE u == Head(Head(todo[r]))
    <3>1. todo[r] # <<>> /\ todo[r] \in Blocks /\ r \in AllResources
      BY <1>2, <2>2, IngestAssumption DEF Read, IInv, Typed
    <3>2. u \in Urls /\ u \in Wanted(todo[r])
      BY <3>1, AfterFirstType
    <3>3. seasons \in Seq(Years) /\ seasons # <<>> /\ u \in Wanted(Reads(r, seasons))
      BY <1>2, <3>2 DEF IInv, LeftWanted, PromiseAsked, Typed, TypeOK
    <3>4. Got(u).status = "found" \/ u.what = "standings"
      BY <1>2, <3>2, AnswerFound DEF Got, OnlyTablesMissing
    <3>5. Got(u).status = "found" \/ Suppresses404(r, u)
      BY <3>1, <3>3, <3>4, OthersReadNoTable DEF Suppresses404
    <3> QED BY <2>1, <2>2, <3>5 DEF Read
  <2> QED BY <1>2, <2>1, <2>2 DEF Next, Progress, Api, RollOver, PublishTable, Transfer,
         NextDay, ApiChanges, Start, Backfill, Discover, Normalize, Load, Finish, Abort,
         GiveUp, vars
<1>3. IInv /\ OnlyTablesMissing /\ Undecided /\ [Next]_vars =>
          [stage = "extract" => outcome' # "failed"]_vars
  BY <1>2
<1> QED BY <1>1, <1>3, MissingInvariant, UndecidedInvariant, Invariance, PTL DEF Spec

=============================================================================
