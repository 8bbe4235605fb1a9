----------------------------- MODULE IngestRun -----------------------------
(***************************************************************************)
(* One ingest after another: football_pipeline/pipeline.py starts a run,    *)
(* football_data_source.py reads the API through one ResponseCache shared   *)
(* by eight resource generators, and the rows are merged into the raw       *)
(* tables.                                                                  *)
(*                                                                         *)
(* The generators are interleaved by the loader (dlt) in an order nobody    *)
(* fixes, and the API changes while they read: seasons roll over, standings *)
(* appear, players move.  The loader and the API are outside the            *)
(* repository; they are modelled from how the code relies on them.          *)
(* Data is reduced to what the tables refer to: a season is a competition   *)
(* and a year, a match or a scorer row is the season it names, a squad is a *)
(* set of players.                                                          *)
(***************************************************************************)
EXTENDS Integers, FiniteSets, SequencesExt

CONSTANTS
    Codes,       \* COMPETITIONS, a sequence
    Teams, Players,
    Entrants,    \* the teams of each competition
    MaxYear,     \* season years are 1 .. MaxYear
    Resources,   \* the resources of the source that the instance runs
    Backfills,   \* season lists a person may ask for: pipeline.py 2023 2024
    MaxRuns, MaxChanges, MaxDay   \* bounds of the instance: runs, changes of
                                  \* the API's content, days

AllResources == {"competitions", "seasons", "teams", "players",
                 "squad_observations", "matches", "standings", "scorers"}

Years == 1 .. MaxYear
Code == Range(Codes)

ASSUME IngestAssumption ==
    /\ Codes \in Seq(STRING) /\ IsInjective(Codes)
    /\ Entrants \in [Code -> SUBSET Teams]
    /\ MaxYear \in Nat
    /\ Resources \subseteq AllResources
    /\ Backfills \subseteq Seq(Years) \ {<<>>}

VARIABLES
    current,     \* the API: the year of each competition's current season,
                 \*   0 while it has none
    published,   \* whether it serves that season's table, or answers 404
    club,        \* the team in whose squad a player is
    changes,     \* how often the API's content has changed (a bound)
    today,       \* the UTC date
    stage,       \* what the ingest process is doing
    seasons,     \* run(seasons)
    runDate,     \* run(...)'s run_date
    responses,   \* ResponseCache: _responses and _not_found
    asked,       \* history: how often the cache has asked for each URL
    todo,        \* what each resource generator has still to read, in blocks
    rows,        \* the rows each resource has yielded in this run
    toLoad,      \* tables this run has still to write
    tables,      \* the raw tables of the warehouse
    promised,    \* history: the seasons that were the newest when discovered
    outcome,     \* how the last run ended
    torn,        \* history: the players' rows of processes that died loading
    runs         \* runs begun (a bound)

apiVars == <<current, published, club, changes>>
cacheVars == <<responses, asked>>
runVars == <<seasons, runDate, cacheVars, todo, rows, promised>>
vars == <<apiVars, today, stage, runVars, toLoad, tables, outcome, torn, runs>>

-----------------------------------------------------------------------------
(* The API. *)

Url(what, c, y) == [what |-> what, code |-> c, year |-> y]
CompetitionsUrl == Url("competitions", "", 0)
TeamsUrl(c)     == Url("teams", c, 0)
MatchesUrl(c, y) == Url("matches", c, y)
ScorersUrl(c, y) == Url("scorers", c, y)
StandingsUrl(c) == Url("standings", c, 0)

Urls == {CompetitionsUrl} \cup {TeamsUrl(c) : c \in Code}
        \cup {MatchesUrl(c, y) : c \in Code, y \in Years}
        \cup {ScorersUrl(c, y) : c \in Code, y \in Years}
        \cup {StandingsUrl(c) : c \in Code}

Season(c, y) == <<c, y>>
SeasonIds == Code \X Years

\* A payload: the season objects its envelopes carry and the squads it lists.
Found(ids, squads) == [status |-> "found", ids |-> ids, squads |-> squads]
NotFound == [status |-> "notFound", ids |-> {}, squads |-> <<>>]
Unasked  == [status |-> "unasked", ids |-> {}, squads |-> <<>>]

(* Mutant: a competition without a current season counts with a null year. *)
CurrentSeasonsOrNull == {Season(c, current[c]) : c \in Code}

CurrentSeasons == {Season(c, current[c]) : c \in {d \in Code : current[d] > 0}}

Squads(c) == [t \in Entrants[c] |-> {p \in Players : club[p] = t}]

\* What the API answers at this moment.
Answer(u) ==
    CASE u.what = "competitions" -> Found(CurrentSeasons, <<>>)
      [] u.what = "teams"        -> Found({}, Squads(u.code))
      [] u.what \in {"matches", "scorers"} ->
            \* "just returns no rows for a season it is not on yet"
            Found(IF u.year <= current[u.code] THEN {Season(u.code, u.year)} ELSE {},
                  <<>>)
      [] u.what = "standings" ->
            IF published[u.code] THEN Found({Season(u.code, current[u.code])}, <<>>)
                                 ELSE NotFound

ApiChanges ==
    /\ changes < MaxChanges
    /\ changes' = changes + 1
    /\ UNCHANGED <<today, stage, runVars, toLoad, tables, outcome, torn, runs>>

\* A competition rolls over to its next season; the table is not out yet.
RollOver(c) ==
    /\ current[c] < MaxYear
    /\ current' = [current EXCEPT ![c] = @ + 1]
    /\ published' = [published EXCEPT ![c] = FALSE]
    /\ UNCHANGED club
    /\ ApiChanges

PublishTable(c) ==
    /\ current[c] > 0 /\ ~ published[c]
    /\ published' = [published EXCEPT ![c] = TRUE]
    /\ UNCHANGED <<current, club>>
    /\ ApiChanges

Transfer(p, t) ==
    /\ club[p] # t
    /\ club' = [club EXCEPT ![p] = t]
    /\ UNCHANGED <<current, published>>
    /\ ApiChanges

NextDay ==
    /\ today < MaxDay
    /\ today' = today + 1
    /\ UNCHANGED <<apiVars, stage, runVars, toLoad, tables, outcome, torn, runs>>

-----------------------------------------------------------------------------
(* The resource generators. *)

\* The reads of one generator for one competition, for the years asked.
Block(r, c, years) ==
    LET n == Len(years)
    IN  CASE r \in {"teams", "players", "squad_observations"} -> <<TeamsUrl(c)>>
          [] r = "matches"   -> [j \in 1 .. n |-> MatchesUrl(c, years[j])]
          [] r = "scorers"   -> [j \in 1 .. n |-> ScorersUrl(c, years[j])]
          [] r = "standings" -> <<StandingsUrl(c)>>
          [] r = "seasons"   ->
                [j \in 1 .. 2 * n + 1 |->
                    IF j = 2 * n + 1 THEN StandingsUrl(c)
                    ELSE IF j % 2 = 1 THEN MatchesUrl(c, years[(j + 1) \div 2])
                    ELSE ScorersUrl(c, years[j \div 2])]

\* All its reads, block by block, in the order of COMPETITIONS.
Reads(r, years) ==
    LET blocks == [i \in DOMAIN Codes |-> Block(r, Codes[i], years)]
    IN  CASE r = "competitions" -> << <<CompetitionsUrl>> >>
          [] r = "seasons"      -> << <<CompetitionsUrl>> >> \o blocks
          [] OTHER              -> blocks

\* What is left once the first read of the first block is done.
AfterFirst(blocks) ==
    IF Len(Head(blocks)) = 1 THEN Tail(blocks)
    ELSE <<Tail(Head(blocks))>> \o Tail(blocks)

(* Mutant: only iter_standings goes on when a table is missing. *)
SuppressesInStandings(r, u) == u.what = "standings" /\ r = "standings"

\* iter_standings and iter_seasons go on when a table is missing; everywhere
\* else a 404 surfaces.
Suppresses404(r, u) == u.what = "standings" /\ r \in {"standings", "seasons"}

\* What a generator yields from the payload of one URL.
RowsFrom(r, payload) ==
    LET listed == UNION {{t} \X payload.squads[t] : t \in DOMAIN payload.squads}
    IN  CASE r = "competitions" -> {<<c>> : c \in Code}
          [] r = "teams"        -> {<<t>> : t \in DOMAIN payload.squads}
          [] r = "players"      -> {<<m[2], m[1]>> : m \in listed}
          [] r = "squad_observations" -> {<<m[1], m[2], runDate>> : m \in listed}
          [] r \in {"matches", "scorers", "seasons"} -> payload.ids
          [] r = "standings"    -> {<<s[1], s[2], runDate>> : s \in payload.ids}

-----------------------------------------------------------------------------
(* The run. *)

Fresh(x) == [r \in Resources |-> x]

NoResponses == [u \in Urls |-> Unasked]
NeverAsked  == [u \in Urls |-> 0]

Init ==
    /\ current \in [Code -> 0 .. MaxYear]
    /\ published \in [Code -> BOOLEAN]
    /\ \A c \in Code : published[c] => current[c] > 0
    /\ club \in [Players -> Teams]
    /\ changes = 0 /\ today = 0
    /\ stage = "idle" /\ outcome = "none" /\ torn = {} /\ runs = 0
    /\ seasons = <<>> /\ runDate = 0 /\ promised = {}
    /\ responses = NoResponses /\ asked = NeverAsked
    /\ todo = Fresh(<<>>) /\ rows = Fresh({})
    /\ toLoad = {} /\ tables = Fresh({})

\* The cache and the generators go with the process they live in.
ProcessEnds ==
    /\ stage' = "idle"
    /\ seasons' = <<>>
    /\ responses' = NoResponses /\ asked' = NeverAsked
    /\ todo' = Fresh(<<>>)

\* Nothing is kept of what the run has read.
GiveUp(how) ==
    /\ ProcessEnds
    /\ outcome' = how
    /\ runDate' = 0 /\ rows' = Fresh({}) /\ promised' = {}

\* ingest_current_season begins: a new process, or a retry of a failed one.
Start ==
    /\ stage = "idle" /\ runs < MaxRuns
    /\ runs' = runs + 1
    /\ stage' = "discover"
    /\ outcome' = "none"
    /\ runDate' = 0 /\ rows' = Fresh({}) /\ promised' = {}
    /\ UNCHANGED <<apiVars, today, seasons, cacheVars, todo, toLoad, tables, torn>>

\* run(years): a new cache, the eight generators, and one date for them all.
Run(years) ==
    /\ stage' = "extract"
    /\ seasons' = years
    /\ runDate' = today
    /\ responses' = NoResponses /\ asked' = NeverAsked
    /\ todo' = [r \in Resources |-> Reads(r, years)]
    /\ rows' = Fresh({})

\* pipeline.py with years as its arguments.
Backfill(years) ==
    /\ stage = "idle" /\ runs < MaxRuns
    /\ runs' = runs + 1
    /\ outcome' = "none"
    /\ Run(years)
    /\ promised' = {}
    /\ UNCHANGED <<apiVars, today, toLoad, tables, torn>>

(* Mutant: the season that every competition has reached is taken. *)
DiscoveredOldest(ys) == CHOOSE y \in ys : \A z \in ys : y <= z

\* discover_current_season: the newest year seen.
Discovered(ys) == CHOOSE y \in ys : \A z \in ys : y >= z

Discover ==
    /\ stage = "discover"
    /\ LET ys == {s[2] : s \in CurrentSeasons} IN
          IF ys = {}
          THEN GiveUp("failed")
          ELSE /\ Run(<<Discovered(ys)>>)
               /\ promised' = {s \in CurrentSeasons : \A y \in ys : s[2] >= y}
               /\ UNCHANGED outcome
    /\ UNCHANGED <<apiVars, today, toLoad, tables, torn, runs>>

(* Mutant: only successful responses are memoized. *)
MemoizedWhenFound(u, payload) ==
    [responses EXCEPT ![u] = IF payload = NotFound THEN Unasked ELSE payload]

\* ResponseCache.get: a 404 is memoized like a payload.
Memoized(u, payload) == [responses EXCEPT ![u] = payload]

CacheGet(u) ==
    IF responses[u] # Unasked
    THEN UNCHANGED cacheVars
    ELSE /\ responses' = Memoized(u, Answer(u))
         /\ asked' = [asked EXCEPT ![u] = @ + 1]

Got(u) == IF responses[u] # Unasked THEN responses[u] ELSE Answer(u)

\* One resource goes on to its next read: another one may run between any two.
Read(r) ==
    /\ stage = "extract" /\ todo[r] # <<>>
    /\ LET u == Head(Head(todo[r]))
           payload == Got(u)
       IN  IF payload.status = "found" \/ Suppresses404(r, u)
           THEN /\ CacheGet(u)
                /\ rows' = [rows EXCEPT ![r] = @ \cup RowsFrom(r, payload)]
                /\ todo' = [todo EXCEPT ![r] = AfterFirst(@)]
                /\ UNCHANGED <<stage, outcome, seasons, runDate, promised>>
           ELSE GiveUp("failed")
    /\ UNCHANGED <<apiVars, today, toLoad, tables, torn, runs>>

\* The loader has drained every generator; only now is anything written.
Normalize ==
    /\ stage = "extract"
    /\ \A r \in Resources : todo[r] = <<>>
    /\ stage' = "load"
    /\ toLoad' = Resources
    /\ UNCHANGED <<apiVars, today, runVars, tables, outcome, torn, runs>>

(* Mutant: the team is left out of squad_observations' key. *)
KeyWithoutTeam(r, row) ==
    CASE r = "players"            -> <<row[1]>>
      [] r = "squad_observations" -> <<row[2], row[3]>>
      [] OTHER                    -> row

\* primary_key of each resource, on these rows.
Key(r, row) == IF r = "players" THEN <<row[1]>> ELSE row

(* Mutant: a full refresh of the matches, like that of the competitions. *)
ReplacesMatches(r) == r \in {"competitions", "matches"}

\* write_disposition.
Replaces(r) == r = "competitions"

\* Of the rows of one load with the same key, the loader keeps one, any one.
Deduplicated(r) ==
    {kept \in SUBSET rows[r] :
        \A x \in rows[r] : Cardinality({y \in kept : Key(r, y) = Key(r, x)}) = 1}

Load(r) ==
    /\ stage = "load" /\ r \in toLoad
    /\ toLoad' = toLoad \ {r}
    /\ LET loaded == {Key(r, x) : x \in rows[r]}
           old == {x \in tables[r] : ~ Replaces(r) /\ Key(r, x) \notin loaded}
       IN \E kept \in Deduplicated(r) :
              tables' = [tables EXCEPT ![r] = old \cup kept]
    /\ UNCHANGED <<apiVars, today, stage, runVars, outcome, torn, runs>>

Finish ==
    /\ stage = "load" /\ toLoad = {}
    /\ ProcessEnds
    /\ outcome' = "completed"
    /\ UNCHANGED <<apiVars, today, runDate, rows, promised, toLoad, tables, torn,
                   runs>>

\* A get raises (timeout, 5xx, RateLimitExceeded), or the process dies.
Abort ==
    /\ stage # "idle"
    /\ GiveUp("aborted")
    /\ toLoad' = {}
    /\ torn' = IF stage = "load" /\ "players" \in Resources
               THEN torn \cup rows["players"] ELSE torn
    /\ UNCHANGED <<apiVars, today, tables, runs>>

Api ==
    \/ \E c \in Code : RollOver(c) \/ PublishTable(c)
    \/ \E p \in Players, t \in Teams : Transfer(p, t)
    \/ NextDay

Progress ==
    \/ Discover \/ Normalize \/ Finish
    \/ \E r \in Resources : Read(r) \/ Load(r)

Next ==
    \/ Api \/ Start \/ Progress \/ Abort
    \/ \E years \in Backfills : Backfill(years)

\* Every get ends (ApiClient), so a process that is not killed goes on.
Spec == Init /\ [][Next]_vars /\ WF_vars(Progress)

-----------------------------------------------------------------------------
TypeOK ==
    /\ current \in [Code -> 0 .. MaxYear]
    /\ published \in [Code -> BOOLEAN]
    /\ club \in [Players -> Teams]
    /\ today \in Nat /\ runDate \in 0 .. today
    /\ stage \in {"idle", "discover", "extract", "load"}
    /\ seasons \in Seq(Years)
    /\ DOMAIN responses = Urls /\ DOMAIN asked = Urls
    /\ \A r \in Resources : todo[r] \in Seq(Seq(Urls) \ {<<>>})
    /\ toLoad \subseteq Resources
    /\ promised \subseteq SeasonIds
    /\ outcome \in {"none", "completed", "failed", "aborted"}

(* However the generators interleave and whatever the API answers, a run    *)
(* asks for each URL at most once, a 404 included                           *)
(* (football_data_source.py:28, 35-39).                                     *)
OncePerUrl == \A u \in Urls : asked[u] <= 1

Completed == stage = "idle" /\ outcome = "completed"

SeasonTables == Resources \cap {"matches", "scorers", "standings"}

(* When a run has completed, every season its matches, scorers and          *)
(* standings name is a row of seasons, although the API may have rolled a   *)
(* season over or published a table between any two reads                   *)
(* (football_data_source.py:358-364).                                       *)
SeasonsResolve ==
    Completed /\ "seasons" \in Resources =>
        \A r \in SeasonTables : \A row \in rows[r] :
            <<row[1], row[2]>> \in tables["seasons"]

(* When a run has completed, the club in every player's row is one the      *)
(* squad observations of that run's date show the player at, although       *)
(* players move between reads and the loader picks one of two clubs.        *)
ClubObserved ==
    Completed /\ {"players", "squad_observations"} \subseteq Resources =>
        \A x \in rows["players"] : \E y \in tables["players"] :
            /\ y[1] = x[1]
            /\ <<y[2], y[1], runDate>> \in tables["squad_observations"]

(* The club a player's row loses to a newer one stays on record in the      *)
(* squad observations (football_data_source.py:184-185), whatever runs      *)
(* failed or died before; only a row that a dying process has itself        *)
(* written may lack its observation.                                        *)
ClubHistoryKept ==
    [][ {"players", "squad_observations"} \subseteq Resources =>
          \A x \in (tables["players"] \ tables'["players"]) \ torn :
              \E y \in tables'["squad_observations"] :
                  y[1] = x[2] /\ y[2] = x[1] ]_vars

(* A nightly run fetches one season and never deletes another: no season,   *)
(* match, scorer, squad observation or standings snapshot leaves its table, *)
(* those of a backfill before it included                                   *)
(* (football_data_source.py:297-299, 419-421).                              *)
HistoryKept ==
    [][ \A r \in Resources \ {"competitions", "players"} :
          tables[r] \subseteq tables'[r] ]_vars

(* When a run that discovered its season has completed, every competition   *)
(* that was on the newest season then has its matches of it loaded, however *)
(* far the others lag behind (football_data_source.py:104-120).             *)
NewestSeasonLoaded ==
    Completed /\ "matches" \in Resources => promised \subseteq tables["matches"]

(* A run that has its seasons ends, and unless it is aborted it completes:  *)
(* a table that is missing, asked for by two generators, neither fails nor  *)
(* stalls it (football_data_source.py:364, 423-425).                        *)
RunEnds ==
    \A n \in 1 .. MaxRuns :
        stage = "extract" /\ runs = n
            ~> stage = "idle" /\ runs = n /\ outcome \in {"completed", "aborted"}

=============================================================================
