# A verification project for football-tracker

TLA+ models of the football-tracker system, TLC runs that check them on small
instances, and TLAPS proofs of theorems about them. The reference is the code:
every definition that stands for code is listed in `PROJECT.json` under `map`
with the lines it translates.

## The system

Once a night a Cloud Run job **ingests** football-data.org into raw tables, a
second job **transforms** the raw tables into marts with dbt, and a FastAPI
**service** answers a React **frontend** from the marts through a cache.

| Part | State it keeps | Operations | Interacts with |
|---|---|---|---|
| Rate limiter (`football_pipeline/rate_limiter.py`) | tokens, time of last refill | `acquire`, `sync_from_server` | called by the client; reads a clock |
| API client (`football_pipeline/client.py`) | none besides its limiter; the retry loop of a call | `get` | limiter, HTTP server with its own quota |
| Response cache and resources (`football_pipeline/football_data_source.py`) | memoized payloads and 404s of one run; eight generators | `ResponseCache.get`, `discover_current_season`, `iter_*` | client; drained by the loader (dlt) |
| Entry points (`football_pipeline/pipeline.py`) | the date and seasons of a run | `ingest_current_season`, `run`, `run_transform`, `main` | everything above; dbt |
| Raw tables | rows by primary key | merge, replace | written by dlt, read by dbt |
| Transform (`transform/`) | staging views, marts | one `dbt build` | raw tables, marts |
| Nightly orchestration (workflow, scheduler, Dagster assets) | the step it is at | ingest, then transform; job retries | both jobs |
| Warehouse queries (`warehouse/queries.py`) | none | about 30 reads of the marts | marts |
| Query cache (`backend/caching.py`, `backend/queries.py`) | one TTL cache and lock per function | `cached` wrapper | request threads, marts |
| HTTP API (`backend/main.py`, `backend/routers/`) | one connection | route handlers | query cache |
| Frontend (`frontend/src/`) | selected team, league, season, page, filters | dialogs, tabs, tables | HTTP API |

What is hard in it, and what makes each part correct:

- *Limiter*: fractional refills, negative balances and corrections from outside
  interact over long call sequences. Slots must keep the bucket's spacing, and a
  count the server reports must hold for good.
- *Client*: two clocks that nobody synchronises (bucket and server window),
  headers that may be missing, requests that are lost after they were counted.
  No retry within a window known to be spent; a lone client never gives up.
- *Ingest*: generators in an order the loader chooses, over an API that changes
  while they read. One answer per URL, no season referred to but not loaded.
- *Loading*: tables are written one by one and the process may die in between;
  history that exists only in the warehouse must survive every rerun.
- *Query cache*: look-up and store are locked, the query between them is not;
  expiry is judged twice. Answers must be of the right call and not too old, and
  no error may leave the lock behind.
- *Nightly run*: two jobs of many steps, each started again from its beginning
  when it fails. No night may end silently with stale marts, and no transform may
  read a mixture of two attempts or two nights.
- *Marts*: three-valued logic in SQL, and window functions over matches that are
  postponed, awarded or never decided. Each number must be what its reader takes
  it for, and two marts that show the same matches must agree.
- *Dimensions, queries, API*: teams and players that no squad lists any more are
  derived from other rows. A link on one page must resolve on the next, also
  after a load in between, and pages that show the same things must agree.

`PROJECT.json` lists each hazard at its line, with the properties that cover it
or the reason that none does.

## Modules

| Module | Models | State and actions |
|---|---|---|
| `TokenBucket` | the limiter's arithmetic | no state: `Refilled` (`_refill`), `WaitFor` (result of `acquire`), `Synced` (`sync_from_server`) |
| `RateLimiter` | one limiter object | `credit` = `_tokens`, `updatedAt` = `_updated_at`; `Acquire`, `SyncFromServer`, `Tick`; histories `starts` (slots handed out) and `syncs` (counts reported) |
| `PacedStarts` | what a limiter promises, without balance or server | `starts`; `HandOut` |
| `RateLimiter_proofs` | theorems about `RateLimiter` | |
| `ApiClient` | `FootballDataClient.get` over the limiter and a server | `pc` walks through the loop body: `TakeSlot`, `Pace`, `Send`, `Receive`, `SyncLimiter`, `Rejected` or `Conclude`, `BackOff`, `GiveUp`; the server's `phase`, `window`, `used` |
| `ApiClient_proofs` | theorems about `ApiClient` | |
| `IngestRun` | runs of the pipeline, from the API to the raw tables | `responses` = the cache; `todo`, `rows` = the generators; `tables`; `Start`/`Backfill`, `Discover`, `Read`, `Normalize`, `Load`, `Finish`, `Abort`, and changes of the API |
| `MCIngestRun` | instances of `IngestRun` | sequences and functions a .cfg cannot write |
| `IngestRun_proofs` | theorems about `IngestRun` | |
| `QueryCache` | the `cached` wrapper with several threads | `cache`, `lock`, `pc` of each thread: `Call`, `Hits` or `Misses`, `GetItem`, `Query`, `QueryFails`, `Store`; `Publish`, `Tick` |
| `MCQueryCache` | instances of `QueryCache` | thread symmetry |
| `StaleReads` | what the cache promises a handler, without lock, entries or expiry | an answer is that of its own arguments, from a version at most so old |
| `QueryCache_proofs` | theorems about `QueryCache` | |
| `Matches` | the raw table of matches over the seasons, its staging and facts | `matches`; `Play`, `Disrupt`, `Replan`: the source publishes a match and the row is merged on id |
| `Marts` | head to head, streaks, form, cross-league averages, standings over time, and the queries on them | none of its own: each mart is an operator on the rows of `fct_team_matches` |
| `MCMarts` | the fixtures of the instance of `Marts` | |
| `Aggregates` | lemmas about maxima, row numbers and sums over finite sets of rows | |
| `Marts_proofs` | theorems about `Matches` and `Marts` | |
| `Warehouse` | the raw tables together, and the dimensions and facts over them | `seasons`, `scheduled`, `teams`, `names`, `players`, `scorers`, `standings` beside `matches`; one `Load...` per table; `Tables` = what a connection reads |
| `Queries` | every query of `warehouse/queries.py` | none: an operator each, on `Tables` |
| `Api` | the routes of `backend/routers`, and the pages made of their answers | none: a set of possible responses each |
| `MCApi` | the instance of `Api` | |
| `Api_proofs` | theorems about `Warehouse`, `Queries` and `Api` | |
| `NightlyData` | what a night promises to readers of the marts | `shown`, `night`, `alerted`; `Begin`, `Show`, `Succeed`, `Fail` |
| `NightlyPipeline` | scheduler, workflow, the two jobs with their retries, dbt's order of building | `raw`, `built` = versions; `Trigger`, `Extract`, `Load`, `RunTransform`, `Build`, `BuildFails`, `Retry`, `GiveUp`, `Finish` |
| `MCNightlyPipeline` | the models of the instance | |
| `NightlyPipeline_proofs` | theorems about `NightlyPipeline` | |

`ApiClient` extends `RateLimiter` and takes its `Acquire` and `SyncFromServer`
as they are; `ApiClient_proofs` shows that what is proved of the limiter holds of
the client's slots. `IngestRun` uses of the client only that a `get` ends with a
payload, a 404 or another exception. `Matches`, `Marts`, `Warehouse`, `Queries` and `Api` are one
chain of EXTENDS, from the rows the source publishes to the answer of a route.
`Warehouse` takes from `IngestRun` what holds after any completed run (a season
that a row names is loaded), `Api` from `QueryCache` that a handler gets the
result of its query on the marts of some recent moment, and `NightlyPipeline`
from `Marts` that a model is a function of its upstream tables.

**Time and arithmetic.** The limiter computes with floats. One token is
`Interval` credits and a tick refills one credit, so the model is exact where
the code rounds; rounding of floats is not modelled.

**Abstractions in `IngestRun`.** A season is a competition and a year; a match
or scorer row is reduced to the season it names, a squad to its players. Rows of
a table are tuples whose relevant key is `Key`. `RowsFrom` stands for the bodies
of the `iter_*` loops and `Read` for one step of any of them: a read through the
cache and the rows it yields. The code of `iter_seasons` reads a whole
competition before it yields; the model allows another generator between any two
reads, which only adds behaviours. A payload without a season object, and the
columns besides keys and references, are left out. A process that ends takes its
cache and generators with it, so their variables are reset; the rows of a
completed run are kept, as history, until the next one starts. An exception of
`get` and the death of the process are one action, `Abort`, at any point; a 404
that no generator suppresses would end the run as "failed". The rows of `players`
that a process has written, or was about to, when it died while loading are kept
as `torn`: they are the only ones `ClubHistoryKept` does not speak of.

**Abstractions in `Matches` and `Marts`.** A date is a number, a missing pair of
goals the empty sequence, a window function the set of rows in its frame, an
average a sum and a count. A sum over nulls only is `NullSum`, below every
number, as both warehouses order it. Every mart is a full rebuild from the same
rows (dbt_project.yml), so it is a function of them; in which order they are
rebuilt, and what an error leaves behind, is in `NightlyPipeline`. A table is that
of a league or of one of its groups: `FinalTableRight` compares a team with the
teams of its own. It states which matches the table is of, by their stage, without
the operators of the mart, so a knockout match that slipped into the sums would
violate it.

**Abstractions in `Warehouse`, `Queries` and `Api`.** The display columns of a
team are one name, old or new; a data frame is the set of its rows with the
columns that identify them, a sequence where its order matters, and a set of
pages where a `limit` may cut among equals. The rows of `dim_players` and
`dim_teams` carry `is_derived` as in SQL. A join that a dimension answers with no
row, or with two, loses or doubles rows in the model as it does in SQL; the lists
of scorers carry the name in the place of the crest they join. The standings of a
season may be loaded before its matches, which bring the teams that no squad lists:
until then the inner join of `get_standings` may lose some, so `LinksResolve` asks
for a whole table only once the season has matches. A list of scorers puts each row
where as many rows come before it. A response carries the rows as they are: what
`records()` and `record()` make of the values of a frame is left out (see *Not
modelled*). `get_team_assists` orders by assists and then matches,
where `get_top_assists` has the goals in between (queries.py:447-465, 394-420),
so the two may list equals differently; `LeadersAgree` compares the lists of
goals. `current_season` answers 500 for a competition without a season, since
None is not of the declared type.

**Abstractions in `NightlyPipeline`.** A raw table has the version of the source
it was read from, a model the oldest version it is made of. One attempt of the
ingest reads all tables before it loads any, as `pipeline.run` does, each at any
version since the attempt began, because the response cache may hold an earlier
payload of the same run; `loadedBy` remembers which attempt has loaded a table. A
table has one version: that the matches of a competition which lags a season
behind are not refreshed (football_data_source.py:112-115) does not show. One
attempt of the transform builds each model after those it refers to and stops below one that
fails. An attempt may be killed at any point. Two executions never overlap: one
night takes far less than the day between two triggers.

**External parts.** The server's quota, the API's content, dlt and cachetools
are modelled from how the code relies on them: dlt drains every generator before
it writes, writes table by table, keeps one row per primary key; a TTL cache
expires by its timer and, when it is full, may evict any entry; a clock never
runs backwards; the platform starts a failed task again, a fixed number of times,
in a fresh container; dbt skips what is downstream of a failure.

## Runs

| Run | Question | Instance |
|---|---|---|
| `rate_limiter` | Are slots paced, bounded per period, bounded by every reported count, and no later than needed? | 2 tokens, 2 ticks each; 4 slots, 2 corrections of 0, 1 or 3, time to 7 |
| `rate_limiter_period_cap` | Is a period capped at the capacity, as the README says? No. | the same |
| `api_client` | Does `get` pace, end, respect a spent window, and alone never give up? | 2 gets of 2 attempts, a window of 4 ticks in any phase with any use so far, latency 0 or 1 |
| `ingest_run` | One answer per URL, every season resolved, the newest one loaded; does a run complete unless it is aborted? | 2 competitions, 2 years, nightly run or backfill of both, 2 changes of the API anywhere |
| `ingest_reruns` | What do merges and replacements keep over runs, failures and crashes? | 2 competitions that share a team, 2 years, 1 player, 2 runs (nightly or a backfill of both years), a transfer, roll-over or table anywhere, 2 dates |
| `query_cache` | Locks never held long, right answers, bounded staleness under concurrency; is it `StaleReads`? | 2 threads, 2 calls, room for 1 entry, ttl 2, queries up to 1 tick, 3 versions of the marts |
| `query_cache_key_error` | Does a hit always return the cached object? No. | the same |
| `marts` | Are the marts what they are read as, and do they agree? | 4 teams, 6 matches in any order of play and correction, 1 of them postponed, interrupted, awarded or without a score; the form holds 2 results |
| `marts_add_up` | Are the matches of a pair its wins and draws, as the dbt test says? No. | the same |
| `api` | Do the raw tables fit together, do links resolve, now and after the next load, and do the pages and panels agree? | 5 matches in 3 seasons of 2 competitions (one relegated team, one team of the cup only), 2 players with one of 2 tallies each, a page of 2 rows, any 3 loads after a backfill |
| `api_most_recent_team` | Is a derived player at his most recent team, as the comment says? No. | the same |
| `nightly` | Do the marts only move forward and read what one attempt has loaded, is a failed night never silent, is it repaired? | 2 raw tables, 3 models, 2 attempts per job, 3 faults, 3 versions of the source |

*Why the bounds suffice.* The limiter's interesting cases need the bucket to
empty, go negative, be corrected and refill, all of which four slots and two
corrections produce with fractions of a token (interval 2); the theorems do not
depend on the bounds. The client's second attempt is the one that may fail
again, and two gets let the second inherit the debt and the spent window of the
first; the code's three attempts only make giving up harder. A capacity of 2 and
a window of 4 keep the ratio of the real values (capacity per window). In
`IngestRun` two competitions are the least that can disagree about the season or
list a player twice, and two changes allow a roll-over followed by a published
table. A backfill of both years followed by a nightly run of the newer one, in
`ingest_reruns`, is the least in which replacing a table would lose a season, and
two runs with a transfer between them the least in which a club is overwritten;
`RunEnds` needs one run only, with the table missing, published in between, or both.
In `QueryCache` one entry of room forces an eviction on every change of
argument, and time to 5 exceeds ttl and one query by two ticks, so an answer that
is too old is reachable if the code allows it. In `Marts` six matches give a pair
three meetings in both directions, a knockout match whose matchday repeats one of
the table phase, and a season boundary with a match in a group; a match moved behind the later ones, or
one that decides nothing, can stand at each place of a streak, a table and the
form, whose window of two is shorter than a team's season. In `Api` three loads are
the least that lets a season begin, its matches arrive and one of them be played,
or a player score for two teams and then join a squad; the cup's season id lies
between those of the league, as ids of different competitions do, and a page of
two rows is shorter than what there is to list. Two pairs meet twice, once at the
home of each, so a record counts under ids that are in either order; of the two
tallies the one with more goals has no assists, which puts a null at the cut of the
list. In `IngestRun` no instance runs
`teams`, which reads what `players` reads; the theorems cover it. In
`NightlyPipeline` two attempts and three faults let both jobs be retried, one give
up, and the next night fail as well; a mart behind a fact and a dimension beside
them are skipped or built independently.

*Fairness.* `ApiClient` assumes weak fairness of the steps of a `get` that has
begun: the client is one thread and `session.get` has a timeout (client.py:43,
60). Nothing obliges a caller to call. `IngestRun` assumes weak fairness of the
run's own steps, which rests on that: every read of the API ends. Neither the
API's changes nor crashes are fair. `RateLimiter` and `QueryCache` state safety
only; a Python lock is not fair, so no thread is promised its turn. `Matches`
states safety only as well: no match need ever be played; so does `Warehouse`.
`NightlyPipeline` assumes weak fairness of the steps of the two jobs and of the
trigger: Cloud Scheduler calls every night, each task has a timeout, and a fault is
never obliged to happen. `CatchesUp` counts on the bound of faults only in that
they end.

*Deadlock* is checked in `query_cache`, `marts`, `marts_add_up` and `nightly`. The other
instances stop when their
bounds (runs, calls, clock) are used up, and say so.

## What the runs found

- `rate_limiter_period_cap`: a full bucket and the refill of the same period
  give up to 2 * capacity - 1 requests in it (19 a minute in production), where
  `README.md:76` and `rate_limiter.py:3` speak of a cap of 10 a minute. The
  client lives with it: a 429 empties the bucket and is waited out.
- `query_cache_key_error`: `key in cache` and `cache[key]` (caching.py:67-68)
  read the timer separately; an entry that expires between them makes the hit
  raise `KeyError`, where caching.py:10-11 promises the cached object.
- `marts_add_up`: a match awarded without a winner, or finished without a score,
  counts in `matches_played` and in nobody's wins or draws; `_marts.yml:269-271`
  tests that they add up, so such a match fails `dbt build`.
  `mart_cross_league_stats.sql:44` says that awards without a winner occur.
- `api_most_recent_team`: `dim_players` keeps the scorer row with the highest
  season id, "their most recent team" (dim_players.sql:26-27); ids of different
  competitions are not in the order of the calendar, as queries.py:509-511 says.
- Not a run: a team whose only results so far are awards has a null goal
  difference, which places it behind teams with a negative one.
  `FinalTableRight` leaves these tables out.

## Proofs

`RateLimiter_proofs` proves, for every capacity and refill interval (positive
integers, `BucketAssumption`), every set of counts a server may report
(`AvailableAssumption`) and without the bounds of the instance:

- `TypeCorrect`, `ServerCountIsRespected`, `BurstIsBounded`: the run's
  invariants; `DelayIsBounded`: its action property;
- `ImplementsPacedStarts`: the limiter implements `PacedStarts`.

None of them is inductive by itself: the balance at one moment says nothing of
slots handed out earlier. The inductive invariant `IInv` ties the balance to the
histories: the balance, as it would be after a refill now, is bounded by what the
last slot leaves (a slot in the future is a debt of exactly that size), the slots
are spaced as a bucket of `Full` credits allows, and each reported count bounds
the balance by the count, the refill since and the slots reserved since.
`InitIInv`, `TimePassesIInv`, `AcquireIInv` and `SyncIInv` show that it holds at first
and is kept by each action; `RefillBounds` and the `Tokens` lemmas are the
arithmetic they share. `BurstIsBounded` is a pigeonhole argument over the first
slot of a period (`LeastNatural`), with the cardinality facts of the library.

`ApiClient_proofs` proves every safety property of the client, for any bucket,
quota, window, latency and use of the token by others: `ClientTypeCorrect`,
`SlotPerRequestHolds`, `PacedWithinOneIntervalHolds`; and, if the back-off without
a header lasts at least a window (`LongBackOff`; both are a minute in production,
client.py:13-14), `NeverRetriesSpentWindowHolds` and, with two attempts or more
(client.py:42: three), `AloneNeverExceedsHolds`. `Steady` is the invariant that
needs no such hypothesis: slots and requests match, and the balance is negative
only while the client sleeps for its slot. `Outwaited` says that the sum of the
time and of the back-off that is due reaches the end of the last spent window,
`RejectedOnce` that a lone client is past its first attempt only after it has
waited a window out, so the server's count starts afresh. `ClientBurstIsBounded`
and `ClientRespectsServerCount` carry the limiter's theorems over to the client,
whose clock jumps: `LimiterStep` shows that each of its steps is an operation of
the limiter or time that passes.

`QueryCache_proofs` proves, for any number of threads and arguments, any size and
ttl and any duration of a query: `TypeCorrect`, `LockIsBriefHolds`,
`LockGuardsEntryHolds`, `StalenessIsBounded` and `ImplementsStaleReads`.
`LockIsBrief` and its converse `LockHeld` tie each lock to the thread that reads
under it; while it does, no other thread can store. The rest of the invariant says
how old each entry and each result under way is: an entry was
queried no longer ago than the duration of a query before it was stored, and it
expires ttl after that. The refinement maps a thread to the call it has open.

`IngestRun_proofs` proves every safety property of `IngestRun`, for any sequence
of competitions, any years, entrants and players, any subset of the resources and
any lists of backfilled seasons (`IngestAssumption`): `TypeCorrect`,
`OncePerUrlHolds`, `SeasonsResolveHolds`, `NewestSeasonLoadedHolds`,
`ClubObservedHolds`, `HistoryKeptHolds` and `ClubHistoryKeptHolds`, and the safety
half of `RunEnds`: `MissingTableNeverFails`, a run that has its seasons never ends
as failed by itself, because the one URL that is answered with a 404 is read by the
two generators that go on (`OnlyTablesMissing`). The properties speak of completed runs, so the invariant follows a run through its stages. While
it extracts, each URL a generator wants is either still to be read or is in the
cache with all its rows yielded (`ReadYielded`), and each row yielded comes from a
URL that is in the cache (`YieldedRead`); `SeasonsReadsAll` shows that the reads of
`iter_seasons` include those of matches, scorers and standings. When everything is
read these facts turn into inclusions between the rows (`SeasonsIncluded`,
`SquadsAgree`, `PromiseRead`), and `Written` carries them into each table as it is
loaded. `OnRecord` says that a player's club is observed, or will be before the
run ends; it is what a crash between two tables breaks, for the rows that the dying
process has itself written, hence `torn`.

`NightlyPipeline_proofs` proves, for any tables, any graph of models and any
number of attempts and faults: `BuiltFromWholeLoadsHolds`, and
`ImplementsNightlyData`, that the nightly run implements `NightlyData`. The
invariant says that what the ingest has read is no older than the night, that what
it has loaded is what it has read, that this attempt has loaded it and, once the
transform runs, one attempt has loaded everything (`LoadedOnce`), and that a model
that is done is as new; nothing is newer than the source.

`Marts_proofs` proves every invariant of `Matches` and `Marts`, for any fixtures,
any scores a match may end with and any number of matches that are moved, awarded,
interrupted or left without a score (`FixturesAssumption`): `MatchesTyped`,
`StreaksAreRuns`, `HeadToHeadIsTheMatches`, `StatsAreConserved` and, in a calendar
where the seasons of a competition follow each other (`SeasonsInOrder`),
`FormLettersEndInStreak`; in one where a team has one match per matchday of a
table (`OneMatchPerMatchday`), `FinalTableIsTheTable`. The two hypotheses are about what football-data.org
publishes: no code of the repository enforces them, the unique keys tested in
`_marts.yml` rely on the second, and TLC evaluates both for the instance.

`TypeOK` is inductive here; the work is in the marts, which are functions of the
rows. Induction over data is out of the prover's reach where it needs a predicate
as a parameter, so `Aggregates` does it with sets: `LeastSet` finds in a family of
subsets of a finite set one that holds no other, by the library's theorem on
well-founded orders, and `SetInduction` follows with the family of the sets for
which a fact is true. From these come that maxima exist, that every number up to
the count of the rows is the row number of one row (`RowNumbers`), and that a sum
can be taken apart, renamed and grouped (`SumUnion`, `SumRenamed`, `SumByGroups`).
A streak is proved in the form the SQL has: the difference of the row numberings
is constant exactly between two rows with no other result in between
(`SameIsland`), hence an island is a run (`IslandsAreRuns`) and every run lies in
one (`RunsAreInIslands`). The head to head follows from the four cases of a staged match
(`ResultByWinner`: the winner the source names is the side with more goals, or it
names none), the averages from grouping the same rows twice. For the final table,
the frame of a team's row on the last matchday holds all its rows (`LastDayIs`,
`LastSumsAreTally`), and the rows on the last matchday are one per team, so a
place among rows is a place among teams (`PlaceAmongTeams`).

`Api_proofs` proves every safety property of `Api`, for the same fixtures, any
players, any set of tallies, any page size and any number of loads:
`WarehouseTyped`, `LinksHaveAnAnswer`, `LinksStay`, `CurrentSeasonsAgree`,
`ListsOfScorersAgree` and, in a calendar where a team plays one match at a time
(`OneMatchAtATime`), `FormTabShowsTheLetters`. The inductive invariant is
`WarehouseTypeOK`, which a run checks as well: rows refer to loaded seasons, a
scorer has one row per season, the table of a day is whole. The pages need these
facts because their joins do: with a season that is not loaded a join drops the
row, with two rows per scorer it doubles it. That a left join adds no row to the
lists of scorers is `AtMostOneName` and `OneRowPerScorer`. `LinksStay` is about a step; it
follows from what holds before and after it (`LinkFacts`) and from what a load
never takes away (`NothingIsLost`). The form letters and the form tab are two
selections from one list of a team's matches, each read from its end
(`EndsOfOneList`). The two lists of scorers are compared by places: the row at a
place is the one with as many rows ahead, and a rank is never above the place.

The invariants were found or strengthened with TLC first: they hold in the runs'
instances. The proofs also changed the statements: `FinalTableRight` is true of
each group and not of a competition with groups, whose rows are ranked per group
(mart_standings_over_time.sql); the form letters and the form tab agree only if
no team has two matches on one day, which the letters order by match id
(mart_team_form.sql:13) and the tab by the time of kickoff (queries.py:936). The
branches of `Normalised` that place the winner on a side of the pair overlapped in
the model, and exclude each other now.

Only model-checked: liveness (`GetEnds`, `RunEnds`, `CatchesUp`), which is out of the
prover's reach under fairness; `PanelsAgree`, for which no theorem is stated; and the
violations above, which are counterexamples.

## Not modelled

- Serialization: `records()` and `record()` copy a frame into lists and dictionaries;
  whether the values BigQuery returns (`pd.NA`, numpy scalars) then become JSON is
  called unverified by serialization.py:12-17 itself, and depends on libraries
  outside the repository. The models say which rows a response has, not how its
  values are written.
- Floats, schema inference and column types, formatting, logging, CI and
  dashboards, maintenance scripts.
- The frontend. Each component holds the selections of one user, shares nothing
  but react-query's cache, which is keyed by the arguments of the request, and its
  dialogs are modal: a selection is reset when the dialog closes, before it can
  meet another competition. What the pages are made of is in `Api`.
- The health check, CORS and the fallback to the single-page app: configuration.
- Executions of the nightly run that overlap, or a backfill by hand during one:
  nothing in the repository starts them, and dlt's behaviour then is unknown.
- The staging models other than matches, which rename and cast, and `dim_date`.
- Two instances of the service: each has a cache of its own, and nothing promises
  that a user who meets both sees the marts only move forward.
