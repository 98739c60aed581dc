# pgreport: a verification project in TLA+

`pgreport` is a command line tool that asks a PostgreSQL server for statistics,
plans and health scores and prints what it makes of them. It changes nothing in
the server but hypothetical indexes (HypoPG), and keeps one file,
`~/.config/pgreport/config.toml`. Paths below are relative to
`src/src/pgreport/`.

## The system

| Component | Code | State | Operations | What is hard | What makes it right |
|---|---|---|---|---|---|
| Source registry | `utils/config.py`, `source` group of `pgreport_cli.py` | `config.toml`: sources, active source | add, rm, use, ls, the load of every command | several processes on one file, no lock, a save that truncates first, a prompt between read and write | the active source is one that is listed; names are unique; the file can be read again |
| Process, connection, REPL | `pgreport_cli.py`, `utils/connection.py`, `DbConnPool` and `execute_query` in `utils/sql_driver.py` | `CliState.conn`, the psycopg pool and whether it is valid | connect, time out, query, reconnect, disconnect, a line of the REPL, Ctrl-C | cancelled connects, swallowed errors, one callback per REPL line | all pools closed at the end; nothing runs unconnected; each command ends |
| Hypothetical indexes | `utils/hypopg_service.py`, `explain`, `recommend_indexes`, `hypothetical_index` in `core/performance.py`, the loops of `utils/index_advisor.py` | the HypoPG state of each backend, `_status_cache` | check, create, explain, drop, reset, hide | state kept by a backend, queries spread over a pool, failures between create and drop | two plans that are compared differ by the indexes asked for; what is created is removed |
| Health score | `core/health.py`: `health_check` | the report while it grows | nine checks, the mean | thresholds, NULL and 0, a critical check among good ones | scores in range and monotone; what is bad has an issue |
| Read-only transactions | `execute_query`, `_execute_with_connection` in `utils/sql_driver.py` | the connections of the pool and their transactions | BEGIN, query, ROLLBACK or COMMIT, reconnection | statements that fail with or without the connection, texts of several statements, connections lost in the pool, a COMMIT whose answer is lost | nothing is left for the pool to commit; what is forced read-only is refused where it writes, until its own text ends the transaction |
| Index advisor | `utils/index_advisor.py`, `recommend_indexes` | none | extract columns, score, filter | filters over missing improvements | recommendations are not lost |
| Bloat rules | `table_bloat`, `index_bloat` in `core/maintenance.py` | the report while it grows | list, measure one by one, judge, filter, sort | failures in the loop, thresholds repeated in four places | nothing is lost; the worst is listed, first; advice and severity agree |
| Vacuum reports | the other reports of `core/maintenance.py` | none | statuses, LIMITs, all in SQL | order before a LIMIT | the worst is what is kept |
| Plan, table and I/O analysis | `core/performance.py` | none | recursive walk of a plan, ratios | 0 taken for "no value" | a worse reading never looks better |
| Index health | `index_health` in `core/health.py` | three answers about the catalog | read invalid, unused, pairs; advise | the catalog changes under it, statements are executed one by one, some or all | what an index covers stays covered; who executed all statements has to ask again only for what one of them failed to do |
| Wraparound | `wraparound_risk` in `core/health.py` | none | statuses, in SQL | CASE branches in order | every status can be given |
| Sessions, replication, output | `core/session.py`, `core/replication.py`, `utils/formatting.py` | none | one query, returned as it is | – | – |

The group callback `cli` ties them together: it loads the registry, resolves
the URI, opens the connection and runs the command, whose analyzer is made anew
each time and asks its queries one by one through `SqlDriver`. Nothing runs
concurrently within a process but the workers of the psycopg pool; what several
processes share is `config.toml` and the server. With `--database-uri` the callback
does not load the registry; the subcommands of `source` do.

`PROJECT.json` lists every hazard found, at its line, with the properties that
cover it, or why none does.

## Modules

| Module | What it is |
|---|---|
| `SourceRegistry` | abstract specification: a registry whose operations are atomic |
| `SourceConfig` | `config.toml` and the processes that load, change and save it; implements `SourceRegistry` |
| `SourceConfigProofs` | theorems about `SourceConfig`, that it implements `SourceRegistry` among them |
| `CliSession` | one process: connection, queries, REPL, closing |
| `CliSessionProofs` | theorems about `CliSession` |
| `HypoIndex` | the commands that use HypoPG, query by query |
| `HypoIndexProofs` | theorems about `HypoIndex` |
| `HealthScore` | the checks of `health-check` and their mean |
| `HealthScoreProofs` | theorems about `HealthScore` |
| `QueryPromise` | abstract specification: what `execute_query` promises its callers |
| `ReadOnlyQuery` | `execute_query` statement by statement; implements `QueryPromise` |
| `ReadOnlyQueryProofs` | theorems about `ReadOnlyQuery` |
| `BloatRules` | severity and advice from the numbers of pgstattuple and pgstatindex |
| `BloatScan` | one `table-bloat` or `index-bloat` command; uses `BloatRules` |
| `BloatScanProofs` | theorems about both |
| `IndexHealth` | `index-health`, and its statements executed while others work |
| `IndexHealthProofs` | theorems about `IndexHealth` |
| `CommonTheorems` | least elements and sums over finite sets, for the proofs |
| `MC...` | values and bounds for TLC |

Definitions ending in a bug (`RemovedKeepsActive`, `ConnectTimedOutForgets`,
`CheckLocksSilent`, ...) are variants that no specification uses. Each changes
one definition the way a mistake in the code would, and shows that a property
notices.

### SourceConfig

`file` is `config.toml`: missing, empty, a text that parses to a configuration,
or one that does not parse. A process goes through the steps of `source add`, `rm`,
`use` or `ls`: `Invoke` (the load of the group callback) or `InvokeWithUri` (with
`--database-uri` the callback does not read the file), the load and the check
of the subcommand (`RunAdd`, `RunRemove`, `RunUse`, `RunList`), the prompt
(`Pick`, `Cancel`), `Truncate` and `Write`. `Path.write_text` opens with
truncation and then writes at offset 0 of its own descriptor, so two saves can
leave the longer text's tail behind the shorter text (`Landed`): whole `[[sources]]`
blocks, or a broken line before them (`Tails`; of a text that does not parse the model
does not know what its tail is, so it may be any blocks). `Kill` ends a process
anywhere. A string with a quotation mark makes a text that does not
parse, since `_save_config` puts strings between quotation marks as they are.
`WedgedForever` says what that means: with nobody about to write, the file stays
as it is, and no command that reads it succeeds. A diagnostic command behind
`--database-uri` does not read it and runs; a `source ls` that printed its list
before can still be cancelled or answered with the active source.

`SourceRegistry` is what a user expects: each operation happens at once.

### CliSession

`pools[i]` is the psycopg pool of the `i`-th `ConnectionManager` of the process,
`held` the one `state.conn` has, `driver` whether it has a `SqlDriver`. `Launch`
and `Line` are the group callback, `Connected`, `ConnectFailed` and
`ConnectTimedOut` the three ends of `ConnectionManager.connect`, `Query` is
`execute_query` with its reconnection, `Disconnect` the closing of the click
context, which in a REPL happens once, at its end. The commands themselves are
a number of queries (`left`); an analyzer may go on after a failed one.

Lines of the REPL are parsed in the context of the process. Whether they still
see its `--database-uri` depends on click (8.3.1, the locked version, keeps the
first value of a parameter in a context, earlier ones do not), so `Line` allows
both. Lines without a subcommand, which would nest a second REPL, and a
kill, after which the system closes everything, are left out.

### HypoIndex

`sessions` is the queue of ready connections; each is a backend with the
hypothetical indexes created in it and whether a real index is hidden. A query
takes the head of the queue (`Mine`) and puts it at the back; one that fails
either leaves its connection, or marks the pool invalid so that the next one
opens a new pool (`Failed`, `Ready`). `Grow` is the pool adding a connection.
Queries are actions of their own, named for what they ask. A plan is what
the planner of a session goes by: its hypothetical indexes and what it hides.
`planned` marks the backend that made the plan without indexes; `strayed` records that
an index of the comparison, or its other plan, was asked of another backend.
Specifications are opaque values; those of `BadMethod` are refused by
`create_index` before any query. The advisor's candidates times queries are
one sequence of specifications.

`Spec` has every interleaving. `Isolated` says that the two plans of a report differ by
the indexes asked for. The code does not keep it: `hypo_spread` shows a comparison that
strays to a second backend. `IsolatedAtHome` says that this is the only way to break it: in
a pool of any size, whatever fails and whichever connections are lost, a comparison that
did not stray is isolated. `SteadySpec` leaves out connections lost between the two plans,
under which `Isolated` itself holds on one connection (`hypo_steady`).

### HealthScore

Each `Check...` operator is one `_check_...` method: from what its queries
answer to a score and the levels of the issues it adds. `Check` makes the next
one, `Fail` is a query that raises, `Report` the mean and the status. `OrZero`
and `OrHundred` are Python's `value or 0` and `value or 100`. Percentages are
whole numbers, as every threshold is: one that is bad above its threshold is rounded up,
one that is bad below it is rounded down, though not to 0, which `or` would take for no
value; neither rounding crosses a threshold. `max(0, score)` is left out because it never bites, which is a theorem.

### ReadOnlyQuery

`conn` has the transaction status of each connection of the pool, `free` those
in it, `held` the one the query has. `Ask` is the entry of `execute_query`;
`Reconnect` is `DbConnPool.reconnect`, which closes the old pool; `CheckOut` and
`TimeOut` are the two ends of `pool.connection()`; `Begin`, `Execute`, `EndText` and
`Finish` the statements; `Rollback` the except block; `Leave` the end of the `async with`
with the two except blocks around it. `Drop`, `Grow` and `Kill` are the server, the
pool's workers and the operating system.

Any statement may be answered by an error (`FailsIn`) or not at all (`Loses`), `BEGIN`,
`COMMIT` and `ROLLBACK` included. An error of the `BEGIN` can leave a failed transaction
that nothing rolls back, because `transaction_started` is still false; `Leave` is where
psycopg does it. A text is a sequence of statements that read, write or commit, of which the
server has made the first `made`, since a query without parameters is one message that may hold
several. Behind a `COMMIT` of its own the text runs in a transaction of the server's
(`Bare`), neither read-only nor the driver's, which `EndText` commits. When a connection is
lost in the middle of a text the server may get further before the process
notices: that is the same behaviour with the loss at a later step.

What is taken from psycopg: it does not look at a connection before it hands it out;
it opens a transaction before the first statement, and that may fail on its own; at the end
of `async with pool.connection()` it commits, or rolls back after an exception, what is still
open; the pool drops a connection that is lost; some errors of statements (a lock
timeout, a full disk) are `OperationalError`s too. No caller in the source passes
`force_readonly=False`, or a text with a `COMMIT` in it; the model has both, as the signature
and the `nextset` loop have.

`QueryPromise` has three variables, `query`, `effect` and `answer`: a read-only query
is refused where it writes and has no effect, unless its own text ends the transaction before it
writes; any other has its effect once and before "ok"; after an error it may have had it, since
a COMMIT can arrive whose answer does not.

This module is what allows `HypoIndex` and `CliSession` to take a query as one step.

### BloatRules and BloatScan

`BloatRules` has the four places that know thresholds: the severities, the advice
for one relation, the marks a schema's advice counts, and the density of an index
with its `or 90`. Percentages are whole numbers, as every threshold is. `NaN` is
what `pgstatindex` says of an index without leaf pages.

`BloatScan` is a command: `Check` (is pgstattuple there), `List`, one of
`MeasureTable`, `MeasureIndex`, `MeasureSchemaIndex`, `Fail` and `Vanish` for
each relation, `Finish` (filter, sort, report). The loop of the code goes by size;
the model takes relations in any order, since the sort at the end is all that remains of it.
`Rankings` are the orders a sort may leave. `measured` keeps what each reading was,
to compare the report with. The five kinds of scan differ in what a
failure does: an error row (tables of a schema, indexes of a table), nothing at
all (indexes of a schema), the end of the command (one relation).

### IndexHealth

`ReadInvalid`, `ReadUnused` and `ReadPairs` are the queries of `index_health`; each
reads `catalog` as it is then, and adds its statements to `todo`. `Other...` are
other sessions, at most `ChangeBound` times. Then `Follow` executes one statement of
the report at a time, in any order and for as long as the user likes: it is
`Reindexed`, `Removed` or `Refused`. PostgreSQL may refuse any of them (duplicates in what is
to be a unique index, an index attached to another, no lock, no leave), and never drops what a
constraint rests on. An index that is built anew gets another size, so one that was too small
to be listed may be listed then. What a statement about the index of a partitioned table does
to the indexes of its partitions is left out. `seen`, `lost`, `quiet`, `followed` and `vain`
are history, for the properties. An index has what the queries ask about it,
`columns` being what `array_agg` makes of `indkey`: expressions are not in it,
included columns are. `pkey` says that the name ends in `_pkey`, the code's test, which is
apart from `constraint`.

## Runs

| Run | Checks | Shows | Bounds |
|---|---|---|---|
| `shared_file` | `TypeOK`, `ActiveIsListed`, `WedgedForever` | two processes over one file, at every step, killed anywhere: a file that parses names a listed active source; one left in a state that does not stays so, and no command that reads it succeeds but an open prompt | 2 processes, 3 names (one quoted), 1 DSN, 2 sources |
| `serial_user` | `UniqueNames`, `ImplementsRegistry` | one change at a time, prompts left open: the file implements the atomic registry | 2 processes, 3 names (one the empty alias), 3 sources |
| `quoted_alias` | `SavedIsToml` violated | an alias with a quotation mark wedges every later command that loads the file | 1 process, 2 names (one quoted), 2 sources |
| `cli_session` | `TypeOK`, `ClosedAtExit`, `NeverNotConnected`, `InvocationEnds` | a command closes what it opened, never runs unconnected, and ends | 2 URIs, 3 connections of a REPL, 2 queries |
| `hypo_pool` | `TypeOK`, `IsolatedAtHome`, `CleansUp`, `CommandsEnd` | failures and lost connections anywhere: a comparison that stayed with one backend is isolated, what is created is sent for removal, and every command ends | 3 connections, up to 3 of 3 specifications, one of which is refused |
| `hypo_steady` | `Isolated` | on one connection two plans differ by the indexes asked for | 1 connection, up to 3 specifications |
| `hypo_spread` | `Isolated` violated | with a second connection they need not | 2 connections |
| `hypo_hidden` | `HiddenStaysHidden` violated | a hide is gone with the command that made it | 1 connection, 1 specification |
| `health` | `TypeOK`, `LossesExplained`, `StatusExplained`, `WorseNeverScoresHigher` | scores, issues and status for all combinations of readings | both sides of every threshold, NULL and 0 |
| `query` | `TypeOK`, `NothingToCommit`, `ReconnectsAfterLoss`, `KeepsPromise`, `QueryEnds` | failures at every statement with and without the connection, kills: nothing is left for the pool to commit, and the promise is kept | 2 connections, 8 texts of up to 3 statements with a COMMIT before, behind or between what they write |
| `bloat` | `TypeOK`, `NothingLost`, `CriticalIsListed`, `RankingSound`, `SummaryAddsUp`, `AdviceMatches`, `ScanEnds` | every kind of scan, with failures: nothing lost, the worst first, and rules that agree | 2 relations, readings on both sides of every threshold, 4 values of `--min-bloat` |
| `index_health` | `TypeOK`, `CoverKept`, `AdviceSuffices`, `ScoreTells` | statements executed in any order and number, each of which may fail, while others change the catalog | 3 indexes of 13 kinds, rebuilt to size 0 or 2, 2 statements of a kind (the code has 5), 1 change by others |

Why the bounds are enough: two processes are the least that interleave, and no
step of a process looks at more than one other's effect; a third line of a REPL does nothing a second does not, nor
does a third connection of a pool to a query; to a comparison it is another backend that is
neither the first nor the second, and there are three in `hypo_pool`; texts of three
statements have a write before and a write behind a `COMMIT`; two queries are one that invalidates the pool and one that has to
reconnect; three specifications are a first, one in between and a last one.
For `HealthScore` and `BloatScan` the readings are those next to each threshold, and
two relations are the least that a report can put in an order. Three indexes make a
chain of pairs (the first covers the second, which covers the third), more than the
limit of two statements lets through; one change by others is enough to undo each
step. The theorems below do without these bounds.

Symmetry is used only where safety properties are checked: over the processes, which
are interchangeable, in `SourceConfigShared.cfg` and `SourceConfigSerial.cfg`.
Deadlock is checked in every run, where a process that is done may always start
again, but in `bloat` and `index_health`: their one command ends.

### Fairness

`CommandsEnd` and `InvocationEnds` assume that a query or connection that is
under way ends, well or badly (`WF_vars(Step)`): psycopg gives an answer or an
error, `connect` has a timeout of 10 s and a pool gives up after 30 s. A server
that never answers a query would break it; pgreport sets no `statement_timeout`.
`QueryEnds` assumes the same of each statement of a query (`WF_vars(Step)` of
`ReadOnlyQuery`), whatever the server drops meanwhile, and `ScanEnds` of each query of
a scan (`WF_vars(Next)` of `BloatScan`, which has no step but the command's).
`IndexHealth` has no fairness: nobody has to follow advice.
Nothing is assumed of the user: typing, `Ctrl-C`, other processes and the pool's
growth are not fair.

## Findings

- `quoted_alias`: `utils/config.py:41` saves strings unescaped, though the
  function claims to write TOML.
- `hypo_spread`: `core/performance.py:542` may plan in a backend that
  has none of the hypothetical indexes.
- `hypo_hidden`: `core/performance.py:1190` reports a hide that ends with the
  command.

Met while reading and not the subject of a run: each line of the REPL replaces the
connection of the process without closing the one before (`pgreport_cli.py:83`;
`ClosedAtExit` is stated of single commands for this reason); the mean of the
health check averages away one critical check among nine (`core/health.py:227`);
an index of a schema that cannot be measured is passed over in silence
(`core/maintenance.py:1108`); the advice for one index says `REINDEX` in schema
`public` whatever its schema (`core/maintenance.py:1173`, the info has no `schema`); an
empty table has "moderate" bloat and the advice "minimal"; the help of the bloat
commands speaks of the "top 10" (`pgreport_cli.py:584,599`) where the code takes
all tables and 50 indexes; `index-health` never says `related`, although
`optimize-indexes.md:20` does, and may advise to drop an unused index together with
the one it covers; `_parse_index_spec` reads `unique`, which `explain` does not pass
on (`pgreport_cli.py:140`); without a source the process exits, although
`SKILL.md:23` speaks of libpq defaults (`pgreport_cli.py:124`); the banner of the
REPL names the database of its first connection (`pgreport_cli.py:785`); a unit
such as "4kB" counts as bytes (`core/health.py:396`); `or 100` in
`core/health.py:590` takes no timed checkpoints for all of them;
`core/health.py:40` has a branch that is never taken; the health check reads
columns that PostgreSQL 17 no longer has; `recommend-indexes` drops all its
recommendations when HypoPG is missing (`core/performance.py:1035`); the sort
orders in `core/maintenance.py:111,433` put the worst tables behind the LIMIT.
Most are in the hazards of `PROJECT.json`.

## Proofs

All proofs are checked by TLAPS to the last leaf; they rest on the assumptions on
the constants alone, which TLC evaluates in each run.

- `SourceConfigProofs`: `TypeCorrect`; `ActiveAlwaysListed`: whatever the file
  parses to names a listed active source; `NamesStayUnique`, for one change at a
  time. The file alone is not inductive, because a process writes what it read
  earlier: the invariant also says that what a process that is changing the file
  has in memory is well formed. A shorter text written over a longer one stays whole
  at the front, so its active source is listed whatever follows (`LandedGood`).
  `WithoutLeaves` says what `remove_source` keeps. `CorruptStaysCorrupt` proves
  `WedgedForever`: while the file does not parse nobody comes to a change of it, with or
  without `--database-uri`, and each way a command can end is an error but that of an open
  prompt.
  `RegistryImplemented`, the refinement to `SourceRegistry` for any
  number of processes, of strings that read back as they were written (`Plain`). A
  change is made where its save truncates the file: from there to the write the table
  is what the process is about to write. So the invariant adds that a
  process about to save holds its subcommand's change of the file as it is, which
  only holds because nobody else changes it meanwhile. Without `Plain`, or with
  two changes at a time, it is not the registry that is implemented.
- `CliSessionProofs`: `TypeCorrect`, `AllClosedAtExit`, `AlwaysConnected`.
  `ClosedAtExit` speaks of the end only, so the inductive invariant `Custody` says
  who has which pool at every step: a single command has no open pool but the one
  it holds, it holds one while it connects and runs, and nothing at the end.
  `CommandWindsDown`: `WorkLeft`, a natural number, falls with every step.
- `HypoIndexProofs`: `TypeCorrect` for any commands and size of pool;
  `ComparisonIsolated` proves `IsolatedAtHome`, also for any pool and any losses: its
  inductive invariant relates what is made and still to be made to what was asked
  (`Tally`), and the plan before to what the marked backend has now (`Home`, `Added`): one
  backend at most is marked, wherever it is in the queue, and while the comparison has not
  strayed it has the indexes it had then and those made since, whose numbers set them
  apart (`InOrder`). `CreatedIsSentForRemoval` is for any pool:
  its invariant says where a command may hold an index it made. `CommandsWindDown`
  counts the queries a command can still make, at most ten for each specification
  and twelve more: every step leaves fewer.
- `HealthScoreProofs`: `TypeCorrect`, `AllLossesExplained`, `ScoresAreMonotone`
  for every reading of a server. Each check has a lemma of its own; the invariant
  adds that a score is the verdict on what was read last (`LastJudged`).
  `EveryStatusExplained`: a report can only be below healthy when its scores lack more
  than a fifth, so each check has a bound on what it takes off without an issue, at
  most 40 points in all (`SilenceBounded`); that needs every check to have been scored
  at the report (`AllScored`). `StatusIsMonotone` compares whole servers: the invariant
  `Traced` says that the scores are those of one server, and the mean cannot turn around
  what each check has in order, nor can the check that may have nothing to score.
- `ReadOnlyQueryProofs`: `TypeCorrect`, `TransactionEnded`, `NewPoolAfterLoss` and
  `PromiseKept`, for any number of connections and texts of any length. That there is nothing
  left to commit needs which status the held connection can have at each statement, and
  that `started` says whether there is a transaction to roll back; the promise needs
  in addition that a read-only query is in a transaction that can write only behind a
  `COMMIT` of its text, and what of the text has been made. The
  refinement is proved step by step: every action of the code is one of the promise or
  leaves its three variables alone. `StatementsMadeOnce`: `StatementsLeft` falls with
  every step.
- `BloatScanProofs`: `TypeCorrect`, `EverythingAccounted`, `CriticalShown`,
  `RankedByBloat`, `AdviceAgrees`, for any relations and readings. The invariant of the
  loop says that each relation that had its turn has its row, or one of the reasons
  for not having one, and that a row is what the rules make of a reading; the rest are lemmas
  about the rules alone: scores are monotone, and a severity bounds the numbers from below.
  `SummariesAddUp`: after each relation the sums are those of what has been measured
  (`Tallied`; a relation counts once because it has its turn once).
  `ReportAlwaysPossible`: finitely many rows have an order by their key, however many
  tie. `ScanShrinks`: every step leaves fewer queries.
- `IndexHealthProofs`: `TypeCorrect`, `CoverStays`, `NothingRemains`, `ScoreIsOfAdvice`,
  for any indexes. `CoverStays` takes, of the indexes that cover one, the one with the
  smallest name: no pair drops it, since the second of a pair has a larger name than the
  first, which covers what the second does. So it is there, or was dropped for another reason.
  `NothingRemains` carries along which statements are still open: what is left of the
  report's findings is accounted for by a statement that is still to be executed or was in vain.

- `CommonTheorems`: what the sums of `HealthScore` and `BloatScan` are, and what
  they do when an element comes or goes. The library's rule of induction cannot be used here:
  each proof takes a smallest set for which the claim fails, and so finds none.

Only model-checked: `CommandsEnd`, `InvocationEnds`, `QueryEnds` and `ScanEnds`, since
liveness is out of the prover's reach. What it rests on is half proved: a natural number
falls with every step (`CommandsWindDown`, `CommandWindsDown`, `StatementsMadeOnce`,
`ScanShrinks`), so a command cannot go on for ever. That there always is a step, and that
fairness takes it, is left to TLC, but for the one step whose guard is not obvious, the
report of a scan (`ReportAlwaysPossible`).

## Not modelled

- Text: formatting, wording, help, JSON envelopes and the obfuscation of URIs.
- SQL: queries stand for what they may answer. `wraparound_risk`, the reports on
  freeze, vacuum and autovacuum, sessions and replication, and `list-indexes` are one query
  each, whose decisions are in its text; the code returns the rows. Those of their
  decisions that look wrong are among the hazards.
- `_analyze_node`, `_extract_columns` and the scoring of `recommend-indexes` work on
  plans and on the text of queries, which the models keep opaque.

## Plan

What is left, in order of weight:

1. `IndexAdvisor`: candidates, the loop of `analyze_queries`, scoring and
   `min_improvement_percent`; abstract specification: the best candidates that
   were tested. Run: recommendations without HypoPG.
2. `PlanAnalysis`: `_analyze_node` over bounded plans against a definition by
   quantifiers.
3. The statuses and LIMITs of the vacuum and wraparound reports, as functions of rows.
