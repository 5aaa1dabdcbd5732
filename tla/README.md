# xContext in TLA+

TLA+ models, TLC runs and TLAPS proofs for the xContext control plane
(`src/services/api`), the part of xContext that takes tool output, redacts and
compresses it, stores the evidence per tenant and workspace, and gives it back
through `ctx://` references, and for the MCP server (`src/services/mcp`) that
runs an agent's commands and ingests their output.

Contents: 1 the system, 2 the modules and how they correspond to the code, 3 the
runs, their bounds and the fairness, 4 the proofs, 5 where code and documents
disagree, 6 what is not modelled, 7 the plan.

## 1. The system

| Part | Source | State | Operations |
|---|---|---|---|
| Service | `services/api/internal/service/service.go` | none of its own; every request is a goroutine with local copies | Ingest, Retrieve, Session, Objects, Object, Redactions, Search, Usage, CreateAPIKey, RevokeAPIKey |
| Memory store | `internal/store/store.go` | five maps and slices under one `RWMutex`; lost with the process | the `Store` interface |
| Postgres store | `internal/store/postgres.go`, `migrations/` | five tables, shared by all replicas | the same; CommitIngest is one transaction, the rest single statements; Migrate under an advisory lock |
| Context references | `internal/contextref` | none | Encode, Parse |
| Identity | `internal/auth` | API keys in the store | Resolve (API key, JWT, development), Permits |
| Router | `internal/api/router.go` | none | authenticates, checks the permission, calls the service |
| Compression, redaction | `internal/compression`, `internal/redaction` | none | pure functions of the text |
| Configuration, start-up | `internal/config`, `cmd/xcontext` | environment | fail-closed checks, migration, listen |
| MCP server | `services/mcp` | none; reads requests from stdin one at a time | execute, ingest, retrieve, search, stats |
| HTTP client | `pkg/client` | none | one HTTP call with a 60 s timeout |
| Plugins, hooks, evals, scripts, CI | `plugins/`, `internal/evals`, `scripts/`, `.github/` | none | packaging and test data |

How they interact: an agent's tool output reaches the MCP server or the HTTP
client, then the router, which resolves a scope (tenant, workspace, permissions)
from the token; the service runs the handler; a handler is a chain of store
calls. All shared state is in the store. Nothing locks between two store calls
of a handler, handlers use `context.Background()` and so are not ended when the
client goes away, and several replicas may share one Postgres.

What is hard, and so what the properties are for (`hazards` in `PROJECT.json`
gives each its line):

- Ingest reads the session, then commits; Retrieve reads the object, writes it,
  reads the session, writes it, and writes an audit event, five calls whose
  errors are dropped from the second on. Any two handlers interleave at each call.
- A database call may fail, the acknowledgement of a commit may be lost, a
  replica may die between any two calls; the Memory store may be restarted.
- A tenant id is written into the authority part of a URL.
- Session detail and usage are several reads with commits in between.
- A key may be revoked while a request that used it is under way.
- A commit is several statements on a pooled connection: it waits for rows that other
  transactions have locked while it holds a connection they may need, it may lose
  its connection before or after COMMIT, and its handler may die under it.
- Replicas start together over one database, migrate, die with the advisory lock,
  and take the locks of index creation while others commit.
- Redaction patterns see each other's marks and match over line breaks; a summary is
  chosen from the redacted text after escapes and blanks have been removed from it,
  cut at a byte, and its lines are reported with numbers of the redacted text.
- The MCP server runs commands with a timeout, waits for their descendants, and
  may lose the API's answer.

What makes each part correct: *store*: evidence is there whole or not at all and
stays; *service*: totals and counters never claim too much, an acknowledged
ingest can be retrieved, everything stays in its tenant and workspace, raw
retrieval is audited; *references*: what Encode writes Parse reads; *identity*:
revoked is final, only a key with the intercept scope attests delivered savings;
*redaction*: what is secret goes, the rest stays, and is reported once;
*compression*: the summary is deterministic, leaves out the least, fits the budget
and carries nothing that was redacted; *start-up*: nobody serves or waits for
ever over a half-migrated database; *MCP*: one reply per
request, no failed command hidden.

## 2. The modules

| Module | Models | With |
|---|---|---|
| `ContextRef` | `contextref.Encode`, `Parse`, and the part of `net/url` they use | `MCContextRef` (all ids up to a length), `ContextRefProofs` |
| `ControlPlane` | `Service.Ingest`, `Service.Retrieve` over both stores; uses `ContextRef` | `ControlPlaneProperties`, `MCControlPlane`, `ControlPlaneProofs` |
| `EvidenceLedger` | what the service promises, with no handlers in it | instantiated by `ControlPlaneProperties`, refinement proved in `ControlPlaneProofs` |
| `PgCommit` | `Postgres.CommitIngest` as a transaction, the pool, row locks; extends `ControlPlane` and implements it | `MCPgCommit`, `PgCommitProofs` |
| `Views` | `Service.Usage` and `Service.Session` as readers on the tables of `ControlPlane` | `MCViews`, `ViewsProofs` |
| `Migration` | start-up, `Postgres.Migrate`, the locks of `001_initial.sql`, commits beside them | `MCMigration`, `MigrationProofs` |
| `Compressor` | `Redact`, `clean`, the compressors for log, stack trace and text, the byte limit, the token count | `MCCompressor` (every text up to a length), `CompressorProofs` |
| `Access` | resolver, permissions, key operations, attestation of delivered savings | `AccessProperties`, `MCAccess`, `AccessProofs` |
| `McpServer` | the stdio loop, command execution, the HTTP client | `McpServerProperties`, `McpServerProofs` |

The layers compose: `PgCommit` implements `ControlPlane`, which implements
`EvidenceLedger`; `Views` runs beside `ControlPlane` on its tables. `Compressor`
says what becomes of a text that `ControlPlane` treats as a value with `Findings`.

An operator that follows a comment `Mutant:` is a wrong variant of the
definition after it. No specification uses one; they show that the properties
notice the bug they are about (`mutants` in `PROJECT.json`).

**ControlPlane.** `sessions`, `objects`, `redactions`, `events` are the tables
(maps of `Memory`, tables of `001_initial.sql`). Each member of `Requests` is a
request in its own goroutine: `caller` is its authenticated scope, `pc` the store
call it makes next, `held` and `snap` its local `models.Object` and
`models.Session`. One action is one store call with the code around it up to the
next one:

| Action | Code |
|---|---|
| `Refuse` | the errors before anything is written (service.go:134-153) |
| `IngestNewSession`, `IngestIntoSession` | checks, session built or read, object and totals computed (144-196) |
| `CommitIngest`, `CommitFails` | `Store.CommitIngest` and its error, with and without the commit having happened (197-204) |
| `BeginRetrieve` | reference parsed, object read and checked, counter incremented in the copy (232-247) |
| `UpdateObject`, `GetSession`, `UpdateSession`, `AddEvent` | one call each; after a failing `GetSession` the session write is skipped, other errors are dropped (248-256) |
| `Abort`, `Restart` | a Postgres replica dies under one request; the process with the Memory store dies with its tables |

A total of a session (tokens, cost, redactions, objects) is a sum over
contributions of objects; `totals` holds for each object how often its
contribution is in the sum, so lost and double additions show without integers.
Memory and Postgres differ where the code does: `CommittedSession` (Memory writes
the snapshot, store.go:58, Postgres adds deltas, postgres.go:39) and
`StoredObject` (row or column). A redaction report is the set of kinds found.

**EvidenceLedger.** Requests are pending or answered; evidence appears whole and
at once, in a session of its scope, perhaps although its author is told of a
failure; it never changes; nobody is served evidence of another scope. The
refinement mapping (`LedgerOf`, `StatusOf`, `ContentOf`) reads evidence from the
object and redaction rows; all other steps of the service stutter.

**PgCommit.** `tx` says how far each request's transaction has got (`begun`, then
the statement it has executed, `sent` for a COMMIT under way; `update` for the
UPDATE of a retrieval that waits), `staged` the session row it has written.

| Action | Code |
|---|---|
| `Begin` | `pool.Begin`, which waits for a free connection (postgres.go:31-34) |
| `WriteSession` | INSERT of a new session or UPDATE with deltas; waits for the row (36-47) |
| `WriteRows` | object, redactions, event, and COMMIT leaves (48-64) |
| `Commit`, `LateCommit` | the server commits; the answer arrives, is lost, or nobody is there to read it |
| `Fails` | an error from any statement, and the deferred `Rollback` (35) |
| `Break`, `ServerEnds` | the connection breaks or the replica dies; the server ends the session when it notices |
| `SendUpdate`, `PgUpdateSession`, `PgUpdateFails` | `UpdateSession`, one statement that may wait for a row (127-129) |
| `SingleCall`, `Arrive` | the other store calls of `ControlPlane`, each on a free connection |

PostgreSQL is external and modelled by READ COMMITTED as this code uses it: an
UPDATE waits for the transaction that has written the row and then works on the
newest committed version. The mapping to `ControlPlane` (`PcOf`) leaves the tables
as they are and says of a request whose COMMIT is on its way without a client
that it is still at `commit`, although its handler has failed already.

**Views.** A reader has `left`, the calls it still makes, in code order, and
`seen`, the rows it got. `ListSessions` and its siblings return nothing, or the
rows scanned so far, when Postgres fails, and no error (postgres.go:137-151):
`Listings` is any subset then, and `seen.whole` remembers whether it was all.
`seen.owed` is a history variable: what had been acknowledged in the reader's
scope before its first call. A reader lives in the process it reads from, so a
restart of a Memory store ends it and needs no action.

**Migration.** `phase` is the place of each replica in `main`, `session` its
migration connection as the server sees it (it may outlive the replica),
`holder` who has the advisory lock, `passed` how many tables of the file its open
transaction has passed and locked, `schema` what exists. The file is sent as one
simple query and so is one implicit transaction. `CREATE INDEX IF NOT EXISTS`
locks its table against writers to the end of the transaction even if the index
exists: `PassTable` waits for the writers of the table, `WriteTable` (the
statements of `CommitIngest`, reduced to their tables) for the migrations that
have passed it. `Die`, `UnlockFails` and `Revive` may happen at any time,
`EndSession` is the server noticing.

**Compressor.** A text is a sequence of words, blanks and line breaks. A word is a
class: what the redaction patterns and the compressors tell apart (`Source`; after
redaction also `Marks`). `opaque` is a token that is taken behind a keyword only, a
`jwt` one that needs none; `escaped-password:` is a keyword behind an ANSI escape
sequence, where `\b` fails. `Redact` applies the patterns in their order, each to
what the ones before it left. `\s` and, in a private key, `.` go over line breaks, so
a pattern is a word to start from, what may stand between, and the words that end it
(`Pattern`); `Opening` says where the match begins that is open at a place. Places
are kept: a match leaves its mark in its first place and `gone` in the others, line
breaks too, so that lines merge (`LineOf`) and the properties can still say where a
word has come from. `LinesOf` is `clean`, `Split` and `TrimSpace`, all after
redaction: an escape is removed (`Clean`), blanks at the ends of a line are
(`Trimmed`). `Log` is a set of results, because `sort.Slice` starts from the random
order of a Go map. `Keeping` (frames) and `Text` select lines and remember their
numbers. `Limit` cuts at a byte: `Spelling` gives each class its bytes, in whole
characters (`SpelledInCharacters`: a text comes out of a JSON string, and
`encoding/json` replaces what is not UTF-8), one of them of two bytes. `Tokens` counts
as `[]rune` does. `Ingest` puts them in the order of `Service.Ingest`. Constants
stand for the twelves and fives of the code.

**Access.** `keys` is the api_keys table, `config` the environment (only those
`config.Load` accepts), `who` and `via` what a request was resolved to and from.
A key takes two calls: lookup (`ResolveKey`) and touch (`TouchKey`), with
revocation possible in between. `Serve` is one step per endpoint group with the
permission that router.go checks.

**McpServer.** `lines` is the input, fixed at the start, `read` the lines taken.
`phase` says where the only goroutine is; `commands[line]` is the child (running,
zombie, reaped), its exit code, whether its deadline has passed, whether a
descendant still holds the output pipe, and how much was written. `Expire` is
what `exec.CommandContext` does at the deadline: it kills the child, only the
child, and a child that had exited but was not waited for keeps its code while
execute reports the deadline (`Collect`). `CombinedOutput` returns when the child
is reaped and the pipe is closed by all (`Collectable`; `WaitDelay` is not set).
What a command wrote is cut at `MaxOutput` (10 MiB, `Captured`); the text of an
ingest is not cut (server.go:147-152), it only has to fit into a line of the scanner
(12 MiB, `MaxText`; a longer line ends the server, `Overlong`).
`GiveUp` is the client's 60 s timeout or a broken connection; the API may still
take the call afterwards, because handlers do not use the request's context.

## 3. The runs

| Run | Instance | Distinct states | Question |
|---|---|---|---|
| `context_ref` | ids of 1 to 4 characters of 7 classes | 2,800 | which tenant ids survive Encode and Parse, who is misread as whom |
| `postgres_races` | 5 requests, one scope, no faults | 61,791 | what races alone do to totals and counters |
| `postgres_faults` | 3 requests, 3 scopes in 2 tenants, 2 texts, faults | 34,468 | isolation, whole evidence, refinement of `EvidenceLedger`, the inductive invariant `Consistent` |
| `memory_races` | 4 requests, restarts | 14,589 | the totals over the Memory store |
| `pg_commit` | 3 requests, a pool of 2, faults | 39,019 | the transaction implements the atomic commit; no call waits for ever |
| `migration` | 3 replicas, 2 of them migrate, 2 writers, empty or migrated database | 15,534 | nobody collides, serves too early, or waits for ever |
| `views` | 3 requests, 1 reader, 2 workspaces, short lists | 411,740 | what a detail or usage shows while others commit |
| `compressor` | every text of at most 4 pieces (11 single words, blanks and line breaks, 3 whole lines), each content type | 41,328 | redaction exact, nothing redacted in summary or signals, lines and numbers right, lists deterministic and within budget |
| `access` | 3 requests, 2 keys, 2 tenants, every environment that loads, faults | 282,654 | identity, permission, revocation, descent of keys |
| `mcp_server` | inputs of up to 2 lines, 2 writes per command, 1 kept of a command, 2 fit into a line | 45,185 | answers: one each, in order, true, in the end |

and two runs that end in a counterexample (section 5).

Bounds and why they are enough. A hazard of the tables needs at most a session
with an object, and two handlers on it; one more request lets the third party
observe or interfere (`postgres_faults`, `memory_races`), five let two ingests
and two retrievals of one session overlap (`postgres_races`). Three scopes give
each caller a stranger in the same tenant and one in another. In `pg_commit` three
requests over two connections let one wait for a row while another waits for a
connection; in `migration` two replicas compete for the lock while one that does
not migrate commits against them, and each of two writers lives on a different
one. In `compressor` the lists are shortened (1 line from each end, 1 hit, 1 frame,
2 tokens, a header of 3 bytes). Four pieces are a key with something in it and before
it, a keyword with a line break before its value, two keywords with their values, a
keyword behind an escape with a value, or four whole lines, which overfill each list
and reach the byte limit on either half of a character. Two keys make a chain, a user's key and the key made with it, the
third request uses one of them. One reader is enough since readers write nothing.
Two lines let a late answer of the API meet the next request; two writes with a
limit of one give output below, at and above the limit; a line that holds more than
that lets an ingest exceed it. `Requests` is the only
bound of `ControlPlane` (a request mints one object and ends); the others are
`PoolSize`, `Replicas`, `Writers`, `MaxLength` of ids, `MaxPieces` of texts,
`MaxLines` of inputs, and `MaxWrites`. Requests are symmetric in runs that check safety only;
runs with liveness use no symmetry. What the instances show of the properties of
section 4 is proved for all sizes.

Deadlock is checked in every run but `context_ref` and `compressor`, which only
spell out inputs and stop at the longest. `Migration` can always go on, since a
replica may die and be started again; the other state machines end in an explicit
stuttering step that is enabled only when every request has its answer (in
`McpServer`, when the server has ended), so a handler that has nowhere to go would
be reported.

Fairness. `ControlPlane`, `Views` and `Access` assume none: their properties are
safety, and a handler that stops anywhere is a case they cover.

- `PgCommit`: weak fairness of `Proceed` (a call whose guards hold returns; the
  pool and the row locks are the guards) and of `Server` (PostgreSQL notices a
  client that is gone), for each request. Nothing makes a request arrive, and
  nothing has to fail: `EveryCallEnds` must not lean on an error.
- `Migration`: strong fairness of `Lock`, because PostgreSQL queues those who wait
  for an advisory lock in order, weak fairness of the statements of `Migrate`, of
  `EndSession`, and of a commit that is under way. Nobody has to start a replica
  or an ingest, and nobody has to die.
- `McpServer`: weak fairness of `Run` (one goroutine that nothing blocks but what
  its guards name: the Go scheduler runs it), of `Expire` (the timer of
  `context.WithTimeout`) and of `GiveUp` (the timer of `http.Client`). Commands,
  their descendants, the API and the agent owe nothing, not even the end of the
  input. Under this `EveryRequestAnswered` has one exception that the code really
  has: a descendant that keeps the output pipe open for ever. The agent is taken to
  read what the server writes, or to close its end: `Encode` to a full pipe that
  nobody reads would hold `Run`.

## 4. The proofs

Eight modules, all obligations checked by TLAPS, for every value of the
constants that meets the named assumptions of the module (finite set of requests,
types of scopes, findings and configuration, `Nothing` is no row and no view).

- **`ControlPlaneProofs`**: `Consistent` is inductive (`AlwaysConsistent`,
  `TypeCorrect`). It is `TypeOK`, what each place in a handler knows of its local
  copies (`HandlerAgrees`: an ingest in `commit` holds an object of its own id and
  a session of its scope to commit it to; a retrieval's copy agrees with the row
  in session and text), and how rows refer to each other and to the copies of
  their authors (`TablesAgree`). Types alone say nothing about a stale copy that
  is written back later; `HandlersAgree` does. One lemma per kind of step says
  what it keeps of the others' knowledge (`ServingKeeps`, `OthersAgree`). Relative
  to `Consistent` there are five further inductive facts. `RowsAgree` (redactions
  and events) gives `EvidenceAlwaysWhole` and `AlwaysInScope`.
  `SnapshotsNeverOverclaim` (neither a row nor a copy about to be written claims
  too much) gives `TotalsSafe`. `StaleRowsAreMarked` (a session a retrieval is
  about to write has a positive counter; the session an ingest is about to create
  counts that ingest alone) gives `ExactSafe`, over Postgres. `RowsCountReaders`
  and `HandlersCountReaders` bound each counter, and each copy of one, by the
  number of requests that have got past the increment; cardinalities of sets that
  grow by one request give `CountsSafe`. `Marks` (over Postgres without faults,
  each step of a retrieval leaves the mark that its later steps count on, and no
  other step takes one back) gives `MarksSafe`.
  Over Postgres, `ServiceImplementsLedger` (Spec implies the
  specification of `EvidenceLedger` under the mapping): every step keeps the
  ledger and the answers (a stutter), refuses, serves, or publishes
  (`StepHidden`, `StepRejects`, `StepServes`, `CommitPublishes`), under
  `Consistent` and `RowsAgree`. `AcknowledgedSafe`: with references that read
  back, what was acknowledged stays retrievable with its text.
- **`PgCommitProofs`**: `Agrees`, the part of `PgConsistent` about transactions, is
  inductive: a transaction that has written its session row excludes the others
  from it, so that what it staged is still what the atomic commit would write when
  COMMIT arrives (`TransactionsAgree`; `StagedKeeps`, `OthersKeep`).
  `TransactionImplementsCommit` maps each step: statements, locks and rollbacks
  stutter, `Commit` and `LateCommit` are `CommitIngest`, an error is
  `CommitFails` or `Abort`. `PgAlwaysConsistent` adds the types of the tables. What
  is proved of `ControlPlane` is then carried over: its proof module is
  instantiated with `PcOf` for `pc`, so that `PgSpec` implies the specification
  they are about, and each of their results is read back under the mapping
  (`EvidenceThroughTransactions`, `ExactThroughTransactions`,
  `AcknowledgedThroughTransactions`). `TransactionsImplementLedger` composes the
  two refinements: the statements of Postgres implement the ledger of evidence.
- **`ViewsProofs`**: `ReadersAgree` is inductive relative to `Consistent`,
  `RowsAgree` and `TotalsNeverOverclaim`, which hold because readers take no step
  of a handler's (`ViewsServe`). For each place in a view it says which of the
  rows shown so far are still in the tables and which later list has to have
  them; `RestingReader` shows that handlers can only add to that, one lemma per
  call (`ListObjectsShows` and its siblings) that a list shows what the earlier
  ones need. `ViewsAlwaysInScope`, `ViewsAlwaysCovered`,
  `AcknowledgedAlwaysListed` and `ViewsTypeCorrect` follow, for any number of
  readers.
- **`MigrationProofs`**: `MigrationInvariant` ties each place in `main` to session
  and lock, and an open file transaction to the lock even when its replica is
  dead; `NobodyEverCollides`, `AlwaysServesMigrated` and `MigrationTypeCorrect`
  follow for any number of replicas and writers.
- **`AccessProofs`**: `AccessInvariant` (types, what a request in each place was
  resolved from, keys' workspaces) is inductive; from it identity, permission,
  descent, attestation and durability; `RevokedIsFinal` and `KeysChangedByAdmins`
  are action properties proved step by step from it.
- **`ContextRefProofs`**: for ids of every length and with every character,
  `CleanIdsResolve` (which ids Retrieve can serve) and `OnlyAtMisreads` (when a
  reference is read as another tenant's). Escaping is shown to keep length and to
  produce no literal separator but ":" and "@"; what `Parse` does then depends on
  the last "@" and the last ":", which exist because a set of places in a finite
  sequence has a greatest element (`WFMin`, on the distances from the end).
- **`McpServerProofs`**: `McpTypeCorrect` bounds the text of a call by what is kept of a
  command and, for an ingest, by its line only. `McpInvariant` is inductive: every call made for a
  command is about a settled one (`CallsAreFinal`: reaped, pipe closed, never a
  success after its deadline), and receipts come from calls that are done. The
  receipts' truth is not inductive itself, since it is decided long before the
  receipt, in `Collect`. `ReceiptsAlwaysTrue` follows. For `RepliesAlwaysInOrder`
  the invariant is the property in all phases: the lines answered are those read
  so far that ask for an answer, without the one being served, in ascending order.
- **`CompressorProofs`**: for texts of every length, lists of every size and every
  spelling in whole characters, all five properties of `MCCompressor`. `Made` (what
  was made is what `Ingest` makes of the text) reduces each to a fact about the
  operators. Recursive functions are unfolded by `Repeated`, loops over places by
  `UpTo`. `OpenSince` says what lies between the start of an open match and a place;
  from it the matches of a pattern do not overlap (`MatchesApart`), a private key is
  covered by one (`KeyCovered`), and what a pattern does to a place is one of four
  cases (`PlaceIs`). `RedactIs` chains the five patterns as stages, and facts are
  carried from stage to stage: what is gone lies behind a mark (`GoneStaysBehind`), a
  keyword without a value gets none from a later pattern (`UnfollowedStays`,
  `UnfollowedForGood`), nobody writes a begin, an end or a keyword (`NeverWritten`,
  `NoKeyForGood`). `RedactionAlwaysExact` adds the counts (`KeysAreTaken`,
  `FindingsAre`). `SecretsAlwaysStayOut` is `NothingLeaks` for the text as stored and
  `LineLeaksNothing` for a line of it, stripped and trimmed (`ReadingIs`): only a
  keyword behind an escape can begin a match there. `SignalsAlwaysPointHome` counts
  line breaks before a place. `AlwaysLeavesOutTheLeast` rests on finite sets under a
  strict order having just one sorted enumeration (`Sortable`, `SortedOnce`): hits
  that differ in count or first line leave `sort.Slice` no choice; the frames have a
  loop invariant (`KeptAt`). `SummaryAlwaysFits` counts bytes; characters are never
  broken before the cut (`Whole`).

Only model-checked: liveness (`EveryCallEnds`, `EveryStartEnds`, `EveryCommitEnds`,
`EveryRequestAnswered`), because fairness and `ENABLED` are beyond the provers. The
two findings of section 5 that runs show are counterexamples of TLC's. Every safety
property that a passing run checks has a theorem. No module declares a `RECURSIVE`
operator.

## 5. Where code and documents disagree

- `stale_session_totals` (`SessionTotalsExact`): a retrieval over Postgres reads
  the session, an ingest commits, the retrieval writes the whole row back
  (service.go:253, postgres.go:127-128): the ingest is missing from the totals
  for good. service_test.go:11 names aggregation as the tested behaviour.
- `unattested_delivery` (`DeliveredReachesAgent`): `xcontext_execute` attests
  delivery with the ingest (server.go:142), before the agent has the summary;
  if the answer is lost the claim stays and the agent has an error, against
  architecture.md:5.

Seen while modelling and shown by no run of its own:

- A tenant id with ":" or "@" yields references that Retrieve refuses or reads as
  another tenant's (`ResolvesExactlyWhenClean` says exactly which), although
  README.md:3 promises material that stays retrievable.
- The error of `AddEvent` is dropped (service.go:255) and the raw content returned,
  while architecture.md:37 says that raw retrieval is audited:
  `RetrievalLeavesItsMark` is therefore claimed without faults only.
- Over the Memory store two concurrent ingests into one session lose one from the
  totals (store.go:58; `ExactUntilRetrieved` is therefore claimed for Postgres
  only), and an ingest may set the retrieval counter of its session back.
- Two concurrent retrievals may count once (service.go:247);
  `RetrievalsNeverOvercounted` bounds the other side.
- A summary may be cut inside a character (compressor.go:50), and PostgreSQL
  refuses a string that is not UTF-8: the ingest fails. `SummaryFits` says when.
- A JWT behind "token=" is reported twice, as `jwt` and as `api_key`, because the
  second pattern sees the mark of the first; for the same reason a text that was
  redacted already is reported again when it is ingested again. A private key without
  its last line is left in the text (`RedactionIsExact`).
- `\s` matches line breaks (redactor.go:18, 21, 22): a keyword at the end of a line
  takes the first word of the next one that is not empty (a password any word, the
  others a long one), and the lines become one. `RedactionIsExact` therefore counts what follows a keyword among
  what may be taken.
- Escapes are removed after redaction (compressor.go:40): a password, or any other
  secret, right behind a colour sequence is not redacted, because the letter that
  ends the sequence defeats `\b`, and it reaches the stored text, the summary and the
  signals, where its colour is gone. README.md:120 expects that a test secret is not
  exposed, architecture.md:14 names redaction as the step before compression.
  `SecretsStayOut` excepts texts with such a keyword, and nothing else.
- After twelve frames a stack trace lists no more, however different
  (`LeavesOutTheLeast`).
- Signals carry line numbers of the redacted text, which point elsewhere in the
  original when a match before them has taken a line break: a key of several lines,
  or a keyword with its value on another line (`SignalsPointHome`).
- Savings are clipped at zero for each object (service.go:122), so that their sum in
  a session may exceed what was ingested minus what was returned. Trimmed blanks,
  stripped escapes and masked secrets count as saved even when every line is listed.
- README.md:112 says that full output is ingested while server.go:123 cuts it at
  10 MiB (an ingest's text is not cut, server.go:147-152); the exit code of a command without output is lost, since the API
  refuses an empty text.

## 6. What is not modelled

- Search: its matching is a database expression or a substring test; its scoping
  is the `Visible` of the other calls. `ListAPIKeys`, routing, JSON, logging.
- The order of the session list: `updated_at` is taken before the commit
  (service.go:144), so it need not follow the order of commits; nothing promises
  that it does.
- The compression of JSON that parses, which walks an arbitrary tree in sorted
  order of its keys; only its fallback to text is in `Compressor`. Savings
  (service.go:121-132), whose arithmetic no property is about, and percentages and
  costs, which are floating point. The wording of summaries and regular
  expressions below the level of what they take and leave: a keyword is one word with
  its separator, quotes and commas around a value are not told apart.
- Time: ids stand for time stamps, a token that has expired for one with a wrong
  signature; the client's timeout may happen whenever a call is under way.
- PostgreSQL beyond READ COMMITTED, row, table and advisory locks as stated in
  `PgCommit` and `Migration`; statement timeouts (the code sets none). In `Migration`
  a writer does not queue behind an index creation that still waits for its table.
- Of the MCP server: what a command does after the server has died, the wording
  of receipts and tool schemas, and lines that decode to the same request.
- Plugins, hooks, evaluation corpus, scripts, CI: no state.

## 7. How it was built, and what would come next

The order was that of importance: `ContextRef`, `ControlPlane`, `EvidenceLedger`
and their proofs, `Access`, `Views`, `McpServer`; then the layers below and beside
them: `PgCommit` with its refinement, `Migration`, `Compressor`; then the proofs
of `Views`, of `RetrievalLeavesItsMark`, of the references, of the composed
refinements and of `Compressor`.

Worth doing when the code grows: the JSON compressor over trees of bounded size;
the order of the session list, once the service promises one; a second statement
of `EvidenceLedger` for the Memory store that allows a restart to empty it; and
the client's retries, which the code does not have yet.
