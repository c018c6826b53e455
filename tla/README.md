# Formal models of the Turso dialect (`src/packages/turso`)

This directory holds TLA+ models of the Sequelize dialect for Turso
(`@tursodatabase/database`): the modules, the TLC configurations that check
them on small instances, and TLAPS proofs of the main invariants.
`PROJECT.json` records the components, runs, mutants, source map, findings
and hazards in machine-readable form.

## The system

The dialect is three classes, and they are used in this order:

| Part | Source | What it does |
|---|---|---|
| `TursoDialect` | `dialect.ts` | Capability flags, the `$`-sigil bind collector, and wiring. |
| `TursoConnectionManager` | `connection-manager.ts` | Loads the engine module once (`loadDefaultTursoModule`, `#getLib`), and `connect`s: remote or local, temp-storage pool guards, `PRAGMA KEY`, `foreign_keys`, WAL. Also `validate` and `disconnect` (the `CLOSED_SYMBOL` flag). |
| `TursoQuery` | `query.js` | `run()` sets `this.sql`, picks rowset (`stmt.all`) or rowcount (`stmt.run`) mode with `getDatabaseMethod`, normalises parameters, prepares, awaits the engine, and closes the statement in a `finally`. On failure the catch sets `error.sql = this.sql` and throws `formatError(error)`. On success the answer is shaped by `_handleQueryResponse`. For `PRAGMA INDEX_LIST` the shaping is `handleShowIndexesQuery`: it reverses the list and starts one nested `run()` per index under `Promise.all`, on the **same** query object, so the nested runs share `this.sql`. The dialect's query generator (not in this repository) no longer gives showIndexes a `PRAGMA INDEX_LIST`: Turso did not support it, so `showIndexesQuery()` returns an empty-result statement (`src/tasks/memory.md:96-97`). Only a raw `PRAGMA INDEX_LIST` query reaches `handleShowIndexesQuery` now. |

JavaScript runs everything between two `await`s atomically. The microtasks
that follow one engine answer drain before the next answer is handled.
So in the models, one engine answer and all it triggers is one step.
Concurrency comes from the engine answering open statements in any order.

## Modules

| Module | Models | State and actions |
|---|---|---|
| `ResultShaper` | `getDatabaseMethod` (query.js 382-400), `_handleQueryResponse` (57-163) including PRAGMA TABLE_INFO defaults | Pure operators. `HandleQueryResponse` returns `Return(value, populated)`, `Throw(kind)` or `FanOut(rows)`, following the code's branch order. SQL text is abstracted to the tag the code tests with `includes` (INDEX_LIST, INDEX_INFO, TABLE_INFO, CREATE TEMPORARY TABLE, show/describe, other), plus `EMPTY_SET` for the generator's showIndexes statement, which matches none of them and which the engine answers with no row and the index an INDEX_INFO names. |
| `ErrorClassifier` | `formatError` (297-358) | `FormatErrorKind`: the error class from the code and the FOREIGN KEY message test. |
| `TursoQuery` | `run`, `executeSql`, `#allSeries`, `#runSeries`, `handleShowIndexesQuery` | Variables: `req[q]` (the request of query `q`), `thisSql[q]` (the field `this.sql`), `run[<<q,i>>]` (the caller's run, `i = 0`, and nested run `i`, each with pc, SQL, method, statement open/closed, result), `items[q]` (the reversed index array the mappers mutate), `populated`, `affected`. Actions: `Issue` (the caller starts a query once the previous ones settled), `TopSucceeds` and `NestedSucceeds` (the engine answers the caller's or a nested statement), `TopFails` and `NestedFails` (it fails one: the catch sets `error.sql = this.sql`, and a nested failure rejects `Promise.all` unless it settled already), `Done` (nothing left). In every action the whole continuation up to the next `await` runs in the same step. |
| `ConnectionManager` | `loadDefaultTursoModule` (connection-manager.ts 13-34), `#getLib` (136-154), `connect` (156-274), `validate` (276-278), `disconnect` (280-292) | Variables: `cached` and `loaderP` (the module-level `cachedDefaultModule` and `defaultModulePromise`), `imp[k]` (import() attempt `k`: unstarted, pending, ok, failed), `lib[m]` and `libP[m]` (manager `m`'s `#lib` and the attempt its `#libPromise` is chained to), `caller[c]` (the connect call of pool acquirer `c`: pc, manager, options, connection id, the promise it awaits, the attempts that had failed when it called, result), `conn[k]` (the connection of connect call `k`: engine state, returned to the pool, `CLOSED_SYMBOL`, close() calls in flight), `calls`. A promise is the attempt it waits for, `NoP` (undefined) or `ResolvedP` (the cached module). Actions, one per continuation between awaits: `Connect` (connect up to `await this.#getLib()`, with the whole of `#getLib` and `loadDefaultTursoModule`), `ImportSettles` (import() settles; the `then`/`catch` of the loader and of every chained `#libPromise` run in the same microtask drain), `GotLibResume` (the rethrow, the authToken check, the temporary-storage pool guard, up to mkdir or lib.connect), `Mkdir`, `RemoteOpen`, `LocalOpen`, `Exec` (one setup statement: PRAGMA KEY, foreign_keys, journal_mode WAL, whose failure is only logged), `Disconnect`, `CloseSettles`. Options and pool settings are the booleans connect tests. The dialect options `foreignKeys` and `tursoModule` are the constants `ForeignKeys` and `Preset`. |
| `QueryAbstract` | what `run()` promises its caller | Abstract: `request[q]`, `status[q]` (idle, pending, resolved, rejected), `result[q]`. `Issue` once every earlier query is done, then `Resolve` with a value in `Answers(request)` or `Reject` with `Failed(err)`, `err` in `Failures(request)`. `TursoQuery` maps `status` to the pc of the caller's run (`engine` and `fanout` are pending), `result` to its result or `[failed |-> kind]`, `Answers(r)` to what `_handleQueryResponse` makes of an engine answer to `r`'s own SQL (for a raw `PRAGMA INDEX_LIST`, the declared indexes with their columns), and `Failures(r)` to the classified engine errors and the throws of `_handleQueryResponse` (`Caller == INSTANCE QueryAbstract WITH ...`). |
| `ModuleLoader` | what the loader promises | Abstract: `loaded`, `loading`; `StartImport` only when neither holds, `ImportSucceeds`, `ImportFails`. `ConnectionManager` maps `loaded` to `cachedDefaultModule` and `loading` to "some import() is pending" (`Loader == INSTANCE ModuleLoader WITH ...`). |
| `MCConnectionManager` | | Two managers: `m1` has a good pool for temporary storage and foreign keys on; `m2` has `maxSize > 1` and foreign keys off. Two callers, two connect calls, two import() attempts, two close() calls per connection. Four option sets: remote with a token, remote without one, `:memory:` with WAL, and a password-protected file in a missing directory without WAL. |
| `MCTursoQuery` | | Two queries in a row. A table with two indexes (one of two columns). A TABLE_INFO answer with an INTEGER primary key, a TINYINT(1) with a default and a quoted TEXT default. One request per branch of `getDatabaseMethod` and `_handleQueryResponse`. Two engine errors (a UNIQUE constraint and BUSY). |

## Runs

| Run | cfg | Expect | What it shows |
|---|---|---|---|
| `tursoquery_core` | `MCTursoQuery.cfg` | pass | `TypeOK`. `ShowIndexesInDeclarationOrder`: a raw `PRAGMA INDEX_LIST` query that resolves, resolves through `handleShowIndexesQuery` with the indexes in declaration order, each with its columns by seqno, whatever order the nested answers come in. `QueriesSettle` and `StatementsClosed` (liveness). `CallerRefined`: the runner implements `QueryAbstract`, so each caller query settles once with an answer or an error of its *own* statement, although nested runs share `this.sql`. |
| `error_sql_stale` | `MCTursoQuery_ErrorCarriesItsSql.cfg` | violation | A failing nested INDEX_INFO is annotated with the *last* index's SQL (query.js:199). |
| `orphaned_statements` | `MCTursoQuery_ExclusiveConnection.cfg` | violation | After `Promise.all` rejects, sibling statements are still open while the caller's next query runs (query.js:362). |
| `showindexes_empty` | `MCTursoQuery_ShowIndexesListsIndexes.cfg` | violation | showIndexes never reaches `handleShowIndexesQuery`: its statement from the generator has no `PRAGMA INDEX_LIST` (memory.md:96-97), so `_handleQueryResponse` falls through to `return this.instance` (query.js:162) and resolves with undefined for a table with two indexes. Spec section 2 says showIndexes lists the index definitions in declaration order. |
| `empty_result_rowcount` | `MCTursoQuery_EmptyResultOnlyWithoutEffect.cfg` | violation | An instance insert without RETURNING throws `EmptyResultError` although `changes = 1` (query.js:62): rowcount mode always returns `results = []`. |
| `connmgr_core` | `MCConnectionManager.cfg` | pass | `TypeOK`. `NoStaleLoadFailure`: no connect fails with an import() failure that had already happened when it was called. `ValidateMatchesEngine`: on a returned connection `validate()` is true exactly while the engine holds it open, with overlapping disconnects and failing close() calls. `LoaderRefined`: the loader implements `ModuleLoader`. |
| `connect_leak` | `MCConnectionManager_NoOrphanConnection.cfg` | violation | A failed PRAGMA KEY or foreign_keys makes connect throw a ConnectionError and drop the open connection, which nobody owns or closes (connection-manager.ts:242, 252, 272). |
| `overlapping_close` | `MCConnectionManager_NoOverlappingClose.cfg` | violation | Two disconnect calls on one connection both pass the `CLOSED_SYMBOL` test (connection-manager.ts:281) before either close() settles, so close() is called while another close() of it is in flight. Spec section 3 gives the handle a closed flag but does not say whether it may be closed twice. |
| `config_after_load` | `MCConnectionManager_MisconfiguredFailsFast.cfg` | violation | A remote url without authToken fails with the module-load error, not the configuration error, when import() fails: the checks run after `await this.#getLib()` (connection-manager.ts:160, 174). Spec sections 4.5 and 7 say configuration errors come before any engine interaction. |

Each property of the passing runs has a mutant in `PROJECT.json`: a plausible
fault in the mapped code that TLC must catch. The mutants are:

- a `get` method for SELECT;
- no `reverse()`;
- an `all()` that waits for every item;
- a `finally` missing on the error path;
- a catch that rethrows the engine error without `formatError`;
- connect that does not return the connection after the last setup statement;
- a loader catch that keeps the rejected `defaultModulePromise`;
- `CLOSED_SYMBOL` set before awaiting close();
- a loader without `if (!defaultModulePromise)`, so that every caller starts its own import().

**The engine and PRAGMA INDEX_LIST.** The model's engine may fail any
statement. That covers an engine without `PRAGMA index_list`, where a raw
INDEX_LIST query simply rejects. When the engine does answer it, the model
follows `handleShowIndexesQuery` through its fan-out. That is where
`ErrorCarriesItsSql` and `ExclusiveConnection` fail.

**Bounds.** `NQ = 2` is the least that lets a statement of query 1 outlive
query 1 into query 2, which is the orphan scenario. Two indexes are the
least that make order and the shared `this.sql` matter. One of them has two
columns, so the seqno placement is exercised. `MaxRows = MaxChanges = 1`
separates "no row" from "some row", which is all the code tests
(`results.length === 0`, `results[0]`).

For the connection manager, two connect calls and two import() attempts
are the least that let a second call run after a failed import, which is
where a stale rejected promise would show, and that let two managers race
for one import. `MaxCalls = 2` also gives two connections, and
`MaxCloses = 2` lets two disconnects of one connection overlap. Each option
set takes a different branch of connect, and between them they reach every
setup statement. The run checks no deadlock (`CHECK_DEADLOCK FALSE`): once
the bounds are spent nothing is enabled, and the pool is never obliged to
call connect again. The model assumes a close() that fails leaves the
connection open; the code only rethrows.

**Fairness.** The engine answers every statement it was given (the layer
never cancels one), so each open statement's "answer or fail" is weakly
fair. The caller is not assumed to issue more queries: `Done` lets the
system stop.

## Proofs

`TursoQueryProofs` proves two theorems for every value of the constants
that meets the `ASSUME`s of `TursoQuery`:

- any number of queries;
- any list of distinct indexes with any columns;
- any TABLE_INFO rows;
- any request set in which `PRAGMA INDEX_LIST` is issued only as a raw query, showIndexes issues the generator's empty-result statement, and no request issues `PRAGMA INDEX_INFO`.

| Theorem | Statement | Checked by TLC in |
|---|---|---|
| `TypeCorrect` | `Spec => []TypeOK` | `tursoquery_core` |
| `ShowIndexesOrdered` | `Spec => []ShowIndexesInDeclarationOrder` | `tursoquery_core` |
| `CallerRefinement` (in `TursoQueryRefinement`) | `Spec => CallerRefined`, i.e. `Spec => Caller!Spec` | `tursoquery_core` |

`TypeOK` is not inductive by itself. The type of what `run()` resolves with
depends on what the engine answered, which depends on the statement's SQL
and mode. `_handleQueryResponse` also dispatches on `this.sql`, not on the
statement that answered. The inductive invariant `IInv` adds three
conjuncts per query:

- **`TopConsistent`:** the caller's run has the SQL and mode of its request, and `this.sql` is that SQL while the caller's statement is open.
- **`NestedConsistent`:** a nested run `i` exists only under a `PRAGMA INDEX_LIST` query, after the caller's statement answered. It runs `PRAGMA INDEX_INFO` of the `i`-th declared index in rowset mode. `this.sql` is then an INDEX_INFO. Item `i` is named after index `i`. Once run `i` has resolved, item `i` holds that index's columns.
- **`FanOutConsistent`:** `Promise.all` is pending only while each nested run is open or done. It has resolved only with the items array, once every nested run has resolved.

The argument has one lemma per action:

- `IssueIInv`;
- `TopSucceedsIInv`, which covers the three outcomes of `_handleQueryResponse` through `TopOutcome`, and starting the fan-out through `ShowIndexesIInv`;
- `TopFailsIInv`;
- `NestedSucceedsIInv`;
- `NestedFailsIInv`.

`IInvNext` combines them. Each lemma has one step per conjunct that the action can disturb.

The central facts behind these lemmas:

- **Why a nested answer is passed through.** A nested answer is shaped by the INDEX_INFO branch. This needs `NestedConsistent`: `this.sql` is an INDEX_INFO whichever sibling set it last (`NestedAnswer`).
- **Why each column lands in place.** The mapper's placement by seqno yields the index's columns in order (`ColumnsInOrder`).
- **Why the items come out in declaration order.** Reversing the engine's list restores declaration order (`IndexListOrder`).

`ShowIndexesOrdered` then follows from `IInv` by function extensionality.

`TursoQueryRefinement` proves `CallerRefinement` from the same `IInv`,
step by step. `InitRefines`: the initial state maps to `QueryAbstract`'s.
`StepRefines`: every step is an abstract step or a stutter.

- `Issue` maps to `Issue` (`IssueRefines`). Query `q` may start only once the earlier ones settled, and so may the abstract one.
- A nested step, or a top step that starts the fan-out, stutters: the caller's status stays pending (`CallerStutters`).
- A top or nested step that settles the caller's run maps to `Resolve` or `Reject` (`CallerSettles`):
  - **A top answer.** It is shaped on `this.sql`. `TopConsistent` says that while the caller's statement is open, `this.sql` is the request's own SQL. So the value is an `OwnAnswers` member (`OwnOutcome`), and a throw is an `OwnFailures` member.
  - **An engine failure.** It is one of the classified kinds (`EngineFailure`).
  - **The last nested answer.** It resolves with the items array. `NestedConsistent` and `FanOutConsistent` make every item the declared index with its columns, so the value is the single `PRAGMA INDEX_LIST` answer (`ResolvedItems`, `DeclaredAnswer`).
  - **A nested failure.** It rejects with a classified engine error.

The proof would fail if a value were shaped on another query's SQL. It
needs `TopConsistent` exactly because nested runs overwrite `this.sql`.

`ConnectionManagerProofs` proves four theorems for every value of the
constants that meets `ConstAssumption` of `ConnectionManager`: any number
of managers, callers, option sets, import() attempts and close() calls.

| Theorem | Statement | Checked by TLC in |
|---|---|---|
| `TypeCorrect` | `Spec => []TypeOK` | `connmgr_core` |
| `StaleFailureImpossible` | `Spec => []NoStaleLoadFailure` | `connmgr_core` |
| `ValidateSound` | `Spec => []ValidateMatchesEngine` | `connmgr_core` |
| `LoaderRefinement` | `Spec => LoaderRefined`, i.e. `Spec => Loader!Spec` | `connmgr_core` |

The inductive invariant `IInv` adds four conjuncts to `TypeOK`:

- **`LoaderInv`:** `defaultModulePromise` and every `#libPromise` wait for an attempt that is pending or succeeded. The catches reset them in the microtask drain of the rejection. The only pending attempt is `defaultModulePromise` itself.
- **`WaitInv`:** a connect call waiting on `#getLib` waits for the cached module or for an attempt that had not failed when it called. A call that failed with a load error failed with such an attempt.
- **`ConnInv`:** `CLOSED_SYMBOL` is set exactly on closed connections. A connection is returned only once opened. Close() calls in flight never outnumber those made.
- **`StageInv`:** a connect call in progress has its connection slot, and one in the setup statements has opened it.

There is one lemma per action. `GetLibStep` covers `#getLib` and the
loader's three branches. The caller continuations share
`ContinuationIInv`, and the writes of a connection slot share `ConnWrite`.
`NoStaleLoadFailure` and `ValidateMatchesEngine` follow from `IInv`
directly. For the refinement, `LoaderStep` shows that each step is a
`ModuleLoader` step or a stutter under the mapping. Starting an import is
`StartImport`: `LoaderInv` makes the loader's `loaderP = NoP` mean nothing
is pending. Settling one is `ImportSucceeds` or `ImportFails`: the settling
attempt was the only pending one. Every other action leaves `imp` and
`cachedDefaultModule` alone.

Only TLC checks the following. Some of it is out of TLAPS's reach; the rest is not proved yet:

- **Liveness** (`QueriesSettle`, `StatementsClosed`). It needs fairness and ENABLED, which are beyond TLAPS.
- **The properties the violation runs refute.**
- **`TableInfo`'s shaping.** Not proved yet.

## Not modelled (yet)

- **What the engine does with a second close()** of a connection closed already: the model lets it settle without effect.
- **The friendlier message** for `MODULE_NOT_FOUND` (connection-manager.ts 164-166), debug logging and `tursoConnection.filename`. These change wording or fields no step reads.
- **Parameter binder.** Normalisation at query.js 177-189 and `_convertNamedParamsToPositional`. Planned `ParamBinder`, checked against spec section 4.1: key collision and the fallback key.
- **Field extraction of `formatError`.**
- **Dialect flags** (`TursoDialect.supports`), the option-name lists and the constructor wiring of `dialect.ts`. They are static data; the two options connect reads are `ConnectionManager` constants. `CONNECTION_OPTION_NAMES` omits `enableWal`, which `connect` reads; that is a typing concern outside the models.
- **Entry points, the older connection manager copy (`src/unnamed/part_000`), benchmarks and debug scripts.** These have no state to check.

## Plan

Module order for later work:

1. `ParamBinder` with a reference definition.
2. TABLE_INFO default property.
3. An abstract `QueryAbstract` (one atomic step per query) that `TursoQuery` refines, except where the findings say it cannot.
4. Liveness of connect under fairness of the engine's answers (every call settles).
