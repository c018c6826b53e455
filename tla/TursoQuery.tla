----------------------------- MODULE TursoQuery -----------------------------
(***************************************************************************)
(* TursoQuery.run (src/packages/turso/src/query.js) driving the engine:    *)
(* the caller runs NQ queries one after another on one connection, each on *)
(* a fresh TursoQuery object.  A call of run() sets this.sql, prepares a   *)
(* statement and awaits stmt.all / stmt.run; when the engine answers, the  *)
(* finally closes the statement and the call either rethrows               *)
(* formatError(error) with error.sql = this.sql, or shapes the answer with *)
(* _handleQueryResponse.  For PRAGMA INDEX_LIST the shaping is             *)
(* handleShowIndexesQuery, which starts one nested run() per index through *)
(* Promise.all on the same query object: the nested calls share this.sql   *)
(* and the connection, and complete in whatever order the engine answers.  *)
(*                                                                         *)
(* JS runs every step between two awaits atomically; the microtasks that   *)
(* follow one engine answer drain before the next answer is handled, so    *)
(* one engine answer and everything it triggers is one step.               *)
(***************************************************************************)
EXTENDS ResultShaper, ErrorClassifier, FiniteSets

CONSTANTS
    NQ,              \* queries the caller runs, one after another
    Requests,        \* the requests a caller may issue
    DeclaredIndexes, \* the table's index names, in declaration order
    IndexColumns,    \* index name -> its column names, in seqno order
    TableColumns,    \* the rows PRAGMA TABLE_INFO answers with
    EngineErrors,    \* the errors a statement may fail with
    MaxRows,         \* bound on the rows a statement returns
    MaxChanges       \* bound on the rows a statement changes

Items      == 1..Len(DeclaredIndexes)
IndexNames == {DeclaredIndexes[i] : i \in Items}
Queries    == 1..NQ
RunIds     == Queries \X (0..Len(DeclaredIndexes))
Top(q)     == <<q, 0>>

ASSUME NQAssumption == NQ \in Nat \ {0}
ASSUME BoundsAssumption == MaxRows \in Nat /\ MaxChanges \in Nat
ASSUME IndexesAssumption ==
    /\ DeclaredIndexes \in Seq(STRING)
    /\ \A i, j \in Items : DeclaredIndexes[i] = DeclaredIndexes[j] => i = j
    /\ IndexColumns \in [IndexNames -> Seq(STRING)]
\* showIndexes issues the generator's empty-result statement (memory.md:96-97);
\* a PRAGMA INDEX_LIST, the text _handleQueryResponse hands to
\* handleShowIndexesQuery (query.js:113), reaches the runner only as a raw
\* query; only handleShowIndexesQuery issues PRAGMA INDEX_INFO.
\* PRAGMA TABLE_INFO answers a list of rows.
TableRow == [name : STRING, type : STRING, dflt : Seq(STRING) \cup {NullV}, notnull : Nat, pk : Nat]
ASSUME TableAssumption == TableColumns \in Seq(TableRow)
ASSUME RequestsAssumption ==
    /\ Requests \subseteq Request
    /\ \A r \in Requests : /\ r.type = "SHOWINDEXES" => r.sql = "EMPTY_SET"
                           /\ r.sql = "INDEX_LIST" => r.type = "RAW"
                           /\ r.sql # "INDEX_INFO"

SqlText == [tag : SqlTags, on : IndexNames \cup {NoIndex}]

(***************************************************************************)
(* The engine.  SQLite lists the last-declared index first (the comment of *)
(* handleShowIndexesQuery); INDEX_INFO answers one row per column with its *)
(* 0-based seqno; the generator's showIndexes statement returns no row.    *)
(* Other statements return up to MaxRows rows.  The engine may also fail   *)
(* any statement (TopFails): an engine without PRAGMA index_list fails it. *)
(***************************************************************************)
IndexListRows == [i \in Items |-> [name |-> DeclaredIndexes[i]]]
ReverseSeq(s) == [i \in 1..Len(s) |-> s[Len(s) - i + 1]]
InfoRows(ix)  == [k \in 1..Len(IndexColumns[ix]) |->
                    [seqno |-> k - 1, name |-> IndexColumns[ix][k]]]

\* A row of an ordinary statement; only how many there are matters.
GenericRows(n) == [k \in 1..n |-> [row |-> k]]

EngineRows(sql) ==
    CASE sql.tag = "INDEX_LIST" -> {ReverseSeq(IndexListRows)}
      [] sql.tag = "INDEX_INFO" -> {InfoRows(sql.on)}
      [] sql.tag = "TABLE_INFO" -> {TableColumns}
      [] sql.tag = "EMPTY_SET" -> {GenericRows(0)}
      [] OTHER -> {GenericRows(n) : n \in 0..MaxRows}

\* #allSeries answers zeroed metadata and the rows; #runSeries the engine's
\* lastInsertRowid and changes and no rows.
Responses(sql, method) ==
    IF method = "all"
      THEN {[meta |-> [lastID |-> 0, changes |-> 0], rows |-> r] : r \in EngineRows(sql)}
      ELSE {[meta |-> [lastID |-> id, changes |-> c], rows |-> << >>] :
              id \in 0..MaxChanges, c \in 0..MaxChanges}

VARIABLES
    req,       \* req[q]: the request of query q, UndefV until the caller issues it
    thisSql,   \* thisSql[q]: the field this.sql of query object q
    run,       \* run[<<q, 0>>]: the caller's run(); run[<<q, i>>]: the nested run() of item i
    items,     \* items[q][i]: item i of handleShowIndexesQuery's reversed array
    populated, \* the queries whose instance was set from a returned row
    affected   \* affected[q]: rows the engine changed or returned for q's own statement

vars == <<req, thisSql, run, items, populated, affected>>

Idle == [pc |-> "idle", sql |-> UndefV, method |-> UndefV, stmt |-> "none", res |-> UndefV]

\* The synchronous start of run(): this.sql = sql, getDatabaseMethod(),
\* connection.prepare(query), then the await on stmt.all / stmt.run.
Started(sql, method) ==
    [pc |-> "engine", sql |-> sql, method |-> method, stmt |-> "open", res |-> UndefV]

\* The finally closes the statement; the call then returns or throws.
\* A missing finally on the error path: a plausible fault, for mutation.
RejectedKeepsStatement(r, err) == [r EXCEPT !.pc = "rejected", !.res = err]

Resolved(r, v)   == [r EXCEPT !.pc = "resolved", !.stmt = "closed", !.res = v]
Rejected(r, err) == [r EXCEPT !.pc = "rejected", !.stmt = "closed", !.res = err]

Settled(q) == run[Top(q)].pc \in {"resolved", "rejected"}

\* The mapper of handleShowIndexesQuery: item.fields[column.seqno] = column,
\* a later column of the same seqno overwriting an earlier one.
ColumnsBySeqno(rows) ==
    LET seqnos == {rows[k].seqno : k \in DOMAIN rows}
        last(s) == CHOOSE k \in DOMAIN rows :
                      /\ rows[k].seqno = s
                      /\ \A j \in DOMAIN rows : rows[j].seqno = s => j <= k
    IN  [s \in seqnos |-> rows[last(s)].name]

IndexesResult(its) == [form |-> "indexes", items |-> its]

\* Plausible faults of the code below, for the mutation runs of the
\* properties: no reverse; a hand-written all() that waits for every item
\* whatever fails.
IndexItemsUnreversed(data) == data
PromiseAllWaitsForAll(top, err) == top

\* data.reverse(): SQLite lists the last-declared index first.
IndexItems(data) == ReverseSeq(data)

\* A mapper's rejection rejects Promise.all unless it has already settled.
PromiseAllRejects(top, err) == IF top.pc = "fanout" THEN Rejected(top, err) ELSE top

-----------------------------------------------------------------------------

Init ==
    /\ req = [q \in Queries |-> UndefV]
    /\ thisSql = [q \in Queries |-> UndefV]
    /\ run = [id \in RunIds |-> Idle]
    /\ items = [q \in Queries |-> [i \in Items |-> [name |-> UndefV, fields |-> << >>]]]
    /\ populated = {}
    /\ affected = [q \in Queries |-> 0]

(***************************************************************************)
(* The caller runs query q once the previous ones have settled.            *)
(***************************************************************************)
Issue(q) ==
    /\ run[Top(q)].pc = "idle"
    /\ \A p \in Queries : p < q => Settled(p)
    /\ \E r \in Requests :
         LET sql == Sql(r.sql, NoIndex) IN
         /\ req' = [req EXCEPT ![q] = r]
         /\ thisSql' = [thisSql EXCEPT ![q] = sql]
         /\ run' = [run EXCEPT ![Top(q)] = Started(sql, DatabaseMethod(r, sql))]
    /\ UNCHANGED <<items, populated, affected>>

(***************************************************************************)
(* handleShowIndexesQuery(data): data.reverse(), then for each item the    *)
(* synchronous part of its mapper up to `await this.run(...)`: each nested *)
(* run() sets this.sql and prepares its statement, so this.sql is left at  *)
(* the INDEX_INFO of the last item.  Promise.all([]) resolves at once.     *)
(***************************************************************************)
ShowIndexes(q, data) ==
    LET list == IndexItems(data)
        n    == Len(list)
        info(i) == Sql("INDEX_INFO", list[i].name)
    IN
    /\ items' = [items EXCEPT ![q] = [i \in Items |->
                    IF i <= n THEN [name |-> list[i].name, fields |-> << >>] ELSE @[i]]]
    /\ thisSql' = [thisSql EXCEPT ![q] = IF n = 0 THEN @ ELSE info(n)]
    /\ run' = [id \in RunIds |->
                 CASE id = Top(q) ->
                        IF n = 0 THEN Resolved(run[id], IndexesResult(<< >>))
                        ELSE [run[id] EXCEPT !.pc = "fanout", !.stmt = "closed"]
                   [] id[1] = q /\ id[2] \in 1..n ->
                        Started(info(id[2]), DatabaseMethod(req[q], info(id[2])))
                   [] OTHER -> run[id]]

(***************************************************************************)
(* The engine answers the caller's statement of query q.                   *)
(***************************************************************************)
TopSucceeds(q) ==
    LET r == run[Top(q)] IN
    /\ r.pc = "engine"
    /\ \E resp \in Responses(r.sql, r.method) :
         LET out == HandleQueryResponse(req[q], thisSql[q], resp.meta, resp.rows) IN
         /\ affected' = [affected EXCEPT ![q] =
                           IF r.method = "run" THEN resp.meta.changes ELSE Len(resp.rows)]
         /\ \/ /\ out.tag = "value"
               /\ run' = [run EXCEPT ![Top(q)] = Resolved(r, out.val)]
               /\ populated' = IF out.populated THEN populated \cup {q} ELSE populated
               /\ UNCHANGED <<thisSql, items>>
            \/ /\ out.tag = "throw"
               /\ run' = [run EXCEPT ![Top(q)] =
                            Rejected(r, [kind |-> out.err, sql |-> UndefV, from |-> r.sql])]
               /\ UNCHANGED <<thisSql, items, populated>>
            \/ /\ out.tag = "fanout"
               /\ ShowIndexes(q, out.data)
               /\ UNCHANGED populated
    /\ UNCHANGED req

(***************************************************************************)
(* The engine answers the INDEX_INFO statement of item i: the nested run() *)
(* returns its rows, the mapper fills item.fields, and Promise.all         *)
(* resolves if every item is now done and it has not already rejected.     *)
(***************************************************************************)
NestedSucceeds(q, i) ==
    LET id == <<q, i>>
        r  == run[id]
    IN
    /\ i # 0
    /\ r.pc = "engine"
    /\ \E resp \in Responses(r.sql, r.method) :
         LET out   == HandleQueryResponse(req[q], thisSql[q], resp.meta, resp.rows)
             its   == [items[q] EXCEPT ![i].fields = ColumnsBySeqno(out.val.rows)]
             alldone == \A j \in Items \ {i} : run[<<q, j>>].pc = "resolved"
         IN
         /\ items' = [items EXCEPT ![q] = its]
         /\ run' = [run EXCEPT
                      ![id] = Resolved(r, out.val),
                      ![Top(q)] = IF @.pc = "fanout" /\ alldone
                                    THEN Resolved(@, IndexesResult(its)) ELSE @]
    /\ UNCHANGED <<req, thisSql, populated, affected>>

(***************************************************************************)
(* The engine fails a statement: the catch of run() sets                   *)
(* error.sql = this.sql and throws formatError(error).  `from` records the *)
(* SQL of the statement that failed.                                       *)
(***************************************************************************)
\* A catch that rethrows a generic DatabaseError instead of formatError(error):
\* a plausible fault, for mutation.
EngineErrorUnclassified(q, r, e) == [kind |-> "DatabaseError", sql |-> thisSql[q], from |-> r.sql]

EngineError(q, r, e) == [kind |-> FormatErrorKind(e), sql |-> thisSql[q], from |-> r.sql]

\* The caller's own statement fails: run() rejects.
TopFails(q) ==
    LET r == run[Top(q)] IN
    /\ r.pc = "engine"
    /\ \E e \in EngineErrors : run' = [run EXCEPT ![Top(q)] = Rejected(r, EngineError(q, r, e))]
    /\ UNCHANGED <<req, thisSql, items, populated, affected>>

\* The INDEX_INFO statement of item i fails: the nested run() rejects, so
\* its mapper and Promise.all reject, unless Promise.all has settled already.
NestedFails(q, i) ==
    LET id == <<q, i>>
        r  == run[id]
    IN
    /\ i # 0
    /\ r.pc = "engine"
    /\ \E e \in EngineErrors :
         run' = [run EXCEPT ![id] = Rejected(r, EngineError(q, r, e)),
                            ![Top(q)] = PromiseAllRejects(@, EngineError(q, r, e))]
    /\ UNCHANGED <<req, thisSql, items, populated, affected>>

\* Nothing is left to do: the engine holds no statement and the caller can
\* issue no further query.  (Liveness says this only happens once every
\* query has settled.)
Done ==
    /\ \A id \in RunIds : run[id].pc # "engine"
    /\ \A q \in Queries : run[Top(q)].pc = "idle" => \E p \in Queries : p < q /\ ~Settled(p)
    /\ UNCHANGED vars

Next ==
    \/ \E q \in Queries : Issue(q) \/ TopSucceeds(q) \/ TopFails(q)
    \/ \E q \in Queries, i \in Items : NestedSucceeds(q, i) \/ NestedFails(q, i)
    \/ Done

\* The engine answers every statement it was given (the layer has no
\* cancellation: spec section 5).
Fairness ==
    /\ \A q \in Queries : WF_vars(TopSucceeds(q) \/ TopFails(q))
    /\ \A q \in Queries, i \in Items : WF_vars(NestedSucceeds(q, i) \/ NestedFails(q, i))

Spec == Init /\ [][Next]_vars /\ Fairness

-----------------------------------------------------------------------------
(***************************************************************************)
(* Types.                                                                  *)
(***************************************************************************)
ColumnNames == UNION {{IndexColumns[ix][k] : k \in DOMAIN IndexColumns[ix]} : ix \in IndexNames}
SeqNos      == {k - 1 : k \in UNION {DOMAIN IndexColumns[ix] : ix \in IndexNames}}
Item        == [name : IndexNames \cup {UndefV},
                fields : UNION {[S -> ColumnNames] : S \in SUBSET SeqNos}]
RowSets     == {GenericRows(n) : n \in 0..MaxRows}
                 \cup {InfoRows(ix) : ix \in IndexNames} \cup {TableColumns}
Meta        == [lastID : 0..MaxChanges, changes : 0..MaxChanges]
Values ==
       [form : {"pair"}, fst : {"instance", "firstRow", "rows", UndefV}, snd : Nat \cup {NullV}]
  \cup [form : {"count", "select"}, n : Nat]
  \cup [form : {"rows"}, rows : RowSets]
  \cup {[form |-> "tableInfo", cols |-> TableInfo(TableColumns)]}
  \cup [form : {"raw"}, rows : RowSets, meta : Meta]
  \cup {InstanceResult}
  \cup [form : {"indexes"}, items : [Items -> Item]]
Errors      == [kind : ErrorKinds, sql : SqlText \cup {UndefV}, from : SqlText]
RunState    == [pc : {"idle", "engine", "fanout", "resolved", "rejected"},
                sql : SqlText \cup {UndefV}, method : {"all", "run", UndefV},
                stmt : {"none", "open", "closed"}, res : Values \cup Errors \cup {UndefV}]

TypeOK ==
    /\ req \in [Queries -> Requests \cup {UndefV}]
    /\ thisSql \in [Queries -> SqlText \cup {UndefV}]
    /\ run \in [RunIds -> RunState]
    /\ items \in [Queries -> [Items -> Item]]
    /\ populated \subseteq Queries
    /\ affected \in [Queries -> Nat]

(***************************************************************************)
(* Properties.                                                             *)
(***************************************************************************)
DeclaredFields(ix) == [s \in 0..Len(IndexColumns[ix]) - 1 |-> IndexColumns[ix][s + 1]]

DeclaredList == IndexesResult([i \in Items |-> [name   |-> DeclaredIndexes[i],
                                                 fields |-> DeclaredFields(DeclaredIndexes[i])]])

\* A PRAGMA INDEX_LIST query that resolves, resolves through
\* handleShowIndexesQuery with the table's indexes in declaration order,
\* each with its own columns by seqno, however the engine orders the
\* answers to the nested INDEX_INFO statements (its reverse and its
\* Promise.all over runs that share this.sql).
ShowIndexesInDeclarationOrder ==
    \A q \in Queries :
        /\ req[q] # UndefV
        /\ req[q].sql = "INDEX_LIST"
        /\ run[Top(q)].pc = "resolved"
        => run[Top(q)].res = DeclaredList

\* Spec 2 (ShowIndexes): a showIndexes query that resolves lists the
\* table's indexes in declaration order with their fields.
ShowIndexesListsIndexes ==
    \A q \in Queries :
        /\ req[q] # UndefV
        /\ req[q].type = "SHOWINDEXES"
        /\ run[Top(q)].pc = "resolved"
        => run[Top(q)].res = DeclaredList

\* Every query the caller runs eventually resolves or rejects
\* (run, executeSql and Promise.all in handleShowIndexesQuery).
QueriesSettle == \A q \in Queries : run[Top(q)].pc # "idle" ~> Settled(q)

\* Every prepared statement is eventually closed (the finally of #allSeries
\* and #runSeries), on the error path too.
StatementsClosed == \A id \in RunIds : run[id].stmt = "open" ~> run[id].stmt = "closed"

\* Spec 4.2: an engine failure is annotated with the SQL text of the
\* statement that failed (error.sql = this.sql in run's catch).
ErrorCarriesItsSql ==
    \A id \in RunIds :
        /\ run[id].pc = "rejected"
        /\ run[id].res.kind # "EmptyResultError"
        => run[id].res.sql = run[id].res.from

\* Spec 5: the layer has exclusive use of the connection for the duration of
\* a statement and releases every statement on every exit path, so no
\* statement of a query is still open once a later query runs.
ExclusiveConnection ==
    \A a, b \in RunIds : run[a].stmt = "open" /\ run[b].stmt = "open" => a[1] = b[1]

\* Spec 4.3 and 7: EmptyResultError tells "the insert silently had no
\* effect" apart from success, so it is raised only when the engine
\* reported no row changed or returned (_handleQueryResponse).
EmptyResultOnlyWithoutEffect ==
    \A q \in Queries :
        /\ run[Top(q)].pc = "rejected"
        /\ run[Top(q)].res.kind = "EmptyResultError"
        => affected[q] = 0


-----------------------------------------------------------------------------
(***************************************************************************)
(* What the caller sees.  A query's own outcomes are what                 *)
(* _handleQueryResponse makes of every answer the engine may give to the  *)
(* query's own statement, read against that statement's SQL; for a PRAGMA *)
(* INDEX_LIST, the table's indexes in declaration order.  A query may      *)
(* also reject with formatError of any engine error.                       *)
(***************************************************************************)
OwnSql(r) == Sql(r.sql, NoIndex)

OwnOutcomes(r) ==
    {HandleQueryResponse(r, OwnSql(r), resp.meta, resp.rows) :
       resp \in Responses(OwnSql(r), DatabaseMethod(r, OwnSql(r)))}

OwnAnswers(r) ==
    IF r.sql = "INDEX_LIST"
      THEN {DeclaredList}
      ELSE {out.val : out \in {o \in OwnOutcomes(r) : o.tag = "value"}}

OwnFailures(r) ==
    {FormatErrorKind(e) : e \in EngineErrors}
      \cup {out.err : out \in {o \in OwnOutcomes(r) : o.tag = "throw"}}

\* The caller's run() of each query: pending while it awaits the engine or
\* Promise.all, then settled with a value or an error of some class.
CallerStatus ==
    [q \in Queries |-> IF run[Top(q)].pc \in {"engine", "fanout"} THEN "pending"
                       ELSE run[Top(q)].pc]

CallerResult ==
    [q \in Queries |-> CASE run[Top(q)].pc = "resolved" -> run[Top(q)].res
                          [] run[Top(q)].pc = "rejected" -> [failed |-> run[Top(q)].res.kind]
                          [] OTHER -> UndefV]

Caller == INSTANCE QueryAbstract
            WITH request <- req, status <- CallerStatus, result <- CallerResult,
                 NoRequest <- UndefV, NoResult <- UndefV,
                 Answers <- OwnAnswers, Failures <- OwnFailures

\* run() keeps QueryAbstract's promise to its caller: queries settle once,
\* in the order issued, each with what its own statement gives (the
\* shaping of the engine's answer to it, the declared indexes for a
\* PRAGMA INDEX_LIST, or formatError of an engine error), however the nested runs
\* of handleShowIndexesQuery and the shared this.sql interleave.
CallerRefined == Caller!Spec

=============================================================================
