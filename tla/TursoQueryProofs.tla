-------------------------- MODULE TursoQueryProofs --------------------------
(***************************************************************************)
(* Proofs about TursoQuery, for every value of its constants that meets    *)
(* its ASSUMEs.  TypeOK is not inductive by itself: the engine's answer to *)
(* a statement, and so the type of what run() resolves with, depends on    *)
(* the statement's SQL and mode, and _handleQueryResponse dispatches on    *)
(* this.sql, not on the statement that answered.  IInv records what the    *)
(* code keeps true about them, above all for handleShowIndexesQuery:       *)
(* nested runs exist only under showIndexes, nested run i runs PRAGMA      *)
(* INDEX_INFO of the i-th declared index in rowset mode, and this.sql is   *)
(* an INDEX_INFO while nested runs are open.                               *)
(***************************************************************************)
EXTENDS TursoQuery, TLAPS

Nested(q, i) == run[<<q, i>>]

\* The correct item i of showIndexes: its index, with its columns by seqno.
DeclaredItem(i) == [name |-> DeclaredIndexes[i], fields |-> DeclaredFields(DeclaredIndexes[i])]

\* The caller's run of query q matches its request.
TopConsistent(q) ==
    /\ run[Top(q)].pc # "idle" =>
         /\ req[q] \in Requests
         /\ run[Top(q)].sql = Sql(req[q].sql, NoIndex)
         /\ run[Top(q)].method = DatabaseMethod(req[q], run[Top(q)].sql)
    /\ run[Top(q)].pc = "engine" => thisSql[q] = run[Top(q)].sql

\* The nested runs handleShowIndexesQuery started for query q.
NestedConsistent(q) ==
    \A i \in Items :
        Nested(q, i).pc # "idle" =>
          /\ run[Top(q)].pc \in {"fanout", "resolved", "rejected"}
          /\ req[q].sql = "INDEX_LIST"
          /\ Nested(q, i).sql = Sql("INDEX_INFO", DeclaredIndexes[i])
          /\ Nested(q, i).method = "all"
          /\ thisSql[q].tag = "INDEX_INFO"
          /\ items[q][i].name = DeclaredIndexes[i]
          /\ Nested(q, i).pc # "rejected" =>
               Nested(q, i).pc \in {"engine", "resolved"}
          /\ Nested(q, i).pc = "resolved" => items[q][i] = DeclaredItem(i)

\* Promise.all of handleShowIndexesQuery: pending while every item is
\* pending or done, and resolved only with every item done.
FanOutConsistent(q) ==
    /\ run[Top(q)].pc = "fanout" =>
         /\ req[q].sql = "INDEX_LIST"
         /\ \A i \in Items : Nested(q, i).pc \in {"engine", "resolved"}
    /\ run[Top(q)].pc = "resolved" /\ req[q].sql = "INDEX_LIST" =>
         /\ run[Top(q)].res = IndexesResult(items[q])
         /\ \A i \in Items : Nested(q, i).pc = "resolved"

IInv ==
    /\ TypeOK
    /\ \A q \in Queries : TopConsistent(q) /\ NestedConsistent(q) /\ FanOutConsistent(q)

-----------------------------------------------------------------------------
(***************************************************************************)
(* Lemmas about the engine's answers.                                      *)
(***************************************************************************)
RowRec == [row : Nat] \cup [seqno : Nat, name : STRING] \cup TableRow \cup [name : STRING]

\* Every answer of a statement other than PRAGMA INDEX_LIST is a list of rows.
LEMMA RowSetsAreSeqs == RowSets \subseteq Seq(RowRec)
<1>1. \A n \in 0..MaxRows : GenericRows(n) \in Seq(RowRec)
  BY BoundsAssumption DEF GenericRows, RowRec
<1>2. \A ix \in IndexNames : InfoRows(ix) \in Seq(RowRec)
  <2>1. SUFFICES ASSUME NEW ix \in IndexNames PROVE InfoRows(ix) \in Seq(RowRec)
    OBVIOUS
  <2>2. IndexColumns[ix] \in Seq(STRING)
    BY IndexesAssumption
  <2>3. QED
    BY <2>2 DEF InfoRows, RowRec
<1>3. TableColumns \in Seq(RowRec)
  BY TableAssumption DEF RowRec
<1>4. QED
  BY <1>1, <1>2, <1>3 DEF RowSets

\* Rowcount mode answers no rows, which is one of the answers GenericRows gives.
LEMMA NoRows == << >> \in RowSets
<1>1. GenericRows(0) = << >>
  BY DEF GenericRows
<1>2. 0 \in 0..MaxRows
  BY BoundsAssumption
<1>3. QED
  BY <1>1, <1>2 DEF RowSets

\* Reversing the engine's INDEX_LIST answer gives the declaration order back.
LEMMA IndexListOrder ==
    IndexItems(ReverseSeq(IndexListRows)) = IndexListRows
BY IndexesAssumption DEF IndexItems, ReverseSeq, IndexListRows, Items

\* PRAGMA INDEX_INFO numbers an index's columns 0, 1, ... in order.
LEMMA InfoRowsSeqno ==
    ASSUME NEW ix \in IndexNames, NEW s \in 0..Len(IndexColumns[ix]) - 1
    PROVE  /\ s + 1 \in DOMAIN InfoRows(ix)
           /\ InfoRows(ix)[s + 1].seqno = s
           /\ InfoRows(ix)[s + 1].name = IndexColumns[ix][s + 1]
           /\ \A j \in DOMAIN InfoRows(ix) : InfoRows(ix)[j].seqno = s => j = s + 1
<1>1. Len(IndexColumns[ix]) \in Nat
  BY IndexesAssumption
<1>2. s + 1 \in 1..Len(IndexColumns[ix])
  BY <1>1
<1>3. DOMAIN InfoRows(ix) = 1..Len(IndexColumns[ix])
  BY DEF InfoRows
<1>4. InfoRows(ix)[s + 1] = [seqno |-> s, name |-> IndexColumns[ix][s + 1]]
  BY <1>2 DEF InfoRows
<1>5. \A j \in DOMAIN InfoRows(ix) : InfoRows(ix)[j].seqno = j - 1
  BY DEF InfoRows
<1>6. QED
  BY <1>2, <1>3, <1>4, <1>5

LEMMA InfoRowsSeqnos ==
    ASSUME NEW ix \in IndexNames
    PROVE  {InfoRows(ix)[k].seqno : k \in DOMAIN InfoRows(ix)} = 0..Len(IndexColumns[ix]) - 1
<1>1. \A k \in DOMAIN InfoRows(ix) : InfoRows(ix)[k].seqno = k - 1
  BY DEF InfoRows
<1>2. DOMAIN InfoRows(ix) = 1..Len(IndexColumns[ix])
  BY DEF InfoRows
<1>3. Len(IndexColumns[ix]) \in Nat
  BY IndexesAssumption
<1>4. ASSUME NEW x \in 0..Len(IndexColumns[ix]) - 1
      PROVE  \E k \in DOMAIN InfoRows(ix) : InfoRows(ix)[k].seqno = x
  BY <1>4, InfoRowsSeqno
<1>5. \A k \in DOMAIN InfoRows(ix) : InfoRows(ix)[k].seqno \in 0..Len(IndexColumns[ix]) - 1
  BY <1>1, <1>2, <1>3
<1>6. QED
  BY <1>4, <1>5

\* The mapper of handleShowIndexesQuery puts each INDEX_INFO column at its
\* seqno, so item.fields lists the index's columns in order.
LEMMA ColumnsInOrder ==
    ASSUME NEW ix \in IndexNames
    PROVE  ColumnsBySeqno(InfoRows(ix)) = DeclaredFields(ix)
<1>1. {InfoRows(ix)[k].seqno : k \in DOMAIN InfoRows(ix)} = 0..Len(IndexColumns[ix]) - 1
  BY InfoRowsSeqnos
<1>2. ASSUME NEW s \in 0..Len(IndexColumns[ix]) - 1
      PROVE  (CHOOSE k \in DOMAIN InfoRows(ix) :
                 /\ InfoRows(ix)[k].seqno = s
                 /\ \A j \in DOMAIN InfoRows(ix) : InfoRows(ix)[j].seqno = s => j <= k)
             = s + 1
  <2>1. /\ s + 1 \in DOMAIN InfoRows(ix)
        /\ InfoRows(ix)[s + 1].seqno = s
        /\ \A j \in DOMAIN InfoRows(ix) : InfoRows(ix)[j].seqno = s => j = s + 1
    BY InfoRowsSeqno
  <2>2. QED
    BY <2>1
<1>3. \A s \in 0..Len(IndexColumns[ix]) - 1 : InfoRows(ix)[s + 1].name = IndexColumns[ix][s + 1]
  BY InfoRowsSeqno
<1>4. QED
  BY <1>1, <1>2, <1>3 DEF ColumnsBySeqno, DeclaredFields

-----------------------------------------------------------------------------
(***************************************************************************)
(* What run() makes of the engine's answer to the caller's own statement.  *)
(***************************************************************************)
TopSql(r) == Sql(r.sql, NoIndex)
TopMethod(r) == DatabaseMethod(r, TopSql(r))
TopOut(r, resp) == HandleQueryResponse(r, TopSql(r), resp.meta, resp.rows)

\* data.reverse() of a list is a list of the same elements.
LEMMA ReverseIsSeq ==
    ASSUME NEW S, NEW seq \in Seq(S)
    PROVE  ReverseSeq(seq) \in Seq(S) /\ Len(ReverseSeq(seq)) = Len(seq)
BY DEF ReverseSeq

\* The engine's answer: metadata, and rows of the kind the SQL asks for.
LEMMA TopResponse ==
    ASSUME NEW r \in Requests, NEW resp \in Responses(TopSql(r), TopMethod(r))
    PROVE  /\ resp.meta \in Meta
           /\ resp.rows \in Seq(RowRec)
           /\ r.sql # "INDEX_LIST" => resp.rows \in RowSets
           /\ r.sql = "INDEX_LIST" => resp.rows = ReverseSeq(IndexListRows)
           /\ r.sql = "TABLE_INFO" /\ TopMethod(r) = "all" => resp.rows = TableColumns
<1>1. r \in Request /\ r.sql # "INDEX_INFO" /\ (r.sql = "INDEX_LIST" => r.type = "RAW")
  BY RequestsAssumption
<1>2. TopSql(r).tag = r.sql
  BY DEF TopSql, Sql
<1>3. r.sql = "INDEX_LIST" => TopMethod(r) = "all"
  BY <1>1, <1>2 DEF TopMethod, DatabaseMethod
<1>4. ReverseSeq(IndexListRows) \in Seq(RowRec)
  <2>1. IndexListRows \in Seq(RowRec)
    BY IndexesAssumption DEF IndexListRows, Items, RowRec
  <2>2. QED
    BY <2>1, ReverseIsSeq
<1>5. RowSets \subseteq Seq(RowRec)
  BY RowSetsAreSeqs
<1>6. CASE TopMethod(r) = "all"
  <2>1. PICK rows \in EngineRows(TopSql(r)) :
           resp = [meta |-> [lastID |-> 0, changes |-> 0], rows |-> rows]
    BY <1>6 DEF Responses
  <2>2. resp.meta \in Meta
    BY <2>1, BoundsAssumption DEF Meta
  <2>3. r.sql = "INDEX_LIST" => resp.rows = ReverseSeq(IndexListRows)
    BY <2>1, <1>2 DEF EngineRows
  <2>4. r.sql = "TABLE_INFO" => resp.rows = TableColumns
    BY <2>1, <1>2 DEF EngineRows
  <2>5. r.sql \notin {"INDEX_LIST", "TABLE_INFO"} => resp.rows \in RowSets
    <3>1. CASE r.sql = "EMPTY_SET"
      BY <2>1, <1>2, <3>1, BoundsAssumption DEF EngineRows, RowSets
    <3>2. CASE r.sql \notin {"INDEX_LIST", "TABLE_INFO", "EMPTY_SET"}
      BY <2>1, <1>1, <1>2, <3>2 DEF EngineRows, RowSets
    <3> QED
      BY <3>1, <3>2
  <2>6. TableColumns \in RowSets
    BY DEF RowSets
  <2>7. QED
    BY <2>2, <2>3, <2>4, <2>5, <2>6, <1>4, <1>5
<1>7. CASE TopMethod(r) # "all"
  <2>1. resp.meta \in Meta /\ resp.rows = << >>
    BY <1>7, BoundsAssumption DEF Responses, Meta
  <2>2. QED
    BY <2>1, <1>3, <1>7, NoRows, <1>5
<1>8. QED
  BY <1>6, <1>7

\* _handleQueryResponse on the caller's statement returns a result of the
\* shapes run() resolves with, throws EmptyResultError, or continues in
\* handleShowIndexesQuery with the engine's INDEX_LIST rows.
LEMMA TopOutcome ==
    ASSUME NEW r \in Requests, NEW resp \in Responses(TopSql(r), TopMethod(r))
    PROVE  \/ /\ TopOut(r, resp).tag = "value"
              /\ r.sql # "INDEX_LIST"
              /\ TopOut(r, resp).val \in Values
              /\ TopOut(r, resp).populated \in BOOLEAN
           \/ /\ TopOut(r, resp).tag = "throw"
              /\ r.sql # "INDEX_LIST"
              /\ TopOut(r, resp).err \in ErrorKinds
           \/ /\ TopOut(r, resp).tag = "fanout"
              /\ r.sql = "INDEX_LIST"
              /\ TopOut(r, resp).data = ReverseSeq(IndexListRows)
<1>0. SUFFICES /\ r.sql = "INDEX_LIST" =>
                    /\ TopOut(r, resp).tag = "fanout"
                    /\ TopOut(r, resp).data = ReverseSeq(IndexListRows)
               /\ r.sql # "INDEX_LIST" =>
                    \/ /\ TopOut(r, resp).tag = "value"
                       /\ TopOut(r, resp).val \in Values
                       /\ TopOut(r, resp).populated \in BOOLEAN
                    \/ /\ TopOut(r, resp).tag = "throw"
                       /\ TopOut(r, resp).err \in ErrorKinds
  OBVIOUS
<1>1. /\ resp.meta \in Meta
      /\ resp.rows \in Seq(RowRec)
      /\ r.sql # "INDEX_LIST" => resp.rows \in RowSets
      /\ r.sql = "INDEX_LIST" => resp.rows = ReverseSeq(IndexListRows)
      /\ r.sql = "TABLE_INFO" /\ TopMethod(r) = "all" => resp.rows = TableColumns
  BY TopResponse
<1>2. /\ r \in Request
      /\ r.sql # "INDEX_INFO"
      /\ r.sql = "INDEX_LIST" => r.type = "RAW"
      /\ r.type = "SHOWINDEXES" => r.sql = "EMPTY_SET"
  BY RequestsAssumption
<1>3. TopSql(r).tag = r.sql
  BY DEF TopSql, Sql
<1>4. resp.meta.changes \in Nat /\ Len(resp.rows) \in Nat
  BY <1>1 DEF Meta
<1>5. CASE r.type \in {"INSERT", "UPDATE", "UPSERT"}
  BY <1>2, <1>4, <1>5 DEF TopOut, HandleQueryResponse, Return, Throw, Pair, Values, ErrorKinds
<1>6. CASE r.type = "BULKUPDATE"
  BY <1>2, <1>4, <1>6 DEF TopOut, HandleQueryResponse, Return, Select, Count, Values
<1>7. CASE r.type = "DELETE"
  BY <1>2, <1>4, <1>7 DEF TopOut, HandleQueryResponse, Return, Count, Values
<1>8. CASE r.type = "SHOWCONSTRAINTS"
  BY <1>1, <1>2, <1>8 DEF TopOut, HandleQueryResponse, Return, PassRows, Values
<1>9. CASE r.type = "SELECT"
  BY <1>2, <1>4, <1>9 DEF TopOut, HandleQueryResponse, Return, Select, Values
<1>10. CASE r.type = "SHOWINDEXES"
  BY <1>1, <1>2, <1>3, <1>4, <1>10 DEF TopOut, HandleQueryResponse, Return, InstanceResult, Values
<1>11. CASE r.type \in {"DESCRIBE", "RAW"}
  <2>0. CASE r.sql = "INDEX_LIST"
    BY <1>1, <1>2, <1>3, <1>11, <2>0 DEF TopOut, HandleQueryResponse, FanOut
  <2>1. CASE r.sql = "SHOW"
    BY <1>1, <1>2, <1>3, <1>11, <2>1 DEF TopOut, HandleQueryResponse, Return, PassRows, Values
  <2>2. CASE r.sql = "TABLE_INFO"
    <3>1. TopMethod(r) = "all"
      BY <1>3, <1>11, <2>2 DEF TopMethod, DatabaseMethod
    <3>2. resp.rows = TableColumns
      BY <1>1, <2>2, <3>1
    <3>3. QED
      BY <1>2, <1>3, <1>11, <2>2, <3>2 DEF TopOut, HandleQueryResponse, Return, Values
  <2>3. CASE r.sql \in {"CREATE_TEMP", "EMPTY_SET", "OTHER"}
    BY <1>1, <1>2, <1>3, <1>11, <2>3 DEF TopOut, HandleQueryResponse, Return, InstanceResult, Values
  <2>4. QED
    BY <1>2, <1>11, <2>0, <2>1, <2>2, <2>3 DEF Request, SqlTags
<1>12. QED
  BY <1>2, <1>5, <1>6, <1>7, <1>8, <1>9, <1>10, <1>11 DEF Request, QueryTypes

-----------------------------------------------------------------------------
(***************************************************************************)
(* The inductive step, one lemma per action.                               *)
(***************************************************************************)
LEMMA RunIdFacts ==
    ASSUME NEW q \in Queries, NEW p \in Queries, NEW i \in Items
    PROVE  /\ Top(q) \in RunIds
           /\ <<p, i>> \in RunIds
           /\ <<p, i>> # Top(q)
           /\ (Top(p) = Top(q)) <=> (p = q)
           /\ (<<p, i>> = <<q, i>>) <=> (p = q)
BY DEF Top, RunIds, Items

LEMMA InitIInv == Init => IInv
<1> SUFFICES ASSUME Init PROVE IInv
  OBVIOUS
<1>1. Idle \in RunState
  BY DEF Idle, RunState
<1>2. [name |-> UndefV, fields |-> << >>] \in Item
  <2>1. << >> \in [{} -> ColumnNames]
    OBVIOUS
  <2>2. {} \in SUBSET SeqNos
    OBVIOUS
  <2>3. QED
    BY <2>1, <2>2 DEF Item
<1>3. TypeOK
  BY <1>1, <1>2 DEF Init, TypeOK
<1>4. \A q \in Queries : TopConsistent(q) /\ NestedConsistent(q) /\ FanOutConsistent(q)
  BY DEF Init, TopConsistent, NestedConsistent, FanOutConsistent, Nested, Idle, Top, RunIds, Items
<1>5. QED
  BY <1>3, <1>4 DEF IInv

LEMMA IssueIInv ==
    ASSUME IInv, NEW q \in Queries, Issue(q)
    PROVE  IInv'
<1>1. PICK r \in Requests :
        /\ req' = [req EXCEPT ![q] = r]
        /\ thisSql' = [thisSql EXCEPT ![q] = TopSql(r)]
        /\ run' = [run EXCEPT ![Top(q)] = Started(TopSql(r), TopMethod(r))]
  BY DEF Issue, TopSql, TopMethod
<1>2. UNCHANGED <<items, populated, affected>>
  BY DEF Issue
<1>3. run[Top(q)].pc = "idle"
  BY DEF Issue
<1>4. TypeOK
  BY DEF IInv
<1>5. \A i \in Items : Nested(q, i).pc = "idle"
  BY <1>3 DEF IInv, NestedConsistent
<1>6. TopSql(r) \in SqlText /\ TopMethod(r) \in {"all", "run"}
  <2>1. r \in Request
    BY RequestsAssumption
  <2>2. QED
    BY <2>1 DEF TopSql, Sql, SqlText, Request, TopMethod, DatabaseMethod
<1>7. TypeOK'
  <2>1. Started(TopSql(r), TopMethod(r)) \in RunState
    BY <1>6 DEF Started, RunState
  <2>2. QED
    BY <1>1, <1>2, <1>4, <1>6, <2>1, RunIdFacts DEF TypeOK
<1>8. ASSUME NEW p \in Queries
      PROVE  TopConsistent(p)' /\ NestedConsistent(p)' /\ FanOutConsistent(p)'
  <2>1. CASE p = q
    <3>1. /\ req'[q] = r /\ thisSql'[q] = TopSql(r)
          /\ run'[Top(q)] = Started(TopSql(r), TopMethod(r))
          /\ \A i \in Items : run'[<<q, i>>] = run[<<q, i>>]
      BY <1>1, <1>4 DEF TypeOK, Top, RunIds, Items
    <3>2. TopConsistent(q)'
      BY <3>1 DEF TopConsistent, Started, TopSql, TopMethod
    <3>3. NestedConsistent(q)'
      BY <3>1, <1>5 DEF NestedConsistent, Nested
    <3>4. FanOutConsistent(q)'
      BY <3>1 DEF FanOutConsistent, Started
    <3>5. QED
      BY <2>1, <3>2, <3>3, <3>4
  <2>2. CASE p # q
    <3>1. /\ req'[p] = req[p] /\ thisSql'[p] = thisSql[p]
          /\ run'[Top(p)] = run[Top(p)]
          /\ \A i \in Items : run'[<<p, i>>] = run[<<p, i>>]
      BY <1>1, <1>4, <2>2 DEF TypeOK, Top, RunIds, Items
    <3>2. TopConsistent(p) /\ NestedConsistent(p) /\ FanOutConsistent(p)
      BY DEF IInv
    <3>3. QED
      BY <1>2, <3>1, <3>2 DEF TopConsistent, NestedConsistent, FanOutConsistent, Nested
  <2>3. QED
    BY <2>1, <2>2
<1>9. QED
  BY <1>7, <1>8 DEF IInv

\* The frame of a step that changes only query q's part of the state.
LEMMA OtherQueries ==
    ASSUME IInv, NEW q \in Queries, NEW p \in Queries, p # q,
           req'[p] = req[p], thisSql'[p] = thisSql[p], items'[p] = items[p],
           run'[Top(p)] = run[Top(p)],
           \A i \in Items : run'[<<p, i>>] = run[<<p, i>>]
    PROVE  TopConsistent(p)' /\ NestedConsistent(p)' /\ FanOutConsistent(p)'
<1>1. TopConsistent(p) /\ NestedConsistent(p) /\ FanOutConsistent(p)
  BY DEF IInv
<1>2. QED
  BY <1>1 DEF TopConsistent, NestedConsistent, FanOutConsistent, Nested

\* formatError always builds one of the error classes.
LEMMA ErrorKindType == \A e : FormatErrorKind(e) \in ErrorKinds
BY DEF FormatErrorKind, ErrorKinds

\* The statement of a running run has a SQL text.
LEMMA EngineSql ==
    ASSUME IInv, NEW q \in Queries, NEW i \in 0..Len(DeclaredIndexes),
           run[<<q, i>>].pc = "engine"
    PROVE  run[<<q, i>>].sql \in SqlText
<1>1. CASE i = 0
  <2>1. req[q] \in Requests /\ run[<<q, i>>].sql = Sql(req[q].sql, NoIndex)
    BY <1>1 DEF IInv, TopConsistent, Top
  <2>2. req[q] \in Request
    BY <2>1, RequestsAssumption
  <2>3. QED
    BY <2>1, <2>2 DEF Sql, SqlText, Request
<1>2. CASE i # 0
  <2>1. i \in Items
    BY <1>2 DEF Items
  <2>2. run[<<q, i>>].sql = Sql("INDEX_INFO", DeclaredIndexes[i])
    BY <2>1 DEF IInv, NestedConsistent, Nested
  <2>3. QED
    BY <2>1, <2>2 DEF Sql, SqlText, IndexNames, SqlTags
<1>3. QED
  BY <1>1, <1>2

\* A failed statement's error, and the rejected run, are well typed.
LEMMA RejectedType ==
    ASSUME IInv, NEW q \in Queries, NEW i \in 0..Len(DeclaredIndexes),
           run[<<q, i>>].pc = "engine", NEW e
    PROVE  /\ EngineError(q, run[<<q, i>>], e) \in Errors
           /\ Rejected(run[<<q, i>>], EngineError(q, run[<<q, i>>], e)) \in RunState
<1>1. run[<<q, i>>].sql \in SqlText
  BY EngineSql
<1>2. TypeOK /\ <<q, i>> \in RunIds
  BY DEF IInv, RunIds
<1>3. EngineError(q, run[<<q, i>>], e) \in Errors
  BY <1>1, <1>2, ErrorKindType DEF TypeOK, Errors, EngineError
<1>4. QED
  BY <1>2, <1>3 DEF TypeOK, Rejected, RunState

LEMMA TopFailsIInv ==
    ASSUME IInv, NEW q \in Queries, TopFails(q)
    PROVE  IInv'
<1>1. TypeOK /\ TopConsistent(q) /\ NestedConsistent(q) /\ FanOutConsistent(q)
  BY DEF IInv
<1>2. run[Top(q)].pc = "engine" /\ Top(q) = <<q, 0>> /\ Top(q) \in RunIds
  BY DEF TopFails, Top, RunIds
<1>3. PICK e \in EngineErrors :
        run' = [run EXCEPT ![Top(q)] = Rejected(run[Top(q)], EngineError(q, run[Top(q)], e))]
  BY DEF TopFails
<1>4. UNCHANGED <<req, thisSql, items, populated, affected>>
  BY DEF TopFails
<1> DEFINE rej == Rejected(run[Top(q)], EngineError(q, run[Top(q)], e))
<1>5. rej \in RunState
  BY <1>2, RejectedType, 0 \in 0..Len(DeclaredIndexes)
<1>6. TypeOK'
  BY <1>1, <1>3, <1>4, <1>5 DEF TypeOK
<1>7. \A j \in Items : Nested(q, j).pc = "idle"
  BY <1>1, <1>2 DEF NestedConsistent
<1>8. /\ run'[Top(q)] = rej
      /\ \A j \in Items : run'[<<q, j>>] = run[<<q, j>>]
      /\ \A p \in Queries \ {q} : run'[Top(p)] = run[Top(p)]
      /\ \A p \in Queries \ {q}, j \in Items : run'[<<p, j>>] = run[<<p, j>>]
  BY <1>1, <1>2, <1>3 DEF TypeOK, Top, RunIds, Items
<1>9. TopConsistent(q)' /\ NestedConsistent(q)' /\ FanOutConsistent(q)'
  BY <1>1, <1>2, <1>4, <1>7, <1>8
     DEF TopConsistent, NestedConsistent, FanOutConsistent, Nested, Rejected
<1>10. ASSUME NEW p \in Queries, p # q
       PROVE  TopConsistent(p)' /\ NestedConsistent(p)' /\ FanOutConsistent(p)'
  BY <1>4, <1>8, <1>10, OtherQueries
<1>11. QED
  BY <1>6, <1>9, <1>10 DEF IInv

LEMMA NestedFailsIInv ==
    ASSUME IInv, NEW q \in Queries, NEW i \in Items, NestedFails(q, i)
    PROVE  IInv'
<1>1. TypeOK /\ TopConsistent(q) /\ NestedConsistent(q) /\ FanOutConsistent(q)
  BY DEF IInv
<1>2. /\ run[<<q, i>>].pc = "engine"
      /\ <<q, i>> \in RunIds /\ Top(q) \in RunIds /\ <<q, i>> # Top(q)
      /\ i \in 0..Len(DeclaredIndexes)
  BY DEF NestedFails, Top, RunIds, Items
<1>3. PICK e \in EngineErrors :
        run' = [run EXCEPT ![<<q, i>>] = Rejected(run[<<q, i>>], EngineError(q, run[<<q, i>>], e)),
                           ![Top(q)] = PromiseAllRejects(@, EngineError(q, run[<<q, i>>], e))]
  BY DEF NestedFails
<1>4. UNCHANGED <<req, thisSql, items, populated, affected>>
  BY DEF NestedFails
<1> DEFINE err == EngineError(q, run[<<q, i>>], e)
           rej == Rejected(run[<<q, i>>], err)
           top2 == PromiseAllRejects(run[Top(q)], err)
<1>5. err \in Errors /\ rej \in RunState
  BY <1>2, RejectedType
<1>6. run[Top(q)].pc \in {"fanout", "rejected"}
  BY <1>1, <1>2 DEF NestedConsistent, FanOutConsistent, Nested
<1>7. /\ top2 \in RunState
      /\ top2.pc = "rejected"
      /\ top2.sql = run[Top(q)].sql
      /\ top2.method = run[Top(q)].method
  BY <1>1, <1>2, <1>5, <1>6 DEF TypeOK, PromiseAllRejects, Rejected, RunState
<1>8. /\ run' = [run EXCEPT ![<<q, i>>] = rej, ![Top(q)] = top2]
  BY <1>2, <1>3
<1>9. /\ run'[<<q, i>>] = rej
      /\ run'[Top(q)] = top2
      /\ \A j \in Items \ {i} : run'[<<q, j>>] = run[<<q, j>>]
      /\ \A p \in Queries \ {q} : run'[Top(p)] = run[Top(p)]
      /\ \A p \in Queries \ {q}, j \in Items : run'[<<p, j>>] = run[<<p, j>>]
  BY <1>1, <1>2, <1>8 DEF TypeOK, Top, RunIds, Items
<1>10. TypeOK'
  BY <1>1, <1>4, <1>5, <1>7, <1>8 DEF TypeOK
<1>11. TopConsistent(q)'
  BY <1>1, <1>4, <1>6, <1>7, <1>9 DEF TopConsistent
<1>12. NestedConsistent(q)'
  <2>1. SUFFICES ASSUME NEW j \in Items, Nested(q, j)'.pc # "idle"
                 PROVE  NestedConsistent(q)!(j)'
    BY DEF NestedConsistent
  <2>2. run'[Top(q)].pc \in {"fanout", "resolved", "rejected"}
    BY <1>7, <1>9
  <2>3. CASE j = i
    <3>1. Nested(q, i).pc # "idle"
      BY <1>2 DEF Nested
    <3>2. /\ run'[<<q, i>>].pc = "rejected"
          /\ run'[<<q, i>>].sql = Nested(q, i).sql
          /\ run'[<<q, i>>].method = Nested(q, i).method
      BY <1>9, <1>1, <1>2 DEF TypeOK, Rejected, Nested, rej
    <3>3. QED
      BY <1>1, <1>4, <2>2, <2>3, <3>1, <3>2 DEF NestedConsistent, Nested
  <2>4. CASE j # i
    <3>1. run'[<<q, j>>] = run[<<q, j>>]
      BY <1>9, <2>4
    <3>2. QED
      BY <1>1, <1>4, <2>1, <2>2, <3>1 DEF NestedConsistent, Nested
  <2>5. QED
    BY <2>3, <2>4
<1>13. FanOutConsistent(q)'
  BY <1>7, <1>9 DEF FanOutConsistent
<1>14. ASSUME NEW p \in Queries, p # q
       PROVE  TopConsistent(p)' /\ NestedConsistent(p)' /\ FanOutConsistent(p)'
  BY <1>4, <1>9, <1>14, OtherQueries
<1>15. QED
  BY <1>10, <1>11, <1>12, <1>13, <1>14 DEF IInv

\* handleShowIndexesQuery, started on the engine's INDEX_LIST answer,
\* names item i after the i-th declared index and starts its INDEX_INFO.
LEMMA ShowIndexesIInv ==
    ASSUME IInv, NEW q \in Queries,
           run[Top(q)].pc = "engine", req[q] \in Requests, req[q].sql = "INDEX_LIST",
           ShowIndexes(q, ReverseSeq(IndexListRows)),
           UNCHANGED <<req, populated>>, affected' \in [Queries -> Nat]
    PROVE  IInv'
<1> DEFINE n == Len(DeclaredIndexes)
           info(i) == Sql("INDEX_INFO", DeclaredIndexes[i])
           newItems == [i \in Items |-> [name |-> DeclaredIndexes[i], fields |-> << >>]]
           top2 == IF n = 0 THEN Resolved(run[Top(q)], IndexesResult(<< >>))
                   ELSE [run[Top(q)] EXCEPT !.pc = "fanout", !.stmt = "closed"]
<1>1. TypeOK /\ TopConsistent(q) /\ NestedConsistent(q) /\ FanOutConsistent(q)
  BY DEF IInv
<1>2. \A j \in Items : Nested(q, j).pc = "idle"
  BY <1>1 DEF NestedConsistent
<1>3. /\ IndexItems(ReverseSeq(IndexListRows)) = IndexListRows
      /\ Len(IndexListRows) = n
      /\ \A i \in Items : IndexListRows[i].name = DeclaredIndexes[i]
      /\ n \in Nat
  BY IndexListOrder, IndexesAssumption DEF IndexListRows, Items
<1>4. \A i \in Items : DeclaredIndexes[i] \in IndexNames /\ info(i) \in SqlText
  BY DEF IndexNames, info, Sql, SqlText, SqlTags
<1>5. \A i \in Items : DatabaseMethod(req[q], info(i)) = "all"
  <2>1. req[q].type = "RAW"
    BY RequestsAssumption
  <2> QED
    BY <2>1 DEF DatabaseMethod, info, Sql
<1> DEFINE list == IndexItems(ReverseSeq(IndexListRows))
<1>6. /\ items'[q] = newItems
      /\ \A p \in Queries \ {q} : items'[p] = items[p]
      /\ items' \in [Queries -> [Items -> Item]]
  <2>0. items' = [items EXCEPT ![q] = [i \in Items |->
                    IF i <= Len(list) THEN [name |-> list[i].name, fields |-> << >>]
                    ELSE items[q][i]]]
    BY DEF ShowIndexes, list
  <2>1. newItems \in [Items -> Item]
    <3>1. << >> \in UNION {[S -> ColumnNames] : S \in SUBSET SeqNos}
      <4>1. << >> \in [{} -> ColumnNames]
        OBVIOUS
      <4>2. QED
        BY <4>1
    <3>2. QED
      BY <1>4, <3>1 DEF Item, newItems
  <2>2. [i \in Items |-> IF i <= Len(list) THEN [name |-> list[i].name, fields |-> << >>]
                         ELSE items[q][i]] = newItems
    BY <1>3 DEF newItems, Items, list
  <2>3. QED
    BY <1>1, <2>0, <2>1, <2>2 DEF TypeOK
<1>7. /\ thisSql'[q] = IF n = 0 THEN thisSql[q] ELSE info(n)
      /\ \A p \in Queries \ {q} : thisSql'[p] = thisSql[p]
      /\ thisSql' \in [Queries -> SqlText \cup {UndefV}]
  <2>1. n # 0 => n \in Items
    BY <1>3 DEF Items
  <2>2. QED
    BY <1>1, <1>3, <1>4, <2>1 DEF ShowIndexes, TypeOK, info
<1>8. run' = [id \in RunIds |->
               CASE id = Top(q) ->
                      IF Len(list) = 0 THEN Resolved(run[id], IndexesResult(<< >>))
                      ELSE [run[id] EXCEPT !.pc = "fanout", !.stmt = "closed"]
                 [] id[1] = q /\ id[2] \in 1..Len(list) ->
                      Started(Sql("INDEX_INFO", list[id[2]].name),
                              DatabaseMethod(req[q], Sql("INDEX_INFO", list[id[2]].name)))
                 [] OTHER -> run[id]]
  BY DEF ShowIndexes, list
<1>9. /\ Top(q) \in RunIds /\ Top(q)[1] = q /\ Top(q)[2] = 0
      /\ run[Top(q)] \in RunState
      /\ Len(list) = n
  BY <1>1, <1>3 DEF Top, RunIds, TypeOK, list
<1>10. run'[Top(q)] = top2
  <2>1. ~(Top(q)[1] = q /\ Top(q)[2] \in 1..Len(list))
    BY <1>9
  <2>2. QED
    BY <1>8, <1>9, <2>1 DEF top2
<1>11. ASSUME NEW i \in Items PROVE run'[<<q, i>>] = Started(info(i), "all")
  <2>1. /\ <<q, i>> \in RunIds /\ <<q, i>> # Top(q)
        /\ <<q, i>>[1] = q /\ <<q, i>>[2] \in 1..Len(list)
    BY <1>9 DEF RunIds, Top, Items
  <2>2. list[i].name = DeclaredIndexes[i]
    BY <1>3 DEF list
  <2>3. QED
    BY <1>5, <1>8, <2>1, <2>2 DEF info
<1>12. ASSUME NEW p \in Queries, p # q
       PROVE  /\ run'[Top(p)] = run[Top(p)]
              /\ \A j \in Items : run'[<<p, j>>] = run[<<p, j>>]
  <2>1. Top(p) \in RunIds /\ Top(p) # Top(q) /\ Top(p)[1] # q
    BY <1>12 DEF Top, RunIds
  <2>2. ASSUME NEW j \in Items
        PROVE  <<p, j>> \in RunIds /\ <<p, j>> # Top(q) /\ <<p, j>>[1] # q
    BY <1>12 DEF Top, RunIds, Items
  <2>3. QED
    BY <1>8, <2>1, <2>2
<1>13. top2 \in RunState
  <2>1. CASE n = 0
    <3>1. Items = {}
      BY <2>1 DEF Items
    <3>2. IndexesResult(<< >>) \in Values
      <4>1. << >> \in [Items -> Item]
        BY <3>1
      <4>2. QED
        BY <4>1 DEF IndexesResult, Values
    <3>3. QED
      BY <1>9, <2>1, <3>2 DEF top2, Resolved, RunState
  <2>2. CASE n # 0
    BY <1>9, <2>2 DEF top2, RunState
  <2>3. QED
    BY <2>1, <2>2
<1>14. run' \in [RunIds -> RunState]
  <2>1. \A i \in Items : Started(info(i), "all") \in RunState
    BY <1>4 DEF Started, RunState
  <2>2. ASSUME NEW id \in RunIds PROVE run'[id] \in RunState
    <3>1. CASE id = Top(q)
      BY <1>10, <1>13, <3>1
    <3>2. CASE id[1] = q /\ id # Top(q)
      <4>1. id[2] \in Items /\ id = <<q, id[2]>>
        BY <3>2 DEF RunIds, Top, Items
      <4>2. QED
        BY <1>11, <2>1, <4>1
    <3>3. CASE id[1] # q
      <4>1. id[1] \in Queries /\ (id = Top(id[1]) \/ \E j \in Items : id = <<id[1], j>>)
        BY DEF RunIds, Top, Items
      <4>2. QED
        BY <1>1, <1>12, <3>3, <4>1 DEF TypeOK
    <3>4. QED
      BY <3>1, <3>2, <3>3
  <2>3. QED
    BY <1>8, <2>2
<1>15. TypeOK'
  BY <1>1, <1>6, <1>7, <1>14 DEF TypeOK
<1>16. TopConsistent(q)'
  <2>1. top2.pc # "idle" /\ top2.pc # "engine"
        /\ top2.sql = run[Top(q)].sql /\ top2.method = run[Top(q)].method
    BY <1>9 DEF top2, Resolved, RunState
  <2>2. QED
    BY <1>1, <1>10, <2>1 DEF TopConsistent
<1>17. NestedConsistent(q)'
  <2>1. SUFFICES ASSUME NEW j \in Items PROVE NestedConsistent(q)!(j)'
    BY DEF NestedConsistent
  <2>2. n # 0 /\ n \in Items
    BY <1>3 DEF Items
  <2>3. thisSql'[q].tag = "INDEX_INFO"
    BY <1>7, <2>2 DEF info, Sql
  <2>4. run'[Top(q)].pc = "fanout"
    BY <1>9, <1>10, <2>2 DEF top2
  <2>5. run'[<<q, j>>] = Started(info(j), "all") /\ items'[q][j] = newItems[j]
    BY <1>6, <1>11
  <2>6. QED
    BY <2>3, <2>4, <2>5 DEF Nested, Started, info, newItems
<1>18. FanOutConsistent(q)'
  <2>1. CASE n = 0
    <3>1. Items = {} /\ newItems = << >>
      BY <2>1 DEF Items, newItems
    <3>2. run'[Top(q)].pc = "resolved" /\ run'[Top(q)].res = IndexesResult(<< >>)
      BY <1>9, <1>10, <2>1 DEF top2, Resolved
    <3>3. QED
      BY <1>6, <3>1, <3>2 DEF FanOutConsistent
  <2>2. CASE n # 0
    <3>1. run'[Top(q)].pc = "fanout"
      BY <1>9, <1>10, <2>2 DEF top2
    <3>2. ASSUME NEW j \in Items PROVE run'[<<q, j>>].pc = "engine"
      <4>1. run'[<<q, j>>] = Started(info(j), "all")
        BY <1>11
      <4>2. QED
        BY <4>1 DEF Started
    <3>3. QED
      BY <3>1, <3>2 DEF FanOutConsistent, Nested
  <2>3. QED
    BY <2>1, <2>2
<1>19. ASSUME NEW p \in Queries, p # q
       PROVE  TopConsistent(p)' /\ NestedConsistent(p)' /\ FanOutConsistent(p)'
  BY <1>6, <1>7, <1>12, <1>19, OtherQueries
<1>20. QED
  BY <1>15, <1>16, <1>17, <1>18, <1>19 DEF IInv

\* Settling the caller's run of a request other than showIndexes keeps IInv:
\* the new state of the caller's run keeps its SQL and mode.
LEMMA TopSettleIInv ==
    ASSUME IInv, NEW q \in Queries, run[Top(q)].pc = "engine",
           req[q] \in Requests, req[q].sql # "INDEX_LIST",
           NEW nv \in RunState, nv.pc \in {"resolved", "rejected"},
           nv.sql = run[Top(q)].sql, nv.method = run[Top(q)].method,
           run' = [run EXCEPT ![Top(q)] = nv],
           UNCHANGED <<req, thisSql, items>>,
           populated' \subseteq Queries, affected' \in [Queries -> Nat]
    PROVE  IInv'
<1>1. TypeOK /\ TopConsistent(q) /\ NestedConsistent(q) /\ FanOutConsistent(q)
  BY DEF IInv
<1>2. Top(q) \in RunIds /\ Top(q) = <<q, 0>>
  BY DEF Top, RunIds
<1>3. /\ run'[Top(q)] = nv
      /\ \A j \in Items : run'[<<q, j>>] = run[<<q, j>>]
      /\ \A p \in Queries \ {q} : run'[Top(p)] = run[Top(p)]
      /\ \A p \in Queries \ {q}, j \in Items : run'[<<p, j>>] = run[<<p, j>>]
      /\ run' \in [RunIds -> RunState]
  BY <1>1, <1>2 DEF TypeOK, Top, RunIds, Items
<1>4. \A j \in Items : Nested(q, j).pc = "idle"
  BY <1>1 DEF NestedConsistent
<1>5. TypeOK'
  BY <1>1, <1>3 DEF TypeOK
<1>6. TopConsistent(q)'
  BY <1>1, <1>3 DEF TopConsistent
<1>7. NestedConsistent(q)'
  BY <1>3, <1>4 DEF NestedConsistent, Nested
<1>8. FanOutConsistent(q)'
  BY <1>3 DEF FanOutConsistent
<1>9. ASSUME NEW p \in Queries, p # q
      PROVE  TopConsistent(p)' /\ NestedConsistent(p)' /\ FanOutConsistent(p)'
  BY <1>3, <1>9, OtherQueries
<1>10. QED
  BY <1>5, <1>6, <1>7, <1>8, <1>9 DEF IInv

\* The engine's answer to the caller's statement keeps IInv: run() resolves
\* or rejects, or handleShowIndexesQuery starts the nested runs.
LEMMA TopSucceedsIInv ==
    ASSUME IInv, NEW q \in Queries, TopSucceeds(q)
    PROVE  IInv'
<1>1. TypeOK /\ TopConsistent(q)
  BY DEF IInv
<1>2. run[Top(q)].pc = "engine"
  BY DEF TopSucceeds
<1>3. /\ req[q] \in Requests
      /\ run[Top(q)].sql = TopSql(req[q])
      /\ run[Top(q)].method = TopMethod(req[q])
      /\ thisSql[q] = TopSql(req[q])
  BY <1>1, <1>2 DEF TopConsistent, TopSql, TopMethod
<1>4. PICK resp \in Responses(TopSql(req[q]), TopMethod(req[q])) :
        /\ affected' = [affected EXCEPT ![q] =
                          IF TopMethod(req[q]) = "run" THEN resp.meta.changes ELSE Len(resp.rows)]
        /\ \/ /\ TopOut(req[q], resp).tag = "value"
              /\ run' = [run EXCEPT ![Top(q)] = Resolved(run[Top(q)], TopOut(req[q], resp).val)]
              /\ populated' = IF TopOut(req[q], resp).populated THEN populated \cup {q} ELSE populated
              /\ UNCHANGED <<thisSql, items>>
           \/ /\ TopOut(req[q], resp).tag = "throw"
              /\ run' = [run EXCEPT ![Top(q)] =
                           Rejected(run[Top(q)], [kind |-> TopOut(req[q], resp).err, sql |-> UndefV,
                                                  from |-> run[Top(q)].sql])]
              /\ UNCHANGED <<thisSql, items, populated>>
           \/ /\ TopOut(req[q], resp).tag = "fanout"
              /\ ShowIndexes(q, TopOut(req[q], resp).data)
              /\ UNCHANGED populated
  BY <1>3 DEF TopSucceeds, TopOut
<1>5. UNCHANGED req
  BY DEF TopSucceeds
<1>6. resp.meta \in Meta /\ resp.rows \in Seq(RowRec)
  BY <1>3, TopResponse
<1>7. affected' \in [Queries -> Nat]
  BY <1>1, <1>4, <1>6 DEF TypeOK, Meta
<1>8. \/ /\ TopOut(req[q], resp).tag = "value"
         /\ req[q].sql # "INDEX_LIST"
         /\ TopOut(req[q], resp).val \in Values
         /\ TopOut(req[q], resp).populated \in BOOLEAN
      \/ /\ TopOut(req[q], resp).tag = "throw"
         /\ req[q].sql # "INDEX_LIST"
         /\ TopOut(req[q], resp).err \in ErrorKinds
      \/ /\ TopOut(req[q], resp).tag = "fanout"
         /\ req[q].sql = "INDEX_LIST"
         /\ TopOut(req[q], resp).data = ReverseSeq(IndexListRows)
  BY <1>3, TopOutcome
<1>10. run[Top(q)] \in RunState /\ run[Top(q)].sql \in SqlText
  BY <1>1, <1>2, EngineSql, 0 \in 0..Len(DeclaredIndexes) DEF TypeOK, Top, RunIds
<1>11. CASE TopOut(req[q], resp).tag = "value"
  <2>1. Resolved(run[Top(q)], TopOut(req[q], resp).val) \in RunState
    BY <1>8, <1>10, <1>11 DEF Resolved, RunState
  <2>2. populated' \subseteq Queries
    BY <1>1, <1>4, <1>11 DEF TypeOK
  <2>3. run' = [run EXCEPT ![Top(q)] = Resolved(run[Top(q)], TopOut(req[q], resp).val)]
        /\ UNCHANGED <<thisSql, items>>
    BY <1>4, <1>11
  <2>4. LET nv == Resolved(run[Top(q)], TopOut(req[q], resp).val)
        IN  nv.pc \in {"resolved", "rejected"}
            /\ nv.sql = run[Top(q)].sql /\ nv.method = run[Top(q)].method
    BY <1>10 DEF Resolved
  <2>5. req[q].sql # "INDEX_LIST"
    BY <1>8, <1>11
  <2>6. QED
    BY <1>2, <1>3, <1>5, <1>7, <2>1, <2>2, <2>3, <2>4, <2>5, TopSettleIInv
<1>12. CASE TopOut(req[q], resp).tag = "throw"
  <2>1. [kind |-> TopOut(req[q], resp).err, sql |-> UndefV, from |-> run[Top(q)].sql] \in Errors
    BY <1>8, <1>10, <1>12 DEF Errors
  <2>2. Rejected(run[Top(q)], [kind |-> TopOut(req[q], resp).err, sql |-> UndefV,
                               from |-> run[Top(q)].sql]) \in RunState
    BY <1>10, <2>1 DEF Rejected, RunState
  <2>3. run' = [run EXCEPT ![Top(q)] =
                  Rejected(run[Top(q)], [kind |-> TopOut(req[q], resp).err, sql |-> UndefV,
                                         from |-> run[Top(q)].sql])]
        /\ UNCHANGED <<thisSql, items, populated>>
    BY <1>4, <1>12
  <2>4. populated' \subseteq Queries
    BY <1>1, <2>3 DEF TypeOK
  <2>5. LET nv == Rejected(run[Top(q)], [kind |-> TopOut(req[q], resp).err, sql |-> UndefV,
                                          from |-> run[Top(q)].sql])
        IN  nv.pc \in {"resolved", "rejected"}
            /\ nv.sql = run[Top(q)].sql /\ nv.method = run[Top(q)].method
    BY <1>10 DEF Rejected
  <2>6. req[q].sql # "INDEX_LIST"
    BY <1>8, <1>12
  <2>7. QED
    BY <1>2, <1>3, <1>5, <1>7, <2>2, <2>3, <2>4, <2>5, <2>6, TopSettleIInv
<1>13. CASE TopOut(req[q], resp).tag = "fanout"
  <2>1. req[q].sql = "INDEX_LIST" /\ TopOut(req[q], resp).data = ReverseSeq(IndexListRows)
    BY <1>8, <1>13
  <2>2. ShowIndexes(q, ReverseSeq(IndexListRows)) /\ UNCHANGED populated
    BY <1>4, <1>13, <2>1
  <2>3. QED
    BY <1>2, <1>3, <1>5, <1>7, <2>1, <2>2, ShowIndexesIInv
<1>14. QED
  BY <1>8, <1>11, <1>12, <1>13

\* The item the mapper builds for index i is well typed.
LEMMA DeclaredItemType ==
    ASSUME NEW i \in Items
    PROVE  DeclaredItem(i) \in Item
<1> DEFINE ix == DeclaredIndexes[i]
<1>1. ix \in IndexNames /\ IndexColumns[ix] \in Seq(STRING)
  BY IndexesAssumption DEF IndexNames
<1>2. 0..Len(IndexColumns[ix]) - 1 \subseteq SeqNos
  <2>1. SUFFICES ASSUME NEW s \in 0..Len(IndexColumns[ix]) - 1 PROVE s \in SeqNos
    OBVIOUS
  <2>2. s + 1 \in DOMAIN IndexColumns[ix] /\ s = (s + 1) - 1
    BY <1>1
  <2>3. QED
    BY <1>1, <2>2 DEF SeqNos
<1>3. \A s \in 0..Len(IndexColumns[ix]) - 1 : IndexColumns[ix][s + 1] \in ColumnNames
  <2>1. SUFFICES ASSUME NEW s \in 0..Len(IndexColumns[ix]) - 1
                 PROVE  IndexColumns[ix][s + 1] \in ColumnNames
    OBVIOUS
  <2>2. s + 1 \in DOMAIN IndexColumns[ix]
    BY <1>1
  <2>3. QED
    BY <1>1, <2>2 DEF ColumnNames
<1>4. DeclaredFields(ix) \in [0..Len(IndexColumns[ix]) - 1 -> ColumnNames]
  BY <1>3 DEF DeclaredFields
<1>5. QED
  BY <1>1, <1>2, <1>4 DEF DeclaredItem, Item

\* A nested run() answers with the INDEX_INFO rows of its index, and
\* _handleQueryResponse, reading this.sql, passes them through.
LEMMA NestedAnswer ==
    ASSUME NEW r \in Requests, r.sql = "INDEX_LIST", NEW ts, ts.tag = "INDEX_INFO",
           NEW ix \in IndexNames,
           NEW resp \in Responses(Sql("INDEX_INFO", ix), "all")
    PROVE  /\ resp.rows = InfoRows(ix)
           /\ HandleQueryResponse(r, ts, resp.meta, resp.rows) = Return(PassRows(InfoRows(ix)), FALSE)
<1>1. resp.rows = InfoRows(ix)
  BY DEF Responses, EngineRows, Sql
<1>2. r.type = "RAW"
  BY RequestsAssumption
<1>3. QED
  BY <1>1, <1>2 DEF HandleQueryResponse

\* The engine's answer to the INDEX_INFO statement of item i keeps IInv: the
\* mapper fills item i with its index's columns, and Promise.all resolves
\* with the items array once every item is done.
LEMMA NestedSucceedsIInv ==
    ASSUME IInv, NEW q \in Queries, NEW i \in Items, NestedSucceeds(q, i)
    PROVE  IInv'
<1> DEFINE ix == DeclaredIndexes[i]
           its == [items[q] EXCEPT ![i].fields = DeclaredFields(ix)]
           done == Resolved(run[<<q, i>>], PassRows(InfoRows(ix)))
           alldone == \A j \in Items \ {i} : run[<<q, j>>].pc = "resolved"
           top2 == IF run[Top(q)].pc = "fanout" /\ alldone
                     THEN Resolved(run[Top(q)], IndexesResult(its)) ELSE run[Top(q)]
<1>1. TypeOK /\ TopConsistent(q) /\ NestedConsistent(q) /\ FanOutConsistent(q)
  BY DEF IInv
<1>2. /\ run[<<q, i>>].pc = "engine"
      /\ <<q, i>> \in RunIds /\ Top(q) \in RunIds /\ <<q, i>> # Top(q)
  BY DEF NestedSucceeds, Top, RunIds, Items
<1>3. /\ run[Top(q)].pc \in {"fanout", "rejected"}
      /\ req[q] \in Requests /\ req[q].sql = "INDEX_LIST"
      /\ run[<<q, i>>].sql = Sql("INDEX_INFO", ix)
      /\ run[<<q, i>>].method = "all"
      /\ thisSql[q].tag = "INDEX_INFO"
      /\ items[q][i].name = ix
  <2>1. run[Top(q)].pc # "idle"
    BY <1>1, <1>2 DEF NestedConsistent, Nested
  <2>2. req[q] \in Requests
    BY <1>1, <2>1 DEF TopConsistent
  <2>3. run[Top(q)].pc # "resolved"
    BY <1>1, <1>2 DEF NestedConsistent, FanOutConsistent, Nested
  <2>4. QED
    BY <1>1, <1>2, <2>2, <2>3 DEF NestedConsistent, Nested
<1>4. ix \in IndexNames
  BY DEF IndexNames
<1>5. PICK resp \in Responses(Sql("INDEX_INFO", ix), "all") :
        LET out == HandleQueryResponse(req[q], thisSql[q], resp.meta, resp.rows)
            its0 == [items[q] EXCEPT ![i].fields = ColumnsBySeqno(out.val.rows)]
        IN  /\ items' = [items EXCEPT ![q] = its0]
            /\ run' = [run EXCEPT
                         ![<<q, i>>] = Resolved(run[<<q, i>>], out.val),
                         ![Top(q)] = IF @.pc = "fanout" /\ alldone
                                       THEN Resolved(@, IndexesResult(its0)) ELSE @]
  BY <1>3 DEF NestedSucceeds
<1>6. /\ resp.rows = InfoRows(ix)
      /\ HandleQueryResponse(req[q], thisSql[q], resp.meta, resp.rows)
           = Return(PassRows(InfoRows(ix)), FALSE)
  BY <1>3, <1>4, NestedAnswer
<1>7. ColumnsBySeqno(InfoRows(ix)) = DeclaredFields(ix)
  BY <1>4, ColumnsInOrder
<1>8. /\ HandleQueryResponse(req[q], thisSql[q], resp.meta, resp.rows).val = PassRows(InfoRows(ix))
      /\ HandleQueryResponse(req[q], thisSql[q], resp.meta, resp.rows).val.rows = InfoRows(ix)
      /\ [items[q] EXCEPT ![i].fields =
            ColumnsBySeqno(HandleQueryResponse(req[q], thisSql[q], resp.meta, resp.rows).val.rows)]
         = its
  BY <1>6, <1>7 DEF Return, PassRows
<1>81. items' = [items EXCEPT ![q] = its]
  BY <1>5, <1>8
<1>82. run' = [run EXCEPT ![<<q, i>>] = done,
                          ![Top(q)] = IF run[Top(q)].pc = "fanout" /\ alldone
                                        THEN Resolved(run[Top(q)], IndexesResult(its))
                                        ELSE run[Top(q)]]
  <2>1. run' = [run EXCEPT ![<<q, i>>] = done,
                           ![Top(q)] = IF @.pc = "fanout" /\ alldone
                                         THEN Resolved(@, IndexesResult(its)) ELSE @]
    BY <1>5, <1>8 DEF done
  <2>2. QED
    BY <1>2, <2>1
<1>83. run' = [run EXCEPT ![<<q, i>>] = done, ![Top(q)] = top2]
  BY <1>82 DEF top2
<1>9. UNCHANGED <<req, thisSql, populated, affected>>
  BY DEF NestedSucceeds
<1>10. /\ its \in [Items -> Item]
       /\ its[i] = DeclaredItem(i)
       /\ \A j \in Items \ {i} : its[j] = items[q][j]
  <2>1. items[q] \in [Items -> Item]
    BY <1>1 DEF TypeOK
  <2>2. items[q][i] = [name |-> ix, fields |-> items[q][i].fields]
    BY <1>3, <2>1 DEF Item
  <2>3. its[i] = DeclaredItem(i)
    BY <2>1, <2>2 DEF DeclaredItem
  <2>4. DeclaredItem(i) \in Item
    BY DeclaredItemType
  <2>5. QED
    BY <2>1, <2>3, <2>4
<1>11. /\ done \in RunState
       /\ done.pc = "resolved"
       /\ done.sql = run[<<q, i>>].sql /\ done.method = run[<<q, i>>].method
  <2>1. InfoRows(ix) \in RowSets
    BY <1>4 DEF RowSets
  <2>2. PassRows(InfoRows(ix)) \in Values
    BY <2>1 DEF PassRows, Values
  <2>3. QED
    BY <1>1, <1>2, <2>2 DEF TypeOK, Resolved, RunState, done
<1>12. /\ top2 \in RunState
       /\ top2.sql = run[Top(q)].sql /\ top2.method = run[Top(q)].method
  <2>1. IndexesResult(its) \in Values
    BY <1>10 DEF IndexesResult, Values
  <2>2. run[Top(q)] \in RunState
    BY <1>1, <1>2 DEF TypeOK
  <2>3. QED
    BY <2>1, <2>2 DEF Resolved, RunState, top2
<1>13. /\ run'[<<q, i>>] = done
       /\ run'[Top(q)] = top2
       /\ \A j \in Items \ {i} : run'[<<q, j>>] = run[<<q, j>>]
       /\ \A p \in Queries \ {q} : run'[Top(p)] = run[Top(p)]
       /\ \A p \in Queries \ {q}, j \in Items : run'[<<p, j>>] = run[<<p, j>>]
       /\ run' \in [RunIds -> RunState]
  <2>1. run \in [RunIds -> RunState]
    BY <1>1 DEF TypeOK
  <2>2. run'[<<q, i>>] = done /\ run'[Top(q)] = top2
    BY <1>2, <1>83, <2>1
  <2>3. \A id \in RunIds \ {<<q, i>>, Top(q)} : run'[id] = run[id]
    BY <1>83, <2>1
  <2>4. \A j \in Items \ {i} : <<q, j>> \in RunIds \ {<<q, i>>, Top(q)}
    BY DEF Items, RunIds, Top
  <2>5. \A p \in Queries \ {q}, j \in 0..Len(DeclaredIndexes) :
          <<p, j>> \in RunIds \ {<<q, i>>, Top(q)}
    BY DEF RunIds, Top
  <2>6. \A p \in Queries \ {q}, j \in Items : j \in 0..Len(DeclaredIndexes)
    BY DEF Items
  <2>7. run' \in [RunIds -> RunState]
    BY <1>2, <1>11, <1>12, <1>83, <2>1
  <2>8. QED
    BY <2>2, <2>3, <2>4, <2>5, <2>6, <2>7 DEF Top
<1>14. /\ items'[q] = its
       /\ \A p \in Queries \ {q} : items'[p] = items[p]
       /\ items' \in [Queries -> [Items -> Item]]
  BY <1>1, <1>81, <1>10 DEF TypeOK
<1>15. TypeOK'
  BY <1>1, <1>9, <1>13, <1>14 DEF TypeOK
<1>16. TopConsistent(q)'
  <2>1. top2.pc # "engine"
    BY <1>3 DEF top2, Resolved
  <2>2. QED
    BY <1>1, <1>3, <1>9, <1>12, <1>13, <2>1 DEF TopConsistent
<1>17. top2.pc \in {"fanout", "resolved", "rejected"}
  BY <1>3 DEF top2, Resolved
<1>18. NestedConsistent(q)'
  <2>1. SUFFICES ASSUME NEW j \in Items, Nested(q, j)'.pc # "idle"
                 PROVE  NestedConsistent(q)!(j)'
    BY DEF NestedConsistent
  <2>2. CASE j = i
    BY <1>3, <1>9, <1>10, <1>11, <1>13, <1>14, <1>17, <2>2 DEF Nested
  <2>3. CASE j # i
    <3>1. run'[<<q, j>>] = run[<<q, j>>] /\ items'[q][j] = items[q][j]
      BY <1>10, <1>13, <1>14, <2>3
    <3>2. QED
      BY <1>1, <1>9, <1>13, <1>17, <2>1, <3>1 DEF NestedConsistent, Nested
  <2>4. QED
    BY <2>2, <2>3
<1>19. FanOutConsistent(q)'
  <2>1. \A j \in Items : run'[<<q, j>>].pc \in {"engine", "resolved"}
          \/ run[<<q, j>>].pc \notin {"engine", "resolved"}
    BY <1>11, <1>13
  <2>2. CASE run[Top(q)].pc = "fanout" /\ alldone
    <3>1. top2 = Resolved(run[Top(q)], IndexesResult(its))
      BY <2>2 DEF top2
    <3>2. run[Top(q)] \in RunState
      BY <1>1, <1>2 DEF TypeOK
    <3>3. Resolved(run[Top(q)], IndexesResult(its)).pc = "resolved"
          /\ Resolved(run[Top(q)], IndexesResult(its)).res = IndexesResult(its)
      BY <3>2 DEF Resolved, RunState
    <3>4. top2.pc = "resolved" /\ top2.res = IndexesResult(items'[q])
      BY <1>14, <3>1, <3>3
    <3>5. \A j \in Items : run'[<<q, j>>].pc = "resolved"
      BY <1>11, <1>13, <2>2
    <3>6. QED
      BY <1>9, <1>13, <3>4, <3>5 DEF FanOutConsistent, Nested
  <2>3. CASE ~(run[Top(q)].pc = "fanout" /\ alldone)
    <3>1. top2 = run[Top(q)]
      BY <2>3 DEF top2
    <3>2. run[Top(q)].pc = "fanout" => \A j \in Items : Nested(q, j).pc \in {"engine", "resolved"}
      BY <1>1 DEF FanOutConsistent
    <3>3. \A j \in Items : run'[<<q, j>>].pc \in {"engine", "resolved"}
                             \/ Nested(q, j).pc \notin {"engine", "resolved"}
      BY <2>1 DEF Nested
    <3>4. QED
      BY <1>3, <1>9, <1>13, <3>1, <3>2, <3>3 DEF FanOutConsistent, Nested
  <2>4. QED
    BY <2>2, <2>3
<1>20. ASSUME NEW p \in Queries, p # q
       PROVE  TopConsistent(p)' /\ NestedConsistent(p)' /\ FanOutConsistent(p)'
  BY <1>9, <1>13, <1>14, <1>20, OtherQueries
<1>21. QED
  BY <1>15, <1>16, <1>18, <1>19, <1>20 DEF IInv

-----------------------------------------------------------------------------
(***************************************************************************)
(* The theorems.                                                           *)
(***************************************************************************)
\* Every step of the system keeps IInv.
LEMMA IInvNext == IInv /\ [Next]_vars => IInv'
<1> SUFFICES ASSUME IInv, [Next]_vars PROVE IInv'
  OBVIOUS
<1>1. ASSUME NEW q \in Queries, Issue(q) PROVE IInv'
  BY <1>1, IssueIInv
<1>2. ASSUME NEW q \in Queries, TopSucceeds(q) PROVE IInv'
  BY <1>2, TopSucceedsIInv
<1>3. ASSUME NEW q \in Queries, TopFails(q) PROVE IInv'
  BY <1>3, TopFailsIInv
<1>4. ASSUME NEW q \in Queries, NEW i \in Items, NestedSucceeds(q, i) PROVE IInv'
  BY <1>4, NestedSucceedsIInv
<1>5. ASSUME NEW q \in Queries, NEW i \in Items, NestedFails(q, i) PROVE IInv'
  BY <1>5, NestedFailsIInv
<1>6. ASSUME UNCHANGED vars PROVE IInv'
  <2>1. /\ req' = req /\ thisSql' = thisSql /\ run' = run
        /\ items' = items /\ populated' = populated /\ affected' = affected
    BY <1>6 DEF vars
  <2>2. TypeOK'
    BY <2>1 DEF IInv, TypeOK
  <2>3. \A q \in Queries : TopConsistent(q)' /\ NestedConsistent(q)' /\ FanOutConsistent(q)'
    BY <2>1 DEF IInv, TopConsistent, NestedConsistent, FanOutConsistent, Nested
  <2> QED
    BY <2>2, <2>3 DEF IInv
<1>7. ASSUME Done PROVE IInv'
  BY <1>6, <1>7 DEF Done
<1>8. QED
  BY <1>1, <1>2, <1>3, <1>4, <1>5, <1>6, <1>7 DEF Next

\* IInv holds in every reachable state.
LEMMA IInvInvariant == Spec => []IInv
<1>1. Init => IInv
  BY InitIInv
<1>2. IInv /\ [Next]_vars => IInv'
  BY IInvNext
<1>3. QED
  BY <1>1, <1>2, PTL DEF Spec

\* Type correctness of the whole model of run(), executeSql and
\* handleShowIndexesQuery: every request, this.sql, run state, items array
\* and counter keeps its type, for every table, index list and request set.
THEOREM TypeCorrect == Spec => []TypeOK
<1>1. IInv => TypeOK
  BY DEF IInv
<1>2. QED
  BY <1>1, IInvInvariant, PTL

\* IInv implies that a resolved PRAGMA INDEX_LIST query holds the declared items: the
\* nested runs have all resolved, and each filled its own item.
LEMMA IInvShowIndexes == IInv => ShowIndexesInDeclarationOrder
<1> SUFFICES ASSUME IInv, NEW q \in Queries, req[q] # UndefV, req[q].sql = "INDEX_LIST",
                    run[Top(q)].pc = "resolved"
             PROVE  run[Top(q)].res = DeclaredList
  BY DEF ShowIndexesInDeclarationOrder
<1>1. run[Top(q)].res = IndexesResult(items[q])
      /\ \A i \in Items : Nested(q, i).pc = "resolved"
  BY DEF IInv, FanOutConsistent
<1>2. \A i \in Items : items[q][i] = DeclaredItem(i)
  BY <1>1 DEF IInv, NestedConsistent
<1>3. items[q] \in [Items -> Item]
  BY DEF IInv, TypeOK
<1>4. items[q] = [i \in Items |-> DeclaredItem(i)]
  BY <1>2, <1>3
<1>5. QED
  BY <1>1, <1>4 DEF DeclaredItem, DeclaredList

\* A PRAGMA INDEX_LIST query resolves through handleShowIndexesQuery with
\* the indexes in declaration order, each with its columns by seqno, for every table and every order in which
\* the engine answers the nested INDEX_INFO statements.
THEOREM ShowIndexesOrdered == Spec => []ShowIndexesInDeclarationOrder
<1>1. IInv => ShowIndexesInDeclarationOrder
  BY IInvShowIndexes
<1>2. QED
  BY <1>1, IInvInvariant, PTL

=============================================================================
