------------------------ MODULE TursoQueryRefinement ------------------------
(***************************************************************************)
(* TursoQuery implements QueryAbstract under the mapping Caller: the       *)
(* status of a query is that of the caller's run() (pending while it       *)
(* awaits the engine or Promise.all), its result what run() settled with.  *)
(* The proof is a step simulation.  A step that settles the caller's run() *)
(* of a query q is an abstract Resolve(q) or Reject(q); every other step   *)
(* (handleShowIndexesQuery starting the nested runs, a nested run          *)
(* answering or failing while Promise.all is pending or already settled)   *)
(* leaves the caller's view unchanged.  What run() resolves with is        *)
(* shaped against this.sql, which nested runs overwrite; IInv (from        *)
(* TursoQueryProofs) says this.sql is the query's own SQL whenever the     *)
(* caller's statement answers, and ShowIndexesInDeclarationOrder gives the *)
(* value of a resolved showIndexes.                                        *)
(***************************************************************************)
EXTENDS TursoQueryProofs

\* Nothing the caller sees changes when no caller's run() and no request
\* changes.
LEMMA CallerStutters ==
    ASSUME \A p \in Queries : run'[Top(p)] = run[Top(p)], req' = req
    PROVE  UNCHANGED Caller!avars
<1>1. CallerStatus' = CallerStatus /\ CallerResult' = CallerResult
  BY DEF CallerStatus, CallerResult
<1>2. QED
  BY <1>1 DEF Caller!avars

\* A step that changes only the caller's run() of a pending query q is a
\* stutter while the run stays pending, an abstract Resolve(q) when it
\* resolves with one of q's own answers, an abstract Reject(q) when it
\* rejects with one of q's own failures.
LEMMA CallerSettles ==
    ASSUME NEW q \in Queries,
           run[Top(q)].pc \in {"engine", "fanout"},
           \A p \in Queries \ {q} : run'[Top(p)] = run[Top(p)],
           req' = req,
           \/ run'[Top(q)].pc \in {"engine", "fanout"}
           \/ run'[Top(q)].pc = "resolved" /\ run'[Top(q)].res \in OwnAnswers(req[q])
           \/ run'[Top(q)].pc = "rejected" /\ run'[Top(q)].res.kind \in OwnFailures(req[q])
    PROVE  [Caller!Next]_Caller!avars
<1>1. CallerStatus[q] = "pending" /\ CallerResult[q] = UndefV
  BY DEF CallerStatus, CallerResult
<1>2. CASE run'[Top(q)].pc \in {"engine", "fanout"}
  <2>1. CallerStatus' = CallerStatus /\ CallerResult' = CallerResult
    BY <1>2 DEF CallerStatus, CallerResult
  <2>2. QED
    BY <2>1 DEF Caller!avars
<1>3. CASE run'[Top(q)].pc = "resolved" /\ run'[Top(q)].res \in OwnAnswers(req[q])
  <2>1. CallerStatus' = [CallerStatus EXCEPT ![q] = "resolved"]
    BY <1>3 DEF CallerStatus
  <2>2. CallerResult' = [CallerResult EXCEPT ![q] = run'[Top(q)].res]
    BY <1>3 DEF CallerResult
  <2>3. Caller!Resolve(q)
    BY <1>1, <1>3, <2>1, <2>2 DEF Caller!Resolve
  <2>4. QED
    BY <2>3 DEF Caller!Next
<1>4. CASE run'[Top(q)].pc = "rejected" /\ run'[Top(q)].res.kind \in OwnFailures(req[q])
  <2>1. CallerStatus' = [CallerStatus EXCEPT ![q] = "rejected"]
    BY <1>4 DEF CallerStatus
  <2>2. CallerResult' = [CallerResult EXCEPT ![q] = Caller!Failed(run'[Top(q)].res.kind)]
    BY <1>4 DEF CallerResult, Caller!Failed
  <2>3. Caller!Reject(q)
    BY <1>1, <1>4, <2>1, <2>2 DEF Caller!Reject
  <2>4. QED
    BY <2>3 DEF Caller!Next
<1>5. QED
  BY <1>2, <1>3, <1>4


\* Before the first query, every abstract query is idle.
LEMMA InitRefines == Init => Caller!Init
<1> SUFFICES ASSUME Init PROVE Caller!Init
  OBVIOUS
<1>1. \A q \in Queries : run[Top(q)] = Idle
  BY DEF Init, Top, RunIds
<1>2. CallerStatus = [q \in Queries |-> "idle"] /\ CallerResult = [q \in Queries |-> UndefV]
  BY <1>1 DEF CallerStatus, CallerResult, Idle
<1>3. QED
  BY <1>2 DEF Init, Caller!Init

\* The caller's run() of query q starts: an abstract Issue(q).
LEMMA IssueRefines ==
    ASSUME TypeOK, NEW q \in Queries, Issue(q)
    PROVE  Caller!Issue(q)
<1>1. PICK r \in Requests :
        /\ req' = [req EXCEPT ![q] = r]
        /\ run' = [run EXCEPT ![Top(q)] = Started(TopSql(r), TopMethod(r))]
  BY DEF Issue, TopSql, TopMethod
<1>2. run[Top(q)].pc = "idle" /\ \A p \in Queries : p < q => Settled(p)
  BY DEF Issue
<1>3. /\ run'[Top(q)].pc = "engine"
      /\ \A p \in Queries \ {q} : run'[Top(p)] = run[Top(p)]
  <2>1. run \in [RunIds -> RunState] /\ Top(q) \in RunIds
    BY DEF TypeOK, Top, RunIds
  <2>2. \A p \in Queries \ {q} : Top(p) # Top(q)
    BY DEF Top
  <2>3. QED
    BY <1>1, <2>1, <2>2 DEF Started
<1>4. CallerStatus[q] = "idle" /\ \A p \in Queries : p < q => Caller!Done(p)
  BY <1>2 DEF CallerStatus, Settled, Caller!Done
<1>5. CallerStatus' = [CallerStatus EXCEPT ![q] = "pending"]
  BY <1>3 DEF CallerStatus
<1>6. CallerResult' = CallerResult
  BY <1>2, <1>3 DEF CallerResult
<1>7. QED
  BY <1>1, <1>4, <1>5, <1>6 DEF Caller!Issue


\* A query's own outcomes are _handleQueryResponse of the answers to its
\* own statement, read against its own SQL.
LEMMA OwnOutcome ==
    ASSUME NEW r \in Requests, NEW resp \in Responses(TopSql(r), TopMethod(r))
    PROVE  /\ TopOut(r, resp).tag = "value" /\ r.sql # "INDEX_LIST" =>
                TopOut(r, resp).val \in OwnAnswers(r)
           /\ TopOut(r, resp).tag = "throw" => TopOut(r, resp).err \in OwnFailures(r)
<1>1. TopOut(r, resp) \in OwnOutcomes(r)
  BY DEF OwnOutcomes, OwnSql, TopOut, TopSql, TopMethod
<1>2. QED
  BY <1>1 DEF OwnAnswers, OwnFailures

\* A showIndexes query's one answer: its indexes in declaration order,
\* which is what Promise.all resolves with once every nested run has
\* filled its own item.
LEMMA DeclaredAnswer ==
    ASSUME NEW r, r.sql = "INDEX_LIST", NEW its \in [Items -> Item],
           \A i \in Items : its[i] = DeclaredItem(i)
    PROVE  IndexesResult(its) \in OwnAnswers(r)
<1>1. its = [i \in Items |-> DeclaredItem(i)]
  OBVIOUS
<1>2. QED
  BY <1>1 DEF DeclaredItem, OwnAnswers, DeclaredList

\* In a state where IInv holds, a resolved showIndexes holds the declared
\* items (FanOutConsistent and NestedConsistent).
LEMMA ResolvedItems ==
    ASSUME IInv, NEW q \in Queries, req[q].sql = "INDEX_LIST", run[Top(q)].pc = "resolved"
    PROVE  /\ run[Top(q)].res = IndexesResult(items[q])
           /\ items[q] \in [Items -> Item]
           /\ \A i \in Items : items[q][i] = DeclaredItem(i)
<1>1. run[Top(q)].res = IndexesResult(items[q])
      /\ \A i \in Items : Nested(q, i).pc = "resolved"
  BY DEF IInv, FanOutConsistent
<1>2. QED
  BY <1>1 DEF IInv, NestedConsistent, TypeOK

\* formatError of an engine error is one of every query's failures.
LEMMA EngineFailure ==
    ASSUME NEW r, NEW e \in EngineErrors
    PROVE  FormatErrorKind(e) \in OwnFailures(r)
BY DEF OwnFailures

\* handleShowIndexesQuery leaves the caller's run() of query q awaiting
\* Promise.all, or resolved when there is no index, and no other query's.
LEMMA ShowIndexesTop ==
    ASSUME TypeOK, NEW q \in Queries, NEW data, ShowIndexes(q, data)
    PROVE  /\ run'[Top(q)].pc \in {"resolved", "fanout"}
           /\ \A p \in Queries \ {q} : run'[Top(p)] = run[Top(p)]
<1> DEFINE list == IndexItems(data)
<1>1. run' = [id \in RunIds |->
               CASE id = Top(q) ->
                      IF Len(list) = 0 THEN Resolved(run[id], IndexesResult(<< >>))
                      ELSE [run[id] EXCEPT !.pc = "fanout", !.stmt = "closed"]
                 [] id[1] = q /\ id[2] \in 1..Len(list) ->
                      Started(Sql("INDEX_INFO", list[id[2]].name),
                              DatabaseMethod(req[q], Sql("INDEX_INFO", list[id[2]].name)))
                 [] OTHER -> run[id]]
  BY DEF ShowIndexes, list
<1>2. /\ Top(q) \in RunIds /\ Top(q)[1] = q /\ Top(q)[2] = 0
      /\ run[Top(q)] \in RunState
  BY DEF Top, RunIds, TypeOK
<1>3. run'[Top(q)] = IF Len(list) = 0 THEN Resolved(run[Top(q)], IndexesResult(<< >>))
                     ELSE [run[Top(q)] EXCEPT !.pc = "fanout", !.stmt = "closed"]
  <2>1. ~(Top(q)[1] = q /\ Top(q)[2] \in 1..Len(list))
    BY <1>2
  <2>2. QED
    BY <1>1, <1>2, <2>1
<1>4. run'[Top(q)].pc \in {"resolved", "fanout"}
  BY <1>2, <1>3 DEF Resolved, RunState
<1>5. ASSUME NEW p \in Queries \ {q} PROVE run'[Top(p)] = run[Top(p)]
  <2>1. Top(p) \in RunIds /\ Top(p) # Top(q) /\ Top(p)[1] # q
    BY DEF Top, RunIds
  <2>2. QED
    BY <1>1, <2>1
<1>6. QED
  BY <1>4, <1>5

\* The engine answers the caller's statement of query q.
LEMMA TopSucceedsRefines ==
    ASSUME IInv, IInv', NEW q \in Queries, TopSucceeds(q)
    PROVE  [Caller!Next]_Caller!avars
<1>1. TypeOK /\ TopConsistent(q)
  BY DEF IInv
<1>2. run[Top(q)].pc = "engine" /\ req' = req
  BY DEF TopSucceeds
<1>3. /\ req[q] \in Requests
      /\ run[Top(q)].sql = TopSql(req[q])
      /\ run[Top(q)].method = TopMethod(req[q])
      /\ thisSql[q] = TopSql(req[q])
  BY <1>1, <1>2 DEF TopConsistent, TopSql, TopMethod
<1>4. PICK resp \in Responses(TopSql(req[q]), TopMethod(req[q])) :
        \/ /\ TopOut(req[q], resp).tag = "value"
           /\ run' = [run EXCEPT ![Top(q)] = Resolved(run[Top(q)], TopOut(req[q], resp).val)]
        \/ /\ TopOut(req[q], resp).tag = "throw"
           /\ run' = [run EXCEPT ![Top(q)] =
                        Rejected(run[Top(q)], [kind |-> TopOut(req[q], resp).err, sql |-> UndefV,
                                               from |-> run[Top(q)].sql])]
        \/ /\ TopOut(req[q], resp).tag = "fanout"
           /\ ShowIndexes(q, TopOut(req[q], resp).data)
  BY <1>3 DEF TopSucceeds, TopOut
<1>5. \/ TopOut(req[q], resp).tag = "value" /\ req[q].sql # "INDEX_LIST"
      \/ TopOut(req[q], resp).tag = "throw"
      \/ TopOut(req[q], resp).tag = "fanout" /\ req[q].sql = "INDEX_LIST"
  BY <1>3, TopOutcome
<1>6. /\ TopOut(req[q], resp).tag = "value" /\ req[q].sql # "INDEX_LIST" =>
           TopOut(req[q], resp).val \in OwnAnswers(req[q])
      /\ TopOut(req[q], resp).tag = "throw" => TopOut(req[q], resp).err \in OwnFailures(req[q])
  BY <1>3, OwnOutcome
<1>7. /\ run \in [RunIds -> RunState] /\ Top(q) \in RunIds
      /\ \A p \in Queries \ {q} : Top(p) # Top(q) /\ Top(p) \in RunIds
  BY <1>1 DEF TypeOK, Top, RunIds
<1>8. CASE TopOut(req[q], resp).tag = "value" /\ req[q].sql # "INDEX_LIST"
  <2>1. run' = [run EXCEPT ![Top(q)] = Resolved(run[Top(q)], TopOut(req[q], resp).val)]
    BY <1>4, <1>8
  <2>2. /\ run'[Top(q)].pc = "resolved"
        /\ run'[Top(q)].res = TopOut(req[q], resp).val
        /\ \A p \in Queries \ {q} : run'[Top(p)] = run[Top(p)]
    BY <1>7, <2>1 DEF Resolved
  <2>3. QED
    BY <1>2, <1>6, <1>8, <2>2, CallerSettles
<1>9. CASE TopOut(req[q], resp).tag = "throw"
  <2>1. run' = [run EXCEPT ![Top(q)] =
                  Rejected(run[Top(q)], [kind |-> TopOut(req[q], resp).err, sql |-> UndefV,
                                         from |-> run[Top(q)].sql])]
    BY <1>4, <1>9
  <2>2. /\ run'[Top(q)].pc = "rejected"
        /\ run'[Top(q)].res.kind = TopOut(req[q], resp).err
        /\ \A p \in Queries \ {q} : run'[Top(p)] = run[Top(p)]
    BY <1>7, <2>1 DEF Rejected
  <2>3. QED
    BY <1>2, <1>6, <1>9, <2>2, CallerSettles
<1>10. CASE TopOut(req[q], resp).tag = "fanout" /\ req[q].sql = "INDEX_LIST"
  <2>1. ShowIndexes(q, TopOut(req[q], resp).data)
    BY <1>4, <1>10
  <2>2. /\ run'[Top(q)].pc \in {"resolved", "fanout"}
        /\ \A p \in Queries \ {q} : run'[Top(p)] = run[Top(p)]
    BY <1>1, <2>1, ShowIndexesTop
  <2>4. run'[Top(q)].pc = "resolved" => run'[Top(q)].res \in OwnAnswers(req[q])
    <3>1. req'[q].sql = "INDEX_LIST"
      BY <1>2, <1>10
    <3>2. run'[Top(q)].pc = "resolved" =>
            /\ run'[Top(q)].res = IndexesResult(items'[q])
            /\ items'[q] \in [Items -> Item]
            /\ \A i \in Items : items'[q][i] = DeclaredItem(i)
      BY <3>1 DEF IInv, FanOutConsistent, NestedConsistent, TypeOK, Nested
    <3>3. QED
      BY <1>2, <1>10, <3>2, DeclaredAnswer
  <2>5. QED
    BY <1>2, <2>2, <2>4, CallerSettles
<1>11. QED
  BY <1>5, <1>8, <1>9, <1>10

\* The caller's statement of query q fails: an abstract Reject(q).
LEMMA TopFailsRefines ==
    ASSUME TypeOK, NEW q \in Queries, TopFails(q)
    PROVE  [Caller!Next]_Caller!avars
<1>1. run[Top(q)].pc = "engine" /\ req' = req
  BY DEF TopFails
<1>2. PICK e \in EngineErrors :
        run' = [run EXCEPT ![Top(q)] = Rejected(run[Top(q)], EngineError(q, run[Top(q)], e))]
  BY DEF TopFails
<1>3. /\ run \in [RunIds -> RunState] /\ Top(q) \in RunIds
      /\ \A p \in Queries \ {q} : Top(p) # Top(q) /\ Top(p) \in RunIds
  BY DEF TypeOK, Top, RunIds
<1>4. /\ run'[Top(q)] = Rejected(run[Top(q)], EngineError(q, run[Top(q)], e))
      /\ \A p \in Queries \ {q} : run'[Top(p)] = run[Top(p)]
  BY <1>2, <1>3
<1>5. run[Top(q)] \in RunState
  BY <1>3
<1>6. /\ Rejected(run[Top(q)], EngineError(q, run[Top(q)], e)).pc = "rejected"
      /\ Rejected(run[Top(q)], EngineError(q, run[Top(q)], e)).res = EngineError(q, run[Top(q)], e)
  BY <1>5 DEF Rejected, RunState
<1>7. EngineError(q, run[Top(q)], e).kind = FormatErrorKind(e)
  BY DEF EngineError
<1>8. QED
  BY <1>1, <1>4, <1>6, <1>7, EngineFailure, CallerSettles


\* The engine answers the INDEX_INFO statement of item i of query q: an
\* abstract Resolve(q) when it completes Promise.all, otherwise a stutter.
LEMMA NestedSucceedsRefines ==
    ASSUME IInv, IInv', NEW q \in Queries, NEW i \in Items, NestedSucceeds(q, i)
    PROVE  [Caller!Next]_Caller!avars
<1> DEFINE alldone == \A j \in Items \ {i} : run[<<q, j>>].pc = "resolved"
<1>1. /\ run \in [RunIds -> RunState]
      /\ <<q, i>> \in RunIds /\ Top(q) \in RunIds /\ <<q, i>> # Top(q)
      /\ \A p \in Queries \ {q} : Top(p) \in RunIds /\ Top(p) # Top(q) /\ Top(p) # <<q, i>>
  BY DEF IInv, TypeOK, Top, RunIds, Items
<1>2. req' = req
  BY DEF NestedSucceeds
<1>3. PICK resp \in Responses(run[<<q, i>>].sql, run[<<q, i>>].method) :
        LET out   == HandleQueryResponse(req[q], thisSql[q], resp.meta, resp.rows)
            its0  == [items[q] EXCEPT ![i].fields = ColumnsBySeqno(out.val.rows)]
        IN  run' = [run EXCEPT
                      ![<<q, i>>] = Resolved(run[<<q, i>>], out.val),
                      ![Top(q)] = IF @.pc = "fanout" /\ alldone
                                    THEN Resolved(@, IndexesResult(its0)) ELSE @]
  BY DEF NestedSucceeds
<1>31. \E x, top2, w :
         /\ run' = [run EXCEPT ![<<q, i>>] = x, ![Top(q)] = top2]
         /\ top2 = IF run[Top(q)].pc = "fanout" /\ alldone
                     THEN Resolved(run[Top(q)], IndexesResult(w)) ELSE run[Top(q)]
  BY <1>1, <1>3, Zenon
<1>32. PICK x, top2, w :
         /\ run' = [run EXCEPT ![<<q, i>>] = x, ![Top(q)] = top2]
         /\ top2 = IF run[Top(q)].pc = "fanout" /\ alldone
                     THEN Resolved(run[Top(q)], IndexesResult(w)) ELSE run[Top(q)]
  BY <1>31
<1>4. /\ run'[Top(q)] = top2
      /\ \A p \in Queries \ {q} : run'[Top(p)] = run[Top(p)]
  <2>1. run'[Top(q)] = top2
    BY <1>1, <1>32
  <2>2. ASSUME NEW p \in Queries \ {q} PROVE run'[Top(p)] = run[Top(p)]
    BY <1>1, <1>32
  <2>3. QED
    BY <2>1, <2>2
<1>5. CASE run[Top(q)].pc = "fanout" /\ alldone
  <2>1. run'[Top(q)].pc = "resolved"
    BY <1>1, <1>4, <1>5, <1>32 DEF Resolved, RunState
  <2>2. req[q].sql = "INDEX_LIST"
    BY <1>5 DEF IInv, FanOutConsistent
  <2>3. /\ run'[Top(q)].res = IndexesResult(items'[q])
        /\ items'[q] \in [Items -> Item]
        /\ \A j \in Items : items'[q][j] = DeclaredItem(j)
    BY <1>2, <2>1, <2>2 DEF IInv, FanOutConsistent, NestedConsistent, TypeOK, Nested
  <2>4. run'[Top(q)].res \in OwnAnswers(req[q])
    BY <2>2, <2>3, DeclaredAnswer
  <2>5. QED
    BY <1>2, <1>4, <1>5, <2>1, <2>4, CallerSettles
<1>6. CASE ~(run[Top(q)].pc = "fanout" /\ alldone)
  <2>1. \A p \in Queries : run'[Top(p)] = run[Top(p)]
    BY <1>4, <1>6, <1>32
  <2>2. QED
    BY <1>2, <2>1, CallerStutters
<1>7. QED
  BY <1>5, <1>6

\* The INDEX_INFO statement of item i of query q fails: an abstract
\* Reject(q) when Promise.all was pending, otherwise a stutter.
LEMMA NestedFailsRefines ==
    ASSUME TypeOK, NEW q \in Queries, NEW i \in Items, NestedFails(q, i)
    PROVE  [Caller!Next]_Caller!avars
<1>1. /\ run \in [RunIds -> RunState]
      /\ <<q, i>> \in RunIds /\ Top(q) \in RunIds /\ <<q, i>> # Top(q)
      /\ \A p \in Queries \ {q} : Top(p) \in RunIds /\ Top(p) # Top(q) /\ Top(p) # <<q, i>>
  BY DEF TypeOK, Top, RunIds, Items
<1>2. req' = req
  BY DEF NestedFails
<1>3. PICK e \in EngineErrors :
        run' = [run EXCEPT ![<<q, i>>] = Rejected(run[<<q, i>>], EngineError(q, run[<<q, i>>], e)),
                           ![Top(q)] = PromiseAllRejects(@, EngineError(q, run[<<q, i>>], e))]
  BY DEF NestedFails
<1> DEFINE err == EngineError(q, run[<<q, i>>], e)
<1>31. \E x, top2 :
         /\ run' = [run EXCEPT ![<<q, i>>] = x, ![Top(q)] = top2]
         /\ top2 = PromiseAllRejects(run[Top(q)], err)
  BY <1>1, <1>3, Zenon
<1>32. PICK x, top2 :
         /\ run' = [run EXCEPT ![<<q, i>>] = x, ![Top(q)] = top2]
         /\ top2 = PromiseAllRejects(run[Top(q)], err)
  BY <1>31
<1>4. /\ run'[Top(q)] = PromiseAllRejects(run[Top(q)], err)
      /\ \A p \in Queries \ {q} : run'[Top(p)] = run[Top(p)]
  <2>1. run'[Top(q)] = top2
    BY <1>1, <1>32
  <2>2. ASSUME NEW p \in Queries \ {q} PROVE run'[Top(p)] = run[Top(p)]
    BY <1>1, <1>32
  <2>3. QED
    BY <1>32, <2>1, <2>2
<1>5. CASE run[Top(q)].pc = "fanout"
  <2>1. run'[Top(q)] = Rejected(run[Top(q)], err)
    BY <1>4, <1>5 DEF PromiseAllRejects
  <2>2. run'[Top(q)].pc = "rejected" /\ run'[Top(q)].res = err
    BY <1>1, <2>1 DEF Rejected, RunState
  <2>3. err.kind \in OwnFailures(req[q])
    <3>1. err.kind = FormatErrorKind(e)
      BY DEF err, EngineError
    <3>2. QED
      BY <3>1, EngineFailure
  <2>4. QED
    BY <1>2, <1>4, <1>5, <2>2, <2>3, CallerSettles
<1>6. CASE run[Top(q)].pc # "fanout"
  <2>1. \A p \in Queries : run'[Top(p)] = run[Top(p)]
    BY <1>4, <1>6 DEF PromiseAllRejects
  <2>2. QED
    BY <1>2, <2>1, CallerStutters
<1>7. QED
  BY <1>5, <1>6


-----------------------------------------------------------------------------
\* Every step of run(), executeSql and handleShowIndexesQuery is a step of
\* QueryAbstract or leaves the caller's view unchanged.
LEMMA StepRefines == IInv /\ IInv' /\ [Next]_vars => [Caller!Next]_Caller!avars
<1> SUFFICES ASSUME IInv, IInv', [Next]_vars PROVE [Caller!Next]_Caller!avars
  OBVIOUS
<1>1. TypeOK
  BY DEF IInv
<1>2. ASSUME NEW q \in Queries, Issue(q) PROVE [Caller!Next]_Caller!avars
  BY <1>1, <1>2, IssueRefines DEF Caller!Next
<1>3. ASSUME NEW q \in Queries, TopSucceeds(q) PROVE [Caller!Next]_Caller!avars
  BY <1>3, TopSucceedsRefines
<1>4. ASSUME NEW q \in Queries, TopFails(q) PROVE [Caller!Next]_Caller!avars
  BY <1>1, <1>4, TopFailsRefines
<1>5. ASSUME NEW q \in Queries, NEW i \in Items, NestedSucceeds(q, i)
      PROVE  [Caller!Next]_Caller!avars
  BY <1>5, NestedSucceedsRefines
<1>6. ASSUME NEW q \in Queries, NEW i \in Items, NestedFails(q, i)
      PROVE  [Caller!Next]_Caller!avars
  BY <1>1, <1>6, NestedFailsRefines
<1>7. ASSUME UNCHANGED vars \/ Done PROVE [Caller!Next]_Caller!avars
  <2>1. UNCHANGED <<req, run>>
    BY <1>7 DEF vars, Done
  <2>2. QED
    BY <2>1, CallerStutters
<1>8. QED
  BY <1>2, <1>3, <1>4, <1>5, <1>6, <1>7 DEF Next

\* run() keeps its promise to the caller (QueryAbstract) for every request
\* set, table and index list: queries settle once and in the order issued,
\* a query resolves only with what _handleQueryResponse makes of an answer
\* to its own statement (the declared indexes, for showIndexes), and
\* rejects only with formatError of an engine error or EmptyResultError,
\* however the nested INDEX_INFO runs and the shared this.sql interleave.
THEOREM CallerRefinement == Spec => CallerRefined
<1>1. Init => Caller!Init
  BY InitRefines
<1>2. Spec => [][Caller!Next]_Caller!avars
  <2>1. IInv /\ IInv' /\ [Next]_vars => [Caller!Next]_Caller!avars
    BY StepRefines
  <2>2. QED
    BY <2>1, IInvInvariant, PTL DEF Spec
<1>3. QED
  BY <1>1, <1>2, PTL DEF Spec, CallerRefined, Caller!Spec

=============================================================================
