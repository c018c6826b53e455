--------------------------- MODULE QueryAbstract ---------------------------
(***************************************************************************)
(* What TursoQuery.run promises its caller, query by query, whatever the   *)
(* engine does in between: the caller issues its queries one after another *)
(* on one connection; each query, once issued, settles exactly once; it    *)
(* resolves with what _handleQueryResponse makes of the engine's answer to *)
(* that query's own statement, or rejects with one of the errors that      *)
(* statement may raise.  Nothing is said about how: the nested runs of     *)
(* handleShowIndexesQuery, this.sql, the statements.  TursoQuery           *)
(* implements it (its definition Caller).                                  *)
(***************************************************************************)
EXTENDS Naturals

CONSTANTS
    Queries,     \* the caller's queries, numbered in the order it runs them
    Requests,    \* the requests a caller may issue
    NoRequest,   \* request of a query not yet issued
    NoResult,    \* result of a query not yet settled
    Answers(_),  \* Answers(r): the values a query of request r may resolve with
    Failures(_)  \* Failures(r): the errors a query of request r may reject with

VARIABLES
    request,     \* request[q]: the request of query q
    status,      \* status[q]: "idle", "pending", "resolved" or "rejected"
    result       \* result[q]: the value q resolved with, or Failed(err)

avars == <<request, status, result>>

\* A rejection with error err, told apart from any value.
Failed(err) == [failed |-> err]

Done(q) == status[q] \in {"resolved", "rejected"}

Init ==
    /\ request = [q \in Queries |-> NoRequest]
    /\ status = [q \in Queries |-> "idle"]
    /\ result = [q \in Queries |-> NoResult]

\* The caller awaits each query before it issues the next one.
Issue(q) ==
    /\ status[q] = "idle"
    /\ \A p \in Queries : p < q => Done(p)
    /\ \E r \in Requests : request' = [request EXCEPT ![q] = r]
    /\ status' = [status EXCEPT ![q] = "pending"]
    /\ UNCHANGED result

Resolve(q) ==
    /\ status[q] = "pending"
    /\ \E v \in Answers(request[q]) : result' = [result EXCEPT ![q] = v]
    /\ status' = [status EXCEPT ![q] = "resolved"]
    /\ UNCHANGED request

Reject(q) ==
    /\ status[q] = "pending"
    /\ \E err \in Failures(request[q]) : result' = [result EXCEPT ![q] = Failed(err)]
    /\ status' = [status EXCEPT ![q] = "rejected"]
    /\ UNCHANGED request

Next == \E q \in Queries : Issue(q) \/ Resolve(q) \/ Reject(q)

Spec == Init /\ [][Next]_avars

=============================================================================
