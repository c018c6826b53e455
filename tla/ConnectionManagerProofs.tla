----------------------- MODULE ConnectionManagerProofs -----------------------
(***************************************************************************)
(* Proofs about ConnectionManager, for every value of its constants that   *)
(* meets ConstAssumption: the type invariant, that no connect call fails   *)
(* with a module-load failure older than itself, that validate() agrees    *)
(* with the engine on every returned connection, and that the loader       *)
(* implements ModuleLoader.                                                *)
(*                                                                         *)
(* None of these is inductive as it stands.  IInv adds what the code keeps *)
(* true between steps: the loader's promise and every #libPromise wait for *)
(* an attempt that has not failed (the catches reset them in the same      *)
(* microtask drain as the rejection), an import is pending only as the     *)
(* loader's own promise, a caller waiting on #getLib waits for an attempt  *)
(* that had not failed when it called, CLOSED_SYMBOL is set exactly on     *)
(* closed connections, and a connection being set up has been opened.      *)
(***************************************************************************)
EXTENDS ConnectionManager, TLAPS

\* loadDefaultTursoModule and #getLib never keep a rejected promise, and
\* the only pending import is the loader's.
LoaderInv ==
    /\ loaderP \in Attempts => imp[loaderP] \in {"pending", "ok"}
    /\ \A k \in Attempts : imp[k] = "pending" => loaderP = k
    /\ \A m \in Managers : libP[m] \in Attempts => imp[libP[m]] \in {"pending", "ok"}

\* What a connect call awaits, or failed with, had not failed when it called.
WaitInv ==
    \A c \in Callers :
        /\ caller[c].pc = "getlib" =>
             /\ caller[c].wait \in Attempts \cup {ResolvedP}
             /\ caller[c].wait \notin caller[c].failedAtStart
        /\ caller[c].result = "loadError" => caller[c].err \notin caller[c].failedAtStart

\* CLOSED_SYMBOL marks closed connections; close() is awaited at most as
\* often as it was called; a connection is returned only once opened.
ConnInv ==
    \A k \in ConnIds :
        /\ conn[k].flag <=> conn[k].state = "closed"
        /\ conn[k].returned => conn[k].state # "none"
        /\ conn[k].closing <= conn[k].closeCalls

\* A connect call in progress has its connection slot, and one in the
\* setup statements has opened its connection.
StageInv ==
    \A c \in Callers :
        /\ caller[c].pc # "idle" => caller[c].id \in ConnIds
        /\ caller[c].pc \in {"key", "fk", "wal"} => conn[caller[c].id].state # "none"

IInv == TypeOK /\ LoaderInv /\ WaitInv /\ ConnInv /\ StageInv

USE ConstAssumption

LEMMA InitIInv == Init => IInv
<1> SUFFICES ASSUME Init PROVE IInv
  OBVIOUS
<1>1. IdleCaller \in CallerState
  BY DEF IdleCaller, CallerState, Promises, Results, NoP
<1>2. NoConn \in ConnState
  BY DEF NoConn, ConnState
<1>3. TypeOK
  <2>1. lib \in [Managers -> BOOLEAN] /\ calls \in 0..MaxCalls
    BY ConstAssumption DEF Init
  <2>2. loaderP \in Attempts \cup {NoP} /\ libP \in [Managers -> Promises]
    BY DEF Init, Promises
  <2>3. imp \in [Attempts -> {"unstarted", "pending", "ok", "failed"}]
    BY DEF Init
  <2>4. caller \in [Callers -> CallerState] /\ conn \in [ConnIds -> ConnState]
    BY <1>1, <1>2 DEF Init
  <2> QED
    BY <2>1, <2>2, <2>3, <2>4 DEF Init, TypeOK
<1>4. LoaderInv /\ WaitInv
  BY DEF Init, LoaderInv, WaitInv, IdleCaller, NoP, Attempts
<1>5. ConnInv /\ StageInv
  BY DEF Init, ConnInv, StageInv, NoConn, IdleCaller
<1>6. QED
  BY <1>3, <1>4, <1>5 DEF IInv

-----------------------------------------------------------------------------
(***************************************************************************)
(* connect: #getLib and the loader.                                        *)
(***************************************************************************)
\* What GetLib leaves behind: the loader's invariant, and a promise for the
\* caller that is resolved or an attempt that has not failed, so that the
\* set of failed attempts is the one the caller saw.
LEMMA GetLibStep ==
    ASSUME TypeOK, LoaderInv, NEW m \in Managers, GetLib(m)
    PROVE  /\ LoaderInv'
           /\ loaderP' \in Attempts \cup {NoP}
           /\ imp' \in [Attempts -> {"unstarted", "pending", "ok", "failed"}]
           /\ libP' \in [Managers -> Promises]
           /\ \A k \in Attempts : imp'[k] = "failed" <=> imp[k] = "failed"
           /\ GotLib(m) \in Attempts \cup {ResolvedP}
           /\ GotLib(m) \notin {k \in Attempts : imp[k] = "failed"}
<1> USE DEF TypeOK, LoaderInv, GotLib, Promises, NoP, ResolvedP, Attempts
<1>1. CASE lib[m] /\ UNCHANGED <<loaderP, imp, libP>>
  BY <1>1
<1>2. CASE ~lib[m] /\ libP[m] # NoP /\ UNCHANGED <<loaderP, imp, libP>>
  BY <1>2
<1>3. CASE ~lib[m] /\ libP[m] = NoP /\ cached
           /\ libP' = [libP EXCEPT ![m] = ResolvedP] /\ UNCHANGED <<loaderP, imp>>
  BY <1>3
<1>4. CASE ~lib[m] /\ libP[m] = NoP /\ ~cached /\ loaderP # NoP
           /\ libP' = [libP EXCEPT ![m] = loaderP] /\ UNCHANGED <<loaderP, imp>>
  BY <1>4
<1>5. CASE ~lib[m] /\ libP[m] = NoP /\ ~cached /\ loaderP = NoP
           /\ \E k \in Attempts :
                /\ imp[k] = "unstarted"
                /\ imp' = [imp EXCEPT ![k] = "pending"]
                /\ loaderP' = k
                /\ libP' = [libP EXCEPT ![m] = k]
  <2>1. PICK k \in Attempts :
                /\ imp[k] = "unstarted"
                /\ imp' = [imp EXCEPT ![k] = "pending"]
                /\ loaderP' = k
                /\ libP' = [libP EXCEPT ![m] = k]
    BY <1>5
  <2>2. \A j \in Attempts : imp[j] # "pending"
    BY <1>5
  <2> QED
    BY <1>5, <2>1, <2>2
<1>6. QED
  BY <1>1, <1>2, <1>3, <1>4, <1>5 DEF GetLib, LoadDefault

LEMMA ConnectIInv ==
    ASSUME IInv, NEW c \in Callers, NEW m \in Managers, NEW o \in Options,
           Connect(c, m, o)
    PROVE  IInv'
<1> USE DEF Connect
<1>1. /\ LoaderInv'
      /\ loaderP' \in Attempts \cup {NoP}
      /\ imp' \in [Attempts -> {"unstarted", "pending", "ok", "failed"}]
      /\ libP' \in [Managers -> Promises]
      /\ \A k \in Attempts : imp'[k] = "failed" <=> imp[k] = "failed"
      /\ GotLib(m) \in Attempts \cup {ResolvedP}
      /\ GotLib(m) \notin {k \in Attempts : imp[k] = "failed"}
  BY GetLibStep DEF IInv
<1> DEFINE new == [pc |-> "getlib", mgr |-> m, opt |-> o, id |-> calls + 1,
                   wait |-> GotLib(m), failedAtStart |-> {k \in Attempts : imp[k] = "failed"},
                   result |-> "none", err |-> NoP]
<1>2. caller' = [caller EXCEPT ![c] = new]
  OBVIOUS
<1>3. new \in CallerState
  BY <1>1 DEF IInv, TypeOK, CallerState, Promises, Results, NoP, ResolvedP, Attempts
<1>4. TypeOK'
  BY <1>1, <1>2, <1>3 DEF IInv, TypeOK
<1>5. WaitInv'
  BY <1>1, <1>2 DEF IInv, WaitInv
<1>6. ConnInv' /\ StageInv'
  BY <1>2 DEF IInv, TypeOK, ConnInv, StageInv, ConnIds
<1>7. QED
  BY <1>1, <1>4, <1>5, <1>6 DEF IInv

\* import() settles, with the loader's and every #getLib's callbacks.
LEMMA ImportSettlesIInv ==
    ASSUME IInv, NEW k \in Attempts, ImportSettles(k)
    PROVE  IInv'
<1> USE DEF IInv, TypeOK, LoaderInv, WaitInv, ConnInv, StageInv, Promises, NoP,
            ResolvedP, Attempts
<1>1. CASE /\ imp' = [imp EXCEPT ![k] = "ok"]
           /\ cached' = TRUE
           /\ lib' = [m \in Managers |-> lib[m] \/ libP[m] = k]
           /\ UNCHANGED <<loaderP, libP, caller, conn, calls>>
  BY <1>1 DEF ImportSettles
<1>2. CASE /\ imp' = [imp EXCEPT ![k] = "failed"]
           /\ loaderP' = NoP
           /\ libP' = [m \in Managers |-> IF libP[m] = k THEN NoP ELSE libP[m]]
           /\ UNCHANGED <<cached, lib, caller, conn, calls>>
  <2>1. loaderP = k
    BY DEF ImportSettles
  <2>2. \A j \in Attempts \ {k} : imp[j] # "pending"
    BY <2>1
  <2> QED
    BY <1>2, <2>2 DEF ImportSettles
<1>3. QED
  BY <1>1, <1>2 DEF ImportSettles

PcSet == {"idle", "getlib", "remote", "mkdir", "open", "key", "fk", "wal"}

\* A continuation moves caller c to pc p and leaves every other caller as
\* it is.
LEMMA SetPc ==
    ASSUME TypeOK, NEW c \in Callers, NEW p \in PcSet,
           caller' = [caller EXCEPT ![c].pc = p]
    PROVE  /\ caller' \in [Callers -> CallerState]
           /\ caller'[c] = [caller[c] EXCEPT !.pc = p]
           /\ \A d \in Callers \ {c} : caller'[d] = caller[d]
<1>1. caller[c] \in CallerState
  BY DEF TypeOK
<1>2. [caller[c] EXCEPT !.pc = p] \in CallerState
  BY <1>1 DEF CallerState, PcSet
<1> QED
  BY <1>2 DEF TypeOK

\* A connect call ends: pc idle, the result set, nothing else of any caller.
LEMMA FinishType ==
    ASSUME TypeOK, NEW c \in Callers, NEW r \in Results, Finish(c, r)
    PROVE  /\ caller' \in [Callers -> CallerState]
           /\ caller'[c] = [caller[c] EXCEPT !.pc = "idle", !.result = r]
           /\ \A d \in Callers \ {c} : caller'[d] = caller[d]
<1>1. caller[c] \in CallerState
  BY DEF TypeOK
<1>2. [caller[c] EXCEPT !.pc = "idle", !.result = r] \in CallerState
  BY <1>1 DEF CallerState
<1>3. caller' = [caller EXCEPT ![c] = [caller[c] EXCEPT !.pc = "idle", !.result = r]]
  BY DEF Finish
<1> QED
  BY <1>2, <1>3 DEF TypeOK

\* #getLib settled: the caller fails with the import's error, or goes on.
LEMMA GotLibResumeIInv ==
    ASSUME IInv, NEW c \in Callers, GotLibResume(c)
    PROVE  IInv'
<1> DEFINE cl == caller[c]
<1>1. caller[c] \in CallerState /\ caller[c].pc = "getlib"
  BY DEF GotLibResume, IInv, TypeOK
<1>2. caller[c].wait \in Attempts \cup {ResolvedP} /\ caller[c].wait \notin caller[c].failedAtStart
  BY <1>1 DEF IInv, WaitInv
<1>3. UNCHANGED <<cached, loaderP, imp, libP, conn, calls>>
  BY DEF GotLibResume
<1>4. lib' \in [Managers -> BOOLEAN]
  BY <1>1 DEF GotLibResume, IInv, TypeOK, CallerState
\* What the step keeps of the other callers and of c.
<1>5. ASSUME /\ caller' \in [Callers -> CallerState]
             /\ \A d \in Callers \ {c} : caller'[d] = caller[d]
             /\ caller'[c].pc \in {"idle", "remote", "mkdir", "open"}
             /\ caller'[c].id = caller[c].id
             /\ caller'[c].failedAtStart = caller[c].failedAtStart
             /\ caller'[c].result = "loadError" => caller'[c].err \notin caller'[c].failedAtStart
      PROVE  IInv'
  <2>1. TypeOK'
    BY <1>3, <1>4, <1>5 DEF IInv, TypeOK
  <2>2. LoaderInv'
    BY <1>3 DEF IInv, LoaderInv
  <2>3. WaitInv'
    BY <1>5 DEF IInv, WaitInv
  <2>4. ConnInv' /\ StageInv'
    BY <1>1, <1>3, <1>5 DEF IInv, ConnInv, StageInv
  <2> QED
    BY <2>1, <2>2, <2>3, <2>4 DEF IInv
<1>6. CASE Status(caller[c].wait) = "failed"
  <2>1. caller[c].wait \in Attempts
    BY <1>2, <1>6 DEF Status, ResolvedP, Attempts
  <2>2. caller' = [caller EXCEPT ![c] = [caller[c] EXCEPT !.pc = "idle", !.result = "loadError",
                                                           !.err = caller[c].wait]]
    BY <1>6 DEF GotLibResume, Status
  <2>3. [caller[c] EXCEPT !.pc = "idle", !.result = "loadError", !.err = caller[c].wait]
          \in CallerState
    BY <1>1, <2>1 DEF CallerState, Results
  <2> QED
    BY <1>2, <1>5, <2>2, <2>3 DEF IInv, TypeOK
<1>7. CASE Status(caller[c].wait) = "ok"
  <2>1. \/ caller' = [caller EXCEPT ![c].pc = "remote"]
        \/ caller' = [caller EXCEPT ![c].pc = "mkdir"]
        \/ caller' = [caller EXCEPT ![c].pc = "open"]
        \/ Finish(c, "configError")
    BY <1>7 DEF GotLibResume, Status
  <2>2. CASE Finish(c, "configError")
    <3>1. /\ caller' \in [Callers -> CallerState]
          /\ caller'[c] = [caller[c] EXCEPT !.pc = "idle", !.result = "configError"]
          /\ \A d \in Callers \ {c} : caller'[d] = caller[d]
      BY <2>2, FinishType DEF IInv, Results
    <3> QED
      BY <3>1, <1>1, <1>5 DEF CallerState
  <2>3. ASSUME NEW p \in {"remote", "mkdir", "open"}, caller' = [caller EXCEPT ![c].pc = p]
        PROVE  IInv'
    <3>1. /\ caller' \in [Callers -> CallerState]
          /\ caller'[c] = [caller[c] EXCEPT !.pc = p]
          /\ \A d \in Callers \ {c} : caller'[d] = caller[d]
      BY <2>3, SetPc DEF IInv, PcSet
    <3>2. caller[c].result = "loadError" => caller[c].err \notin caller[c].failedAtStart
      BY DEF IInv, WaitInv
    <3> QED
      BY <3>1, <3>2, <1>1, <1>5 DEF CallerState
  <2> QED
    BY <2>1, <2>2, <2>3
<1>8. QED
  BY <1>1, <1>2, <1>6, <1>7 DEF GotLibResume, Status, ResolvedP

-----------------------------------------------------------------------------
(***************************************************************************)
(* connect's continuations after #getLib, on the engine connection.        *)
(***************************************************************************)
Stages == {"key", "fk", "wal"}

\* A continuation of caller c that leaves the loader alone, moves c past
\* #getLib without touching what it waited for, keeps ConnInv, and never
\* takes an opened connection back to "none" preserves IInv.
LEMMA ContinuationIInv ==
    ASSUME IInv, NEW c \in Callers,
           caller[c].pc \notin {"idle", "getlib"},
           UNCHANGED <<cached, loaderP, imp, lib, libP, calls>>,
           caller' \in [Callers -> CallerState],
           \A d \in Callers \ {c} : caller'[d] = caller[d],
           caller'[c].pc # "getlib",
           caller'[c].id = caller[c].id,
           caller'[c].failedAtStart = caller[c].failedAtStart,
           caller'[c].err = caller[c].err,
           caller'[c].result = "loadError" => caller[c].result = "loadError",
           conn' \in [ConnIds -> ConnState],
           ConnInv',
           \A k \in ConnIds : conn[k].state # "none" => conn'[k].state # "none",
           caller'[c].pc \in Stages => conn'[caller[c].id].state # "none"
    PROVE  IInv'
<1>1. TypeOK'
  BY DEF IInv, TypeOK
<1>2. LoaderInv'
  BY DEF IInv, LoaderInv
<1>3. WaitInv'
  BY DEF IInv, WaitInv
<1>4. caller[c].id \in ConnIds
  BY DEF IInv, StageInv
<1>5. StageInv'
  BY <1>4 DEF IInv, StageInv, TypeOK, CallerState, Stages
<1> QED
  BY <1>1, <1>2, <1>3, <1>5 DEF IInv

\* The statement after stage `from` is a setup stage or the return.
LEMMA NextStageType ==
    ASSUME NEW cl, NEW from
    PROVE  NextStage(cl, from) \in Stages \cup {"return"}
BY DEF NextStage, Stages

\* A connection connect opens: open, not flagged, never closed.
LEMMA OpenedConn ==
    ASSUME NEW cl \in CallerState, NEW r \in BOOLEAN
    PROVE  LET nc == [NoConn EXCEPT !.state = "open", !.mgr = cl.mgr,
                                    !.temp = cl.opt.temp, !.returned = r]
           IN  /\ nc \in ConnState
               /\ nc.state = "open" /\ ~nc.flag /\ nc.closing = 0 /\ nc.closeCalls = 0
<1>1. cl.opt.temp \in BOOLEAN /\ cl.mgr \in Managers
  BY ConstAssumption DEF CallerState, OptionRec
<1>2. 0 \in 0..MaxCloses
  BY ConstAssumption
<1> QED
  BY <1>1, <1>2 DEF NoConn, ConnState

\* fs.mkdir settles.
LEMMA MkdirIInv ==
    ASSUME IInv, NEW c \in Callers, Mkdir(c)
    PROVE  IInv'
<1>1. caller[c].pc = "mkdir" /\ UNCHANGED <<cached, loaderP, imp, lib, libP, conn, calls>>
  BY DEF Mkdir
<1>2. ConnInv' /\ conn' \in [ConnIds -> ConnState]
  BY <1>1 DEF IInv, ConnInv, TypeOK
<1>3. CASE caller' = [caller EXCEPT ![c].pc = "open"]
  <2>1. /\ caller' \in [Callers -> CallerState]
        /\ caller'[c] = [caller[c] EXCEPT !.pc = "open"]
        /\ \A d \in Callers \ {c} : caller'[d] = caller[d]
    BY <1>3, SetPc DEF IInv, PcSet
  <2> QED
    BY <1>1, <1>2, <2>1, ContinuationIInv DEF IInv, TypeOK, CallerState, Stages
<1>4. CASE Finish(c, "fsError")
  <2>1. /\ caller' \in [Callers -> CallerState]
        /\ caller'[c] = [caller[c] EXCEPT !.pc = "idle", !.result = "fsError"]
        /\ \A d \in Callers \ {c} : caller'[d] = caller[d]
    BY <1>4, FinishType DEF IInv, Results
  <2> QED
    BY <1>1, <1>2, <2>1, ContinuationIInv DEF IInv, TypeOK, CallerState, Stages
<1> QED
  BY <1>3, <1>4 DEF Mkdir

\* Writing one connection slot with a record that keeps ConnInv, and
\* never takes it back to "none", keeps the type, ConnInv and every
\* opened slot opened.
LEMMA ConnWrite ==
    ASSUME TypeOK, ConnInv, NEW k \in ConnIds, NEW nc \in ConnState,
           nc.flag <=> nc.state = "closed",
           nc.returned => nc.state # "none",
           nc.closing <= nc.closeCalls,
           conn[k].state # "none" => nc.state # "none",
           conn' = [conn EXCEPT ![k] = nc]
    PROVE  /\ conn' \in [ConnIds -> ConnState]
           /\ ConnInv'
           /\ \A j \in ConnIds : conn[j].state # "none" => conn'[j].state # "none"
           /\ conn'[k] = nc
BY DEF TypeOK, ConnInv

\* lib.connect(url) settles on the remote path.
LEMMA RemoteOpenIInv ==
    ASSUME IInv, NEW c \in Callers, RemoteOpen(c)
    PROVE  IInv'
<1>1. /\ caller[c].pc = "remote" /\ caller[c] \in CallerState
      /\ UNCHANGED <<cached, loaderP, imp, lib, libP, calls>>
  BY DEF RemoteOpen, IInv, TypeOK
<1>2. caller[c].id \in ConnIds
  BY <1>1 DEF IInv, StageInv
<1>3. CASE /\ conn' = [conn EXCEPT ![caller[c].id] =
                         [NoConn EXCEPT !.state = "open", !.mgr = caller[c].mgr,
                                        !.returned = TRUE]]
           /\ Finish(c, "ok")
  <2> DEFINE nc == [NoConn EXCEPT !.state = "open", !.mgr = caller[c].mgr, !.returned = TRUE]
  <2>1. nc \in ConnState /\ nc.state = "open" /\ ~nc.flag /\ nc.closing = 0 /\ nc.closeCalls = 0
    <3>1. caller[c].mgr \in Managers /\ 0 \in 0..MaxCloses
      BY <1>1, ConstAssumption DEF CallerState
    <3> QED
      BY <3>1 DEF NoConn, ConnState
  <2>2. /\ conn' \in [ConnIds -> ConnState]
        /\ ConnInv'
        /\ \A j \in ConnIds : conn[j].state # "none" => conn'[j].state # "none"
    <3>1. /\ nc.flag <=> nc.state = "closed"
          /\ nc.returned => nc.state # "none"
          /\ nc.closing <= nc.closeCalls
          /\ conn[caller[c].id].state # "none" => nc.state # "none"
      BY <2>1
    <3>2. conn' = [conn EXCEPT ![caller[c].id] = nc]
      BY <1>3
    <3>3. TypeOK /\ ConnInv
      BY DEF IInv
    <3> QED
      BY <1>2, <2>1, <3>1, <3>2, <3>3, ConnWrite
  <2>3. /\ caller' \in [Callers -> CallerState]
        /\ caller'[c] = [caller[c] EXCEPT !.pc = "idle", !.result = "ok"]
        /\ \A d \in Callers \ {c} : caller'[d] = caller[d]
    BY <1>3, FinishType DEF IInv, Results
  <2> QED
    BY <1>1, <2>2, <2>3, ContinuationIInv DEF CallerState, Stages
<1>4. CASE Finish(c, "connectionError") /\ UNCHANGED conn
  <2>1. /\ caller' \in [Callers -> CallerState]
        /\ caller'[c] = [caller[c] EXCEPT !.pc = "idle", !.result = "connectionError"]
        /\ \A d \in Callers \ {c} : caller'[d] = caller[d]
    BY <1>4, FinishType DEF IInv, Results
  <2> QED
    BY <1>1, <1>4, <2>1, ContinuationIInv DEF IInv, TypeOK, ConnInv, CallerState, Stages
<1> QED
  BY <1>3, <1>4 DEF RemoteOpen

\* lib.connect(storage) settles on the local path.
LEMMA LocalOpenIInv ==
    ASSUME IInv, NEW c \in Callers, LocalOpen(c)
    PROVE  IInv'
<1> DEFINE ns == NextStage(caller[c], "open")
<1>1. /\ caller[c].pc = "open" /\ caller[c] \in CallerState
      /\ UNCHANGED <<cached, loaderP, imp, lib, libP, calls>>
  BY DEF LocalOpen, IInv, TypeOK
<1>2. caller[c].id \in ConnIds
  BY <1>1 DEF IInv, StageInv
<1>3. ns \in Stages \cup {"return"}
  BY NextStageType
<1>4. CASE /\ conn' = [conn EXCEPT ![caller[c].id] =
                         [NoConn EXCEPT !.state = "open", !.mgr = caller[c].mgr,
                                        !.temp = caller[c].opt.temp, !.returned = ns = "return"]]
           /\ IF ns = "return" THEN Finish(c, "ok")
                               ELSE caller' = [caller EXCEPT ![c].pc = ns]
  <2> DEFINE nc == [NoConn EXCEPT !.state = "open", !.mgr = caller[c].mgr,
                                  !.temp = caller[c].opt.temp, !.returned = ns = "return"]
  <2>1. nc \in ConnState /\ nc.state = "open" /\ ~nc.flag /\ nc.closing = 0 /\ nc.closeCalls = 0
    <3>1. (ns = "return") \in BOOLEAN
      OBVIOUS
    <3> QED
      BY <1>1, <3>1, OpenedConn
  <2>2. /\ conn' \in [ConnIds -> ConnState]
        /\ ConnInv'
        /\ \A j \in ConnIds : conn[j].state # "none" => conn'[j].state # "none"
        /\ conn'[caller[c].id].state = "open"
    <3>1. /\ nc.flag <=> nc.state = "closed"
          /\ nc.returned => nc.state # "none"
          /\ nc.closing <= nc.closeCalls
          /\ conn[caller[c].id].state # "none" => nc.state # "none"
      BY <2>1
    <3>2. conn' = [conn EXCEPT ![caller[c].id] = nc]
      BY <1>4
    <3>3. TypeOK /\ ConnInv
      BY DEF IInv
    <3>4. nc.state = "open"
      BY <2>1
    <3> QED
      BY <1>2, <2>1, <3>1, <3>2, <3>3, <3>4, ConnWrite
  <2>3. CASE ns = "return"
    <3>1. /\ caller' \in [Callers -> CallerState]
          /\ caller'[c] = [caller[c] EXCEPT !.pc = "idle", !.result = "ok"]
          /\ \A d \in Callers \ {c} : caller'[d] = caller[d]
      BY <1>4, <2>3, FinishType DEF IInv, Results
    <3> QED
      BY <1>1, <2>2, <3>1, ContinuationIInv DEF CallerState, Stages
  <2>4. CASE ns # "return"
    <3>1. /\ caller' \in [Callers -> CallerState]
          /\ caller'[c] = [caller[c] EXCEPT !.pc = ns]
          /\ \A d \in Callers \ {c} : caller'[d] = caller[d]
      BY <1>3, <1>4, <2>4, SetPc DEF IInv, PcSet, Stages
    <3> QED
      BY <1>1, <1>3, <2>2, <2>4, <3>1, ContinuationIInv DEF CallerState, Stages
  <2> QED
    BY <2>3, <2>4
<1>5. CASE Finish(c, "connectionError") /\ UNCHANGED conn
  <2>1. /\ caller' \in [Callers -> CallerState]
        /\ caller'[c] = [caller[c] EXCEPT !.pc = "idle", !.result = "connectionError"]
        /\ \A d \in Callers \ {c} : caller'[d] = caller[d]
    BY <1>5, FinishType DEF IInv, Results
  <2> QED
    BY <1>1, <1>5, <2>1, ContinuationIInv DEF IInv, TypeOK, ConnInv, CallerState, Stages
<1> QED
  BY <1>4, <1>5 DEF LocalOpen

\* A setup statement settles.
LEMMA ExecIInv ==
    ASSUME IInv, NEW c \in Callers, Exec(c)
    PROVE  IInv'
<1> DEFINE ns == NextStage(caller[c], caller[c].pc)
           id == caller[c].id
<1>1. /\ caller[c].pc \in Stages /\ caller[c] \in CallerState
      /\ UNCHANGED <<cached, loaderP, imp, lib, libP, calls>>
  BY DEF Exec, IInv, TypeOK, Stages
<1>2. id \in ConnIds /\ conn[id].state # "none" /\ conn[id] \in ConnState
  BY <1>1 DEF IInv, StageInv, TypeOK, Stages
<1>3. ns \in Stages \cup {"return"}
  BY NextStageType
<1>4. CASE ns = "return" /\ Finish(c, "ok")
           /\ conn' = [conn EXCEPT ![caller[c].id].returned = TRUE]
  <2> DEFINE nc == [conn[id] EXCEPT !.returned = TRUE]
  <2>1. /\ nc \in ConnState
        /\ nc.flag <=> nc.state = "closed"
        /\ nc.returned => nc.state # "none"
        /\ nc.closing <= nc.closeCalls
        /\ conn[id].state # "none" => nc.state # "none"
    BY <1>2 DEF IInv, ConnInv, ConnState
  <2>2. conn' = [conn EXCEPT ![id] = nc]
    BY <1>4
  <2>3. TypeOK /\ ConnInv
    BY DEF IInv
  <2>4. /\ conn' \in [ConnIds -> ConnState]
        /\ ConnInv'
        /\ \A j \in ConnIds : conn[j].state # "none" => conn'[j].state # "none"
    BY <1>2, <2>1, <2>2, <2>3, ConnWrite
  <2>5. /\ caller' \in [Callers -> CallerState]
        /\ caller'[c] = [caller[c] EXCEPT !.pc = "idle", !.result = "ok"]
        /\ \A d \in Callers \ {c} : caller'[d] = caller[d]
    BY <1>4, FinishType DEF IInv, Results
  <2> QED
    BY <1>1, <2>4, <2>5, ContinuationIInv DEF CallerState, Stages
<1>5. CASE ns # "return" /\ caller' = [caller EXCEPT ![c].pc = ns] /\ UNCHANGED conn
  <2>1. /\ caller' \in [Callers -> CallerState]
        /\ caller'[c] = [caller[c] EXCEPT !.pc = ns]
        /\ \A d \in Callers \ {c} : caller'[d] = caller[d]
    BY <1>3, <1>5, SetPc DEF IInv, PcSet, Stages
  <2> QED
    BY <1>1, <1>2, <1>3, <1>5, <2>1, ContinuationIInv
       DEF IInv, TypeOK, ConnInv, CallerState, Stages, id
<1>6. CASE Finish(c, "connectionError") /\ UNCHANGED conn
  <2>1. /\ caller' \in [Callers -> CallerState]
        /\ caller'[c] = [caller[c] EXCEPT !.pc = "idle", !.result = "connectionError"]
        /\ \A d \in Callers \ {c} : caller'[d] = caller[d]
    BY <1>6, FinishType DEF IInv, Results
  <2> QED
    BY <1>1, <1>6, <2>1, ContinuationIInv DEF IInv, TypeOK, ConnInv, CallerState, Stages
<1> QED
  BY <1>4, <1>5, <1>6 DEF Exec, Advance

-----------------------------------------------------------------------------
(***************************************************************************)
(* disconnect and close().                                                 *)
(***************************************************************************)
\* A step on connection k alone keeps IInv when it keeps ConnInv and every
\* opened slot opened.
LEMMA ConnStepIInv ==
    ASSUME IInv, UNCHANGED <<cached, loaderP, imp, lib, libP, caller, calls>>,
           conn' \in [ConnIds -> ConnState], ConnInv',
           \A j \in ConnIds : conn[j].state # "none" => conn'[j].state # "none"
    PROVE  IInv'
BY DEF IInv, TypeOK, LoaderInv, WaitInv, StageInv

LEMMA DisconnectIInv ==
    ASSUME IInv, NEW k \in ConnIds, Disconnect(k)
    PROVE  IInv'
<1> DEFINE nc == [conn[k] EXCEPT !.closing = conn[k].closing + 1,
                                 !.closeCalls = conn[k].closeCalls + 1]
<1>1. conn[k] \in ConnState /\ conn[k].closeCalls < MaxCloses
      /\ conn[k].closing <= conn[k].closeCalls
  BY DEF Disconnect, IInv, TypeOK, ConnInv
<1>2. /\ nc \in ConnState
      /\ nc.flag <=> nc.state = "closed"
      /\ nc.returned => nc.state # "none"
      /\ nc.closing <= nc.closeCalls
      /\ conn[k].state # "none" => nc.state # "none"
  <2>1. /\ conn[k].flag <=> conn[k].state = "closed"
        /\ conn[k].returned => conn[k].state # "none"
    BY DEF IInv, ConnInv
  <2>2. conn[k].closing + 1 \in 0..MaxCloses /\ conn[k].closeCalls + 1 \in 0..MaxCloses
    BY <1>1 DEF ConnState
  <2>3. nc \in ConnState
    BY <1>1, <2>2 DEF ConnState
  <2>4. /\ nc.flag = conn[k].flag /\ nc.state = conn[k].state /\ nc.returned = conn[k].returned
        /\ nc.closing = conn[k].closing + 1 /\ nc.closeCalls = conn[k].closeCalls + 1
        /\ conn[k].closing \in Int /\ conn[k].closeCalls \in Int
    BY <1>1 DEF ConnState
  <2> QED
    BY <1>1, <2>1, <2>3, <2>4
<1>3. conn' = [conn EXCEPT ![k] = nc]
  BY DEF Disconnect
<1>4. TypeOK /\ ConnInv
  BY DEF IInv
<1>5. /\ conn' \in [ConnIds -> ConnState]
      /\ ConnInv'
      /\ \A j \in ConnIds : conn[j].state # "none" => conn'[j].state # "none"
  BY <1>2, <1>3, <1>4, ConnWrite
<1> QED
  BY <1>5, ConnStepIInv DEF Disconnect

LEMMA CloseSettlesIInv ==
    ASSUME IInv, NEW k \in ConnIds, CloseSettles(k)
    PROVE  IInv'
<1>1. conn[k] \in ConnState /\ conn[k].closing > 0 /\ conn[k].closing <= conn[k].closeCalls
      /\ (conn[k].flag <=> conn[k].state = "closed")
      /\ (conn[k].returned => conn[k].state # "none")
  BY DEF CloseSettles, IInv, TypeOK, ConnInv
<1>2. TypeOK /\ ConnInv
  BY DEF IInv
\* The two outcomes of close(), each a write of slot k.
<1>3. \E nc \in ConnState :
        /\ nc.flag <=> nc.state = "closed"
        /\ nc.returned => nc.state # "none"
        /\ nc.closing <= nc.closeCalls
        /\ conn[k].state # "none" => nc.state # "none"
        /\ conn' = [conn EXCEPT ![k] = nc]
  <2>1. CASE conn' = [conn EXCEPT ![k].closing = @ - 1, ![k].state = "closed", ![k].flag = TRUE]
    <3> DEFINE nc == [conn[k] EXCEPT !.closing = conn[k].closing - 1, !.state = "closed",
                                     !.flag = TRUE]
    <3>1. /\ nc \in ConnState
          /\ nc.flag <=> nc.state = "closed"
          /\ nc.returned => nc.state # "none"
          /\ nc.closing <= nc.closeCalls
          /\ conn[k].state # "none" => nc.state # "none"
      <4>1. conn[k].closing - 1 \in 0..MaxCloses /\ "closed" \in {"none", "open", "closed"}
        BY <1>1 DEF ConnState
      <4>2. nc \in ConnState
        BY <1>1, <4>1 DEF ConnState
      <4>3. /\ nc.flag = TRUE /\ nc.state = "closed" /\ nc.closing = conn[k].closing - 1
            /\ nc.closeCalls = conn[k].closeCalls
            /\ conn[k].closing \in Int /\ conn[k].closeCalls \in Int
        BY <1>1 DEF ConnState
      <4> QED
        BY <1>1, <4>2, <4>3
    <3>2. conn' = [conn EXCEPT ![k] = nc]
      BY <2>1
    <3> QED
      BY <3>1, <3>2
  <2>2. CASE conn' = [conn EXCEPT ![k].closing = @ - 1]
    <3> DEFINE nc == [conn[k] EXCEPT !.closing = conn[k].closing - 1]
    <3>1. /\ nc \in ConnState
          /\ nc.flag <=> nc.state = "closed"
          /\ nc.returned => nc.state # "none"
          /\ nc.closing <= nc.closeCalls
          /\ conn[k].state # "none" => nc.state # "none"
      BY <1>1 DEF ConnState
    <3>2. conn' = [conn EXCEPT ![k] = nc]
      BY <2>2
    <3> QED
      BY <3>1, <3>2
  <2> QED
    BY <2>1, <2>2 DEF CloseSettles
<1>4. PICK nc \in ConnState :
        /\ nc.flag <=> nc.state = "closed"
        /\ nc.returned => nc.state # "none"
        /\ nc.closing <= nc.closeCalls
        /\ conn[k].state # "none" => nc.state # "none"
        /\ conn' = [conn EXCEPT ![k] = nc]
  BY <1>3
<1>5. /\ conn' \in [ConnIds -> ConnState]
      /\ ConnInv'
      /\ \A j \in ConnIds : conn[j].state # "none" => conn'[j].state # "none"
  BY <1>2, <1>4, ConnWrite
<1> QED
  BY <1>5, ConnStepIInv DEF CloseSettles

-----------------------------------------------------------------------------
(***************************************************************************)
(* Invariance.                                                             *)
(***************************************************************************)
LEMMA IInvNext == IInv /\ [Next]_vars => IInv'
<1> SUFFICES ASSUME IInv, [Next]_vars PROVE IInv'
  OBVIOUS
<1>1. ASSUME NEW c \in Callers, NEW m \in Managers, NEW o \in Options, Connect(c, m, o)
      PROVE  IInv'
  BY <1>1, ConnectIInv
<1>2. ASSUME NEW k \in Attempts, ImportSettles(k) PROVE IInv'
  BY <1>2, ImportSettlesIInv
<1>3. ASSUME NEW c \in Callers,
             GotLibResume(c) \/ Mkdir(c) \/ RemoteOpen(c) \/ LocalOpen(c) \/ Exec(c)
      PROVE  IInv'
  BY <1>3, GotLibResumeIInv, MkdirIInv, RemoteOpenIInv, LocalOpenIInv, ExecIInv
<1>4. ASSUME NEW k \in ConnIds, Disconnect(k) \/ CloseSettles(k) PROVE IInv'
  BY <1>4, DisconnectIInv, CloseSettlesIInv
<1>5. ASSUME UNCHANGED vars PROVE IInv'
  BY <1>5 DEF vars, IInv, TypeOK, LoaderInv, WaitInv, ConnInv, StageInv, ConnIds,
             CallerState, ConnState, Promises, Attempts
<1> QED
  BY <1>1, <1>2, <1>3, <1>4, <1>5 DEF Next

LEMMA IInvInvariant == Spec => []IInv
BY InitIInv, IInvNext, PTL DEF Spec

\* connect, whichever managers and callers race with it and however many
\* import() attempts fail, never fails with a module-load error that was
\* already there when it was called: the catches reset
\* defaultModulePromise and #libPromise before any other caller runs.
THEOREM StaleFailureImpossible == Spec => []NoStaleLoadFailure
<1>1. IInv => NoStaleLoadFailure
  BY DEF IInv, WaitInv, NoStaleLoadFailure
<1> QED
  BY <1>1, IInvInvariant, PTL

\* The connection manager's state keeps its types: every promise is an
\* import attempt, undefined or resolved, and close() is never awaited
\* more often than disconnect called it.
THEOREM TypeCorrect == Spec => []TypeOK
<1>1. IInv => TypeOK
  BY DEF IInv
<1> QED
  BY <1>1, IInvInvariant, PTL

\* validate() accepts a returned connection exactly while the engine holds
\* it open, however disconnect calls overlap and whichever close() fails:
\* CLOSED_SYMBOL is set only after a successful close().
THEOREM ValidateSound == Spec => []ValidateMatchesEngine
<1>1. IInv => ValidateMatchesEngine
  <2> SUFFICES ASSUME IInv, NEW k \in ConnIds, conn[k].returned
               PROVE  Validate(k) <=> conn[k].state = "open"
    BY DEF ValidateMatchesEngine
  <2>1. conn[k] \in ConnState
    BY DEF IInv, TypeOK
  <2> QED
    BY <2>1 DEF IInv, ConnInv, Validate, ConnState
<1> QED
  BY <1>1, IInvInvariant, PTL

-----------------------------------------------------------------------------
(***************************************************************************)
(* The loader implements ModuleLoader.                                     *)
(***************************************************************************)
\* The refinement mapping's `loading`.
Loading == \E k \in Attempts : imp[k] = "pending"

LEMMA LoaderStep ==
    IInv /\ [Next]_vars => [Loader!Next]_<<cached, Loading>>
<1> SUFFICES ASSUME IInv, [Next]_vars PROVE [Loader!Next]_<<cached, Loading>>
  OBVIOUS
<1> USE DEF IInv, TypeOK, LoaderInv, Loading, Loader!Next, Loader!StartImport,
            Loader!ImportSucceeds, Loader!ImportFails
\* Every step that leaves imp and cached alone is a stutter of the loader.
<1>1. ASSUME UNCHANGED <<cached, imp>> PROVE [Loader!Next]_<<cached, Loading>>
  BY <1>1
<1>2. ASSUME NEW c \in Callers, NEW m \in Managers, NEW o \in Options, Connect(c, m, o)
      PROVE  [Loader!Next]_<<cached, Loading>>
  <2>1. UNCHANGED cached
    BY <1>2 DEF Connect
  <2>2. \/ UNCHANGED imp
        \/ /\ ~cached /\ loaderP = NoP
           /\ \E k \in Attempts : imp' = [imp EXCEPT ![k] = "pending"]
    BY <1>2 DEF Connect, GetLib, LoadDefault
  <2>3. CASE UNCHANGED imp
    <3>1. Loading' = Loading
      BY <2>3
    <3> QED
      BY <2>1, <3>1
  <2>4. CASE ~cached /\ loaderP = NoP /\ \E k \in Attempts : imp' = [imp EXCEPT ![k] = "pending"]
    <3>1. ~Loading
      BY <2>4 DEF NoP, Attempts
    <3>2. Loading'
      BY <2>4
    <3> QED
      BY <2>1, <2>4, <3>1, <3>2
  <2> QED
    BY <2>2, <2>3, <2>4
<1>3. ASSUME NEW k \in Attempts, ImportSettles(k) PROVE [Loader!Next]_<<cached, Loading>>
  <2>1. Loading /\ ~Loading'
    <3>1. \A j \in Attempts : imp[j] = "pending" => j = k
      BY <1>3 DEF ImportSettles
    <3> QED
      BY <1>3, <3>1 DEF ImportSettles
  <2> QED
    BY <1>3, <2>1 DEF ImportSettles
<1>4. ASSUME NEW c \in Callers,
             GotLibResume(c) \/ Mkdir(c) \/ RemoteOpen(c) \/ LocalOpen(c) \/ Exec(c)
      PROVE  [Loader!Next]_<<cached, Loading>>
  BY <1>4, <1>1 DEF GotLibResume, Mkdir, RemoteOpen, LocalOpen, Exec
<1>5. ASSUME NEW k \in ConnIds, Disconnect(k) \/ CloseSettles(k)
      PROVE  [Loader!Next]_<<cached, Loading>>
  BY <1>5, <1>1 DEF Disconnect, CloseSettles
<1> QED
  BY <1>1, <1>2, <1>3, <1>4, <1>5 DEF Next, vars

\* However many managers and connect calls race for it,
\* loadDefaultTursoModule with #getLib behaves as ModuleLoader: import()
\* is in flight at most once at a time, is never started while the module
\* is cached, and a failure leaves the way open to a new attempt.
THEOREM LoaderRefinement == Spec => LoaderRefined
<1>1. Init => Loader!Init
  BY DEF Init, Loader!Init, Attempts
<1>2. Spec => [][Loader!Next]_<<cached, Loading>>
  BY IInvInvariant, LoaderStep, PTL DEF Spec
<1> QED
  BY <1>1, <1>2, PTL DEF Spec, LoaderRefined, Loader!Spec, Loading

=============================================================================
