-------------------------- MODULE ConnectionManager --------------------------
(***************************************************************************)
(* TursoConnectionManager (src/packages/turso/src/connection-manager.ts):  *)
(* the module-level loader loadDefaultTursoModule, shared by every         *)
(* manager of the process, each manager's #getLib, connect with its awaits *)
(* and error paths, validate and disconnect.                               *)
(*                                                                         *)
(* A promise of the loader is the import attempt it waits for: attempt k   *)
(* in 1..MaxImports, NoP for `undefined`, ResolvedP for a promise that is  *)
(* already fulfilled (the cached module).  A step runs a continuation up   *)
(* to its next await; the engine (import(), lib.connect, exec, close)      *)
(* answers an await in a step of its own, with success or failure.        *)
(***************************************************************************)
EXTENDS Integers, FiniteSets

CONSTANTS
    Managers,       \* TursoConnectionManager objects (one per Sequelize instance)
    Callers,        \* callers of connect: the pool's acquire calls
    Options,        \* the connection options a caller passes
    Pool,           \* Pool[m]: the pool settings of m's Sequelize instance
    ForeignKeys,    \* ForeignKeys[m]: dialect option foreignKeys !== false
    Preset,         \* Preset[m]: dialect option tursoModule is given
    MaxCalls,       \* bound on connect calls (each opens at most one connection)
    MaxImports,     \* bound on import() attempts
    MaxCloses       \* bound on close() calls per connection

\* What connect reads of its options: url, authToken, a temporary storage
\* (':memory:' or ''), whether the storage directory exists, password and
\* enableWal !== false.
OptionRec == [remote : BOOLEAN, authToken : BOOLEAN, temp : BOOLEAN,
              dirExists : BOOLEAN, password : BOOLEAN, wal : BOOLEAN]
\* The pool settings the temporary-storage guard reads.
PoolRec == [idleInfinite : BOOLEAN, maxUsesInfinite : BOOLEAN,
            maxSizeOne : BOOLEAN, noRead : BOOLEAN]

ASSUME ConstAssumption ==
    /\ Options \subseteq OptionRec
    /\ Pool \in [Managers -> PoolRec]
    /\ ForeignKeys \in [Managers -> BOOLEAN]
    /\ Preset \in [Managers -> BOOLEAN]
    /\ Managers # {} /\ Options # {}
    /\ MaxCalls \in Nat /\ MaxImports \in Nat /\ MaxCloses \in Nat

Attempts  == 1..MaxImports
NoP       == 0
ResolvedP == -1
ConnIds   == 1..MaxCalls

VARIABLES
    cached,     \* cachedDefaultModule is set
    loaderP,    \* defaultModulePromise
    imp,        \* imp[k]: the state of import attempt k
    lib,        \* lib[m]: m.#lib is set
    libP,       \* libP[m]: the attempt m.#libPromise is chained to
    caller,     \* caller[c]: the connect call of c in progress
    conn,       \* conn[k]: the engine connection opened by connect call k
    calls       \* connect calls made so far

vars == <<cached, loaderP, imp, lib, libP, caller, conn, calls>>

\* The state of the promise p.
Status(p) == IF p = ResolvedP THEN "ok" ELSE imp[p]

IdleCaller == [pc |-> "idle", mgr |-> CHOOSE m \in Managers : TRUE,
               opt |-> CHOOSE o \in Options : TRUE, id |-> 0, wait |-> NoP,
               failedAtStart |-> {}, result |-> "none", err |-> NoP]
NoConn == [state |-> "none", mgr |-> CHOOSE m \in Managers : TRUE, temp |-> FALSE,
           returned |-> FALSE, flag |-> FALSE, closing |-> 0, closeCalls |-> 0]

Init ==
    /\ cached = FALSE
    /\ loaderP = NoP
    /\ imp = [k \in Attempts |-> "unstarted"]
    /\ lib = Preset
    /\ libP = [m \in Managers |-> NoP]
    /\ caller = [c \in Callers |-> IdleCaller]
    /\ conn = [k \in ConnIds |-> NoConn]
    /\ calls = 0

(***************************************************************************)
(* The loader.  loadDefaultTursoModule returns the cached module, or the   *)
(* promise in flight, or starts import() and keeps its promise.  #getLib   *)
(* returns #lib, or #libPromise, or chains a new #libPromise on the        *)
(* loader; GotLib(m) is the promise the caller then awaits.              *)
(***************************************************************************)
\* A plausible fault, for mutation: no `if (!defaultModulePromise)`, so
\* every call that finds nothing cached starts its own import().
LoadDefaultEveryCall(m) ==
    \/ /\ cached
       /\ libP' = [libP EXCEPT ![m] = ResolvedP]
       /\ UNCHANGED <<loaderP, imp>>
    \/ /\ ~cached
       /\ \E k \in Attempts :
            /\ imp[k] = "unstarted"
            /\ \A j \in 1..(k - 1) : imp[j] # "unstarted"
            /\ imp' = [imp EXCEPT ![k] = "pending"]
            /\ loaderP' = k
            /\ libP' = [libP EXCEPT ![m] = k]

LoadDefault(m) ==
    \/ /\ cached
       /\ libP' = [libP EXCEPT ![m] = ResolvedP]
       /\ UNCHANGED <<loaderP, imp>>
    \/ /\ ~cached /\ loaderP # NoP
       /\ libP' = [libP EXCEPT ![m] = loaderP]
       /\ UNCHANGED <<loaderP, imp>>
    \/ /\ ~cached /\ loaderP = NoP
       /\ \E k \in Attempts :
            /\ imp[k] = "unstarted"
            /\ \A j \in 1..(k - 1) : imp[j] # "unstarted"
            /\ imp' = [imp EXCEPT ![k] = "pending"]
            /\ loaderP' = k
            /\ libP' = [libP EXCEPT ![m] = k]

GetLib(m) ==
    \/ /\ lib[m]
       /\ UNCHANGED <<loaderP, imp, libP>>
    \/ /\ ~lib[m] /\ libP[m] # NoP
       /\ UNCHANGED <<loaderP, imp, libP>>
    \/ /\ ~lib[m] /\ libP[m] = NoP
       /\ LoadDefault(m)

\* The promise #getLib returned, read after GetLib(m).
GotLib(m) == IF lib[m] THEN ResolvedP ELSE libP'[m]

\* connect(options): the call runs #getLib and awaits it.
Connect(c, m, o) ==
    /\ caller[c].pc = "idle"
    /\ calls < MaxCalls
    /\ GetLib(m)
    /\ caller' = [caller EXCEPT ![c] =
                    [pc |-> "getlib", mgr |-> m, opt |-> o, id |-> calls + 1,
                     wait |-> GotLib(m), failedAtStart |-> {k \in Attempts : imp[k] = "failed"},
                     result |-> "none", err |-> NoP]]
    /\ calls' = calls + 1
    /\ UNCHANGED <<cached, lib, conn>>

\* A plausible fault, for mutation: the loader's catch rethrows without
\* resetting defaultModulePromise.
ImportSettlesKeepsPromise(k) ==
    /\ imp[k] = "pending"
    /\ \/ /\ imp' = [imp EXCEPT ![k] = "ok"]
          /\ cached' = TRUE
          /\ lib' = [m \in Managers |-> lib[m] \/ libP[m] = k]
          /\ UNCHANGED <<loaderP, libP>>
       \/ /\ imp' = [imp EXCEPT ![k] = "failed"]
          /\ libP' = [m \in Managers |-> IF libP[m] = k THEN NoP ELSE libP[m]]
          /\ UNCHANGED <<cached, lib, loaderP>>
    /\ UNCHANGED <<caller, conn, calls>>

\* import() of attempt k settles.  On success the loader's then sets
\* cachedDefaultModule and each manager's then sets #lib; on failure the
\* loader's catch and each chained catch reset their promise to undefined.
\* The chained callbacks are microtasks that run before any other caller.
ImportSettles(k) ==
    /\ imp[k] = "pending"
    /\ \/ /\ imp' = [imp EXCEPT ![k] = "ok"]
          /\ cached' = TRUE
          /\ lib' = [m \in Managers |-> lib[m] \/ libP[m] = k]
          /\ UNCHANGED <<loaderP, libP>>
       \/ /\ imp' = [imp EXCEPT ![k] = "failed"]
          /\ loaderP' = NoP
          /\ libP' = [m \in Managers |-> IF libP[m] = k THEN NoP ELSE libP[m]]
          /\ UNCHANGED <<cached, lib>>
    /\ UNCHANGED <<caller, conn, calls>>

(***************************************************************************)
(* The caller's continuations.                                             *)
(***************************************************************************)
\* A connect call ends: it returns its connection or throws `result`.
Finish(c, result) ==
    caller' = [caller EXCEPT ![c].pc = "idle", ![c].result = result]

TempGuardFails(p) ==
    ~p.idleInfinite \/ ~p.maxUsesInfinite \/ ~p.maxSizeOne \/ ~p.noRead

\* #getLib settled.  A failure is rethrown (with a friendlier message when
\* the package is missing).  Otherwise the remote path checks authToken;
\* the local path runs the temporary-storage guard, then checks for the
\* storage directory (creating it if missing), then awaits lib.connect.
GotLibResume(c) ==
    LET cl == caller[c]
        o  == cl.opt
    IN
    /\ cl.pc = "getlib"
    /\ Status(cl.wait) \in {"ok", "failed"}
    /\ \/ /\ Status(cl.wait) = "failed"
          /\ caller' = [caller EXCEPT ![c].pc = "idle", ![c].result = "loadError",
                                      ![c].err = cl.wait]
          /\ UNCHANGED lib
       \/ /\ Status(cl.wait) = "ok"
          /\ lib' = [lib EXCEPT ![cl.mgr] = TRUE]
          /\ IF o.remote
               THEN IF o.authToken THEN caller' = [caller EXCEPT ![c].pc = "remote"]
                    ELSE Finish(c, "configError")
             ELSE IF o.temp /\ TempGuardFails(Pool[cl.mgr]) THEN Finish(c, "configError")
             ELSE caller' = [caller EXCEPT ![c].pc =
                               IF ~o.temp /\ ~o.dirExists THEN "mkdir" ELSE "open"]
    /\ UNCHANGED <<cached, loaderP, imp, libP, conn, calls>>

\* fs.mkdir(storageDir, { recursive: true }) settles; it is outside the
\* try, so its error is thrown as it is.
Mkdir(c) ==
    /\ caller[c].pc = "mkdir"
    /\ \/ caller' = [caller EXCEPT ![c].pc = "open"]
       \/ Finish(c, "fsError")
    /\ UNCHANGED <<cached, loaderP, imp, lib, libP, conn, calls>>

\* lib.connect(url) settles: the remote connection is returned as it is.
RemoteOpen(c) ==
    LET cl == caller[c] IN
    /\ cl.pc = "remote"
    /\ \/ /\ conn' = [conn EXCEPT ![cl.id] = [NoConn EXCEPT !.state = "open",
                                               !.mgr = cl.mgr, !.returned = TRUE]]
          /\ Finish(c, "ok")
       \/ /\ Finish(c, "connectionError")
          /\ UNCHANGED conn
    /\ UNCHANGED <<cached, loaderP, imp, lib, libP, calls>>

\* The setup statements of a local connection after stage `from`:
\* PRAGMA KEY if a password is given, PRAGMA foreign_keys = ON unless the
\* dialect disables it, PRAGMA journal_mode = WAL unless enableWal is false.
NextStage(cl, from) ==
    LET key == cl.opt.password
        fk  == ForeignKeys[cl.mgr]
        wal == cl.opt.wal
    IN  IF from = "open" /\ key THEN "key"
        ELSE IF from \in {"open", "key"} /\ fk THEN "fk"
        ELSE IF from \in {"open", "key", "fk"} /\ wal THEN "wal"
        ELSE "return"

\* A plausible fault, for mutation: the `return tursoConnection` after the
\* last setup statement is missing, so the call never hands it back.
AdvanceNoReturn(c, from) ==
    /\ caller' = [caller EXCEPT ![c].pc = NextStage(caller[c], from)]
    /\ UNCHANGED conn

\* Leave stage `from` of the setup: await the next statement, or return
\* the connection.
Advance(c, from) ==
    LET cl == caller[c] IN
    IF NextStage(cl, from) = "return"
      THEN /\ Finish(c, "ok")
           /\ conn' = [conn EXCEPT ![cl.id].returned = TRUE]
      ELSE /\ caller' = [caller EXCEPT ![c].pc = NextStage(cl, from)]
           /\ UNCHANGED conn

\* lib.connect(storage) settles.  From here on every error is wrapped in a
\* ConnectionError by the outer catch.
LocalOpen(c) ==
    LET cl == caller[c] IN
    /\ cl.pc = "open"
    /\ \/ /\ conn' = [conn EXCEPT ![cl.id] = [NoConn EXCEPT !.state = "open",
                                               !.mgr = cl.mgr, !.temp = cl.opt.temp,
                                               !.returned = NextStage(cl, "open") = "return"]]
          /\ IF NextStage(cl, "open") = "return"
               THEN Finish(c, "ok")
               ELSE caller' = [caller EXCEPT ![c].pc = NextStage(cl, "open")]
       \/ /\ Finish(c, "connectionError")
          /\ UNCHANGED conn
    /\ UNCHANGED <<cached, loaderP, imp, lib, libP, calls>>

\* A setup statement settles.  A failed PRAGMA KEY or foreign_keys is
\* rethrown to the outer catch, which throws a ConnectionError and leaves
\* the connection as it is; a failed WAL switch is only logged, so it
\* continues as a successful one does.
Exec(c) ==
    LET cl == caller[c] IN
    /\ cl.pc \in {"key", "fk", "wal"}
    /\ \/ Advance(c, cl.pc)
       \/ /\ cl.pc \in {"key", "fk"}
          /\ Finish(c, "connectionError")
          /\ UNCHANGED conn
    /\ UNCHANGED <<cached, loaderP, imp, lib, libP, calls>>

(***************************************************************************)
(* validate and disconnect, on a connection connect returned.              *)
(***************************************************************************)
Validate(k) == ~conn[k].flag

\* A plausible fault, for mutation: CLOSED_SYMBOL set before awaiting
\* close().
DisconnectFlagFirst(k) ==
    /\ conn[k].returned
    /\ ~conn[k].flag
    /\ conn[k].closeCalls < MaxCloses
    /\ conn' = [conn EXCEPT ![k].closing = @ + 1, ![k].closeCalls = @ + 1, ![k].flag = TRUE]
    /\ UNCHANGED <<cached, loaderP, imp, lib, libP, caller, calls>>

\* disconnect returns at once if CLOSED_SYMBOL is set; otherwise it calls
\* close() and awaits it.
Disconnect(k) ==
    /\ conn[k].returned
    /\ ~conn[k].flag
    /\ conn[k].closeCalls < MaxCloses
    /\ conn' = [conn EXCEPT ![k].closing = @ + 1, ![k].closeCalls = @ + 1]
    /\ UNCHANGED <<cached, loaderP, imp, lib, libP, caller, calls>>

\* close() settles: on success the connection is closed and the flag set;
\* on failure the error is rethrown and the flag stays unset.
CloseSettles(k) ==
    /\ conn[k].closing > 0
    /\ \/ conn' = [conn EXCEPT ![k].closing = @ - 1, ![k].state = "closed", ![k].flag = TRUE]
       \/ conn' = [conn EXCEPT ![k].closing = @ - 1]
    /\ UNCHANGED <<cached, loaderP, imp, lib, libP, caller, calls>>

Next ==
    \/ \E c \in Callers, m \in Managers, o \in Options : Connect(c, m, o)
    \/ \E k \in Attempts : ImportSettles(k)
    \/ \E c \in Callers : GotLibResume(c) \/ Mkdir(c) \/ RemoteOpen(c) \/ LocalOpen(c) \/ Exec(c)
    \/ \E k \in ConnIds : Disconnect(k) \/ CloseSettles(k)


Spec == Init /\ [][Next]_vars

-----------------------------------------------------------------------------
(***************************************************************************)
(* Types and properties.                                                   *)
(***************************************************************************)
Promises == Attempts \cup {NoP, ResolvedP}
Results  == {"none", "ok", "loadError", "configError", "fsError", "connectionError"}
CallerState ==
    [pc : {"idle", "getlib", "remote", "mkdir", "open", "key", "fk", "wal"},
     mgr : Managers, opt : Options, id : 0..MaxCalls, wait : Promises,
     failedAtStart : SUBSET Attempts, result : Results, err : Attempts \cup {NoP}]
ConnState ==
    [state : {"none", "open", "closed"}, mgr : Managers, temp : BOOLEAN,
     returned : BOOLEAN, flag : BOOLEAN, closing : 0..MaxCloses, closeCalls : 0..MaxCloses]

TypeOK ==
    /\ cached \in BOOLEAN
    /\ loaderP \in Attempts \cup {NoP}
    /\ imp \in [Attempts -> {"unstarted", "pending", "ok", "failed"}]
    /\ lib \in [Managers -> BOOLEAN]
    /\ libP \in [Managers -> Promises]
    /\ caller \in [Callers -> CallerState]
    /\ conn \in [ConnIds -> ConnState]
    /\ calls \in 0..MaxCalls

\* A connect call never fails with a module-load failure that had already
\* happened when it was called: the loader's catch and #getLib's catch
\* reset defaultModulePromise and #libPromise, so a later call, of any
\* manager, starts a fresh import() instead of reusing the rejected promise.
NoStaleLoadFailure ==
    \A c \in Callers :
        caller[c].result = "loadError" => caller[c].err \notin caller[c].failedAtStart

\* validate() accepts a connection connect returned exactly while the
\* engine holds it open: CLOSED_SYMBOL is set in the continuation of a
\* successful close() and never otherwise, whichever disconnect calls
\* overlap and whichever of their close() calls fail.
ValidateMatchesEngine ==
    \A k \in ConnIds :
        conn[k].returned => (Validate(k) <=> conn[k].state = "open")

\* disconnect returns early once CLOSED_SYMBOL is set, so that a connection
\* the pool hands back twice is closed once: no close() of a connection is
\* called while an earlier close() of it is still in flight.
NoOverlappingClose ==
    [][\A k \in ConnIds :
         conn'[k].closeCalls > conn[k].closeCalls => conn[k].closing = 0]_vars

\* Every engine connection that is open is either being set up by a
\* connect call still in progress, or was returned to the pool, which
\* owns it (spec section 3: a ConnectionHandle is owned by the pooling
\* collaborator).
NoOrphanConnection ==
    \A k \in ConnIds :
        conn[k].state = "open" =>
            \/ conn[k].returned
            \/ \E c \in Callers : caller[c].pc # "idle" /\ caller[c].id = k

\* A misconfigured call (a remote url without authToken, or a temporary
\* storage with a pool that would lose it) fails with a configuration
\* error, before any engine interaction (spec sections 4.5 and 7).
Misconfigured(cl) ==
    \/ cl.opt.remote /\ ~cl.opt.authToken
    \/ ~cl.opt.remote /\ cl.opt.temp /\ TempGuardFails(Pool[cl.mgr])

MisconfiguredFailsFast ==
    \A c \in Callers :
        caller[c].result # "none" /\ Misconfigured(caller[c]) =>
            caller[c].result = "configError"

\* The loader as a whole behaves as ModuleLoader: however many managers
\* and connect calls race, import() is in flight at most once at a time,
\* is never started again once it succeeded, and a failure lets a later
\* call start a new attempt (loadDefaultTursoModule's cache and
\* defaultModulePromise, and the catch that resets it).
Loader == INSTANCE ModuleLoader
              WITH loaded <- cached,
                   loading <- \E k \in Attempts : imp[k] = "pending"

LoaderRefined == Loader!Spec

=============================================================================
