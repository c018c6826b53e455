---------------------------- MODULE ModuleLoader ----------------------------
(***************************************************************************)
(* What the lazy loading of @tursodatabase/database promises, whoever asks *)
(* for it: the module is imported at most one attempt at a time, never     *)
(* again once an attempt succeeded, and a failed attempt leaves the way    *)
(* open to a new one.  ConnectionManager implements it with                *)
(* loadDefaultTursoModule and each manager's #getLib.                      *)
(***************************************************************************)
VARIABLES
    loaded,     \* an import succeeded; the module is cached
    loading     \* an import is in flight

Init ==
    /\ loaded = FALSE
    /\ loading = FALSE

\* Someone needs the module, nothing is cached and nothing is in flight.
StartImport ==
    /\ ~loaded /\ ~loading
    /\ loading' = TRUE
    /\ UNCHANGED loaded

ImportSucceeds ==
    /\ loading
    /\ loaded' = TRUE
    /\ loading' = FALSE

ImportFails ==
    /\ loading
    /\ loading' = FALSE
    /\ UNCHANGED loaded

Next == StartImport \/ ImportSucceeds \/ ImportFails

Spec == Init /\ [][Next]_<<loaded, loading>>

=============================================================================
