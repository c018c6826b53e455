------------------------ MODULE MCConnectionManager ------------------------
(***************************************************************************)
(* A small instance of ConnectionManager: two managers (two Sequelize      *)
(* instances in one process) sharing the module loader, two callers, and   *)
(* four kinds of connection options: remote with and without authToken,   *)
(* ':memory:', and a password-protected file in a missing directory.  The  *)
(* second manager's pool allows five connections, which the temporary      *)
(* storage guard refuses; its dialect disables foreign keys.               *)
(***************************************************************************)
EXTENDS ConnectionManager, TLC

Opt(remote, token, temp, dir, pw, wal) ==
    [remote |-> remote, authToken |-> token, temp |-> temp,
     dirExists |-> dir, password |-> pw, wal |-> wal]

MCOptions ==
    { Opt(TRUE, TRUE, FALSE, TRUE, FALSE, TRUE),
      Opt(TRUE, FALSE, FALSE, TRUE, FALSE, TRUE),
      Opt(FALSE, FALSE, TRUE, TRUE, FALSE, TRUE),
      Opt(FALSE, FALSE, FALSE, FALSE, TRUE, FALSE) }

GoodPool == [idleInfinite |-> TRUE, maxUsesInfinite |-> TRUE, maxSizeOne |-> TRUE, noRead |-> TRUE]

MCPool        == [m \in Managers |-> IF m = "m1" THEN GoodPool ELSE [GoodPool EXCEPT !.maxSizeOne = FALSE]]
MCForeignKeys == [m \in Managers |-> m = "m1"]
MCPreset      == [m \in Managers |-> FALSE]

=============================================================================
