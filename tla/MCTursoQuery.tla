--------------------------- MODULE MCTursoQuery ---------------------------
(***************************************************************************)
(* A small instance of TursoQuery: two queries in a row on one connection, *)
(* a table with two indexes (one of two columns), a TABLE_INFO answer with *)
(* a boolean column and a primary key, and one request per branch of       *)
(* getDatabaseMethod and _handleQueryResponse.                             *)
(***************************************************************************)
EXTENDS TursoQuery, TLC

R(t, s, ret, pl, inst) ==
    [type |-> t, sql |-> s, returning |-> ret, plain |-> pl, instance |-> inst]

MCRequests ==
    { R("SHOWINDEXES", "EMPTY_SET", FALSE, FALSE, FALSE),
      R("RAW", "INDEX_LIST", FALSE, FALSE, FALSE),
      R("INSERT", "OTHER", TRUE, FALSE, TRUE),
      R("INSERT", "OTHER", FALSE, FALSE, TRUE),
      R("INSERT", "OTHER", TRUE, TRUE, FALSE),
      R("UPSERT", "OTHER", TRUE, FALSE, TRUE),
      R("UPDATE", "OTHER", FALSE, FALSE, FALSE),
      R("BULKUPDATE", "OTHER", TRUE, FALSE, FALSE),
      R("BULKUPDATE", "OTHER", FALSE, FALSE, FALSE),
      R("DELETE", "OTHER", FALSE, FALSE, FALSE),
      R("SELECT", "OTHER", FALSE, FALSE, FALSE),
      R("SHOWCONSTRAINTS", "OTHER", FALSE, FALSE, FALSE),
      R("DESCRIBE", "TABLE_INFO", FALSE, FALSE, FALSE),
      R("DESCRIBE", "OTHER", FALSE, FALSE, FALSE),
      R("RAW", "SHOW", FALSE, FALSE, FALSE),
      R("RAW", "CREATE_TEMP", FALSE, FALSE, FALSE),
      R("RAW", "OTHER", FALSE, FALSE, FALSE) }

MCDeclaredIndexes == <<"idx_email", "idx_name_age">>

MCIndexColumns == ("idx_email" :> <<"email">>) @@ ("idx_name_age" :> <<"name", "age">>)

MCTableColumns ==
    << [name |-> "id", type |-> "INTEGER", dflt |-> NullV, notnull |-> 1, pk |-> 1],
       [name |-> "active", type |-> "TINYINT(1)", dflt |-> <<"1">>, notnull |-> 0, pk |-> 0],
       [name |-> "label", type |-> "TEXT", dflt |-> <<"'", "x", "'">>, notnull |-> 0, pk |-> 0] >>

MCEngineErrors ==
    { [code |-> "SQLITE_CONSTRAINT_UNIQUE", fkMessage |-> FALSE],
      [code |-> "SQLITE_BUSY", fkMessage |-> FALSE] }

=============================================================================
