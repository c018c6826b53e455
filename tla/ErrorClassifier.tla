--------------------------- MODULE ErrorClassifier ---------------------------
(***************************************************************************)
(* TursoQuery.formatError (src/packages/turso/src/query.js), at the level *)
(* of the error class it builds.  An engine error is its code and whether *)
(* its message contains 'FOREIGN KEY constraint failed'.                   *)
(***************************************************************************)

\* The codes the switch groups under the constraint case.
ConstraintCodes ==
    {"SQLITE_CONSTRAINT_UNIQUE", "SQLITE_CONSTRAINT_PRIMARYKEY",
     "SQLITE_CONSTRAINT_TRIGGER", "SQLITE_CONSTRAINT_FOREIGNKEY",
     "SQLITE_CONSTRAINT"}

ErrorKinds ==
    {"ForeignKeyConstraintError", "UniqueConstraintError", "TimeoutError",
     "DatabaseError", "EmptyResultError"}

\* The switch on err.code; within the constraint case the FOREIGN KEY
\* message test comes first.
FormatErrorKind(e) ==
    IF e.code \in ConstraintCodes
      THEN IF e.fkMessage THEN "ForeignKeyConstraintError" ELSE "UniqueConstraintError"
    ELSE IF e.code = "SQLITE_BUSY" THEN "TimeoutError"
    ELSE "DatabaseError"

=============================================================================
