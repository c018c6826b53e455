---------------------------- MODULE ResultShaper ----------------------------
(***************************************************************************)
(* The pure half of TursoQuery (src/packages/turso/src/query.js):          *)
(* getDatabaseMethod, which picks rowcount ("run") or rowset ("all") mode, *)
(* and _handleQueryResponse, which turns the engine's metadata and rows    *)
(* into what the caller gets back.                                         *)
(*                                                                         *)
(* A request is the part of the query's options the code reads: the query *)
(* type (isInsertQuery() ... are tests of options.type), options.returning,*)
(* options.plain and whether an instance with dataValues is attached.      *)
(* The SQL text is abstracted to the substrings the code tests for        *)
(* (sql.includes('PRAGMA INDEX_LIST'), ...), plus the index an             *)
(* INDEX_INFO statement names.  JS null and undefined are model values;    *)
(* so are JS true and false where they sit among strings.                  *)
(***************************************************************************)
EXTENDS Naturals, Sequences

CONSTANTS NullV, UndefV, TrueV, FalseV, NoIndex

QueryTypes == {"INSERT", "UPDATE", "UPSERT", "BULKUPDATE", "DELETE",
               "SHOWCONSTRAINTS", "SELECT", "SHOWINDEXES", "DESCRIBE", "RAW"}

\* What the code tests the SQL text for.  "SHOW" is a text starting with
\* show/describe (isShowOrDescribeQuery), "CREATE_TEMP" one containing
\* CREATE TEMPORARY TABLE.  "EMPTY_SET" is the text the dialect's query
\* generator gives showIndexesQuery() (src/tasks/memory.md:96-97: Turso does
\* not support PRAGMA index_list, so it returns an empty result set); it
\* contains none of the substrings the code tests for.
SqlTags == {"INDEX_LIST", "INDEX_INFO", "TABLE_INFO", "CREATE_TEMP", "SHOW", "EMPTY_SET", "OTHER"}

Request == [type : QueryTypes, sql : SqlTags, returning : BOOLEAN,
            plain : BOOLEAN, instance : BOOLEAN]

Sql(tag, ix) == [tag |-> tag, on |-> ix]

(***************************************************************************)
(* getDatabaseMethod: mutations use rowset mode only when RETURNING was    *)
(* requested; deletes and CREATE TEMPORARY TABLE always use rowcount mode. *)
(***************************************************************************)
\* A plausible fault, for mutation: reads through stmt.get.
DatabaseMethodGet(req, sql) ==
    IF req.type \in {"BULKUPDATE", "INSERT", "UPDATE", "UPSERT"}
      THEN IF req.returning THEN "all" ELSE "run"
    ELSE IF req.type = "DELETE" \/ sql.tag = "CREATE_TEMP" THEN "run"
    ELSE IF req.type = "SELECT" THEN "get"
    ELSE "all"

DatabaseMethod(req, sql) ==
    IF req.type \in {"BULKUPDATE", "INSERT", "UPDATE", "UPSERT"}
      THEN IF req.returning THEN "all" ELSE "run"
    ELSE IF req.type = "DELETE" \/ sql.tag = "CREATE_TEMP" THEN "run"
    ELSE "all"

(***************************************************************************)
(* PRAGMA TABLE_INFO shaping.  A default is the engine's dflt_value text,  *)
(* a sequence of characters, or NullV when the column has no DEFAULT.      *)
(***************************************************************************)
NullText == <<"N", "U", "L", "L">>

\* { 0: false, 1: true }[defaultValue]: the key is the value as a string.
BoolDefault(d) ==
    CASE d = <<"0">> -> FalseV
      [] d = <<"1">> -> TrueV
      [] OTHER -> UndefV

\* defaultValue.replaceAll("'", '') when defaultValue is a string.
StripQuotes(d) ==
    IF d \in {UndefV, NullV, TrueV, FalseV} THEN d
    ELSE SelectSeq(d, LAMBDA c : c # "'")

ColumnDefault(r) ==
    LET d0 == CASE r.dflt = NullV    -> UndefV
                [] r.dflt = NullText -> NullV
                [] OTHER             -> r.dflt
        d1 == IF r.type = "TINYINT(1)" THEN BoolDefault(d0) ELSE d0
    IN  StripQuotes(d1)

\* result[_result.name] = {...}: a later row of the same name overwrites.
TableInfo(rows) ==
    LET names == {rows[i].name : i \in DOMAIN rows}
        last(n) == CHOOSE i \in DOMAIN rows :
                      /\ rows[i].name = n
                      /\ \A j \in DOMAIN rows : rows[j].name = n => j <= i
    IN  [n \in names |->
           [type       |-> rows[last(n)].type,
            allowNull  |-> rows[last(n)].notnull = 0,
            default    |-> ColumnDefault(rows[last(n)]),
            primaryKey |-> rows[last(n)].pk # 0]]

(***************************************************************************)
(* The shapes of a result.  "select" is handleSelectQuery, a collaborator *)
(* of AbstractQuery that builds one record per row; only the row count it *)
(* receives is kept.                                                       *)
(***************************************************************************)
Pair(fst, snd)    == [form |-> "pair", fst |-> fst, snd |-> snd]
Count(n)          == [form |-> "count", n |-> n]
PassRows(rows)    == [form |-> "rows", rows |-> rows]
Select(rows)      == [form |-> "select", n |-> Len(rows)]
InstanceResult    == [form |-> "instance"]

\* What _handleQueryResponse does: return a value (and whether it set the
\* instance from the first row), throw, or continue in handleShowIndexesQuery.
Return(v, populated) == [tag |-> "value", val |-> v, populated |-> populated]
Throw(kind)          == [tag |-> "throw", err |-> kind]
FanOut(rows)         == [tag |-> "fanout", data |-> rows]

(***************************************************************************)
(* _handleQueryResponse(metaData, results), read against this.sql.  The   *)
(* code is a chain of early returns, so each test applies only when the    *)
(* earlier ones failed.                                                    *)
(***************************************************************************)
HandleQueryResponse(req, sql, meta, rows) ==
    IF req.type \in {"INSERT", "UPDATE", "UPSERT"} THEN
        IF req.instance /\ req.type = "INSERT" /\ rows = << >>
          THEN Throw("EmptyResultError")
          ELSE Return(IF req.type = "UPSERT"
                        THEN Pair(IF req.instance THEN "instance" ELSE UndefV, NullV)
                        ELSE Pair(CASE req.instance -> "instance"
                                    [] ~req.instance /\ req.plain /\ rows # << >> -> "firstRow"
                                    [] ~req.instance /\ ~(req.plain /\ rows # << >>) -> "rows",
                                  IF req.returning THEN Len(rows) ELSE meta.changes),
                      req.instance /\ rows # << >>)
    ELSE IF req.type = "BULKUPDATE" THEN
        Return(IF req.returning THEN Select(rows) ELSE Count(meta.changes), FALSE)
    ELSE IF req.type = "DELETE"          THEN Return(Count(meta.changes), FALSE)
    ELSE IF req.type = "SHOWCONSTRAINTS" THEN Return(PassRows(rows), FALSE)
    ELSE IF req.type = "SELECT"          THEN Return(Select(rows), FALSE)
    ELSE IF sql.tag = "SHOW"             THEN Return(PassRows(rows), FALSE)
    ELSE IF sql.tag = "INDEX_LIST"       THEN FanOut(rows)
    ELSE IF sql.tag = "INDEX_INFO"       THEN Return(PassRows(rows), FALSE)
    ELSE IF sql.tag = "TABLE_INFO"       THEN
        Return([form |-> "tableInfo", cols |-> TableInfo(rows)], FALSE)
    ELSE IF req.type = "RAW" THEN Return([form |-> "raw", rows |-> rows, meta |-> meta], FALSE)
    ELSE Return(InstanceResult, FALSE)

=============================================================================
