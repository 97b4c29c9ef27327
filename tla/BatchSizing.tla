---------------------------- MODULE BatchSizing ----------------------------
(***************************************************************************)
(* The plan of a migration's batches (migration-batch-sizing.util.ts): how *)
(* many rows to insert at once, and below which number never to go.  Its   *)
(* results are MigrationPipeline's MinBatch and Recommended.               *)
(***************************************************************************)
EXTENDS Integers

Greater(a, b) == IF a >= b THEN a ELSE b
Lesser(a, b) == IF a <= b THEN a ELSE b

BaseBatch(type) ==
  CASE type = "mysql" -> 1500
    [] type = "mssql" -> 250
    [] type = "clickhouse" -> 1000
    [] type = "sqlite" -> 500
    [] OTHER -> 2000

LeastBatch(type) ==
  CASE type = "mssql" -> 25
    [] type = "sqlite" -> 50
    [] OTHER -> 100

\* With a sample row its size in bytes, else a guess from the columns.
RowBytes(sampled, bytes, columns) ==
  IF sampled THEN Greater(64, bytes) ELSE Greater(128, columns * 48)

Scale(rows, amount, some, many, most) ==
  IF amount > most THEN rows \div 4
  ELSE IF amount > many THEN rows \div 2
  ELSE IF amount > some THEN (3 * rows) \div 4
  ELSE rows

\* SQL Server takes one parameter per value.
ParameterBudget(columns) == Greater(1, 2000 \div Greater(columns, 1))

RecommendedBatch(type, columns, bytes) ==
  LET scaled == Scale(Scale(BaseBatch(type), columns, 10, 20, 40), bytes, 512, 1500, 4000)
      capped == IF type = "mssql" THEN Lesser(scaled, ParameterBudget(columns)) ELSE scaled
  IN  Greater(LeastBatch(type), Lesser(BaseBatch(type), capped))
=============================================================================
