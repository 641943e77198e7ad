-------------------------- MODULE MCMigrationRunner --------------------------
(* Histories of three files over two tables, with and without data.        *)
EXTENDS MigrationRunner, TLC

CONSTANTS A, B, x, y, r1, r2

SchemaFiles == <<
  Migration(1, <<CreateTable(A, {x}), CreateTable(B, {x})>>, {}),
  Migration(2, <<AddColumn(B, y)>>, {}),
  Migration(3, <<AddColumn(A, y), DropTable(B, {x, y})>>, {}) >>

DataFiles == <<
  Migration(1, <<CreateTable(A, {x})>>, {}),
  Migration(2, <<RunPython(A), AddColumn(A, y)>>, {}),
  Migration(3, <<DropColumn(A, x)>>, {}) >>

GrowingFiles == <<
  Migration(1, <<CreateTable(A, {x})>>, {}),
  Migration(2, <<CreateTable(B, {x})>>, {}),
  Migration(3, <<AddColumn(A, y)>>, {}) >>

ShortFiles == <<
  Migration(1, <<CreateTable(A, {x})>>, {}),
  Migration(2, <<AddColumn(A, y)>>, {}) >>

Symmetry == Permutations(Runners)
=============================================================================
