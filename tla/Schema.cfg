CONSTANTS
  Names <- InOrder
  SchemaNames <- Schemas
  Designs <- AllDesigns
  Placings <- Places
  TableRenames <- TRenames
  ColumnRenames <- DRenames
  Avoids = {"drop a table and its trigger", "undo the drop of a table with parts", "reproject a view under a view", "rebuild what a key points at", "one name for two triggers", "rename what has named parts", "move a table under its key", "move between schemas"}
  UsedEngines = {"postgres", "mariadb", "sqlite"}
  MaxMigrations = 3
  MaxGenerated = 2
SPECIFICATION Spec
INVARIANTS PlanIsAccepted MigratesToTheModels ReplayIsTheModels SquashBuildsTheRest
PROPERTIES UndoRestores DataSurvives
CHECK_DEADLOCK FALSE
