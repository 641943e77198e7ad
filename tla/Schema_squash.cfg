CONSTANTS
  Names <- InOrder
  SchemaNames <- Schemas
  Designs <- AllDesigns
  Placings <- Places
  TableRenames <- TRenames
  ColumnRenames <- DRenames
  Avoids = {}
  UsedEngines = {"postgres"}
  MaxMigrations = 3
  MaxGenerated = 2
SPECIFICATION Spec
INVARIANT SquashBuildsTheSame
CHECK_DEADLOCK FALSE
