SPECIFICATION Spec
PROPERTIES
  MigrationsIdempotent
CHECK_DEADLOCK FALSE
