\* psycopg 3: a Connection has execute and no executemany.
SPECIFICATION MigrationFairSpec
CONSTANTS
    Ids = {r}
    MaxVersion = 2
    HasExecutemany = FALSE
    MaxWrites = 0
    MaxFailures = 0
PROPERTY
    MigrationFinishes
CHECK_DEADLOCK FALSE
