SPECIFICATION MigrationsSpec
CONSTANTS
    Runners = {r1, r2}
    Backends = {web1, web2}
    Latest = 3
    NoTransaction = {2, 3}
    Repeatable = {2}
    MaxStops = 2
INVARIANTS
    TableIsTrue
    BackendHasSchema
PROPERTIES
    DeploymentCompletes
