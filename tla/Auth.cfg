SPECIFICATION AuthSpec
CONSTANTS
    Clients = {c1, c2}
    Emails = {e1, e2}
    Backends = {web1, web2}
    Ahead = {web1}
    Skew = 1
    TicksPerSecond = 2
    Expires = 2
    Secrets = {s1, s2}
    NoSecret = NoSecret
    NoToken = NoToken
    MaxClock = 6
    MaxRestarts = 1
INVARIANTS
    TokenIsOwners
    TokenLifetime
PROPERTIES
    EveryoneGetsIn
