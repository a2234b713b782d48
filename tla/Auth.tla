-------------------------------- MODULE Auth --------------------------------
(***************************************************************************)
(* Registration, login and bearer tokens: UserService, UserDAO and         *)
(* JwtUtils behind POST /api/register, /api/login and /api/logout.  The    *)
(* backends share the users table and, when they are configured alike, the *)
(* JWT secret; they keep no session.  A statement may fail, its result may *)
(* be lost after the commit, and a backend may be replaced between the     *)
(* SELECT of a login and the signing of its token.                         *)
(*                                                                         *)
(* Time is counted in ticks, TicksPerSecond to the second, because a JWT   *)
(* carries whole seconds while the verifier compares it with the full      *)
(* reading of the clock.  The clocks of two backends differ by up to Skew  *)
(* ticks.  Every client has a password of its own.                         *)
(***************************************************************************)
EXTENDS Integers, Sequences

CONSTANTS
    Clients,
    Emails,
    Backends,
    Ahead,           \* the backends whose clock is Skew ticks ahead
    Skew,
    TicksPerSecond,
    Expires,         \* JWT_EXPIRES_SECONDS
    Secrets,         \* values of JWT_SECRET
    NoSecret,        \* JWT_SECRET not set: main() refuses to start
    NoToken,
    MaxClock,        \* bound: ticks
    MaxRestarts      \* bound: backends replaced

ASSUME AuthAssumption ==
    /\ Ahead \subseteq Backends
    /\ {Skew, MaxClock, MaxRestarts} \subseteq Nat
    /\ {TicksPerSecond, Expires} \subseteq Nat \ {0}
    /\ NoSecret \notin Secrets

VARIABLES
    users,     \* the users table; a row is known by its place, which is its id
    secret,    \* the JWT_SECRET and JWT issuer each backend was started with: a
               \* token is verified only against the pair it was signed with
    clock,     \* the true time
    login,     \* for each client: the login a backend is working on
    token,     \* the token each client has
    signedAt,  \* when it was signed
    restarts

authVars == <<users, secret, clock, login, token, signedAt, restarts>>

Ids == DOMAIN users

NoLogin == [backend |-> NoToken, id |-> 0]

\* Hex of a SHA-256: no plaintext, and different for different passwords.
Sha256(password) == [sha256 |-> password]

AuthInit ==
    /\ users = <<>>
    /\ \E s \in Secrets : secret = [b \in Backends |-> s]
    /\ clock = 0
    /\ login = [c \in Clients |-> NoLogin]
    /\ token = [c \in Clients |-> NoToken]
    /\ signedAt = [c \in Clients |-> 0]
    /\ restarts = 0

\* A backend without a secret does not get past main()'s test of its configuration.
Up(b) == secret[b] # NoSecret

-----------------------------------------------------------------------------
(* JwtUtils *)

\* system_clock::now() on a backend.
Now(b) == clock + (IF b \in Ahead THEN Skew ELSE 0)

Seconds(ticks) == ticks \div TicksPerSecond

\* Mutant: the lifetime is left out of the expiry claim.
CreateJwtExpired(b, id) ==
    [secret |-> secret[b], sub |-> id, iat |-> Seconds(Now(b)), exp |-> Seconds(Now(b))]

\* create_jwt(); the claims are cut to whole seconds.
CreateJwt(b, id) ==
    [secret |-> secret[b], sub |-> id,
     iat |-> Seconds(Now(b)), exp |-> Seconds(Now(b)) + Expires]

\* The verifier of jwt-cpp with its default leeway of zero: it refuses a token
\* that has expired, and one that is issued in its future.
ClaimsHold(b, t) ==
    t.iat * TicksPerSecond <= Now(b) /\ Now(b) <= t.exp * TicksPerSecond

\* verify_jwt_and_get_user_id(): the id the backend acts for, 0 for none.
VerifyJwt(b, t) ==
    IF /\ Up(b)
       /\ t # NoToken
       /\ t.secret = secret[b]
       /\ ClaimsHold(b, t)
    THEN t.sub
    ELSE 0

-----------------------------------------------------------------------------
(* POST /api/register *)

\* UserService::create_user() hashes the password of the row it wants.
NewUser(c, e) == [email |-> e, password |-> Sha256(c)]

\* The row get_user_by_email() selects; UNIQUE keeps it to one.
WithEmail(e) == {id \in Ids : users[id].email = e}

\* Mutant: a row with the email is written over.
CreateUserUpserts(c, e) ==
    /\ \E b \in Backends : Up(b)
    /\ IF WithEmail(e) = {}
       THEN users' = Append(users, NewUser(c, e))
       ELSE users' = [id \in Ids |-> IF id \in WithEmail(e)
                                     THEN [users[id] EXCEPT !.password = Sha256(c)]
                                     ELSE users[id]]
    /\ UNCHANGED <<secret, clock, login, token, signedAt, restarts>>

\* Mutant: the password is stored as it came.
CreateUserPlain(c, e) ==
    /\ \E b \in Backends : Up(b)
    /\ WithEmail(e) = {}
    /\ users' = Append(users, [email |-> e, password |-> c])
    /\ UNCHANGED <<secret, clock, login, token, signedAt, restarts>>

\* create_user(): the INSERT is executed, whether or not its result reaches the
\* client.
CreateUser(c, e) ==
    /\ \E b \in Backends : Up(b)
    /\ WithEmail(e) = {}
    /\ users' = Append(users, NewUser(c, e))
    /\ UNCHANGED <<secret, clock, login, token, signedAt, restarts>>

\* The email is taken and UNIQUE refuses the INSERT, or the statement fails: an
\* error is the answer and nothing has changed.
CreateUserFails(c, e) ==
    /\ \E b \in Backends : Up(b)
    /\ UNCHANGED authVars

-----------------------------------------------------------------------------
(* POST /api/login *)

\* get_user_by_email() finds the row and the password is right.
LoginSelect(c, b, e) ==
    /\ Up(b)
    /\ login[c] = NoLogin
    /\ \E id \in WithEmail(e) :
          /\ users[id].password = Sha256(c)
          /\ login' = [login EXCEPT ![c] = [backend |-> b, id |-> id]]
    /\ UNCHANGED <<users, secret, clock, token, signedAt, restarts>>

\* The query fails, finds no row, or the password is wrong: an error is the answer.
LoginRefused(c, b, e) ==
    /\ Up(b)
    /\ login[c] = NoLogin
    /\ UNCHANGED authVars

\* create_jwt(), and the answer reaches the client.
LoginSign(c) ==
    LET b == login[c].backend IN
    /\ login[c] # NoLogin
    /\ token' = [token EXCEPT ![c] = CreateJwt(b, login[c].id)]
    /\ signedAt' = [signedAt EXCEPT ![c] = clock]
    /\ login' = [login EXCEPT ![c] = NoLogin]
    /\ UNCHANGED <<users, secret, clock, restarts>>

\* create_jwt() throws, or the answer is lost.
LoginFails(c) ==
    /\ login[c] # NoLogin
    /\ login' = [login EXCEPT ![c] = NoLogin]
    /\ UNCHANGED <<users, secret, clock, token, signedAt, restarts>>

-----------------------------------------------------------------------------
(* POST /api/logout *)

\* logout() answers "logout success" and changes nothing: the client forgets
\* the token, of which there may be other copies.
Logout(c, b) ==
    /\ VerifyJwt(b, token[c]) # 0
    /\ UNCHANGED authVars

-----------------------------------------------------------------------------
(* Around them *)

Tick ==
    /\ clock < MaxClock
    /\ clock' = clock + 1
    /\ UNCHANGED <<users, secret, login, token, signedAt, restarts>>

\* A backend is replaced, perhaps with another secret, or with none and stays
\* down; the logins inside it end.
Restart(b, s) ==
    /\ restarts < MaxRestarts
    /\ restarts' = restarts + 1
    /\ secret' = [secret EXCEPT ![b] = s]
    /\ login' = [c \in Clients |-> IF login[c].backend = b THEN NoLogin ELSE login[c]]
    /\ UNCHANGED <<users, clock, token, signedAt>>

AuthNext ==
    \/ \E c \in Clients, e \in Emails :
          \/ CreateUser(c, e) \/ CreateUserFails(c, e)
          \/ \E b \in Backends : LoginSelect(c, b, e) \/ LoginRefused(c, b, e)
    \/ \E c \in Clients :
          LoginSign(c) \/ LoginFails(c) \/ \E b \in Backends : Logout(c, b)
    \/ Tick
    \/ \E b \in Backends, s \in Secrets \cup {NoSecret} : Restart(b, s)

\* A request ends; a client that has no token tries again; the proxy comes round
\* to the backends that are up; and the database, or a restart, does not
\* get in the way every time.
AuthFairness ==
    \A c \in Clients :
        /\ WF_authVars(LoginSign(c) \/ LoginFails(c))
        /\ SF_authVars(LoginSign(c))
        /\ \A e \in Emails :
              /\ WF_authVars(CreateUser(c, e))
              /\ SF_authVars(\E b \in Backends : Up(b) /\ LoginSelect(c, b, e))

AuthSpec == AuthInit /\ [][AuthNext]_authVars /\ AuthFairness

-----------------------------------------------------------------------------
(* Properties *)

\* The user a backend acts for is the one whose password the client presented,
\* and stays the only account of its email: no registration of somebody else,
\* repeated registration, restart or login on another backend changes whose
\* resources a token opens.
TokenIsOwners ==
    \A c \in Clients, b \in Backends :
        LET id == VerifyJwt(b, token[c]) IN
        id # 0 => /\ users[id].password = Sha256(c)
                  /\ WithEmail(users[id].email) = {id}

\* "Tokens remain valid until their configured expiration time" (README.md),
\* on every backend with the secret, after logout and restarts: a token is
\* accepted no longer than its lifetime, and refused only in the last second of
\* it or, by a clock that is behind, right after it was issued.
TokenLifetime ==
    \A c \in Clients, b \in Backends :
        token[c] # NoToken /\ secret[b] = token[c].secret =>
            LET age == clock - signedAt[c] IN
            IF VerifyJwt(b, token[c]) # 0
            THEN age <= Expires * TicksPerSecond + Skew
            ELSE \/ age > (Expires - 1) * TicksPerSecond - Skew
                 \/ age < Skew

\* A client that keeps trying gets in, although the answer to its registration
\* may be lost and the repetition is refused as a duplicate; unless somebody
\* else has every email, or no backend is up.
EveryoneGetsIn ==
    <>[](\E b \in Backends : Up(b)) =>
        \A c \in Clients :
            <>(\/ token[c] # NoToken
               \/ \A e \in Emails : \E id \in WithEmail(e), d \in Clients \ {c} :
                     users[id].password = Sha256(d))
=============================================================================
