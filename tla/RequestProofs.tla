---------------------------- MODULE RequestProofs ----------------------------
(***************************************************************************)
(* What http_conn.cpp does for a request before and after the service, and *)
(* the token by which it knows the user: the safety properties of Auth,    *)
(* proved for every number of clients, emails and backends, every lifetime *)
(* of a token and every difference of the clocks; and those of HttpConn,   *)
(* proved for every buffer size, every request and every answer.           *)
(***************************************************************************)
EXTENDS Auth, HttpConn, FiniteSetTheorems, SequenceTheorems, WellFoundedInduction, TLAPS

-----------------------------------------------------------------------------
(* The token: the invariant *)

Rows == [email : Emails, password : {Sha256(c) : c \in Clients}]

\* The types the table, the configuration and the clock give their state.
AuthTypeOK ==
    /\ users \in Seq(Rows)
    /\ secret \in [Backends -> Secrets \cup {NoSecret}]
    /\ clock \in Nat
    /\ login \in [Clients -> {NoLogin} \cup [backend : Backends, id : Nat]]
    /\ DOMAIN token = Clients
    /\ signedAt \in [Clients -> Nat]

\* The UNIQUE of the email column: a row is the only account of its email.
EmailsUnique == \A i, j \in Ids : users[i].email = users[j].email => i = j

Owns(c, id) == id \in Ids /\ users[id].password = Sha256(c)

\* TokenIsOwners is not inductive: a login that waits for its signature has read
\* a row with the client's password, on a backend that still has a secret.
LoginIsOwners ==
    \A c \in Clients :
        login[c] # NoLogin =>
            /\ login[c].backend \in Backends /\ Up(login[c].backend)
            /\ Owns(c, login[c].id)

\* The claims of a token are what create_jwt() of some backend wrote at signedAt.
TokenIsSigned ==
    \A c \in Clients :
        token[c] # NoToken =>
            /\ Owns(c, token[c].sub)
            /\ token[c].secret # NoSecret
            /\ signedAt[c] <= clock
            /\ \E ahead \in {0, Skew} :
                  /\ token[c].iat = Seconds(signedAt[c] + ahead)
                  /\ token[c].exp = Seconds(signedAt[c] + ahead) + Expires

\* The inductive invariant.
AuthInv ==
    /\ AuthTypeOK
    /\ EmailsUnique
    /\ LoginIsOwners
    /\ TokenIsSigned

-----------------------------------------------------------------------------
\* The whole seconds of a reading of the clock, and what is cut off.
LEMMA SecondsCut ==
    ASSUME NEW ticks \in Nat
    PROVE  /\ Seconds(ticks) \in Nat
           /\ Seconds(ticks) * TicksPerSecond <= ticks
           /\ ticks < Seconds(ticks) * TicksPerSecond + TicksPerSecond
BY AuthAssumption DEF Seconds

\* A backend's clock is ahead of the true one by nothing or by Skew.
LEMMA NowAhead ==
    \A b : \E ahead \in {0, Skew} : Now(b) = clock + ahead
BY DEF Now

\* The invariant holds before the first registration.
LEMMA AuthInitInv == AuthInit => AuthInv
<1> SUFFICES ASSUME AuthInit PROVE AuthInv
  OBVIOUS
<1>1. AuthTypeOK
  BY DEF AuthInit, AuthTypeOK
<1>2. EmailsUnique
  BY DEF AuthInit, EmailsUnique, Ids
<1>3. LoginIsOwners /\ TokenIsSigned
  BY DEF AuthInit, LoginIsOwners, TokenIsSigned
<1> QED
  BY <1>1, <1>2, <1>3 DEF AuthInv

\* A registration adds a row behind the others, which stay as they were: the ids
\* in logins and tokens keep their meaning.
LEMMA CreateUserInv ==
    ASSUME AuthInv, NEW c \in Clients, NEW e \in Emails, CreateUser(c, e)
    PROVE  AuthInv'
<1> USE AuthAssumption
<1> DEFINE new == Len(users) + 1
<1>1. /\ users \in Seq(Rows) /\ users' = Append(users, NewUser(c, e))
      /\ UNCHANGED <<secret, clock, login, token, signedAt>>
  BY DEF CreateUser, AuthInv, AuthTypeOK
<1>2. NewUser(c, e) \in Rows
  BY DEF NewUser, Rows
<1>3. users' \in Seq(Rows)
  BY <1>1, <1>2
<1>4. /\ Ids' = Ids \cup {new} /\ new \notin Ids
      /\ users'[new] = NewUser(c, e)
      /\ \A i \in Ids : users'[i] = users[i]
  BY <1>1, <1>2, <1>3 DEF Ids
<1> HIDE DEF new
<1>5. AuthTypeOK'
  BY <1>1, <1>3 DEF AuthInv, AuthTypeOK
<1>6. \A i \in Ids : users[i].email # e
  BY DEF CreateUser, WithEmail
<1>7. EmailsUnique'
  BY <1>4, <1>6 DEF AuthInv, EmailsUnique, NewUser
<1>8. \A d, id : Owns(d, id) => Owns(d, id)'
  BY <1>4 DEF Owns
<1>9. LoginIsOwners'
  BY <1>1, <1>8 DEF AuthInv, LoginIsOwners, Up
<1>10. TokenIsSigned'
  BY <1>1, <1>8 DEF AuthInv, TokenIsSigned
<1> QED
  BY <1>5, <1>7, <1>9, <1>10 DEF AuthInv

\* A login that reads its row, and one that ends without a token.
LEMMA LoginInv ==
    ASSUME AuthInv, NEW c \in Clients,
           (\E b \in Backends, e \in Emails : LoginSelect(c, b, e)) \/ LoginFails(c)
    PROVE  AuthInv'
<1>1. PICK l \in {NoLogin} \cup [backend : Backends, id : Nat] :
         /\ login' = [login EXCEPT ![c] = l]
         /\ l # NoLogin => /\ l.backend \in Backends /\ Up(l.backend)
                           /\ Owns(c, l.id)
  <2>1. CASE LoginFails(c)
    BY <2>1 DEF LoginFails
  <2>2. ASSUME NEW b \in Backends, NEW e \in Emails, LoginSelect(c, b, e)
        PROVE  \E l \in {NoLogin} \cup [backend : Backends, id : Nat] :
                  /\ login' = [login EXCEPT ![c] = l]
                  /\ l # NoLogin => /\ l.backend \in Backends /\ Up(l.backend)
                                    /\ Owns(c, l.id)
    <3>1. PICK id \in WithEmail(e) :
             /\ users[id].password = Sha256(c)
             /\ login' = [login EXCEPT ![c] = [backend |-> b, id |-> id]]
      BY <2>2 DEF LoginSelect
    <3> DEFINE l == [backend |-> b, id |-> id]
    <3>2. id \in Ids /\ id \in Nat
      BY DEF WithEmail, Ids, AuthInv, AuthTypeOK
    <3>3. l \in {NoLogin} \cup [backend : Backends, id : Nat] /\ l.backend = b /\ l.id = id
      BY <3>2
    <3>4. Up(b) /\ Owns(c, id) /\ login' = [login EXCEPT ![c] = l]
      BY <2>2, <3>1, <3>2 DEF LoginSelect, Owns
    <3> HIDE DEF l
    <3> QED
      BY <3>3, <3>4
  <2> QED
    BY <2>1, <2>2
<1>2. UNCHANGED <<users, secret, clock, token, signedAt>>
  BY DEF LoginSelect, LoginFails
<1>3. AuthTypeOK'
  BY <1>1, <1>2 DEF AuthInv, AuthTypeOK
<1>4. EmailsUnique' /\ TokenIsSigned'
  BY <1>2 DEF AuthInv, EmailsUnique, TokenIsSigned, Ids, Owns
<1>5. LoginIsOwners'
  <2> SUFFICES ASSUME NEW d \in Clients, login'[d] # NoLogin
               PROVE  /\ login'[d].backend \in Backends /\ Up(login'[d].backend)
                      /\ Owns(d, login'[d].id)
    BY <1>2 DEF LoginIsOwners, Up, Owns, Ids
  <2> QED
    BY <1>1 DEF AuthInv, AuthTypeOK, LoginIsOwners
<1> QED
  BY <1>3, <1>4, <1>5 DEF AuthInv

\* A token is signed for the row its login has read.
LEMMA SignInv ==
    ASSUME AuthInv, NEW c \in Clients, LoginSign(c)
    PROVE  AuthInv'
<1> USE AuthAssumption
<1> DEFINE b == login[c].backend
           new == CreateJwt(b, login[c].id)
<1>1. /\ login[c] # NoLogin
      /\ token' = [token EXCEPT ![c] = new]
      /\ signedAt' = [signedAt EXCEPT ![c] = clock]
      /\ login' = [login EXCEPT ![c] = NoLogin]
      /\ UNCHANGED <<users, secret, clock>>
  BY DEF LoginSign
<1>2. b \in Backends /\ Up(b) /\ Owns(c, login[c].id)
  BY <1>1 DEF AuthInv, LoginIsOwners
<1>3. new.sub = login[c].id /\ new.secret = secret[b]
  BY DEF CreateJwt
<1>4. new.iat = Seconds(Now(b)) /\ new.exp = Seconds(Now(b)) + Expires
  BY DEF CreateJwt
<1>5. \E ahead \in {0, Skew} : /\ new.iat = Seconds(clock + ahead)
                               /\ new.exp = Seconds(clock + ahead) + Expires
  BY <1>4, NowAhead
<1>6. new.secret # NoSecret
  BY <1>2, <1>3 DEF Up
<1> HIDE DEF new, b
<1>7. AuthTypeOK'
  BY <1>1 DEF AuthInv, AuthTypeOK
<1>8. EmailsUnique'
  BY <1>1 DEF AuthInv, EmailsUnique, Ids
<1>9. LoginIsOwners'
  BY <1>1 DEF AuthInv, AuthTypeOK, LoginIsOwners, Up, Owns, Ids
<1>10. TokenIsSigned'
  <2> SUFFICES ASSUME NEW d \in Clients, token'[d] # NoToken
               PROVE  /\ Owns(d, token'[d].sub)
                      /\ token'[d].secret # NoSecret
                      /\ signedAt'[d] <= clock
                      /\ \E ahead \in {0, Skew} :
                            /\ token'[d].iat = Seconds(signedAt'[d] + ahead)
                            /\ token'[d].exp = Seconds(signedAt'[d] + ahead) + Expires
    BY <1>1 DEF TokenIsSigned, Owns, Ids, Seconds
  <2>1. CASE d = c
    <3>1. token'[d] = new /\ signedAt'[d] = clock /\ clock \in Nat
      BY <1>1, <2>1 DEF AuthInv, AuthTypeOK
    <3> QED
      BY <1>2, <1>3, <1>5, <1>6, <2>1, <3>1
  <2>2. CASE d # c
    <3>1. token'[d] = token[d] /\ signedAt'[d] = signedAt[d]
      BY <1>1, <2>2 DEF AuthInv, AuthTypeOK
    <3> QED
      BY <3>1 DEF AuthInv, TokenIsSigned
  <2> QED
    BY <2>1, <2>2
<1> QED
  BY <1>7, <1>8, <1>9, <1>10 DEF AuthInv

\* Time passes, and backends are replaced: the logins of a replaced backend are
\* gone, the tokens it signed are not.
LEMMA AroundInv ==
    ASSUME AuthInv,
           Tick \/ \E b \in Backends, s \in Secrets \cup {NoSecret} : Restart(b, s)
    PROVE  AuthInv'
<1> USE AuthAssumption
<1>1. CASE Tick
  <2>1. clock' = clock + 1 /\ UNCHANGED <<users, secret, login, token, signedAt>>
    BY <1>1 DEF Tick
  <2>2. AuthTypeOK' /\ EmailsUnique' /\ LoginIsOwners'
    BY <2>1 DEF AuthInv, AuthTypeOK, EmailsUnique, LoginIsOwners, Owns, Up, Ids
  <2>3. TokenIsSigned'
    BY <2>1 DEF AuthInv, AuthTypeOK, TokenIsSigned, Owns, Ids
  <2> QED
    BY <2>2, <2>3 DEF AuthInv
<1>2. ASSUME NEW b \in Backends, NEW s \in Secrets \cup {NoSecret}, Restart(b, s)
      PROVE  AuthInv'
  <2>1. /\ secret' = [secret EXCEPT ![b] = s]
        /\ login' = [c \in Clients |-> IF login[c].backend = b THEN NoLogin ELSE login[c]]
        /\ UNCHANGED <<users, clock, token, signedAt>>
    BY <1>2 DEF Restart
  <2>2. AuthTypeOK'
    BY <2>1 DEF AuthInv, AuthTypeOK
  <2>3. EmailsUnique' /\ TokenIsSigned'
    BY <2>1 DEF AuthInv, EmailsUnique, TokenIsSigned, Owns, Ids
  <2>4. LoginIsOwners'
    <3> SUFFICES ASSUME NEW c \in Clients, login'[c] # NoLogin
                 PROVE  /\ login'[c].backend \in Backends
                        /\ secret'[login'[c].backend] # NoSecret
                        /\ Owns(c, login'[c].id)
      BY <2>1 DEF LoginIsOwners, Up, Owns, Ids
    <3>1. login'[c] = login[c] /\ login[c].backend # b /\ login[c] # NoLogin
      BY <2>1
    <3> QED
      BY <2>1, <3>1 DEF AuthInv, AuthTypeOK, LoginIsOwners, Up
  <2> QED
    BY <2>2, <2>3, <2>4 DEF AuthInv
<1> QED
  BY <1>1, <1>2

\* Every step keeps the invariant.
LEMMA AuthNextInv ==
    ASSUME AuthInv, [AuthNext]_authVars
    PROVE  AuthInv'
<1>1. CASE UNCHANGED authVars
  BY <1>1 DEF authVars, AuthInv, AuthTypeOK, EmailsUnique, LoginIsOwners, TokenIsSigned,
              Owns, Up, Ids
<1>2. ASSUME NEW c \in Clients, NEW e \in Emails,
             \/ CreateUser(c, e) \/ CreateUserFails(c, e)
             \/ \E b \in Backends : LoginSelect(c, b, e) \/ LoginRefused(c, b, e)
      PROVE  AuthInv'
  BY <1>1, <1>2, CreateUserInv, LoginInv DEF CreateUserFails, LoginRefused
<1>3. ASSUME NEW c \in Clients,
             LoginSign(c) \/ LoginFails(c) \/ \E b \in Backends : Logout(c, b)
      PROVE  AuthInv'
  BY <1>1, <1>3, SignInv, LoginInv DEF Logout
<1>4. CASE Tick \/ \E b \in Backends, s \in Secrets \cup {NoSecret} : Restart(b, s)
  BY <1>4, AroundInv
<1> QED
  BY <1>1, <1>2, <1>3, <1>4 DEF AuthNext

\* The invariant always holds.
THEOREM AuthInvariant == AuthSpec => []AuthInv
<1> QED
  BY AuthInitInv, AuthNextInv, PTL DEF AuthSpec

\* A token opens the account of the client who presented the password, and no
\* other, on every backend and for as long as it is accepted.
THEOREM TokensAreOwners == AuthSpec => []TokenIsOwners
<1>1. AuthInv => TokenIsOwners
  <2> SUFFICES ASSUME AuthInv, NEW c \in Clients, NEW b \in Backends,
                      VerifyJwt(b, token[c]) # 0
               PROVE  LET id == VerifyJwt(b, token[c]) IN
                      /\ users[id].password = Sha256(c)
                      /\ WithEmail(users[id].email) = {id}
    BY DEF TokenIsOwners
  <2>1. token[c] # NoToken /\ VerifyJwt(b, token[c]) = token[c].sub
    BY DEF VerifyJwt
  <2>2. Owns(c, token[c].sub)
    BY <2>1 DEF AuthInv, TokenIsSigned
  <2>3. WithEmail(users[token[c].sub].email) = {token[c].sub}
    BY <2>2 DEF AuthInv, EmailsUnique, WithEmail, Owns
  <2> QED
    BY <2>1, <2>2, <2>3 DEF Owns
<1> QED
  BY <1>1, AuthInvariant, PTL

\* A token is accepted for its lifetime, give or take a second and the difference
\* of the clocks, by every backend that has the secret it was signed with.
THEOREM TokensLiveLong == AuthSpec => []TokenLifetime
<1>1. AuthInv => TokenLifetime
  <2> USE AuthAssumption
  <2> SUFFICES ASSUME AuthInv, NEW c \in Clients, NEW b \in Backends,
                      token[c] # NoToken, secret[b] = token[c].secret
               PROVE  IF VerifyJwt(b, token[c]) # 0
                      THEN clock - signedAt[c] <= Expires * TicksPerSecond + Skew
                      ELSE \/ clock - signedAt[c] > (Expires - 1) * TicksPerSecond - Skew
                           \/ clock - signedAt[c] < Skew
    BY DEF TokenLifetime
  <2>1. PICK ahead \in {0, Skew} :
           /\ token[c].iat = Seconds(signedAt[c] + ahead)
           /\ token[c].exp = Seconds(signedAt[c] + ahead) + Expires
    BY DEF AuthInv, TokenIsSigned
  <2>2. PICK behind \in {0, Skew} : Now(b) = clock + behind
    BY NowAhead
  <2>3. clock \in Nat /\ signedAt[c] \in Nat /\ ahead \in Nat /\ behind \in Nat
    BY DEF AuthInv, AuthTypeOK
  <2> DEFINE whole == Seconds(signedAt[c] + ahead)
  <2>4. /\ whole \in Nat
        /\ whole * TicksPerSecond <= signedAt[c] + ahead
        /\ signedAt[c] + ahead < whole * TicksPerSecond + TicksPerSecond
    BY <2>3, SecondsCut
  <2>5. (whole + Expires) * TicksPerSecond = whole * TicksPerSecond + Expires * TicksPerSecond
    BY <2>4
  <2>6. (Expires - 1) * TicksPerSecond = Expires * TicksPerSecond - TicksPerSecond
    OBVIOUS
  <2>7. token[c].iat = whole /\ token[c].exp = whole + Expires
    BY <2>1
  <2>8. whole * TicksPerSecond \in Nat /\ Expires * TicksPerSecond \in Nat
    BY <2>4
  <2> HIDE DEF whole
  <2>9. CASE VerifyJwt(b, token[c]) # 0
    <3>1. clock + behind <= (whole + Expires) * TicksPerSecond
      BY <2>2, <2>7, <2>9 DEF VerifyJwt, ClaimsHold
    <3> QED
      BY <2>3, <2>4, <2>5, <2>8, <2>9, <3>1
  <2>10. CASE VerifyJwt(b, token[c]) = 0
    <3>1. Up(b) /\ token[c].sub # 0
      BY DEF AuthInv, AuthTypeOK, TokenIsSigned, Up, Owns, Ids
    <3>2. ~ClaimsHold(b, token[c])
      BY <2>10, <3>1 DEF VerifyJwt
    <3>3. \/ whole * TicksPerSecond > clock + behind
          \/ clock + behind > (whole + Expires) * TicksPerSecond
      BY <2>2, <2>3, <2>4, <2>7, <3>2 DEF ClaimsHold
    <3> QED
      BY <2>3, <2>4, <2>5, <2>6, <2>8, <2>10, <3>3
  <2> QED
    BY <2>9, <2>10
<1> QED
  BY <1>1, AuthInvariant, PTL

-----------------------------------------------------------------------------
(* The connection: its buffer *)

\* What the buffer and the stream hold; a body starts where the headers end.
BufferInv ==
    /\ m_read_buf \in Seq(Tokens)
    /\ inbox \in Seq(Tokens) /\ unsent \in Seq(Tokens)
    /\ m_content_length \in Int /\ m_checked_index \in Nat
    /\ m_check_stat = "CONTENT" => m_start_line = m_checked_index

\* parse_line() stops inside what has been read, or at its end.
LEMMA LineStopsInBuffer ==
    ASSUME BufferInv
    PROVE  LineStop \in Nat
<1>1. m_checked_index \in Nat /\ m_read_index \in Nat
  BY DEF BufferInv, m_read_index
<1> DEFINE ends == {i \in m_checked_index..(m_read_index - 1) : Byte(i) \in {"CR", "LF"}}
<1>2. ends \in SUBSET Nat
  BY <1>1
<1>3. LineStop = IF ends = {} THEN m_read_index ELSE CHOOSE i \in ends : \A j \in ends : i <= j
  BY DEF LineStop
<1> HIDE DEF ends
<1>4. CASE ends # {}
  <2>1. PICK x \in ends : \A y \in ends : ~(<<y, x>> \in OpToRel(<, Nat))
    BY <1>2, <1>4, WFMin, NatLessThanWellFounded, Zenon
  <2>2. \A y \in ends : <<y, x>> \in Nat \X Nat
    BY <1>2
  <2>3. \A y \in ends : ~(y < x)
    BY <2>1, <2>2 DEF OpToRel
  <2>4. \A y \in ends : x <= y
    BY <1>2, <2>3
  <2> QED
    BY <1>2, <1>3, <1>4, <2>4
<1> QED
  BY <1>1, <1>3, <1>4

\* A line that is complete is given its NULs in place.
LEMMA EndLineKeeps ==
    ASSUME BufferInv, EndLine
    PROVE  /\ m_read_buf' \in Seq(Tokens) /\ Len(m_read_buf') = Len(m_read_buf)
           /\ m_start_line' = m_checked_index' /\ m_checked_index' \in Nat
<1>1. m_read_buf' = [m_read_buf EXCEPT ![LineCr + 1] = "NUL", ![LineCr + 2] = "NUL"]
  BY DEF EndLine
<1>2. m_read_buf \in Seq(Tokens) /\ "NUL" \in Tokens
  BY DEF BufferInv, Tokens, OtherTokens
<1>3. \A i, j : [m_read_buf EXCEPT ![i] = "NUL", ![j] = "NUL"] \in Seq(Tokens)
                /\ Len([m_read_buf EXCEPT ![i] = "NUL", ![j] = "NUL"]) = Len(m_read_buf)
  <2> SUFFICES ASSUME NEW i, NEW j
               PROVE  LET b == [m_read_buf EXCEPT ![i] = "NUL", ![j] = "NUL"]
                      IN  b \in Seq(Tokens) /\ Len(b) = Len(m_read_buf)
    OBVIOUS
  <2> DEFINE b == [m_read_buf EXCEPT ![i] = "NUL", ![j] = "NUL"]
  <2>1. /\ Len(m_read_buf) \in Nat /\ DOMAIN m_read_buf = 1..Len(m_read_buf)
        /\ \A k \in 1..Len(m_read_buf) : m_read_buf[k] \in Tokens
    BY <1>2
  <2>2. b \in [1..Len(m_read_buf) -> Tokens]
    BY <1>2, <2>1
  <2> HIDE DEF b
  <2>3. b \in Seq(Tokens) /\ Len(b) = Len(m_read_buf)
    BY <2>1, <2>2
  <2> QED
    BY <2>3 DEF b
<1>4. LineCr + 2 \in Nat
  BY LineStopsInBuffer DEF LineCr
<1> QED
  BY <1>1, <1>3, <1>4 DEF EndLine

\* What m_content_length keeps of a Content-Length is a number.
LEMMA LengthIsInt ==
    /\ \A h \in DOMAIN ContentLength : ToInt(ContentLength[h]) \in Int
    /\ \A m : Declared(m) \in Int
<1>1. \A n \in Int : ToInt(n) \in Int
  BY HttpAssumption DEF ToInt
<1>2. \A h \in DOMAIN ContentLength : ToInt(ContentLength[h]) \in Int
  BY <1>1, LengthAssumption
<1>3. ASSUME NEW m PROVE Declared(m) \in Int
  <2> DEFINE given == {i \in DOMAIN m : m[i] \in DOMAIN ContentLength}
             first == CHOOSE i \in given : TRUE
  <2>1. given # {} => m[first] \in DOMAIN ContentLength
    OBVIOUS
  <2>2. Declared(m) = IF given = {} THEN 0 ELSE ToInt(ContentLength[m[first]])
    BY DEF Declared
  <2> QED
    BY <1>2, <2>1, <2>2
<1> QED
  BY <1>2, <1>3

\* Only the parser's passes over a whole line move the start of a body.
LEMMA BufferInvStep ==
    ASSUME BufferInv, [Next]_vars
    PROVE  BufferInv'
<1>1. CASE Read
  <2>1. m_read_buf \o inbox \in Seq(Tokens)
    BY DEF BufferInv
  <2>2. m_read_buf' = m_read_buf \/ m_read_buf' = m_read_buf \o inbox
    BY <1>1 DEF Read
  <2>3. m_read_buf' \in Seq(Tokens)
    BY <2>1, <2>2 DEF BufferInv
  <2>4. /\ inbox' = <<>> /\ UNCHANGED <<unsent, m_content_length, m_check_stat, m_start_line, m_checked_index>>
    BY <1>1 DEF Read, parser
  <2> QED
    BY <2>3, <2>4 DEF BufferInv
<1>2. CASE ParseMore
  BY <1>2, LineStopsInBuffer DEF ParseMore, BufferInv, client
<1>3. CASE EndLine /\ (ParseRequestLine \/ ParseHeader \/ ParseHeadersEnd)
  <2>1. /\ m_read_buf' \in Seq(Tokens) /\ Len(m_read_buf') = Len(m_read_buf)
        /\ m_start_line' = m_checked_index' /\ m_checked_index' \in Nat
    BY <1>3, EndLineKeeps
  <2>2. UNCHANGED <<inbox, unsent>>
    BY <1>3 DEF ParseRequestLine, ParseHeader, ParseHeadersEnd, client
  <2>3. m_content_length' \in Int
    BY <1>3, LengthIsInt DEF ParseRequestLine, ParseHeader, ParseHeadersEnd, BufferInv
  <2> QED
    BY <2>1, <2>2, <2>3 DEF BufferInv
<1>4. CASE ParseContent
  BY <1>4 DEF ParseContent, BufferInv, client
<1>5. CASE Write
  <2>1. UNCHANGED <<unsent, inbox>>
    BY <1>5 DEF Write, WriteSome, WriteLast
  <2>2. UNCHANGED <<m_read_buf, parser>> \/ InitConn
    BY <1>5 DEF Write, WriteSome, WriteLast
  <2>3. CASE InitConn
    BY <2>1, <2>3, HttpAssumption DEF InitConn, BufferInv
  <2>4. CASE UNCHANGED <<m_read_buf, parser>>
    BY <2>1, <2>4 DEF parser, BufferInv
  <2> QED
    BY <2>2, <2>3, <2>4
<1>6. ASSUME NEW n \in 1..READ_BUFFER_SIZE, ClientSend(n) PROVE BufferInv'
  <2>1. n \in Nat /\ Len(unsent) - n >= 0 /\ unsent \in Seq(Tokens) /\ inbox \in Seq(Tokens)
    BY <1>6 DEF ClientSend, BufferInv
  <2>2. SubSeq(unsent, 1, n) \in Seq(Tokens) /\ SubSeq(unsent, n + 1, Len(unsent)) \in Seq(Tokens)
    BY <2>1
  <2>3. /\ inbox' = inbox \o SubSeq(unsent, 1, n) /\ unsent' = SubSeq(unsent, n + 1, Len(unsent))
        /\ UNCHANGED <<m_read_buf, m_content_length, m_check_stat, m_start_line, m_checked_index>>
    BY <1>6 DEF ClientSend, parser
  <2>4. inbox' \in Seq(Tokens)
    BY <2>1, <2>2, <2>3
  <2> QED
    BY <2>2, <2>3, <2>4 DEF BufferInv
<1>7. CASE ClientNext
  <2>1. /\ message' \in Messages /\ unsent' = message'
        /\ UNCHANGED <<m_read_buf, inbox, m_content_length, m_check_stat, m_start_line, m_checked_index>>
    BY <1>7 DEF ClientNext, parser
  <2> QED
    BY <2>1, MessagesAssumption DEF BufferInv
<1>8. CASE UNCHANGED vars
  BY <1>8 DEF vars, BufferInv, parser, client
<1>9. ParseRequestLine \/ ParseHeader \/ ParseHeadersEnd => EndLine
  BY DEF ParseRequestLine, ParseHeader, ParseHeadersEnd
<1> QED
  BY <1>1, <1>2, <1>3, <1>4, <1>5, <1>6, <1>7, <1>8, <1>9 DEF Next, Parse

-----------------------------------------------------------------------------
(* The connection: what write() sends *)

Codes == {"NO_REQUEST", "BAD_REQUEST", "NO_RESOURCE", "HANDLED", "FORBIDDEN_REQUEST",
          "INTERNAL_ERROR"}

\* The client has the first bytes of the answer, each once.
InOrder == out \in Seq(Nat) /\ \A i \in 1..Len(out) : out[i] = i - 1

\* m_iv names the rest of the answer, in its two buffers.
RestIsNamed ==
    /\ m_iv[1].base \in Nat /\ m_iv[1].len \in Nat /\ m_iv[2].base \in Nat /\ m_iv[2].len \in Nat
    /\ Len(out) + m_iv[1].len + m_iv[2].len = AnswerLen
    /\ m_iv[1].len > 0 => /\ m_iv[1].base = Len(out) /\ Len(out) + m_iv[1].len = HeadLen
                          /\ m_iv[2].len > 0 => m_iv[2].base = HeadLen
    /\ m_iv[1].len = 0 => m_iv[2].base = Len(out)

\* Nothing is answered yet; all of it is, and no byte of the request is left.
Unanswered == out = <<>> /\ ret = "NO_REQUEST"
Complete   == /\ unsent = <<>> /\ inbox = <<>> /\ ret # "NO_REQUEST"
              /\ Len(out) = AnswerLen

\* The inductive invariant for AnswerInOrder.
WriterInv ==
    /\ InOrder /\ ret \in Codes
    /\ pc = "parse" => Unanswered
    /\ pc = "in" => Unanswered \/ Complete
    /\ pc = "out" => RestIsNamed /\ ret # "NO_REQUEST"

\* The bytes of an iovec.
LEMMA BytesOf ==
    ASSUME NEW v, v.base \in Nat, v.len \in Nat
    PROVE  /\ Bytes(v) \in Seq(Nat) /\ Len(Bytes(v)) = v.len
           /\ \A i \in 1..v.len : Bytes(v)[i] = v.base + i - 1
<1>1. Bytes(v) = [i \in 1..v.len |-> v.base + i - 1]
  BY DEF Bytes
<1>2. Bytes(v) \in [1..v.len -> Nat]
  BY <1>1
<1> QED
  BY <1>1, <1>2

\* The first bytes of a buffer.
LEMMA Prefix ==
    ASSUME NEW c \in Seq(Nat), NEW n \in 0..Len(c)
    PROVE  /\ SubSeq(c, 1, n) \in Seq(Nat) /\ Len(SubSeq(c, 1, n)) = n
           /\ \A i \in 1..n : SubSeq(c, 1, n)[i] = c[i]
<1>1. n \in Nat /\ n <= Len(c)
  OBVIOUS
<1> QED
  BY <1>1, SubSeqProperties

\* The first bytes of two buffers that follow one another.
LEMMA PrefixOfTwo ==
    ASSUME NEW a \in Seq(Nat), NEW b \in Seq(Nat), NEW k \in Nat,
           \A i \in 1..Len(a) : a[i] = k + i - 1,
           \A i \in 1..Len(b) : b[i] = k + Len(a) + i - 1,
           NEW n \in Nat, n <= Len(a) + Len(b)
    PROVE  LET s == SubSeq(a \o b, 1, n)
           IN  s \in Seq(Nat) /\ Len(s) = n /\ \A i \in 1..n : s[i] = k + i - 1
<1>1. PICK la \in Nat, lb \in Nat : la = Len(a) /\ lb = Len(b)
  OBVIOUS
<1>2. \A i \in 1..(la + lb) : (a \o b)[i] = IF i <= la THEN a[i] ELSE b[i - la]
  BY <1>1, ConcatProperties
<1>3. ASSUME NEW i \in 1..n PROVE (a \o b)[i] = k + i - 1
  <2>1. i \in 1..(la + lb)
    BY <1>1
  <2>2. CASE i <= la
    BY <1>1, <1>2, <2>1, <2>2
  <2>3. CASE ~(i <= la)
    <3>1. i - la \in 1..lb
      BY <2>1, <2>3
    <3>2. (a \o b)[i] = k + la + (i - la) - 1
      BY <1>1, <1>2, <2>1, <2>3, <3>1
    <3> QED
      BY <3>2
  <2> QED
    BY <2>2, <2>3
<1>4. a \o b \in Seq(Nat) /\ Len(a \o b) = la + lb /\ n \in 0..Len(a \o b)
  BY <1>1, ConcatProperties
<1> QED
  BY <1>3, <1>4, Prefix

\* Whatever number of bytes writev takes, they are the next ones.
LEMMA SentIsNext ==
    ASSUME InOrder, RestIsNamed, NEW n \in Nat, n <= BytesToSend
    PROVE  /\ Sent(n) \in Seq(Nat) /\ Len(Sent(n)) = n
           /\ \A i \in 1..n : Sent(n)[i] = Len(out) + i - 1
<1>1. PICK a \in Seq(Nat), b \in Seq(Nat) :
         /\ a = Bytes(m_iv[1]) /\ Len(a) = m_iv[1].len
         /\ \A i \in 1..m_iv[1].len : a[i] = m_iv[1].base + i - 1
         /\ b = Bytes(m_iv[2]) /\ Len(b) = m_iv[2].len
         /\ \A i \in 1..m_iv[2].len : b[i] = m_iv[2].base + i - 1
  BY BytesOf DEF RestIsNamed
<1>2. Len(out) \in Nat /\ Len(a) \in Nat /\ Len(b) \in Nat
  BY DEF InOrder
<1>3. \A i \in 1..Len(a) : a[i] = Len(out) + i - 1
  <2>1. CASE Len(a) = 0
    BY <1>1, <2>1
  <2>2. CASE Len(a) > 0
    BY <1>1, <2>2 DEF RestIsNamed
  <2> QED
    BY <1>2, <2>1, <2>2
<1>4. \A i \in 1..Len(b) : b[i] = Len(out) + Len(a) + i - 1
  <2>1. CASE Len(b) = 0
    BY <2>1
  <2>2. CASE Len(b) > 0
    <3>1. m_iv[2].base = Len(out) + Len(a)
      BY <1>1, <1>2, <2>2 DEF RestIsNamed
    <3> QED
      BY <1>1, <3>1
  <2> QED
    BY <1>2, <2>1, <2>2
<1>5. n <= Len(a) + Len(b) /\ Sent(n) = SubSeq(a \o b, 1, n)
  BY <1>1 DEF Sent, BytesToSend
<1> QED
  BY <1>2, <1>3, <1>4, <1>5, PrefixOfTwo

\* So the client has more of the answer, still in order.
LEMMA OutGrows ==
    ASSUME InOrder, RestIsNamed, NEW n \in Nat, n <= BytesToSend, out' = out \o Sent(n)
    PROVE  InOrder' /\ Len(out') = Len(out) + n
<1>1. /\ Sent(n) \in Seq(Nat) /\ Len(Sent(n)) = n
      /\ \A i \in 1..n : Sent(n)[i] = Len(out) + i - 1
  BY SentIsNext
<1>2. out \in Seq(Nat) /\ Len(out) \in Nat /\ \A i \in 1..Len(out) : out[i] = i - 1
  BY DEF InOrder
<1>3. /\ out' \in Seq(Nat) /\ Len(out') = Len(out) + n
      /\ \A i \in 1..(Len(out) + n) : out'[i] = IF i <= Len(out) THEN out[i] ELSE Sent(n)[i - Len(out)]
  BY <1>1, <1>2, ConcatProperties
<1>4. ASSUME NEW i \in 1..(Len(out) + n) PROVE out'[i] = i - 1
  <2>1. CASE i <= Len(out)
    BY <1>2, <1>3, <2>1
  <2>2. CASE ~(i <= Len(out))
    <3>1. i - Len(out) \in 1..n
      BY <1>2, <2>2
    <3>2. out'[i] = Len(out) + (i - Len(out)) - 1
      BY <1>1, <1>3, <2>2, <3>1
    <3> QED
      BY <1>2, <3>2
  <2> QED
    BY <2>1, <2>2
<1> QED
  BY <1>3, <1>4 DEF InOrder

\* An answer that is laid out is named whole.
LEMMA AnswerNamed ==
    ASSUME out = <<>>, out' = out, NEW code \in Codes \ {"NO_REQUEST"}, Answer(code)
    PROVE  RestIsNamed' /\ ret' = code /\ pc' = "out"
<1>1. HeadLen \in Nat /\ HeadLen > 0 /\ JsonLen \in Nat /\ JsonLen > 0
  BY HttpAssumption
<1>2. /\ WriteBuf.base = 0 /\ WriteBuf.len = HeadLen
      /\ JsonRes.base = HeadLen /\ JsonRes.len = JsonLen
      /\ NoBytes.base = 0 /\ NoBytes.len = 0
  BY DEF WriteBuf, JsonRes, NoBytes
<1>3. /\ ret' = code /\ pc' = "out"
      /\ m_iv'[1] = WriteBuf /\ m_iv'[2] = IF code = "HANDLED" THEN JsonRes ELSE NoBytes
  BY DEF Answer
<1>4. AnswerLen' = IF code = "HANDLED" THEN HeadLen + JsonLen ELSE HeadLen
  BY <1>3 DEF AnswerLen
<1>5. Len(out') = 0
  OBVIOUS
<1> QED
  BY <1>1, <1>2, <1>3, <1>4, <1>5 DEF RestIsNamed

\* A pass of the parser goes on, waits for more or answers.
LEMMA ParseForms ==
    ASSUME Parse
    PROVE  /\ pc = "parse" /\ UNCHANGED client
           /\ \/ UNCHANGED <<ret, m_iv>> /\ pc' \in {"parse", "in", "lost"}
              \/ \E code \in Codes \ {"NO_REQUEST"} : Answer(code)
<1>1. CASE ParseMore
  BY <1>1 DEF ParseMore
<1>2. CASE ParseRequestLine
  BY <1>2 DEF ParseRequestLine, EndLine, GoOn, Codes
<1>3. CASE ParseHeader
  BY <1>3 DEF ParseHeader, EndLine, GoOn
<1>4. CASE ParseHeadersEnd
  BY <1>4 DEF ParseHeadersEnd, EndLine, GoOn, Handle, Handled, Codes
<1>5. CASE ParseContent
  BY <1>5 DEF ParseContent, EndBody, Handle, Handled, Codes
<1> QED
  BY <1>1, <1>2, <1>3, <1>4, <1>5 DEF Parse

\* After a writev that did not take all, m_iv names what is left.
LEMMA AdvanceNames ==
    ASSUME RestIsNamed, Len(out) \in Nat, NEW n \in Nat, n > 0, n < BytesToSend,
           Len(out') = Len(out) + n, m_iv' = Advance(n), ret' = ret
    PROVE  RestIsNamed'
<1>1. PICK l1 \in Nat, l2 \in Nat, b1 \in Nat, b2 \in Nat :
         m_iv[1].len = l1 /\ m_iv[2].len = l2 /\ m_iv[1].base = b1 /\ m_iv[2].base = b2
  BY DEF RestIsNamed
<1>2. PICK k \in Nat : Len(out) = k
  OBVIOUS
<1>3. /\ k + l1 + l2 = AnswerLen /\ n < l1 + l2 /\ Len(out') = k + n
      /\ l1 > 0 => b1 = k /\ k + l1 = HeadLen /\ (l2 > 0 => b2 = HeadLen)
      /\ l1 = 0 => b2 = k
  BY <1>1, <1>2 DEF RestIsNamed, BytesToSend
<1>4. AnswerLen' = AnswerLen
  BY DEF AnswerLen
<1>5. CASE n < l1
  <2>1. m_iv' = <<[base |-> b1 + n, len |-> l1 - n], m_iv[2]>>
    BY <1>1, <1>5 DEF Advance
  <2>2. m_iv'[1].base = b1 + n /\ m_iv'[1].len = l1 - n /\ m_iv'[2].base = b2 /\ m_iv'[2].len = l2
    BY <1>1, <2>1
  <2>3. PICK x \in Nat : x = l1 - n /\ x > 0
    BY <1>5
  <2>4. /\ b1 + n = k + n /\ k + n \in Nat /\ (l2 > 0 => b2 = HeadLen)
        /\ (k + n) + x = HeadLen /\ (k + n) + x + l2 = AnswerLen
    BY <1>3, <1>5, <2>3
  <2>5. m_iv'[1].base = k + n /\ m_iv'[1].len = x /\ m_iv'[2].base = b2 /\ m_iv'[2].len = l2
    BY <2>2, <2>3, <2>4
  <2>6. Len(out') = k + n /\ x # 0
    BY <1>3, <2>3
  <2> QED
    BY <1>4, <2>3, <2>4, <2>5, <2>6 DEF RestIsNamed
<1>6. CASE ~(n < l1)
  <2>1. m_iv' = <<NoBytes, [base |-> b2 + (n - l1), len |-> l2 - (n - l1)]>>
    BY <1>1, <1>6 DEF Advance
  <2>2. /\ m_iv'[1].base = 0 /\ m_iv'[1].len = 0
        /\ m_iv'[2].base = b2 + (n - l1) /\ m_iv'[2].len = l2 - (n - l1)
    BY <2>1 DEF NoBytes
  <2>3. b2 = k + l1 /\ l2 > 0
    BY <1>3, <1>6
  <2>4. PICK x \in Nat : x = l2 - (n - l1)
    BY <1>3, <1>6
  <2>5. b2 + (n - l1) = k + n /\ k + n \in Nat /\ (k + n) + 0 + x = AnswerLen
    BY <1>3, <1>6, <2>3, <2>4
  <2>6. m_iv'[1].base = 0 /\ m_iv'[1].len = 0 /\ m_iv'[2].base = k + n /\ m_iv'[2].len = x
    BY <2>2, <2>4, <2>5
  <2>7. Len(out') = k + n /\ ~(0 > 0)
    BY <1>3
  <2> QED
    <3>1. /\ m_iv'[1].base \in Nat /\ m_iv'[1].len \in Nat
          /\ m_iv'[2].base \in Nat /\ m_iv'[2].len \in Nat
      BY <2>4, <2>5, <2>6
    <3>2. Len(out') + m_iv'[1].len + m_iv'[2].len = AnswerLen'
      BY <1>4, <2>5, <2>6, <2>7
    <3>3. ~(m_iv'[1].len > 0) /\ m_iv'[2].base = Len(out')
      BY <2>6, <2>7
    <3> QED
      BY <3>1, <3>2, <3>3 DEF RestIsNamed
<1> QED
  BY <1>5, <1>6

\* Every step keeps the invariant, as long as only complete requests are answered.
LEMMA WriterInvStep ==
    ASSUME WriterInv, [Next]_vars, OutcomeIgnoresSegments
    PROVE  WriterInv'
<1>0. InOrder /\ Len(out) \in Nat /\ ret \in Codes
  BY DEF WriterInv, InOrder
<1>1. CASE Read
  <2>1. pc = "in" /\ inbox # <<>> /\ pc' \in {"closed", "parse"} /\ UNCHANGED <<ret, out>>
    BY <1>1 DEF Read
  <2>2. Unanswered
    BY <2>1 DEF WriterInv, Complete
  <2> QED
    BY <1>0, <2>1, <2>2 DEF WriterInv, InOrder, Unanswered
<1>2. CASE Parse
  <2>1. /\ pc = "parse" /\ UNCHANGED out
        /\ \/ UNCHANGED <<ret, m_iv>> /\ pc' \in {"parse", "in", "lost"}
           \/ \E code \in Codes \ {"NO_REQUEST"} : Answer(code)
    BY <1>2, ParseForms DEF client
  <2>2. Unanswered
    BY <2>1 DEF WriterInv
  <2>3. CASE UNCHANGED <<ret, m_iv>> /\ pc' \in {"parse", "in", "lost"}
    BY <1>0, <2>1, <2>2, <2>3 DEF WriterInv, InOrder, Unanswered
  <2>4. ASSUME NEW code \in Codes \ {"NO_REQUEST"}, Answer(code) PROVE WriterInv'
    <3>1. RestIsNamed' /\ ret' = code /\ pc' = "out"
      BY <2>1, <2>2, <2>4, AnswerNamed DEF Unanswered
    <3> QED
      BY <1>0, <2>1, <3>1 DEF WriterInv, InOrder
  <2> QED
    BY <2>1, <2>3, <2>4
<1>3. ASSUME NEW n \in 1..(HeadLen + JsonLen), WriteSome(n) PROVE WriterInv'
  <2>1. /\ pc = "out" /\ pc' = "out" /\ n < BytesToSend /\ out' = out \o Sent(n)
        /\ m_iv' = Advance(n) /\ ret' = ret
    BY <1>3 DEF WriteSome
  <2>2. RestIsNamed /\ ret # "NO_REQUEST" /\ n \in Nat /\ n > 0 /\ n <= BytesToSend
    <3>1. HeadLen + JsonLen \in Nat /\ n \in Nat /\ n > 0
      BY HttpAssumption
    <3>2. RestIsNamed /\ ret # "NO_REQUEST"
      BY <2>1 DEF WriterInv
    <3>3. BytesToSend \in Nat
      BY <3>2 DEF RestIsNamed, BytesToSend
    <3> QED
      BY <2>1, <3>1, <3>2, <3>3
  <2>3. InOrder' /\ Len(out') = Len(out) + n
    BY <1>0, <2>1, <2>2, OutGrows
  <2>4. RestIsNamed'
    BY <1>0, <2>1, <2>2, <2>3, AdvanceNames
  <2> QED
    BY <1>0, <2>1, <2>2, <2>3, <2>4 DEF WriterInv
<1>4. CASE WriteLast
  <2>1. /\ pc = "out" /\ pc' \in {"in", "closed"} /\ out' = out \o Sent(BytesToSend)
        /\ UNCHANGED <<ret, unsent, inbox>>
    BY <1>4 DEF WriteLast
  <2>2. RestIsNamed /\ ret # "NO_REQUEST" /\ BytesToSend \in Nat
    BY <2>1 DEF WriterInv, RestIsNamed, BytesToSend
  <2>3. InOrder' /\ Len(out') = Len(out) + BytesToSend
    BY <1>0, <2>1, <2>2, OutGrows
  <2>4. Len(out) + BytesToSend = AnswerLen /\ AnswerLen' = AnswerLen
    BY <1>0, <2>1, <2>2 DEF RestIsNamed, BytesToSend, AnswerLen
  <2>5. unsent = <<>> /\ inbox = <<>>
    BY <2>1 DEF OutcomeIgnoresSegments
  <2> QED
    BY <1>0, <2>1, <2>2, <2>3, <2>4, <2>5 DEF WriterInv, Complete
<1>5. ASSUME NEW n \in 1..READ_BUFFER_SIZE, ClientSend(n) PROVE WriterInv'
  <2>1. UNCHANGED <<m_iv, pc, ret, out>> /\ Len(unsent) - n >= 0
    BY <1>5 DEF ClientSend
  <2>2. ~Complete
    BY <2>1, HttpAssumption DEF Complete
  <2> QED
    BY <1>0, <2>1, <2>2 DEF WriterInv, InOrder, Unanswered, RestIsNamed, AnswerLen
<1>6. CASE ClientNext
  <2>1. pc' = "in" /\ out' = <<>> /\ ret' = "NO_REQUEST"
    BY <1>6 DEF ClientNext, Answered
  <2> QED
    BY <2>1 DEF WriterInv, InOrder, Unanswered, Codes
<1>7. CASE UNCHANGED vars
  BY <1>0, <1>7 DEF vars, client, WriterInv, InOrder, Unanswered, Complete, RestIsNamed, AnswerLen
<1> QED
  BY <1>1, <1>2, <1>3, <1>4, <1>5, <1>6, <1>7 DEF Next, Write

\* If the parser answers only complete requests, the client gets the bytes of each
\* answer in order and each once: for answers of every size, in one buffer or two,
\* and every way writev may cut them.
THEOREM AnswersInOrder == Spec /\ []OutcomeIgnoresSegments => []AnswerInOrder
<1>1. Init => WriterInv
  <2> SUFFICES ASSUME Init PROVE WriterInv
    OBVIOUS
  <2>1. pc = "in" /\ out = <<>> /\ ret = "NO_REQUEST"
    BY DEF Init
  <2> QED
    BY <2>1 DEF WriterInv, InOrder, Unanswered, Codes
<1>2. WriterInv /\ [Next]_vars /\ OutcomeIgnoresSegments => WriterInv'
  BY WriterInvStep
<1>3. WriterInv => AnswerInOrder
  BY DEF WriterInv, InOrder, AnswerInOrder, Answered, Unanswered, Complete
<1> QED
  BY <1>1, <1>2, <1>3, PTL DEF Spec
-----------------------------------------------------------------------------
(* The connection: what process_read() makes of a request *)

\* A request is not cut behind its headers.
Cut(k) == k = Len(message) \/ k < HeadersEnd(message)

\* What has been read, what waits in the socket and what is still to be sent
\* are together the request.
Pieces ==
    LET read == Len(m_read_buf)
        sent == read + Len(inbox)
    IN  /\ sent + Len(unsent) = Len(message)
        /\ \A i \in 1..Len(inbox) : inbox[i] = message[read + i]
        /\ \A i \in 1..Len(unsent) : unsent[i] = message[sent + i]
        /\ Cut(read) /\ Cut(sent)

\* From the line the parser is at, the buffer still has what was sent: the NULs
\* are all before it.  The pass over a part of the line has met no end of it.
Scanned ==
    /\ m_start_line \in Nat /\ m_start_line <= m_checked_index
    /\ m_checked_index <= Len(m_read_buf)
    /\ \A i \in (m_start_line + 1)..Len(m_read_buf) : m_read_buf[i] = message[i]
    /\ \A i \in (m_start_line + 1)..m_checked_index : message[i] \notin {"CR", "LF"}

\* The route is the one of this request.
Routed ==
    /\ m_route \in {"get", "post", "put"}
    /\ \E i \in 1..m_start_line : message[i] = m_route

AtRequestLine == m_start_line = 0 /\ m_content_length = 0

\* The headers so far have given the length, or none has.
AtHeader ==
    /\ m_start_line > 0 /\ m_start_line < HeadersEnd(message)
    /\ message[m_start_line] = "LF"
    /\ Routed
    /\ m_content_length = IF \E i \in 1..m_start_line : message[i] \in DOMAIN ContentLength
                          THEN Declared(message) ELSE 0

\* The whole request is there when its body is looked at.
AtContent ==
    /\ m_start_line = HeadersEnd(message) /\ m_checked_index = m_start_line
    /\ Len(m_read_buf) = Len(message)
    /\ m_content_length = Declared(message)
    /\ Routed /\ m_route # "get"
    /\ m_route = "put" => m_content_length # 0

Parsing ==
    /\ Pieces
    /\ Scanned
    /\ \/ m_check_stat = "REQUESTLINE" /\ AtRequestLine
       \/ m_check_stat = "HEADER" /\ AtHeader
       \/ m_check_stat = "CONTENT" /\ AtContent

\* What init() leaves.
Fresh ==
    /\ m_read_buf = <<>> /\ m_start_line = 0 /\ m_checked_index = 0
    /\ m_check_stat = "REQUESTLINE" /\ m_content_length = 0

\* The inductive invariant for OutcomeIgnoresSegments and CompleteIsAnswered.
RequestInv ==
    /\ BufferInv
    /\ message \in Messages
    /\ pc = "parse" => ret = "NO_REQUEST"
    /\ pc \in {"in", "parse"} /\ ret = "NO_REQUEST" => Parsing
    /\ pc = "in" /\ ret # "NO_REQUEST" => Fresh /\ unsent = <<>> /\ inbox = <<>>
    /\ OutcomeIgnoresSegments
    /\ CompleteIsAnswered

-----------------------------------------------------------------------------
(* What a request is made of *)

\* A request has a number of body bytes.
LEMMA BodyLenNat ==
    ASSUME NEW m \in Seq(Tokens)
    PROVE  BodyLen(m) \in Nat
<1>1. Len(m) \in Nat /\ DOMAIN m = 1..Len(m)
  OBVIOUS
<1>2. IsFiniteSet(1..Len(m))
  BY <1>1, FS_Interval
<1>3. {i \in DOMAIN m : m[i] = "B"} \subseteq 1..Len(m)
  BY <1>1
<1> QED
  BY <1>2, <1>3, FS_Subset, FS_CardinalityType DEF BodyLen

\* The numbers, and the tokens, of a request.
LEMMA RequestTypes ==
    ASSUME NEW m, Request(m)
    PROVE  /\ m \in Seq(Tokens) /\ Len(m) \in Nat /\ BodyLen(m) \in Nat
           /\ HeadersEnd(m) \in Nat /\ HeadersEnd(m) > 0
           /\ HeadersEnd(m) + BodyLen(m) = Len(m)
           /\ \A i \in 1..Len(m) : m[i] \in Tokens \ {"NUL"}
<1>1. m \in Seq(Tokens \ {"NUL"}) /\ HeadersEnd(m) > 0
  BY DEF Request
<1>2. m \in Seq(Tokens) /\ Len(m) \in Nat /\ \A i \in 1..Len(m) : m[i] \in Tokens \ {"NUL"}
  BY <1>1
<1>3. BodyLen(m) \in Nat
  BY <1>2, BodyLenNat
<1>4. HeadersEnd(m) = Len(m) - BodyLen(m)
  BY DEF HeadersEnd
<1> QED
  BY <1>1, <1>2, <1>3, <1>4

\* The names of lines and the other tokens are apart.
LEMMA TokensApart ==
    /\ (RequestLines \cup Headers) \cap {"CR", "LF", "NUL", "B", "x"} = {}
    /\ RequestLines \cap Headers = {}
    /\ RequestLines = {"get", "post", "put", "bad"}
    /\ \A t \in Tokens : t \in RequestLines \cup Headers \/ t \in {"CR", "LF", "NUL", "B", "x"}
BY LengthAssumption DEF RequestLines, Headers, OtherHeaders, OtherTokens, Tokens

\* A line of a request: s is where it begins and l where its CR is, counted from 0.
\* If it is not empty it is some "x" and a name; if it is, it ends the headers.
LEMMA LineOfRequest ==
    ASSUME NEW m, Request(m), NEW s \in Nat, NEW l \in Nat,
           s <= l, l + 2 <= Len(m), m[l + 1] = "CR", m[l + 2] = "LF",
           s = 0 \/ m[s] = "LF",
           \A i \in (s + 1)..l : m[i] \notin {"CR", "LF"}
    PROVE  /\ l + 2 <= HeadersEnd(m)
           /\ s < l => /\ Names(m, l) /\ m[l] \in RequestLines \cup Headers
                       /\ \A j \in (s + 1)..(l - 1) : m[j] = "x"
           /\ s = l => s > 0
<1> DEFINE end == HeadersEnd(m)
<1>1. /\ Len(m) \in Nat /\ end \in Nat /\ end > 0 /\ end <= Len(m)
      /\ \A i \in 1..Len(m) : m[i] \in Tokens \ {"NUL"}
  BY RequestTypes
<1>2. /\ \A i \in 1..Len(m) : m[i] = "B" <=> i > end
      /\ m[1] # "CR"
      /\ \A i \in 1..end : m[i] \in RequestLines \cup Headers <=> Names(m, i)
  BY DEF Request
<1> HIDE DEF end
<1>3. l + 1 <= end /\ l + 2 <= end
  BY <1>1, <1>2
<1>4. ASSUME s < l PROVE Names(m, l) /\ m[l] \in RequestLines \cup Headers
  <2>1. l \in 1..end /\ l \in (s + 1)..l
    BY <1>1, <1>3, <1>4
  <2>2. l < end /\ m[l] # "LF"
    BY <1>1, <1>3, <2>1
  <2> QED
    BY <1>2, <2>1, <2>2 DEF Names, end
<1>5. ASSUME s < l, NEW j \in (s + 1)..(l - 1) PROVE m[j] = "x"
  <2>1. j \in 1..end /\ j \in 1..Len(m) /\ j \in (s + 1)..l /\ j + 1 \in (s + 1)..l /\ ~(j > end)
    BY <1>1, <1>3, <1>5
  <2>2. m[j] \notin {"CR", "LF", "B", "NUL"} /\ m[j + 1] # "CR" /\ m[j] \in Tokens
    BY <1>1, <1>2, <2>1
  <2>3. m[j] \notin RequestLines \cup Headers
    BY <1>2, <2>1, <2>2 DEF Names
  <2> QED
    BY <2>2, <2>3, TokensApart
<1>6. s = l => s > 0
  BY <1>2
<1> QED
  BY <1>3, <1>4, <1>5, <1>6 DEF end

\* A request has one request line.
LEMMA OneRequestLine ==
    ASSUME NEW m, Request(m), NEW i \in 1..Len(m), NEW j \in 1..Len(m),
           m[i] \in RequestLines, m[j] \in RequestLines
    PROVE  i = j
<1> DEFINE end == HeadersEnd(m)
<1>1. Len(m) \in Nat /\ end \in Nat /\ end <= Len(m)
  BY RequestTypes
<1>2. /\ \A k \in 1..Len(m) : m[k] = "B" <=> k > end
      /\ \A k \in 1..end : m[k] \in RequestLines \cup Headers <=> Names(m, k)
      /\ \A k \in 1..end : Names(m, k) => (m[k] \in RequestLines <=> \A n \in 1..(k - 1) : m[n] = "x")
  BY DEF Request
<1> HIDE DEF end
<1>3. "B" \notin RequestLines /\ "x" \notin RequestLines
  BY TokensApart
<1>4. ASSUME NEW k \in 1..Len(m), m[k] \in RequestLines PROVE \A n \in 1..(k - 1) : m[n] = "x"
  <2>1. k \in 1..end
    BY <1>1, <1>2, <1>3, <1>4
  <2> QED
    BY <1>2, <1>4, <2>1
<1>5. ~(i < j) /\ ~(j < i)
  <2>1. ASSUME i < j PROVE FALSE
    <3>1. i \in 1..(j - 1)
      BY <1>1, <2>1
    <3> QED
      BY <1>3, <1>4, <3>1
  <2>2. ASSUME j < i PROVE FALSE
    <3>1. j \in 1..(i - 1)
      BY <1>1, <2>2
    <3> QED
      BY <1>3, <1>4, <3>1
  <2> QED
    BY <2>1, <2>2
<1> QED
  BY <1>1, <1>5

\* A line that is not the last of the headers leaves some of them to come; the
\* empty line is the last.
LEMMA EndOfHeaders ==
    ASSUME NEW m, Request(m), \A i \in 1..Len(m) : m[i] # "bad",
           NEW l \in Nat, l + 2 <= HeadersEnd(m), m[l + 1] = "CR", m[l + 2] = "LF", l > 0
    PROVE  l + 2 = HeadersEnd(m) <=> m[l] = "LF"
<1> DEFINE end == HeadersEnd(m)
<1>1. Len(m) \in Nat /\ end \in Nat /\ end > 0 /\ end <= Len(m)
  BY RequestTypes
<1>2. \A i \in 1..(end - 1) : m[i] = "LF" /\ m[i + 1] = "CR" <=> i = end - 2
  BY <1>1 DEF Request
<1> HIDE DEF end
<1>3. l \in 1..(end - 1)
  BY <1>1 DEF end
<1>4. l + 2 = end <=> l = end - 2
  BY <1>1
<1> QED
  BY <1>2, <1>3, <1>4 DEF end

-----------------------------------------------------------------------------
(* What parse_line() finds *)

\* parse_line() stops at the first CR or LF, or at the end of what has been read.
LEMMA LineStopIsFirst ==
    ASSUME BufferInv, m_checked_index <= Len(m_read_buf)
    PROVE  /\ LineStop \in Nat /\ m_checked_index <= LineStop /\ LineStop <= Len(m_read_buf)
           /\ \A i \in m_checked_index..(LineStop - 1) : Byte(i) \notin {"CR", "LF"}
           /\ LineStop < Len(m_read_buf) => Byte(LineStop) \in {"CR", "LF"}
<1>1. m_checked_index \in Nat /\ m_read_index \in Nat /\ m_read_index = Len(m_read_buf)
  BY DEF BufferInv, m_read_index
<1> DEFINE ends == {i \in m_checked_index..(m_read_index - 1) : Byte(i) \in {"CR", "LF"}}
<1>2. /\ ends \in SUBSET Nat
      /\ \A i \in ends : m_checked_index <= i /\ i < m_read_index /\ Byte(i) \in {"CR", "LF"}
      /\ \A i \in m_checked_index..(m_read_index - 1) : i \notin ends => Byte(i) \notin {"CR", "LF"}
  BY <1>1
<1>3. LineStop = IF ends = {} THEN m_read_index ELSE CHOOSE i \in ends : \A j \in ends : i <= j
  BY DEF LineStop
<1> HIDE DEF ends
<1>4. CASE ends # {}
  <2>1. PICK x \in ends : \A y \in ends : ~(<<y, x>> \in OpToRel(<, Nat))
    BY <1>2, <1>4, WFMin, NatLessThanWellFounded, Zenon
  <2>2. \A y \in ends : <<y, x>> \in Nat \X Nat
    BY <1>2
  <2>3. \A y \in ends : ~(y < x)
    BY <2>1, <2>2 DEF OpToRel
  <2>4. \A y \in ends : x <= y
    BY <1>2, <2>3
  <2>5. LineStop \in ends /\ \A y \in ends : LineStop <= y
    BY <1>3, <1>4, <2>4
  <2>6. PICK l \in Nat : l = LineStop /\ l < m_read_index /\ m_checked_index <= l
    BY <1>2, <2>5
  <2>7. ASSUME NEW i \in m_checked_index..(l - 1) PROVE Byte(i) \notin {"CR", "LF"}
    <3>1. i \in m_checked_index..(m_read_index - 1) /\ i \in Nat /\ ~(l <= i)
      BY <1>1, <2>6
    <3> QED
      BY <1>2, <2>5, <2>6, <3>1
  <2> QED
    BY <1>1, <1>2, <2>5, <2>6, <2>7
<1>5. CASE ends = {}
  <2>1. LineStop = m_read_index
    BY <1>3, <1>5
  <2> QED
    BY <1>1, <1>2, <1>5, <2>1
<1> QED
  BY <1>4, <1>5

\* Where parse_line() stops in a request is the CR of the line it is at: no pass
\* over a part of the line has gone beyond it, and an LF is never met first.
LEMMA LineStopsAtCr ==
    ASSUME BufferInv, Request(message), Parsing, m_check_stat # "CONTENT",
           LineStop < m_read_index
    PROVE  /\ LineStop \in Nat /\ m_start_line <= LineStop /\ LineStop < Len(m_read_buf)
           /\ Len(m_read_buf) <= Len(message)
           /\ message[LineStop + 1] = "CR" /\ LineCr = LineStop /\ Byte(LineStop) = "CR"
           /\ m_start_line = 0 \/ message[m_start_line] = "LF"
           /\ \A i \in (m_start_line + 1)..LineStop : message[i] \notin {"CR", "LF"}
           /\ \A i \in m_start_line..(Len(m_read_buf) - 1) : Byte(i) = message[i + 1]
<1> DEFINE s == m_start_line
           c == m_checked_index
           r == Len(m_read_buf)
<1>1. /\ s \in Nat /\ c \in Nat /\ r \in Nat
      /\ s <= c /\ c <= r /\ m_read_index = r
      /\ \A i \in (s + 1)..r : m_read_buf[i] = message[i]
      /\ \A i \in (s + 1)..c : message[i] \notin {"CR", "LF"}
      /\ s = 0 \/ message[s] = "LF"
  BY DEF BufferInv, Parsing, Scanned, AtRequestLine, AtHeader, m_read_index
<1>2. PICK l \in Nat :
         /\ l = LineStop /\ c <= l /\ l <= r
         /\ \A i \in c..(l - 1) : Byte(i) \notin {"CR", "LF"}
         /\ l < r => Byte(l) \in {"CR", "LF"}
  BY <1>1, LineStopIsFirst
<1>3. r <= Len(message) /\ Len(message) \in Nat
  <2>1. /\ Len(message) \in Nat /\ Len(inbox) \in Nat /\ Len(unsent) \in Nat
        /\ r + Len(inbox) + Len(unsent) = Len(message)
    BY <1>1, RequestTypes DEF BufferInv, Parsing, Pieces
  <2> QED
    BY <2>1
<1>4. \A i \in s..(r - 1) : Byte(i) = message[i + 1]
  BY <1>1 DEF Byte
<1>5. \A i \in (s + 1)..l : message[i] \notin {"CR", "LF"}
  <2> SUFFICES ASSUME NEW i \in (s + 1)..l PROVE message[i] \notin {"CR", "LF"}
    OBVIOUS
  <2>1. CASE i <= c
    BY <1>1, <2>1
  <2>2. CASE ~(i <= c)
    <3>1. i - 1 \in c..(l - 1) /\ i - 1 \in s..(r - 1) /\ (i - 1) + 1 = i
      BY <1>1, <1>2, <2>2
    <3> QED
      BY <1>2, <1>4, <3>1
  <2> QED
    BY <2>1, <2>2
<1>6. l < r
  BY <1>1, <1>2
<1>7. Byte(l) = message[l + 1] /\ Byte(l) \in {"CR", "LF"}
  BY <1>1, <1>2, <1>4, <1>6
<1>8. message[l + 1] # "LF"
  <2> SUFFICES ASSUME message[l + 1] = "LF" PROVE FALSE
    OBVIOUS
  <2>1. /\ \A i \in 1..HeadersEnd(message) : message[i] = "LF" <=> i > 1 /\ message[i - 1] = "CR"
        /\ \A i \in 1..Len(message) : message[i] = "B" <=> i > HeadersEnd(message)
    BY DEF Request
  <2>2. l + 1 \in 1..HeadersEnd(message)
    <3>1. l + 1 \in 1..Len(message) /\ HeadersEnd(message) \in Nat
      BY <1>3, <1>6, RequestTypes
    <3>2. ~(l + 1 > HeadersEnd(message))
      BY <2>1, <3>1
    <3> QED
      BY <3>1, <3>2
  <2>3. l + 1 > 1 /\ message[l] = "CR"
    <3>1. (l + 1) - 1 = l
      OBVIOUS
    <3> QED
      BY <2>1, <2>2, <3>1
  <2>4. ~(l \in (s + 1)..l)
    BY <1>5, <2>3
  <2>5. l = s
    BY <1>1, <1>2, <2>4
  <2> QED
    BY <1>1, <2>3, <2>5
<1>9. Byte(l) = "CR" /\ LineCr = l
  BY <1>2, <1>7, <1>8 DEF LineCr
<1>10. l = LineStop /\ s <= l /\ message[l + 1] = "CR"
  BY <1>1, <1>2, <1>7, <1>9
<1> QED
  BY <1>1, <1>3, <1>4, <1>5, <1>6, <1>9, <1>10

\* The line parse_line() has completed is a line of the request.
LEMMA LineIsOfRequest ==
    ASSUME BufferInv, Request(message), Parsing, m_check_stat # "CONTENT", LineStatus = "LINE_OK"
    PROVE  /\ LineCr \in Nat /\ m_start_line <= LineCr /\ LineCr + 2 <= Len(m_read_buf)
           /\ Len(m_read_buf) <= Len(message)
           /\ message[LineCr + 1] = "CR" /\ message[LineCr + 2] = "LF"
           /\ m_start_line = 0 \/ message[m_start_line] = "LF"
           /\ \A i \in (m_start_line + 1)..LineCr : message[i] \notin {"CR", "LF"}
<1> DEFINE s == m_start_line
           r == Len(m_read_buf)
           l == LineStop
<1>1. s \in Nat /\ r \in Nat /\ m_read_index = r /\ l \in Nat /\ l <= r
  BY LineStopIsFirst DEF BufferInv, Parsing, Scanned, m_read_index
<1>2. l < r
  BY <1>1 DEF LineStatus
<1>3. /\ s <= l /\ r <= Len(message)
      /\ message[l + 1] = "CR" /\ LineCr = l /\ Byte(l) = "CR"
      /\ s = 0 \/ message[s] = "LF"
      /\ \A i \in (s + 1)..l : message[i] \notin {"CR", "LF"}
      /\ \A i \in s..(r - 1) : Byte(i) = message[i + 1]
  BY <1>1, <1>2, LineStopsAtCr
<1>4. l + 1 # r /\ Byte(l + 1) = "LF"
  BY <1>1, <1>2, <1>3 DEF LineStatus
<1>5. l + 2 <= r /\ message[l + 2] = "LF"
  <2>1. l + 1 \in s..(r - 1) /\ (l + 1) + 1 = l + 2 /\ l + 2 <= r
    BY <1>1, <1>2, <1>3, <1>4
  <2> QED
    BY <1>3, <1>4, <2>1
<1> QED
  BY <1>1, <1>3, <1>5

\* In a request that has been read completely every line is complete.
LEMMA LineIsWhole ==
    ASSUME BufferInv, Request(message), Parsing, m_check_stat # "CONTENT",
           Len(m_read_buf) = Len(message)
    PROVE  LineStatus = "LINE_OK"
<1> DEFINE s == m_start_line
           c == m_checked_index
           r == Len(m_read_buf)
           l == LineStop
           end == HeadersEnd(message)
<1>1. /\ s \in Nat /\ c \in Nat /\ r \in Nat /\ m_read_index = r
      /\ s <= c /\ c <= r
      /\ \A i \in (s + 1)..r : m_read_buf[i] = message[i]
      /\ \A i \in (s + 1)..c : message[i] \notin {"CR", "LF"}
      /\ s = 0 \/ message[s] = "LF"
  BY DEF BufferInv, Parsing, Scanned, AtRequestLine, AtHeader, m_read_index
<1>2. end \in Nat /\ end > 0 /\ end <= r
  BY <1>1, RequestTypes
<1>3. s < end
  BY <1>2 DEF Parsing, AtRequestLine, AtHeader
<1>4. /\ message[end] = "LF"
      /\ \A i \in 1..end : message[i] = "LF" <=> i > 1 /\ message[i - 1] = "CR"
  BY DEF Request
<1> HIDE DEF end
<1>5. end > 1 /\ message[end - 1] = "CR"
  <2>1. end \in 1..end
    BY <1>2
  <2> QED
    BY <1>4, <2>1
<1>6. s <= end - 2
  <2>1. s # end - 1
    BY <1>1, <1>2, <1>5
  <2> QED
    BY <1>1, <1>2, <1>3, <2>1
<1>7. c <= end - 2
  <2>1. ~(end - 1 \in (s + 1)..c)
    BY <1>1, <1>5
  <2> QED
    BY <1>1, <1>2, <1>6, <2>1
<1>8. /\ l \in Nat /\ c <= l /\ l <= r
      /\ \A i \in c..(l - 1) : Byte(i) \notin {"CR", "LF"}
  BY <1>1, LineStopIsFirst
<1>9. Byte(end - 2) = "CR"
  <2>1. (end - 2) + 1 = end - 1 /\ end - 1 \in (s + 1)..r
    BY <1>1, <1>2, <1>6
  <2> QED
    BY <1>1, <1>5, <2>1 DEF Byte
<1>10. l <= end - 2
  <2>1. ~(end - 2 \in c..(l - 1))
    BY <1>8, <1>9
  <2> QED
    BY <1>1, <1>2, <1>7, <1>8, <2>1
<1>11. l < m_read_index
  BY <1>1, <1>2, <1>8, <1>10
<1>12. /\ s <= l /\ message[l + 1] = "CR" /\ Byte(l) = "CR"
       /\ \A i \in s..(r - 1) : Byte(i) = message[i + 1]
  BY <1>11, LineStopsAtCr
<1>13. Byte(l + 1) = "LF"
  <2>1. /\ l + 1 \in s..(r - 1) /\ (l + 1) + 1 = l + 2
        /\ l + 2 \in 1..end /\ (l + 2) - 1 = l + 1 /\ l + 2 > 1
    BY <1>1, <1>2, <1>8, <1>10, <1>12
  <2>2. message[l + 2] = "LF"
    BY <1>4, <1>12, <2>1
  <2> QED
    BY <1>12, <2>1, <2>2
<1>14. l + 1 # m_read_index /\ l # m_read_index
  BY <1>1, <1>2, <1>8, <1>10
<1> QED
  BY <1>11, <1>12, <1>13, <1>14 DEF LineStatus

\* What the parser makes of such a line: its last token, or that it is empty.
LEMMA LineSays ==
    ASSUME BufferInv, Request(message), Parsing,
           NEW l \in Nat, l = LineCr, m_start_line <= l, l + 2 <= Len(m_read_buf),
           m_start_line < l => /\ message[l] \in RequestLines \cup Headers
                               /\ \A j \in (m_start_line + 1)..(l - 1) : message[j] = "x"
    PROVE  IF m_start_line < l THEN ~EmptyLine /\ Line = message[l] ELSE EmptyLine
<1> DEFINE s == m_start_line
           r == Len(m_read_buf)
           text == Text
<1>1. /\ s \in Nat /\ r \in Nat /\ m_read_buf \in Seq(Tokens)
      /\ \A i \in (s + 1)..r : m_read_buf[i] = message[i]
  BY DEF BufferInv, Parsing, Scanned
<1>2. /\ text \in Seq(Tokens) /\ Len(text) = l - s
      /\ \A k \in 1..(l - s) : text[k] = message[s + k]
  <2>1. s + 1 \in 1..(Len(m_read_buf) + 1) /\ l \in ((s + 1) - 1)..Len(m_read_buf)
    BY <1>1
  <2>2. /\ SubSeq(m_read_buf, s + 1, l) \in Seq(Tokens)
        /\ Len(SubSeq(m_read_buf, s + 1, l)) = l - (s + 1) + 1
        /\ \A k \in 1..(l - (s + 1) + 1) : SubSeq(m_read_buf, s + 1, l)[k] = m_read_buf[(s + 1) + k - 1]
    BY <1>1, <2>1, SubSeqProperties
  <2>3. \A k \in 1..(l - s) : s + k \in (s + 1)..r /\ (s + 1) + k - 1 = s + k
    BY <1>1
  <2>4. l - (s + 1) + 1 = l - s
    BY <1>1
  <2>5. Text = SubSeq(m_read_buf, s + 1, l)
    BY <1>1 DEF Text
  <2> QED
    BY <1>1, <2>2, <2>3, <2>4, <2>5
<1>3. CASE s < l
  <2>1. PICK n \in Nat : n = l - s /\ n > 0 /\ s + n = l
    BY <1>1, <1>3
  <2>2. /\ DOMAIN text = 1..n /\ Len(text) = n /\ text # <<>> /\ text[n] = message[l]
        /\ \A k \in 1..(n - 1) : text[k] = "x"
    <3>1. \A k \in 1..(n - 1) : s + k \in (s + 1)..(l - 1) /\ k \in 1..(l - s)
      BY <1>1, <2>1
    <3>2. n \in 1..(l - s)
      BY <2>1
    <3>3. \A k \in 1..(n - 1) : text[k] = "x"
      BY <1>2, <1>3, <3>1
    <3>4. text[n] = message[l]
      BY <1>2, <2>1, <3>2
    <3>5. DOMAIN text = 1..n /\ Len(text) = n /\ text # <<>>
      BY <1>2, <2>1
    <3> QED
      BY <3>3, <3>4, <3>5
  <2>3. message[l] \in RequestLines \cup Headers /\ message[l] # "x" /\ message[l] # "NUL"
    BY <1>1, <1>3, TokensApart
  <2>4. text[1] # "NUL"
    BY <2>1, <2>2, <2>3
  <2> DEFINE names ==
        {k \in DOMAIN text : /\ \A j \in 1..(k - 1) : text[j] = "x"
                             /\ text[k] # "x"
                             /\ k = Len(text) \/ text[k + 1] = "NUL"}
  <2>5. names = {n}
    <3>1. n \in names
      BY <2>1, <2>2, <2>3
    <3>2. ASSUME NEW k \in names PROVE k = n
      BY <2>1, <2>2, <3>2
    <3> QED
      BY <3>1, <3>2
  <2>6. Line = IF names = {} THEN "x" ELSE text[CHOOSE k \in names : TRUE]
    BY DEF Line
  <2> HIDE DEF names
  <2>7. Line = message[l]
    BY <2>2, <2>5, <2>6
  <2> QED
    BY <1>1, <1>2, <1>3, <2>2, <2>4, <2>7 DEF EmptyLine
<1>4. CASE ~(s < l)
  <2>1. Len(text) = 0
    BY <1>1, <1>2, <1>4
  <2>2. text = <<>>
    BY <1>2, <2>1
  <2> QED
    BY <1>1, <1>2, <1>4, <2>2 DEF EmptyLine
<1> QED
  BY <1>3, <1>4

-----------------------------------------------------------------------------
(* The steps of process_read() *)

\* read() takes what has arrived.
LEMMA ReadParses ==
    ASSUME BufferInv, Parsing, Request(message), Read, pc' = "parse"
    PROVE  Parsing'
<1>1. /\ m_read_buf' = m_read_buf \o inbox /\ inbox' = <<>> /\ inbox # <<>>
      /\ UNCHANGED <<m_checked_index, m_start_line, m_check_stat, m_route, m_content_length>>
      /\ UNCHANGED <<message, unsent>>
  BY DEF Read, parser
<1> DEFINE r == Len(m_read_buf)
           n == Len(inbox)
<1>2. /\ r \in Nat /\ n \in Nat /\ n > 0 /\ Len(unsent) \in Nat /\ Len(message) \in Nat
      /\ m_read_buf \in Seq(Tokens) /\ inbox \in Seq(Tokens)
  BY <1>1, RequestTypes DEF BufferInv
<1>3. /\ Len(m_read_buf') = r + n
      /\ \A i \in 1..(r + n) : m_read_buf'[i] = IF i <= r THEN m_read_buf[i] ELSE inbox[i - r]
  BY <1>1, <1>2, ConcatProperties
<1>4. Len(inbox') = 0
  BY <1>1
<1>5. /\ r + n + Len(unsent) = Len(message)
      /\ \A i \in 1..n : inbox[i] = message[r + i]
      /\ \A i \in 1..Len(unsent) : unsent[i] = message[r + n + i]
      /\ Cut(r + n)
  BY DEF Parsing, Pieces
<1>6. Pieces'
  <2>1. Len(m_read_buf') = r + n /\ Len(m_read_buf') + Len(inbox') = r + n
    BY <1>2, <1>3, <1>4
  <2>2. Cut(Len(m_read_buf))' /\ Cut(Len(m_read_buf) + Len(inbox))'
    BY <1>1, <1>5, <2>1 DEF Cut
  <2>3. \A i \in 1..Len(inbox') : FALSE
    BY <1>4
  <2>4. /\ (r + n) + Len(unsent') = Len(message')
        /\ \A i \in 1..Len(unsent') : unsent'[i] = message'[(r + n) + i]
    BY <1>1, <1>5
  <2> QED
    BY <2>1, <2>2, <2>3, <2>4 DEF Pieces
<1>7. Scanned'
  <2>1. /\ m_start_line \in Nat /\ m_checked_index \in Nat
        /\ m_start_line <= m_checked_index /\ m_checked_index <= r
        /\ \A i \in (m_start_line + 1)..r : m_read_buf[i] = message[i]
        /\ \A i \in (m_start_line + 1)..m_checked_index : message[i] \notin {"CR", "LF"}
    BY DEF BufferInv, Parsing, Scanned
  <2>2. ASSUME NEW i \in (m_start_line + 1)..(r + n) PROVE m_read_buf'[i] = message[i]
    <3>1. i \in 1..(r + n)
      BY <1>2, <2>1
    <3>2. CASE i <= r
      BY <1>3, <2>1, <3>1, <3>2
    <3>3. CASE ~(i <= r)
      <4>1. i - r \in 1..n /\ r + (i - r) = i
        BY <1>2, <3>1, <3>3
      <4> QED
        BY <1>3, <1>5, <3>1, <3>3, <4>1
    <3> QED
      BY <3>2, <3>3
  <2>3. m_checked_index <= r + n
    BY <1>2, <2>1
  <2> QED
    BY <1>1, <1>3, <2>1, <2>2, <2>3 DEF Scanned
<1>8. m_check_stat # "CONTENT"
  BY <1>2, <1>5 DEF Parsing, AtContent
<1> QED
  BY <1>1, <1>6, <1>7, <1>8 DEF Parsing, AtRequestLine, AtHeader, Routed

\* The parser goes back to reading in the middle of a line.
LEMMA MoreParses ==
    ASSUME BufferInv, Parsing, ParseMore
    PROVE  Parsing'
<1>1. /\ m_checked_index' = LineStop /\ m_check_stat # "CONTENT"
      /\ UNCHANGED <<m_read_buf, m_start_line, m_check_stat, m_route, m_content_length>>
      /\ UNCHANGED <<message, unsent, inbox>>
  BY DEF ParseMore, client
<1>2. /\ m_start_line \in Nat /\ m_checked_index \in Nat /\ Len(m_read_buf) \in Nat
      /\ m_start_line <= m_checked_index /\ m_checked_index <= Len(m_read_buf)
      /\ \A i \in (m_start_line + 1)..Len(m_read_buf) : m_read_buf[i] = message[i]
      /\ \A i \in (m_start_line + 1)..m_checked_index : message[i] \notin {"CR", "LF"}
  BY DEF BufferInv, Parsing, Scanned
<1>3. /\ LineStop \in Nat /\ m_checked_index <= LineStop /\ LineStop <= Len(m_read_buf)
      /\ \A i \in m_checked_index..(LineStop - 1) : Byte(i) \notin {"CR", "LF"}
  BY <1>2, LineStopIsFirst
<1>4. ASSUME NEW i \in (m_start_line + 1)..LineStop PROVE message[i] \notin {"CR", "LF"}
  <2>1. CASE i <= m_checked_index
    BY <1>2, <2>1
  <2>2. CASE ~(i <= m_checked_index)
    <3>1. /\ i - 1 \in m_checked_index..(LineStop - 1) /\ (i - 1) + 1 = i
          /\ i \in (m_start_line + 1)..Len(m_read_buf)
      BY <1>2, <1>3, <2>2
    <3>2. Byte(i - 1) = message[i]
      BY <1>2, <3>1 DEF Byte
    <3> QED
      BY <1>3, <3>1, <3>2
  <2> QED
    BY <2>1, <2>2
<1>5. Scanned'
  BY <1>1, <1>2, <1>3, <1>4 DEF Scanned
<1>6. Pieces'
  BY <1>1 DEF Parsing, Pieces, Cut
<1> QED
  BY <1>1, <1>5, <1>6 DEF Parsing, AtRequestLine, AtHeader, Routed

\* The parser goes on behind a line.
LEMMA LineParses ==
    ASSUME BufferInv, Parsing, Request(message), EndLine, UNCHANGED client
    PROVE  /\ Pieces' /\ Scanned'
           /\ m_start_line' = LineCr + 2 /\ m_checked_index' = LineCr + 2
           /\ Len(m_read_buf') = Len(m_read_buf)
<1>1. /\ m_start_line' = LineCr + 2 /\ m_checked_index' = LineCr + 2
      /\ m_read_buf' = [m_read_buf EXCEPT ![LineCr + 1] = "NUL", ![LineCr + 2] = "NUL"]
      /\ m_check_stat # "CONTENT" /\ LineStatus = "LINE_OK"
      /\ UNCHANGED <<message, unsent, inbox>>
  BY DEF EndLine, client
<1>2. /\ LineCr \in Nat /\ m_start_line <= LineCr /\ LineCr + 2 <= Len(m_read_buf)
  BY <1>1, LineIsOfRequest
<1>3. Len(m_read_buf') = Len(m_read_buf) /\ m_read_buf \in Seq(Tokens) /\ Len(m_read_buf) \in Nat
  BY EndLineKeeps DEF BufferInv
<1>4. m_start_line \in Nat /\ \A i \in (m_start_line + 1)..Len(m_read_buf) : m_read_buf[i] = message[i]
  BY DEF Parsing, Scanned
<1>5. ASSUME NEW i \in (LineCr + 2 + 1)..Len(m_read_buf) PROVE m_read_buf'[i] = message[i]
  <2>1. /\ i \in (m_start_line + 1)..Len(m_read_buf) /\ i # LineCr + 1 /\ i # LineCr + 2
        /\ i \in DOMAIN m_read_buf
    BY <1>2, <1>3, <1>4
  <2> QED
    BY <1>1, <1>4, <2>1
<1>6. \A i \in (LineCr + 2 + 1)..(LineCr + 2) : FALSE
  BY <1>2
<1>7. Scanned'
  BY <1>1, <1>2, <1>3, <1>5, <1>6 DEF Scanned
<1>8. Pieces'
  <2>1. /\ Cut(Len(m_read_buf))' <=> Cut(Len(m_read_buf))
        /\ Cut(Len(m_read_buf) + Len(inbox))' <=> Cut(Len(m_read_buf) + Len(inbox))
    BY <1>1, <1>3 DEF Cut
  <2>2. Len(m_read_buf') + Len(inbox') = Len(m_read_buf) + Len(inbox)
    BY <1>1, <1>3
  <2> QED
    BY <1>1, <1>3, <2>1, <2>2 DEF Parsing, Pieces
<1> QED
  BY <1>1, <1>3, <1>7, <1>8

\* What has been read beyond the headers is all there is.
LEMMA AllRead ==
    ASSUME BufferInv, Pieces, Request(message), HeadersEnd(message) <= Len(m_read_buf)
    PROVE  Len(m_read_buf) = Len(message) /\ inbox = <<>> /\ unsent = <<>>
<1>1. /\ Len(m_read_buf) \in Nat /\ Len(inbox) \in Nat /\ Len(unsent) \in Nat /\ Len(message) \in Nat
      /\ HeadersEnd(message) \in Nat
      /\ Len(m_read_buf) + Len(inbox) + Len(unsent) = Len(message)
      /\ inbox \in Seq(Tokens) /\ unsent \in Seq(Tokens)
  BY RequestTypes DEF BufferInv, Pieces
<1>2. Len(m_read_buf) = Len(message)
  BY <1>1 DEF Pieces, Cut
<1>3. Len(inbox) = 0 /\ Len(unsent) = 0
  BY <1>1, <1>2
<1> QED
  BY <1>1, <1>2, <1>3

\* The outcome a request deserves, by its route.
LEMMA ExpectedOfRoute ==
    ASSUME NEW m, Request(m), NEW i \in 1..Len(m), m[i] \in RequestLines
    PROVE  /\ m[i] = "bad" => Expected(m) = {"BAD_REQUEST"}
           /\ m[i] = "get" => Expected(m) = Handled
           /\ m[i] = "put" /\ Declared(m) = 0 => Expected(m) = {"NO_RESOURCE"}
           /\ m[i] = "post" \/ (m[i] = "put" /\ Declared(m) # 0) =>
                 LET end == Declared(m) + HeadersEnd(m) IN
                 /\ end > INT_MAX \/ Len(m) >= end => Handled \subseteq Expected(m)
                 /\ end > INT_MAX \/ Len(m) < end => "BAD_REQUEST" \in Expected(m)
<1>1. DOMAIN m = 1..Len(m)
  BY RequestTypes
<1>2. \A j \in 1..Len(m) : m[j] \in RequestLines => m[j] = m[i]
  BY OneRequestLine
<1>3. {"bad", "get", "put"} \subseteq RequestLines
  BY DEF RequestLines
<1>4. /\ (\E j \in DOMAIN m : m[j] = "bad") <=> m[i] = "bad"
      /\ (\E j \in DOMAIN m : m[j] = "get") <=> m[i] = "get"
      /\ (\E j \in DOMAIN m : m[j] = "put") <=> m[i] = "put"
  BY <1>1, <1>2, <1>3
<1> DEFINE end == Declared(m) + HeadersEnd(m)
           either == {code \in Handled : end > INT_MAX \/ Len(m) >= end}
                       \cup {code \in {"BAD_REQUEST"} : end > INT_MAX \/ Len(m) < end}
<1>5. Expected(m) = CASE m[i] = "bad"                      -> {"BAD_REQUEST"}
                      [] m[i] = "get"                      -> Handled
                      [] m[i] = "put" /\ Declared(m) = 0   -> {"NO_RESOURCE"}
                      [] OTHER                             -> either
  BY <1>4 DEF Expected
<1>6. m[i] = "post" \/ (m[i] = "put" /\ Declared(m) # 0) => Expected(m) = either
  BY <1>5
<1>7. /\ end > INT_MAX \/ Len(m) >= end => Handled \subseteq either
      /\ end > INT_MAX \/ Len(m) < end => "BAD_REQUEST" \in either
  OBVIOUS
<1> HIDE DEF either
<1> QED
  BY <1>5, <1>6, <1>7

\* A request that is answered is complete, and the answer is the one it deserves.
Answering == unsent = <<>> /\ inbox = <<>> /\ ret \in Expected(message)

\* The request line gives the route, or the answer that it is no HTTP.
LEMMA RequestLineStep ==
    ASSUME BufferInv, Parsing, Request(message), ParseRequestLine
    PROVE  \/ GoOn /\ Parsing'
           \/ pc' = "out" /\ Answering'
<1>1. /\ m_check_stat = "REQUESTLINE" /\ EndLine /\ LineStatus = "LINE_OK"
      /\ UNCHANGED client /\ UNCHANGED m_content_length
  BY DEF ParseRequestLine, EndLine
<1>2. m_start_line = 0 /\ m_content_length = 0
  BY <1>1 DEF Parsing, AtRequestLine
<1> DEFINE l == LineCr
<1>3. /\ l \in Nat /\ l + 2 <= Len(m_read_buf) /\ Len(m_read_buf) <= Len(message) /\ 0 <= l
      /\ message[l + 1] = "CR" /\ message[l + 2] = "LF"
      /\ \A i \in (0 + 1)..l : message[i] \notin {"CR", "LF"}
  BY <1>1, <1>2, LineIsOfRequest
<1>4. Len(message) \in Nat /\ Len(m_read_buf) \in Nat /\ l + 2 <= Len(message)
  <2>1. Len(message) \in Nat /\ Len(m_read_buf) \in Nat
    BY RequestTypes DEF BufferInv
  <2> QED
    BY <1>3, <2>1
<1>5. /\ l + 2 <= HeadersEnd(message) /\ 0 < l
      /\ Names(message, l) /\ message[l] \in RequestLines \cup Headers
      /\ \A j \in (0 + 1)..(l - 1) : message[j] = "x"
  <2>1. /\ l + 2 <= HeadersEnd(message)
        /\ 0 < l => /\ Names(message, l) /\ message[l] \in RequestLines \cup Headers
                    /\ \A j \in (0 + 1)..(l - 1) : message[j] = "x"
        /\ 0 = l => 0 > 0
    <3> HIDE DEF l
    <3> QED
      BY <1>3, <1>4, LineOfRequest
  <2> QED
    BY <1>3, <2>1
<1>6. message[l] \in RequestLines /\ l \in 1..HeadersEnd(message) /\ l \in 1..Len(message)
  <2>1. l \in 1..HeadersEnd(message) /\ l \in 1..Len(message)
    BY <1>3, <1>4, <1>5, RequestTypes
  <2>2. \A j \in 1..(l - 1) : message[j] = "x"
    BY <1>5
  <2> QED
    BY <1>5, <2>1, <2>2 DEF Request
<1>7. Line = message[l]
  <2>1. IF m_start_line < l THEN ~EmptyLine /\ Line = message[l] ELSE EmptyLine
    BY <1>2, <1>3, <1>5, LineSays
  <2> QED
    BY <1>2, <1>5, <2>1
<1>8. /\ Pieces' /\ Scanned' /\ m_start_line' = l + 2 /\ Len(m_read_buf') = Len(m_read_buf)
  BY <1>1, LineParses
<1>9. UNCHANGED <<message, unsent, inbox>>
  BY <1>1 DEF client
<1>10. CASE message[l] = "bad"
  <2>1. pc' = "out" /\ ret' = "BAD_REQUEST"
    BY <1>7, <1>10 DEF ParseRequestLine, Answer
  <2>2. Len(message) = l + 2
    <3>1. \A i \in 1..HeadersEnd(message) : message[i] = "bad" => Len(message) = i + 2
      BY <1>6, <1>10 DEF Request
    <3> QED
      BY <1>6, <1>10, <3>1
  <2>3. HeadersEnd(message) <= Len(m_read_buf)
    <3>1. HeadersEnd(message) \in Nat /\ HeadersEnd(message) <= Len(message)
      BY RequestTypes
    <3> QED
      BY <1>3, <1>4, <2>2, <3>1
  <2>4. inbox = <<>> /\ unsent = <<>>
    BY <2>3, AllRead DEF Parsing
  <2>5. Expected(message) = {"BAD_REQUEST"}
    BY <1>6, <1>10, ExpectedOfRoute
  <2> QED
    BY <1>9, <2>1, <2>4, <2>5 DEF Answering
<1>11. CASE message[l] # "bad"
  <2>1. GoOn /\ m_route' = message[l] /\ m_check_stat' = "HEADER"
    BY <1>6, <1>7, <1>11 DEF ParseRequestLine
  <2>2. \A i \in 1..Len(message) : message[i] # "bad"
    BY <1>6, <1>11, OneRequestLine DEF RequestLines
  <2>3. l + 2 # HeadersEnd(message)
    <3>1. message[l] # "LF"
      BY <1>3, <1>5
    <3> QED
      BY <1>3, <1>5, <2>2, <3>1, EndOfHeaders
  <2>4. l + 2 < HeadersEnd(message) /\ l + 2 > 0
    BY <1>3, <1>5, <2>3, RequestTypes
  <2>5. \A i \in 1..(l + 2) : message[i] \notin DOMAIN ContentLength
    <3> SUFFICES ASSUME NEW i \in 1..(l + 2) PROVE message[i] \notin DOMAIN ContentLength
      OBVIOUS
    <3>1. i \in (0 + 1)..(l - 1) \/ i = l \/ i = l + 1 \/ i = l + 2
      BY <1>3
    <3>2. message[i] \in {"x", "CR", "LF"} \/ message[i] \in RequestLines
      BY <1>3, <1>5, <1>6, <3>1
    <3> QED
      BY <3>2, TokensApart DEF Headers
  <2>6. \E i \in 1..(l + 2) : message[i] = message[l]
    <3>1. l \in 1..(l + 2)
      BY <1>3, <1>5
    <3> QED
      BY <3>1
  <2>7. message[l] \in {"get", "post", "put"}
    BY <1>6, <1>11 DEF RequestLines
  <2>8. AtHeader'
    <3>1. Routed'
      BY <1>8, <1>9, <2>1, <2>6, <2>7 DEF Routed
    <3> HIDE DEF l
    <3> QED
      BY <1>1, <1>2, <1>3, <1>8, <1>9, <2>4, <2>5, <3>1 DEF AtHeader
  <2>9. Parsing'
    BY <1>8, <2>1, <2>8 DEF Parsing
  <2> QED
    BY <2>1, <2>9
<1> QED
  BY <1>10, <1>11

\* What a line of the headers is.
LEMMA HeaderLine ==
    ASSUME BufferInv, Parsing, Request(message), m_check_stat = "HEADER", LineStatus = "LINE_OK"
    PROVE  /\ LineCr \in Nat /\ LineCr + 2 <= Len(m_read_buf) /\ m_start_line <= LineCr
           /\ LineCr + 2 <= HeadersEnd(message) /\ m_start_line > 0
           /\ message[LineCr + 1] = "CR" /\ message[LineCr + 2] = "LF"
           /\ EmptyLine <=> m_start_line = LineCr
           /\ EmptyLine => LineCr + 2 = HeadersEnd(message)
           /\ ~EmptyLine => /\ LineCr + 2 < HeadersEnd(message)
                            /\ Line = message[LineCr] /\ Line \in Headers
                            /\ \A j \in (m_start_line + 1)..(LineCr - 1) : message[j] = "x"
<1> DEFINE l == LineCr
           s == m_start_line
<1>1. /\ s \in Nat /\ s > 0 /\ message[s] = "LF" /\ s < HeadersEnd(message)
      /\ Routed
  BY DEF Parsing, Scanned, AtHeader
<1>2. /\ l \in Nat /\ s <= l /\ l + 2 <= Len(m_read_buf) /\ Len(m_read_buf) <= Len(message)
      /\ message[l + 1] = "CR" /\ message[l + 2] = "LF"
      /\ \A i \in (s + 1)..l : message[i] \notin {"CR", "LF"}
  BY LineIsOfRequest
<1>3. /\ Len(message) \in Nat /\ Len(m_read_buf) \in Nat /\ l + 2 <= Len(message)
      /\ HeadersEnd(message) \in Nat /\ HeadersEnd(message) <= Len(message)
  <2>1. /\ Len(message) \in Nat /\ Len(m_read_buf) \in Nat
        /\ HeadersEnd(message) \in Nat /\ HeadersEnd(message) <= Len(message)
    BY RequestTypes DEF BufferInv
  <2> QED
    BY <1>2, <2>1
<1>4. /\ l + 2 <= HeadersEnd(message)
      /\ s < l => /\ Names(message, l) /\ message[l] \in RequestLines \cup Headers
                  /\ \A j \in (s + 1)..(l - 1) : message[j] = "x"
  <2> HIDE DEF l, s
  <2> QED
    BY <1>1, <1>2, <1>3, LineOfRequest
<1>5. IF s < l THEN ~EmptyLine /\ Line = message[l] ELSE EmptyLine
  BY <1>2, <1>4, LineSays
<1>6. \A i \in 1..Len(message) : message[i] # "bad"
  <2>1. PICK i \in 1..s : message[i] = m_route /\ m_route \in {"get", "post", "put"}
    BY <1>1 DEF Routed
  <2>2. i \in 1..Len(message)
    BY <1>1, <1>3
  <2> QED
    BY <2>1, <2>2, OneRequestLine DEF RequestLines
<1>7. l + 2 = HeadersEnd(message) <=> message[l] = "LF"
  <2>1. l > 0
    BY <1>1, <1>2
  <2> HIDE DEF l
  <2> QED
    BY <1>2, <1>4, <1>6, <2>1, EndOfHeaders
<1>8. ASSUME s < l PROVE message[l] # "LF" /\ message[l] \in Headers
  <2>1. l \in (s + 1)..l /\ l \in 1..HeadersEnd(message) /\ s \in 1..(l - 1)
    BY <1>1, <1>2, <1>3, <1>4, <1>8
  <2>2. message[l] \notin RequestLines
    <3>1. Names(message, l) => (message[l] \in RequestLines <=> \A j \in 1..(l - 1) : message[j] = "x")
      BY <2>1 DEF Request
    <3> QED
      BY <1>1, <1>4, <1>8, <2>1, <3>1
  <2> QED
    BY <1>2, <1>4, <1>8, <2>1, <2>2
<1>9. ~(s < l) => s = l
  BY <1>1, <1>2
<1> QED
  BY <1>1, <1>2, <1>3, <1>4, <1>5, <1>7, <1>8, <1>9

\* A header leaves the parser at the next line, with the length if it gives one.
LEMMA HeaderStep ==
    ASSUME BufferInv, Parsing, Request(message), ParseHeader
    PROVE  GoOn /\ Parsing'
<1>1. /\ m_check_stat = "HEADER" /\ EndLine /\ LineStatus = "LINE_OK" /\ ~EmptyLine
      /\ UNCHANGED <<client, m_check_stat, m_route>> /\ GoOn
      /\ m_content_length' = IF Line \in DOMAIN ContentLength
                             THEN ToInt(ContentLength[Line]) ELSE m_content_length
  BY DEF ParseHeader, EndLine
<1> DEFINE l == LineCr
           s == m_start_line
<1>2. /\ l \in Nat /\ s <= l /\ s > 0 /\ l + 2 < HeadersEnd(message) /\ s # l
      /\ message[l + 1] = "CR" /\ message[l + 2] = "LF"
      /\ Line = message[l] /\ Line \in Headers
      /\ \A j \in (s + 1)..(l - 1) : message[j] = "x"
  BY <1>1, HeaderLine
<1>3. s \in Nat /\ HeadersEnd(message) \in Nat /\ Routed
  BY <1>1, RequestTypes DEF Parsing, Scanned, AtHeader
<1>4. l \in 1..HeadersEnd(message) /\ l \in 1..(l + 2) /\ s < l
  BY <1>2, <1>3
<1>5. m_content_length = IF \E i \in 1..s : message[i] \in DOMAIN ContentLength
                         THEN Declared(message) ELSE 0
  BY <1>1 DEF Parsing, AtHeader
<1>6. /\ Pieces' /\ Scanned' /\ m_start_line' = l + 2
      /\ UNCHANGED <<message, m_check_stat, m_route>>
  BY <1>1, LineParses DEF client
<1>7. m_content_length' = IF \E i \in 1..(l + 2) : message[i] \in DOMAIN ContentLength
                          THEN Declared(message) ELSE 0
  <2>1. CASE Line \in DOMAIN ContentLength
    <3>1. ToInt(ContentLength[message[l]]) = Declared(message)
      BY <1>2, <1>4, <2>1 DEF Request
    <3> QED
      BY <1>1, <1>2, <1>4, <2>1, <3>1
  <2>2. CASE Line \notin DOMAIN ContentLength
    <3>1. ASSUME NEW i \in 1..(l + 2), message[i] \in DOMAIN ContentLength PROVE i \in 1..s
      <4>1. i \in 1..s \/ i \in (s + 1)..(l - 1) \/ i = l \/ i = l + 1 \/ i = l + 2
        BY <1>2, <1>3
      <4>2. {"x", "CR", "LF"} \cap DOMAIN ContentLength = {}
        BY TokensApart DEF Headers
      <4> QED
        BY <1>2, <2>2, <3>1, <4>1, <4>2
    <3>2. \A i \in 1..s : i \in 1..(l + 2)
      BY <1>2, <1>3
    <3> QED
      BY <1>1, <1>5, <2>2, <3>1, <3>2
  <2> QED
    BY <2>1, <2>2
<1>8. Routed'
  <2>1. \A i \in 1..s : i \in 1..(l + 2)
    BY <1>2, <1>3
  <2> QED
    BY <1>3, <1>6, <2>1 DEF Routed
<1>9. AtHeader'
  <2>1. l + 2 > 0
    BY <1>2
  <2> HIDE DEF l, s
  <2> QED
    BY <1>2, <1>6, <1>7, <1>8, <2>1 DEF AtHeader, HeadersEnd
<1> QED
  BY <1>1, <1>6, <1>9 DEF Parsing

\* A length that is not 0 is given in a header.
LEMMA DeclaredInHeaders ==
    ASSUME NEW m, Request(m), Declared(m) # 0
    PROVE  \E i \in 1..HeadersEnd(m) : m[i] \in DOMAIN ContentLength
<1>1. PICK i \in DOMAIN m : m[i] \in DOMAIN ContentLength
  BY DEF Declared
<1>2. /\ i \in 1..Len(m) /\ HeadersEnd(m) \in Nat /\ Len(m) \in Nat
      /\ m[i] = "B" <=> i > HeadersEnd(m)
  <2>1. i \in 1..Len(m) /\ HeadersEnd(m) \in Nat /\ Len(m) \in Nat
    BY RequestTypes
  <2> QED
    BY <2>1 DEF Request
<1>3. m[i] # "B"
  BY <1>1, TokensApart DEF Headers
<1> QED
  BY <1>1, <1>2, <1>3

\* The empty line: with it the whole request has been read.
LEMMA HeadersEndStep ==
    ASSUME BufferInv, Parsing, Request(message), ParseHeadersEnd
    PROVE  \/ GoOn /\ Parsing'
           \/ pc' = "out" /\ Answering'
<1>1. /\ m_check_stat = "HEADER" /\ EndLine /\ LineStatus = "LINE_OK" /\ EmptyLine
      /\ UNCHANGED <<client, m_content_length, m_route>>
  BY DEF ParseHeadersEnd, EndLine
<1> DEFINE l == LineCr
           s == m_start_line
<1>2. /\ l \in Nat /\ s = l /\ s > 0 /\ l + 2 = HeadersEnd(message) /\ l + 2 <= Len(m_read_buf)
      /\ message[l + 1] = "CR" /\ message[l + 2] = "LF"
  BY <1>1, HeaderLine
<1>3. Len(m_read_buf) = Len(message) /\ inbox = <<>> /\ unsent = <<>>
  <2>1. HeadersEnd(message) <= Len(m_read_buf)
    BY <1>2
  <2> QED
    BY <2>1, AllRead DEF Parsing
<1>4. /\ HeadersEnd(message) \in Nat /\ Len(message) \in Nat /\ HeadersEnd(message) <= Len(message)
  BY RequestTypes
<1>5. m_content_length = Declared(message)
  <2>1. m_content_length = IF \E i \in 1..s : message[i] \in DOMAIN ContentLength
                           THEN Declared(message) ELSE 0
    BY <1>1 DEF Parsing, AtHeader
  <2>2. ASSUME NEW i \in 1..HeadersEnd(message), message[i] \in DOMAIN ContentLength
        PROVE  i \in 1..s
    <3>1. i \in 1..s \/ i = l + 1 \/ i = l + 2
      BY <1>2
    <3>2. {"x", "CR", "LF"} \cap DOMAIN ContentLength = {}
      BY TokensApart DEF Headers
    <3> QED
      BY <1>2, <2>2, <3>1, <3>2
  <2>3. Declared(message) # 0 => \E i \in 1..HeadersEnd(message) : message[i] \in DOMAIN ContentLength
    BY DeclaredInHeaders
  <2> QED
    BY <2>1, <2>2, <2>3
<1>6. PICK i \in 1..s : message[i] = m_route /\ m_route \in {"get", "post", "put"}
  BY <1>1 DEF Parsing, AtHeader, Routed
<1>7. i \in 1..Len(message) /\ message[i] \in RequestLines /\ i \in 1..(l + 2)
  <2>1. i \in 1..Len(message) /\ i \in 1..(l + 2)
    BY <1>2, <1>4
  <2> QED
    BY <1>6, <2>1 DEF RequestLines
<1>8. /\ m_route = "put" /\ Declared(message) = 0 => Expected(message) = {"NO_RESOURCE"}
      /\ m_route = "get" => Expected(message) = Handled
  BY <1>6, <1>7, ExpectedOfRoute
<1>9. /\ Pieces' /\ Scanned' /\ m_start_line' = l + 2 /\ m_checked_index' = l + 2
      /\ Len(m_read_buf') = Len(m_read_buf) /\ UNCHANGED <<message, inbox, unsent>>
  BY <1>1, LineParses DEF client
<1>10. CASE m_route = "get" /\ Handle
  <2>1. pc' = "out" /\ ret' \in Handled
    BY <1>10 DEF Handle, Answer
  <2> QED
    BY <1>3, <1>8, <1>9, <1>10, <2>1 DEF Answering
<1>11. CASE /\ m_route = "post" \/ (m_route = "put" /\ m_content_length # 0)
            /\ m_check_stat' = "CONTENT" /\ GoOn
  <2>1. Routed'
    BY <1>1, <1>6, <1>7, <1>9 DEF Routed
  <2>2. AtContent'
    <3>1. /\ m_start_line' = HeadersEnd(message') /\ m_checked_index' = m_start_line'
          /\ Len(m_read_buf') = Len(message')
      BY <1>2, <1>3, <1>9
    <3>2. m_content_length' = Declared(message')
      BY <1>1, <1>5, <1>9
    <3>3. m_route' # "get" /\ (m_route' = "put" => m_content_length' # 0)
      BY <1>1, <1>11
    <3> QED
      BY <2>1, <3>1, <3>2, <3>3 DEF AtContent
  <2> QED
    BY <1>9, <1>11, <2>2 DEF Parsing
<1>12. CASE m_route = "put" /\ m_content_length = 0 /\ Answer("NO_RESOURCE")
  <2>1. pc' = "out" /\ ret' = "NO_RESOURCE"
    BY <1>12 DEF Answer
  <2> QED
    BY <1>3, <1>5, <1>8, <1>9, <1>12, <2>1 DEF Answering
<1> QED
  BY <1>10, <1>11, <1>12 DEF ParseHeadersEnd

\* The body is answered by what the headers say of its length.
LEMMA ContentStep ==
    ASSUME BufferInv, Parsing, Request(message), ParseContent
    PROVE  (pc' = "out" /\ Answering') \/ pc' = "lost"
<1>1. m_check_stat = "CONTENT" /\ AtContent /\ Pieces /\ UNCHANGED <<message, inbox, unsent>>
  BY DEF ParseContent, Parsing, client
<1> DEFINE end == Declared(message) + HeadersEnd(message)
<1>2. HeadersEnd(message) \in Nat /\ Len(message) \in Nat /\ HeadersEnd(message) <= Len(message)
      /\ Declared(message) \in Int /\ INT_MAX \in Int
  BY RequestTypes, LengthIsInt, HttpAssumption
<1>3. /\ m_checked_index = HeadersEnd(message) /\ m_content_length = Declared(message)
      /\ Len(m_read_buf) = Len(message) /\ m_start_line = HeadersEnd(message)
  BY <1>1 DEF AtContent
<1>4. /\ BodyTest(TRUE) => end > INT_MAX \/ Len(message) >= end
      /\ BodyTest(FALSE) => end > INT_MAX \/ Len(message) < end
  BY <1>2, <1>3 DEF BodyTest, m_read_index
<1>5. inbox = <<>> /\ unsent = <<>>
  <2>1. HeadersEnd(message) <= Len(m_read_buf)
    BY <1>2, <1>3
  <2> QED
    BY <1>1, <2>1, AllRead
<1>6. PICK i \in 1..m_start_line : message[i] = m_route /\ m_route \in {"get", "post", "put"}
  BY <1>1 DEF AtContent, Routed
<1>7. i \in 1..Len(message) /\ message[i] \in RequestLines
  <2>1. i \in 1..Len(message)
    BY <1>2, <1>3
  <2> QED
    BY <1>6, <2>1 DEF RequestLines
<1>8. m_route = "post" \/ (m_route = "put" /\ Declared(message) # 0)
  BY <1>1, <1>3, <1>6 DEF AtContent
<1>9. /\ end > INT_MAX \/ Len(message) >= end => Handled \subseteq Expected(message)
      /\ end > INT_MAX \/ Len(message) < end => "BAD_REQUEST" \in Expected(message)
  BY <1>6, <1>7, <1>8, ExpectedOfRoute
<1> HIDE DEF end
<1>10. \/ BodyTest(TRUE) /\ pc' = "out" /\ ret' \in Handled
       \/ BodyTest(FALSE) /\ pc' = "out" /\ ret' = "BAD_REQUEST"
       \/ pc' = "lost"
  BY DEF ParseContent, EndBody, Handle, Answer
<1>11. (ret' \in Expected(message) /\ pc' = "out") \/ pc' = "lost"
  BY <1>4, <1>9, <1>10
<1> QED
  BY <1>1, <1>5, <1>11 DEF Answering

\* A segment that arrives is the next of the request.
LEMMA SendPieces ==
    ASSUME BufferInv, Pieces, Request(message), ~BodySplit,
           NEW n \in 1..READ_BUFFER_SIZE, ClientSend(n)
    PROVE  Pieces'
<1> DEFINE r == Len(m_read_buf)
           k == Len(inbox)
           u == Len(unsent)
<1>1. /\ inbox' = inbox \o SubSeq(unsent, 1, n)
      /\ unsent' = SubSeq(unsent, n + 1, u)
      /\ u - n >= 0 /\ (u - n = 0 \/ u - n > BodyLen(message))
      /\ UNCHANGED <<m_read_buf, message>>
  BY DEF ClientSend
<1>2. /\ r \in Nat /\ k \in Nat /\ u \in Nat /\ n \in Nat /\ n > 0 /\ Len(message) \in Nat
      /\ inbox \in Seq(Tokens) /\ unsent \in Seq(Tokens) /\ BodyLen(message) \in Nat
      /\ HeadersEnd(message) + BodyLen(message) = Len(message) /\ HeadersEnd(message) \in Nat
  <2>1. n \in Nat /\ n > 0
    BY HttpAssumption
  <2>2. /\ r \in Nat /\ k \in Nat /\ u \in Nat /\ inbox \in Seq(Tokens) /\ unsent \in Seq(Tokens)
    BY DEF BufferInv
  <2>3. /\ Len(message) \in Nat /\ BodyLen(message) \in Nat /\ HeadersEnd(message) \in Nat
        /\ HeadersEnd(message) + BodyLen(message) = Len(message)
    BY RequestTypes
  <2> QED
    BY <2>1, <2>2, <2>3
<1>3. /\ r + k + u = Len(message)
      /\ \A i \in 1..k : inbox[i] = message[r + i]
      /\ \A i \in 1..u : unsent[i] = message[r + k + i]
      /\ Cut(r)
  BY DEF Pieces
<1>4. /\ SubSeq(unsent, 1, n) \in Seq(Tokens) /\ Len(SubSeq(unsent, 1, n)) = n
      /\ \A i \in 1..n : SubSeq(unsent, 1, n)[i] = unsent[i]
  <2>1. 1 \in 1..(u + 1) /\ n \in (1 - 1)..u /\ n - 1 + 1 = n /\ \A i \in 1..n : 1 + i - 1 = i
    BY <1>1, <1>2
  <2> QED
    BY <1>2, <2>1, SubSeqProperties
<1>5. /\ unsent' \in Seq(Tokens) /\ Len(unsent') = u - n
      /\ \A i \in 1..(u - n) : unsent'[i] = unsent[n + i]
  <2> DEFINE tail == SubSeq(unsent, n + 1, u)
  <2>1. n + 1 \in Int /\ u \in Int /\ \A i \in (n + 1)..u : unsent[i] \in Tokens
    BY <1>2
  <2>2. /\ tail \in Seq(Tokens) /\ Len(tail) = (IF n + 1 <= u THEN u - (n + 1) + 1 ELSE 0)
        /\ \A i \in 1..(u - (n + 1) + 1) : tail[i] = unsent[(n + 1) + i - 1]
    BY <2>1, SubSeqProperties
  <2> HIDE DEF tail
  <2>3. tail \in Seq(Tokens) /\ Len(tail) = u - n /\ \A i \in 1..(u - n) : tail[i] = unsent[n + i]
    <3>1. /\ u - (n + 1) + 1 = u - n /\ ~(n + 1 <= u) => u - n = 0
          /\ \A i \in 1..(u - n) : (n + 1) + i - 1 = n + i
      BY <1>1, <1>2
    <3> QED
      BY <2>2, <3>1
  <2> QED
    BY <1>1, <2>3 DEF tail
<1>6. /\ Len(inbox') = k + n
      /\ \A i \in 1..(k + n) : inbox'[i] = IF i <= k THEN inbox[i] ELSE SubSeq(unsent, 1, n)[i - k]
  BY <1>1, <1>2, <1>4, ConcatProperties
<1>7. ASSUME NEW i \in 1..(k + n) PROVE inbox'[i] = message[r + i]
  <2>1. CASE i <= k
    BY <1>2, <1>3, <1>6, <2>1
  <2>2. CASE ~(i <= k)
    <3>1. i - k \in 1..n /\ i - k \in 1..u /\ r + k + (i - k) = r + i
      <4> HIDE DEF r, k, u
      <4> QED
        BY <1>1, <1>2, <2>2
    <3> QED
      BY <1>3, <1>4, <1>6, <2>2, <3>1
  <2> QED
    BY <2>1, <2>2
<1>8. ASSUME NEW i \in 1..(u - n) PROVE unsent'[i] = message[r + (k + n) + i]
  <2>1. n + i \in 1..u /\ r + k + (n + i) = r + (k + n) + i
    BY <1>1, <1>2
  <2> QED
    BY <1>3, <1>5, <2>1
<1>9. r + (k + n) + (u - n) = Len(message)
  <2> HIDE DEF r, k, u
  <2>1. r + (k + n) + (u - n) = r + k + u
    BY <1>2
  <2> QED
    BY <1>3, <2>1
<1>10. r + (k + n) = Len(message) \/ r + (k + n) < HeadersEnd(message)
  <2> HIDE DEF r, k, u
  <2>1. PICK b \in Nat, e \in Nat, len \in Nat :
           b = BodyLen(message) /\ e = HeadersEnd(message) /\ len = Len(message)
    BY <1>2
  <2>2. u - n = 0 \/ u - n > b
    BY <1>1, <2>1
  <2>3. r + k + u = len /\ e + b = len
    BY <1>2, <1>3, <2>1
  <2>4. r + (k + n) = len \/ r + (k + n) < e
    BY <1>2, <2>2, <2>3
  <2> QED
    BY <2>1, <2>4
<1>11. Len(m_read_buf') = r /\ Len(inbox') = k + n /\ Len(unsent') = u - n
  BY <1>1, <1>5, <1>6
<1>12. Cut(Len(m_read_buf))' /\ Cut(Len(m_read_buf) + Len(inbox))'
  BY <1>1, <1>3, <1>10, <1>11 DEF Cut
<1>13. /\ Len(m_read_buf') + Len(inbox') + Len(unsent') = Len(message')
       /\ \A i \in 1..Len(inbox') : inbox'[i] = message'[Len(m_read_buf') + i]
       /\ \A i \in 1..Len(unsent') : unsent'[i] = message'[Len(m_read_buf') + Len(inbox') + i]
  BY <1>1, <1>7, <1>8, <1>9, <1>11
<1> QED
  BY <1>12, <1>13 DEF Pieces

\* What a client may send on this connection: requests, each of which has its body
\* in the segment that ends its headers.
WholeRequests == ~BodySplit /\ \A m \in Messages : Request(m)

\* Nothing but a parser's step or init() moves the parser.
LEMMA PlaceKept ==
    ASSUME Parsing, Pieces', UNCHANGED <<m_read_buf, parser, message>>
    PROVE  Parsing'
<1>1. UNCHANGED <<m_read_buf, m_checked_index, m_start_line, m_check_stat, m_route,
                  m_content_length, message>>
  BY DEF parser
<1>2. Scanned' /\ (Routed => Routed')
  BY <1>1 DEF Parsing, Scanned, Routed
<1>3. CASE m_check_stat = "REQUESTLINE" /\ AtRequestLine
  BY <1>1, <1>2, <1>3 DEF Parsing, AtRequestLine
<1>4. CASE m_check_stat = "HEADER" /\ AtHeader
  <2>1. AtHeader'
    BY <1>1, <1>2, <1>4 DEF AtHeader, HeadersEnd
  <2> QED
    BY <1>1, <1>2, <1>4, <2>1 DEF Parsing
<1>5. CASE m_check_stat = "CONTENT" /\ AtContent
  <2>1. AtContent'
    BY <1>1, <1>2, <1>5 DEF AtContent, HeadersEnd
  <2> QED
    BY <1>1, <1>2, <1>5, <2>1 DEF Parsing
<1> QED
  BY <1>3, <1>4, <1>5 DEF Parsing

\* There is something to send.
LEMMA RequestNotEmpty == \A m : Request(m) => m # <<>>
<1> SUFFICES ASSUME NEW m, Request(m), m = <<>> PROVE FALSE
  OBVIOUS
<1>1. /\ Len(m) = 0 /\ BodyLen(m) \in Nat /\ HeadersEnd(m) \in Nat /\ HeadersEnd(m) > 0
      /\ HeadersEnd(m) + BodyLen(m) = Len(m)
  BY RequestTypes
<1> QED
  BY <1>1

\* A request that begins finds what init() left.
LEMMA FreshParses ==
    Fresh /\ inbox = <<>> /\ unsent = message /\ Request(message) => Parsing
<1> SUFFICES ASSUME Fresh, inbox = <<>>, unsent = message, Request(message)
             PROVE  Parsing
  OBVIOUS
<1>1. /\ message \in Seq(Tokens) /\ Len(message) \in Nat
      /\ HeadersEnd(message) \in Nat /\ HeadersEnd(message) > 0
  BY RequestTypes
<1>2. Len(m_read_buf) = 0 /\ Len(inbox) = 0 /\ Len(unsent) = Len(message)
  BY DEF Fresh
<1>3. Pieces
  BY <1>1, <1>2 DEF Pieces, Cut
<1>4. Scanned /\ AtRequestLine /\ m_check_stat = "REQUESTLINE"
  BY <1>2 DEF Fresh, Scanned, AtRequestLine
<1> QED
  BY <1>3, <1>4 DEF Parsing

\* A connection in process_read() that reads on or has an answer.
LEMMA ParserKeeps ==
    ASSUME RequestInv, BufferInv', message' = message,
           \/ /\ pc' \in {"in", "parse"} /\ ret' = "NO_REQUEST" /\ Parsing'
              /\ pc' = "in" => unsent' # <<>> \/ inbox' # <<>>
           \/ pc' = "out" /\ Answering'
           \/ pc' \in {"closed", "lost"}
    PROVE  RequestInv'
BY DEF RequestInv, OutcomeIgnoresSegments, CompleteIsAnswered, Answering

\* Every step keeps the invariant.
LEMMA RequestInvStep ==
    ASSUME RequestInv, [Next]_vars, WholeRequests
    PROVE  RequestInv'
<1>1. BufferInv /\ BufferInv' /\ message \in Messages /\ Request(message)
  BY BufferInvStep DEF RequestInv, WholeRequests
<1>2. ASSUME pc = "parse" PROVE Parsing /\ ret = "NO_REQUEST"
  BY <1>2 DEF RequestInv
<1>3. CASE Read
  <2>1. pc = "in" /\ inbox # <<>> /\ UNCHANGED <<message, ret>> /\ pc' \in {"closed", "parse"}
    BY <1>3 DEF Read
  <2>2. Parsing /\ ret = "NO_REQUEST"
    BY <2>1 DEF RequestInv
  <2>3. pc' = "parse" => Parsing'
    BY <1>1, <1>3, <2>2, ReadParses
  <2> QED
    BY <1>1, <2>1, <2>2, <2>3, ParserKeeps
<1>4. CASE ParseMore
  <2>1. /\ pc = "parse" /\ pc' = "in" /\ UNCHANGED <<message, unsent, inbox, ret>>
        /\ m_check_stat # "CONTENT" /\ LineStatus # "LINE_OK"
    BY <1>4 DEF ParseMore, client
  <2>2. Len(m_read_buf) # Len(message)
    BY <1>1, <1>2, <2>1, LineIsWhole
  <2>3. unsent # <<>> \/ inbox # <<>>
    BY <1>1, <1>2, <2>1, <2>2 DEF Parsing, Pieces, BufferInv
  <2> QED
    BY <1>1, <1>2, <1>4, <2>1, <2>3, MoreParses, ParserKeeps
<1>5. CASE ParseRequestLine \/ ParseHeader \/ ParseHeadersEnd \/ ParseContent
  <2>1. pc = "parse" /\ message' = message
    BY <1>5 DEF ParseRequestLine, ParseHeader, ParseHeadersEnd, ParseContent, EndLine, client
  <2>2. \/ GoOn /\ Parsing'
        \/ pc' = "out" /\ Answering'
        \/ pc' = "lost"
    BY <1>1, <1>2, <1>5, <2>1, RequestLineStep, HeaderStep, HeadersEndStep, ContentStep
  <2> QED
    BY <1>1, <1>2, <2>1, <2>2, ParserKeeps DEF GoOn
<1>6. ASSUME NEW n \in 1..(HeadLen + JsonLen), WriteSome(n) PROVE RequestInv'
  BY <1>1, <1>6 DEF WriteSome, RequestInv, OutcomeIgnoresSegments, CompleteIsAnswered
<1>7. CASE WriteLast
  <2>1. /\ pc = "out" /\ UNCHANGED <<ret, message, unsent, inbox>>
        /\ pc' = "closed" \/ (pc' = "in" /\ InitConn)
    BY <1>7 DEF WriteLast
  <2>2. unsent = <<>> /\ inbox = <<>> /\ ret \in Expected(message)
    BY <2>1 DEF RequestInv, OutcomeIgnoresSegments
  <2>3. ret # "NO_REQUEST"
    BY <2>2 DEF Expected, Handled
  <2>4. InitConn => Fresh'
    BY DEF InitConn, Fresh
  <2> QED
    BY <1>1, <2>1, <2>2, <2>3, <2>4 DEF RequestInv, OutcomeIgnoresSegments, CompleteIsAnswered
<1>8. ASSUME NEW n \in 1..READ_BUFFER_SIZE, ClientSend(n) PROVE RequestInv'
  <2>1. /\ UNCHANGED <<m_read_buf, parser, pc, ret, message>>
        /\ pc # "closed" /\ Len(unsent) - n >= 0
    BY <1>8 DEF ClientSend
  <2>2. unsent # <<>>
    <3>1. n \in Nat /\ n > 0 /\ Len(<<>>) = 0
      BY HttpAssumption
    <3> QED
      BY <2>1, <3>1
  <2>3. pc \in {"in", "parse"} => ret = "NO_REQUEST" /\ Parsing
    BY <2>2 DEF RequestInv
  <2>4. pc # "out"
    BY <2>2 DEF RequestInv, OutcomeIgnoresSegments
  <2>5. Parsing => Parsing'
    <3>1. Pieces => Pieces'
      BY <1>1, <1>8, SendPieces DEF WholeRequests
    <3> QED
      BY <2>1, <3>1, PlaceKept DEF Parsing
  <2>6. inbox' # <<>>
    <3>1. /\ inbox \in Seq(Tokens) /\ unsent \in Seq(Tokens)
          /\ inbox' = inbox \o SubSeq(unsent, 1, n)
      BY <1>1, <1>8 DEF BufferInv, ClientSend
    <3>2. SubSeq(unsent, 1, n) \in Seq(Tokens) /\ Len(SubSeq(unsent, 1, n)) = n
      <4>1. 1 \in Int /\ n \in Int /\ 1 <= n /\ \A i \in 1..n : unsent[i] \in Tokens
        BY <2>1, <3>1, HttpAssumption
      <4> QED
        BY <4>1, SubSeqProperties
    <3>3. Len(inbox') = Len(inbox) + n /\ Len(inbox) \in Nat
      BY <3>1, <3>2, ConcatProperties
    <3>4. n \in Nat /\ n > 0 /\ Len(<<>>) = 0
      BY HttpAssumption
    <3> QED
      BY <3>3, <3>4
  <2> QED
    BY <1>1, <2>1, <2>3, <2>4, <2>5, <2>6 DEF RequestInv, OutcomeIgnoresSegments, CompleteIsAnswered
<1>9. CASE ClientNext
  <2>1. /\ UNCHANGED <<m_read_buf, parser, pc, inbox>> /\ pc = "in" /\ ret # "NO_REQUEST"
        /\ message' \in Messages /\ unsent' = message' /\ ret' = "NO_REQUEST"
    BY <1>9 DEF ClientNext, Answered
  <2>2. Fresh' /\ inbox' = <<>>
    <3>1. Fresh /\ inbox = <<>>
      BY <2>1 DEF RequestInv
    <3> QED
      BY <2>1, <3>1 DEF Fresh, parser
  <2>3. Request(message')
    BY <2>1 DEF WholeRequests
  <2>4. Parsing'
    <3>1. (Fresh /\ inbox = <<>> /\ unsent = message /\ Request(message) => Parsing)'
      BY FreshParses, PTL
    <3> QED
      BY <2>1, <2>2, <2>3, <3>1
  <2>5. unsent' # <<>>
    BY <2>1, <2>3, RequestNotEmpty
  <2> QED
    BY <1>1, <2>1, <2>4, <2>5 DEF RequestInv, OutcomeIgnoresSegments, CompleteIsAnswered
<1>10. CASE UNCHANGED vars
  BY <1>1, <1>10 DEF RequestInv, vars, client, parser, OutcomeIgnoresSegments, CompleteIsAnswered,
     Fresh, Parsing, Pieces, Scanned, AtRequestLine, AtHeader, AtContent, Routed, Cut, HeadersEnd
<1> QED
  BY <1>3, <1>4, <1>5, <1>6, <1>7, <1>8, <1>9, <1>10 DEF Next, Parse, Write

\* The invariant always holds.
LEMMA RequestInvariant ==
    ASSUME WholeRequests
    PROVE  Spec => []RequestInv
<1>1. Init => RequestInv
  <2> SUFFICES ASSUME Init PROVE RequestInv
    OBVIOUS
  <2>1. /\ message \in Messages /\ unsent = message /\ inbox = <<>> /\ Fresh
        /\ pc = "in" /\ ret = "NO_REQUEST"
    BY DEF Init, Fresh
  <2>2. Request(message)
    BY <2>1 DEF WholeRequests
  <2>3. BufferInv
    BY <2>1, HttpAssumption, MessagesAssumption DEF BufferInv, Fresh
  <2> QED
    BY <2>1, <2>2, <2>3, FreshParses, RequestNotEmpty
       DEF RequestInv, OutcomeIgnoresSegments, CompleteIsAnswered
<1>2. RequestInv /\ [Next]_vars => RequestInv'
  BY RequestInvStep
<1> QED
  BY <1>1, <1>2, PTL DEF Spec

\* process_read() gives every request, with any number of headers and of any
\* length, the outcome it deserves as a whole however read() gets its pieces, and
\* again for the next request on the connection.
THEOREM OutcomesIgnoreSegments ==
    ASSUME WholeRequests
    PROVE  Spec => []OutcomeIgnoresSegments
<1>1. RequestInv => OutcomeIgnoresSegments
  BY DEF RequestInv
<1> QED
  BY <1>1, RequestInvariant, PTL

\* process_read() does not end with NO_REQUEST once it has the whole request: the
\* server never waits for more of it.
THEOREM CompleteRequestsAnswered ==
    ASSUME WholeRequests
    PROVE  Spec => []CompleteIsAnswered
<1>1. RequestInv => CompleteIsAnswered
  BY DEF RequestInv
<1> QED
  BY <1>1, RequestInvariant, PTL

\* Sequences that agree on a slice.
LEMMA SameSlice ==
    ASSUME NEW a, NEW b, NEW h \in Nat, NEW n \in Nat, \A i \in (h + 1)..n : a[i] = b[i]
    PROVE  SubSeq(a, h + 1, n) = SubSeq(b, h + 1, n)
<1>1. \A i \in 1..((n - (h + 1)) + 1) : (h + 1) + i - 1 \in (h + 1)..n
  OBVIOUS
<1> QED
  BY <1>1

\* A handler is given the body of its own request and the length its headers say,
\* whatever that length is, at every cut into segments and on every request of the
\* connection.
THEOREM BodiesHandedOver ==
    ASSUME WholeRequests
    PROVE  Spec => []BodyIsHandedOver
<1>1. RequestInv => BodyIsHandedOver
  <2> SUFFICES ASSUME RequestInv, pc = "parse", m_check_stat = "CONTENT"
               PROVE  /\ m_content_length = Declared(message)
                      /\ SubSeq(m_read_buf, m_start_line + 1, m_read_index)
                            = SubSeq(message, HeadersEnd(message) + 1, Len(message))
    BY DEF BodyIsHandedOver
  <2>1. AtContent /\ Scanned /\ Request(message)
    BY DEF RequestInv, Parsing, WholeRequests
  <2>2. /\ m_content_length = Declared(message) /\ m_read_index = Len(message)
        /\ m_start_line = HeadersEnd(message)
        /\ \A i \in (HeadersEnd(message) + 1)..Len(message) : m_read_buf[i] = message[i]
    BY <2>1 DEF AtContent, Scanned, m_read_index
  <2>3. HeadersEnd(message) \in Nat /\ Len(message) \in Nat
    BY <2>1, RequestTypes
  <2>4. PICK h \in Nat, n \in Nat : h = HeadersEnd(message) /\ n = Len(message)
    BY <2>3
  <2>5. \A i \in (h + 1)..n : m_read_buf[i] = message[i]
    BY <2>2, <2>4
  <2>6. SubSeq(m_read_buf, h + 1, n) = SubSeq(message, h + 1, n)
    BY <2>5, SameSlice
  <2> QED
    BY <2>2, <2>4, <2>6
<1> QED
  BY <1>1, RequestInvariant, PTL

\* And the client gets the bytes of every answer in order, each once.
THEOREM RequestsAnsweredInOrder ==
    ASSUME WholeRequests
    PROVE  Spec => []AnswerInOrder
BY OutcomesIgnoreSegments, AnswersInOrder, PTL
=============================================================================
