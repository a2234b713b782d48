----------------------------- MODULE MCHttpConn -----------------------------
(* HttpConn on a buffer of twelve bytes. *)
EXTENDS HttpConn

\* What atol() may make of a header; int is the range -32..31 here.
Lengths == [len0 |-> 0, len1 |-> 1, len3 |-> 3, len4 |-> 4, len5 |-> 5,
            less |-> -1, least |-> -20, most |-> 30, wraps |-> 65]

CRLF == <<"CR", "LF">>

Body(n) == [i \in 1..n |-> "B"]

Get      == <<"get">> \o CRLF \o <<"hdr">> \o CRLF \o CRLF
GetLong  == <<"x", "get">> \o CRLF \o <<"x", "hdr">> \o CRLF \o CRLF
GetClose == <<"get">> \o CRLF \o <<"close">> \o CRLF \o CRLF
GetKeep  == <<"get">> \o CRLF \o <<"close">> \o CRLF \o <<"keep-alive">> \o CRLF \o CRLF
Logout   == <<"post">> \o CRLF \o <<"len0">> \o CRLF \o CRLF
Login    == <<"post">> \o CRLF \o <<"len1">> \o CRLF \o CRLF \o Body(1)
PutEmpty == <<"put">> \o CRLF \o CRLF
\* A request that leaves room, one that just fills the buffer, and one too large.
PutFits  == <<"put">> \o CRLF \o <<"len3">> \o CRLF \o CRLF \o Body(3)
PutFull  == <<"put">> \o CRLF \o <<"len4">> \o CRLF \o CRLF \o Body(4)
PutLarge == <<"put">> \o CRLF \o <<"len5">> \o CRLF \o CRLF \o Body(5)
NoHttp   == <<"bad">> \o CRLF
Honest == {Get, GetLong, GetClose, GetKeep, Logout, Login, PutEmpty, PutFits, PutFull,
           PutLarge, NoHttp}

\* A Content-Length that is not the body's: too short, too long, missing,
\* negative, near INT_MAX, and one that wraps to 1.
Odd == {<<"post">> \o CRLF \o <<len>> \o CRLF \o CRLF \o Body(1) :
           len \in {"len0", "len3", "hdr", "less", "least", "most", "wraps"}}

Requests == Honest \cup Odd

\* What the proofs say of requests, they say of these.
ASSUME MessagesAreRequests == \A m \in Messages : Request(m)
=============================================================================
