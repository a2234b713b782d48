------------------------------ MODULE HttpConn ------------------------------
(***************************************************************************)
(* One http_conn of src/src/network/http_conn.cpp: the buffer read() fills *)
(* as segments arrive, the parser of process_read(), the answer that       *)
(* process_write() lays out and write() sends.  EventLoop shows that the   *)
(* object has one user at a time, so here read(), each iteration of the    *)
(* parser's loop and each writev is one step.                              *)
(*                                                                         *)
(* A byte is a token: line ends are CR and LF, a request line or a header  *)
(* is any number of "x" and a last token that names what the parser makes  *)
(* of the whole, "B" is a body byte.  Indices count from 0, as in the      *)
(* code.                                                                   *)
(***************************************************************************)
EXTENDS Integers, Sequences, FiniteSets

CONSTANTS
    READ_BUFFER_SIZE,
    INT_MAX,           \* the largest int
    HeadLen, JsonLen,  \* bytes of an answer in m_write_buf and in json_res
    ContentLength,     \* what atol() reads in each header that gives a Content-Length
    Messages,          \* the requests a client may send
    MaxMessages,       \* bound: requests on one connection
    BodySplit          \* whether a body may come in a later segment than the headers

ASSUME HttpAssumption ==
    /\ {READ_BUFFER_SIZE, HeadLen, JsonLen} \subseteq Nat \ {0}
    /\ INT_MAX \in Nat /\ MaxMessages \in Nat
    /\ BodySplit \in BOOLEAN

\* The request lines: a route answered without a body, a POST that always has
\* one, a route that has one when Content-Length says so, and no HTTP at all.
RequestLines == {"get", "post", "put", "bad"}

OtherHeaders == {"close", "keep-alive", "hdr"}
OtherTokens  == {"CR", "LF", "NUL", "B", "x"}

Headers == DOMAIN ContentLength \cup OtherHeaders

Tokens == RequestLines \cup Headers \cup OtherTokens

ASSUME LengthAssumption ==
    /\ ContentLength \in [DOMAIN ContentLength -> Int]
    /\ DOMAIN ContentLength \cap (RequestLines \cup OtherHeaders \cup OtherTokens) = {}

ASSUME MessagesAssumption == Messages \subseteq Seq(Tokens)

VARIABLES
    m_read_buf,        \* what the buffer holds up to m_read_index
    m_checked_index, m_start_line, m_check_stat,
    m_route,           \* m_method and apireq
    m_content_length, m_linger,
    m_iv,              \* the parts of the answer still to be sent
    pc,                \* "in" and "out": armed for reading or writing;
                       \* "parse": in process_read(); "closed"; "lost":
                       \* a write outside m_read_buf, after which nothing
                       \* is said of the object
    ret,               \* the HTTP_CODE of the last request
    \* the client
    message,           \* the request it is sending
    unsent,            \* what of it is still to be sent
    inbox,             \* what has reached the server's socket
    out,               \* the bytes of the answer it has received
    count              \* requests so far

parser == <<m_checked_index, m_start_line, m_check_stat, m_route, m_content_length, m_linger>>
client == <<message, unsent, inbox, out, count>>
vars   == <<m_read_buf, parser, m_iv, pc, ret, client>>

m_read_index == Len(m_read_buf)

\* An iovec whose bytes are numbered by their place in the answer.
NoBytes     == [base |-> 0, len |-> 0]
WriteBuf    == [base |-> 0, len |-> HeadLen]
JsonRes     == [base |-> HeadLen, len |-> JsonLen]
AnswerLen   == IF ret = "HANDLED" THEN HeadLen + JsonLen ELSE HeadLen
Bytes(iov)  == [i \in 1..iov.len |-> iov.base + i - 1]
BytesToSend == m_iv[1].len + m_iv[2].len

Init ==
    /\ m_read_buf = <<>>
    /\ m_checked_index = 0 /\ m_start_line = 0
    /\ m_check_stat = "REQUESTLINE"
    /\ m_route = "get" /\ m_content_length = 0 /\ m_linger = TRUE
    /\ m_iv = <<NoBytes, NoBytes>>
    /\ pc = "in"
    /\ ret = "NO_REQUEST"
    /\ message \in Messages
    /\ unsent = message
    /\ inbox = <<>> /\ out = <<>>
    /\ count = 1

-----------------------------------------------------------------------------
(* read() *)

\* The loop ends well only at EAGAIN.  When the buffer is full, the next recv
\* has length 0: it may return 0, which is taken for the end of the stream, or
\* EAGAIN, when nothing more has arrived.
Read ==
    LET size == m_read_index + Len(inbox) IN
    /\ pc = "in"
    /\ inbox # <<>>
    /\ inbox' = <<>>
    /\ \/ size >= READ_BUFFER_SIZE /\ pc' = "closed" /\ UNCHANGED m_read_buf
       \/ size <= READ_BUFFER_SIZE /\ pc' = "parse" /\ m_read_buf' = m_read_buf \o inbox
    /\ UNCHANGED <<parser, m_iv, ret, message, unsent, out, count>>

-----------------------------------------------------------------------------
(* process_read() *)

Byte(i) == m_read_buf[i + 1]

\* Where parse_line() stops.
LineStop ==
    LET ends == {i \in m_checked_index..(m_read_index - 1) : Byte(i) \in {"CR", "LF"}}
    IN  IF ends = {} THEN m_read_index ELSE CHOOSE i \in ends : \A j \in ends : i <= j

\* Mutant: the test for a CR at the end of what has arrived is one byte early.
LineStatusLate ==
    CASE LineStop = m_read_index      -> "LINE_OPEN"
      [] LineStop < m_read_index /\ Byte(LineStop) = "CR" ->
            IF LineStop + 2 >= m_read_index THEN "LINE_OPEN"
            ELSE IF Byte(LineStop + 1) = "LF" THEN "LINE_OK" ELSE "LINE_BAD"
      [] OTHER ->
            IF LineStop > 1 /\ Byte(LineStop - 1) = "CR" THEN "LINE_OK" ELSE "LINE_BAD"

\* What parse_line() returns.
LineStatus ==
    CASE LineStop = m_read_index      -> "LINE_OPEN"
      [] LineStop < m_read_index /\ Byte(LineStop) = "CR" ->
            IF LineStop + 1 = m_read_index THEN "LINE_OPEN"
            ELSE IF Byte(LineStop + 1) = "LF" THEN "LINE_OK" ELSE "LINE_BAD"
      [] OTHER ->
            IF LineStop > 1 /\ Byte(LineStop - 1) = "CR" THEN "LINE_OK" ELSE "LINE_BAD"

\* The CR of the terminator, and the line's text: get_line() up to there.
LineCr == IF Byte(LineStop) = "CR" THEN LineStop ELSE LineStop - 1
Text   == SubSeq(m_read_buf, m_start_line + 1, LineCr)

\* What the line says.  As text[] is a C string, a NUL ends it too.
EmptyLine == Text # <<>> => Text[1] = "NUL"
Line ==
    LET names == {k \in DOMAIN Text : /\ \A j \in 1..(k - 1) : Text[j] = "x"
                                      /\ Text[k] # "x"
                                      /\ k = Len(Text) \/ Text[k + 1] = "NUL"}
    IN  IF names = {} THEN "x" ELSE Text[CHOOSE k \in names : TRUE]

\* parse_line() has returned LINE_OK: the terminator becomes NULs, and the
\* next line starts behind it.
EndLine ==
    /\ pc = "parse"
    /\ m_check_stat # "CONTENT"
    /\ LineStatus = "LINE_OK"
    /\ m_checked_index' = LineCr + 2
    /\ m_start_line' = LineCr + 2
    /\ m_read_buf' = [m_read_buf EXCEPT ![LineCr + 1] = "NUL", ![LineCr + 2] = "NUL"]

\* process_write(code): a handler's answer is in two buffers, an error page
\* in one; then modfd(EPOLLOUT).
Answer(code) ==
    /\ ret' = code
    /\ m_iv' = <<WriteBuf, IF code = "HANDLED" THEN JsonRes ELSE NoBytes>>
    /\ pc' = "out"

GoOn == UNCHANGED <<ret, m_iv, pc>>

\* A handler's answer in json_res, the 403 page when the token is not valid,
\* or INTERNAL_ERROR when the handler throws.
Handled == {"HANDLED", "FORBIDDEN_REQUEST", "INTERNAL_ERROR"}
Handle  == \E code \in Handled : Answer(code)

\* LINE_OPEN and LINE_BAD alike end the loop with NO_REQUEST; modfd(EPOLLIN).
ParseMore ==
    /\ pc = "parse"
    /\ m_check_stat # "CONTENT"
    /\ LineStatus # "LINE_OK"
    /\ m_checked_index' = LineStop
    /\ pc' = "in"
    /\ UNCHANGED <<m_read_buf, m_start_line, m_check_stat, m_route, m_content_length,
                   m_linger, m_iv, ret, client>>

\* parse_request_line()
ParseRequestLine ==
    /\ m_check_stat = "REQUESTLINE"
    /\ EndLine
    /\ IF Line \in RequestLines \ {"bad"}
       THEN m_route' = Line /\ m_check_stat' = "HEADER" /\ GoOn
       ELSE Answer("BAD_REQUEST") /\ UNCHANGED <<m_route, m_check_stat>>
    /\ UNCHANGED <<m_content_length, m_linger, client>>

\* A long as the int m_content_length keeps of it.
ToInt(n) == ((n + INT_MAX + 1) % (2 * (INT_MAX + 1))) - (INT_MAX + 1)

\* parse_headers() on a header.
ParseHeader ==
    /\ m_check_stat = "HEADER"
    /\ EndLine
    /\ ~EmptyLine
    /\ m_content_length' = IF Line \in DOMAIN ContentLength
                           THEN ToInt(ContentLength[Line]) ELSE m_content_length
    /\ m_linger' = (Line = "keep-alive" \/ (m_linger /\ Line # "close"))
    /\ GoOn
    /\ UNCHANGED <<m_check_stat, m_route, client>>

\* parse_headers() on the empty line.
ParseHeadersEnd ==
    /\ m_check_stat = "HEADER"
    /\ EndLine
    /\ EmptyLine
    /\ \/ m_route = "get" /\ Handle /\ UNCHANGED m_check_stat
       \/ /\ m_route = "post" \/ (m_route = "put" /\ m_content_length # 0)
          /\ m_check_stat' = "CONTENT"
          /\ GoOn
       \/ /\ m_route = "put" /\ m_content_length = 0
          /\ Answer("NO_RESOURCE")
          /\ UNCHANGED m_check_stat
    /\ UNCHANGED <<m_route, m_content_length, m_linger, client>>

\* Whether the test of parse_content() may come out so.  A sum beyond INT_MAX
\* overflows, and what the comparison then gives is undefined.
BodyTest(there) ==
    LET end == m_content_length + m_checked_index
    IN  end > INT_MAX \/ there = (m_read_index >= end)

\* text[m_content_length] = '\0', and a handler.
EndBody ==
    \/ m_start_line + m_content_length \in 0..(READ_BUFFER_SIZE - 1) /\ Handle
    \/ /\ m_start_line + m_content_length \notin 0..(READ_BUFFER_SIZE - 1)
       /\ pc' = "lost"
       /\ UNCHANGED <<ret, m_iv>>

\* Mutant: a body that is not there yet is waited for, and > instead of >=.
ParseContentStrict ==
    /\ pc = "parse"
    /\ m_check_stat = "CONTENT"
    /\ m_start_line' = m_checked_index
    /\ IF m_read_index > m_content_length + m_checked_index
       THEN EndBody
       ELSE pc' = "in" /\ UNCHANGED <<ret, m_iv>>
    /\ UNCHANGED <<m_read_buf, m_checked_index, m_check_stat, m_route, m_content_length,
                   m_linger, client>>

\* parse_content(): a body that is not there yet is a bad request.
ParseContent ==
    /\ pc = "parse"
    /\ m_check_stat = "CONTENT"
    /\ m_start_line' = m_checked_index
    /\ \/ BodyTest(TRUE) /\ EndBody
       \/ BodyTest(FALSE) /\ Answer("BAD_REQUEST")
    /\ UNCHANGED <<m_read_buf, m_checked_index, m_check_stat, m_route, m_content_length,
                   m_linger, client>>

Parse ==
    ParseMore \/ ParseRequestLine \/ ParseHeader \/ ParseHeadersEnd \/ ParseContent

-----------------------------------------------------------------------------
(* write() *)

\* Mutant: m_content_length survives the request.
InitConnKeepsLength ==
    /\ m_read_buf' = <<>>
    /\ m_checked_index' = 0 /\ m_start_line' = 0
    /\ m_check_stat' = "REQUESTLINE"
    /\ m_route' = "get" /\ m_linger' = TRUE
    /\ UNCHANGED m_content_length

\* init(): everything of the request is forgotten, unread bytes included.
InitConn ==
    /\ m_read_buf' = <<>>
    /\ m_checked_index' = 0 /\ m_start_line' = 0
    /\ m_check_stat' = "REQUESTLINE"
    /\ m_route' = "get" /\ m_content_length' = 0 /\ m_linger' = TRUE

\* Mutant: what was sent of the body is not taken off the second buffer when
\* the header goes out in the same call.
AdvanceHeaderOnly(n) ==
    IF n < m_iv[1].len
    THEN <<[base |-> m_iv[1].base + n, len |-> m_iv[1].len - n], m_iv[2]>>
    ELSE <<NoBytes, IF m_iv[1].len > 0 THEN m_iv[2]
                    ELSE [base |-> m_iv[2].base + n, len |-> m_iv[2].len - n]>>

\* How write() moves m_iv past the n bytes of one writev.
Advance(n) ==
    IF n < m_iv[1].len
    THEN <<[base |-> m_iv[1].base + n, len |-> m_iv[1].len - n], m_iv[2]>>
    ELSE LET rest == n - m_iv[1].len
         IN  <<NoBytes, [base |-> m_iv[2].base + rest, len |-> m_iv[2].len - rest]>>

Sent(n) == SubSeq(Bytes(m_iv[1]) \o Bytes(m_iv[2]), 1, n)

\* writev takes n bytes and more are left.  At EAGAIN write() returns and is
\* called again with the same m_iv, which is this loop taken up again.
WriteSome(n) ==
    /\ pc = "out"
    /\ n < BytesToSend
    /\ out' = out \o Sent(n)
    /\ m_iv' = Advance(n)
    /\ UNCHANGED <<m_read_buf, parser, pc, ret, message, unsent, inbox, count>>

\* writev takes the rest: init() and read again, or close.
WriteLast ==
    /\ pc = "out"
    /\ out' = out \o Sent(BytesToSend)
    /\ m_iv' = <<NoBytes, NoBytes>>
    /\ IF m_linger
       THEN pc' = "in" /\ InitConn
       ELSE pc' = "closed" /\ UNCHANGED <<m_read_buf, parser>>
    /\ UNCHANGED <<ret, message, unsent, inbox, count>>

Write == (\E n \in 1..(HeadLen + JsonLen) : WriteSome(n)) \/ WriteLast

-----------------------------------------------------------------------------
(* The client; external. *)

BodyLen(m) == Cardinality({i \in DOMAIN m : m[i] = "B"})

\* The end of the headers, and where the last token of a line is.
HeadersEnd(m) == Len(m) - BodyLen(m)
Names(m, i)   == i < HeadersEnd(m) /\ m[i + 1] = "CR" /\ m[i] # "LF"

\* What the headers make of m_content_length.
Declared(m) ==
    LET given == {i \in DOMAIN m : m[i] \in DOMAIN ContentLength}
    IN  IF given = {} THEN 0 ELSE ToInt(ContentLength[m[CHOOSE i \in given : TRUE]])

\* A request: a request line, headers, an empty line and a body, which may be
\* shorter or longer than Content-Length says; or one line that is no HTTP.
\* Every line ends in CR LF, and two Content-Lengths do not disagree.
Request(m) ==
    LET end == HeadersEnd(m) IN
    /\ m \in Seq(Tokens \ {"NUL"})
    /\ end > 0 /\ m[1] # "CR" /\ m[end] = "LF"
    /\ \A i \in 1..Len(m) : m[i] = "B" <=> i > end
    /\ \A i \in 1..end :
          /\ m[i] = "LF" <=> i > 1 /\ m[i - 1] = "CR"
          /\ m[i] \in RequestLines \cup Headers <=> Names(m, i)
          /\ Names(m, i) => (m[i] \in RequestLines <=> \A j \in 1..(i - 1) : m[j] = "x")
          /\ m[i] \in DOMAIN ContentLength => ToInt(ContentLength[m[i]]) = Declared(m)
    /\ IF \E i \in 1..end : m[i] = "bad"
       THEN \A i \in 1..end : m[i] = "bad" => Len(m) = i + 2
       ELSE \A i \in 1..(end - 1) : m[i] = "LF" /\ m[i + 1] = "CR" <=> i = end - 2

\* A segment arrives.  Unless BodySplit, the end of the headers and the body
\* come in one segment.
ClientSend(n) ==
    LET left == Len(unsent) - n IN
    /\ pc # "closed"
    /\ left >= 0
    /\ BodySplit \/ left = 0 \/ left > BodyLen(message)
    /\ inbox' = inbox \o SubSeq(unsent, 1, n)
    /\ unsent' = SubSeq(unsent, n + 1, Len(unsent))
    /\ UNCHANGED <<m_read_buf, parser, m_iv, pc, ret, message, out, count>>

Answered == unsent = <<>> /\ pc = "in" /\ ret # "NO_REQUEST" /\ Len(out) >= AnswerLen

\* The next request on the same connection, once the answer is complete.
ClientNext ==
    /\ Answered
    /\ count < MaxMessages
    /\ message' \in Messages
    /\ unsent' = message'
    /\ out' = <<>>
    /\ ret' = "NO_REQUEST"
    /\ count' = count + 1
    /\ UNCHANGED <<m_read_buf, parser, m_iv, pc, inbox>>

Next ==
    \/ Read \/ Parse \/ Write
    \/ \E n \in 1..READ_BUFFER_SIZE : ClientSend(n)
    \/ ClientNext

\* Threads and kernel make progress; a client need not finish its request.
Spec == Init /\ [][Next]_vars /\ WF_vars(Read) /\ WF_vars(Parse) /\ WF_vars(Write)

-----------------------------------------------------------------------------
(* Properties *)

\* Type invariant of the connection; the three indices stay in order.
TypeOK ==
    /\ m_read_buf \in Seq(Tokens) /\ m_read_index <= READ_BUFFER_SIZE
    /\ m_start_line \in 0..m_checked_index
    /\ m_checked_index \in 0..m_read_index
    /\ m_check_stat \in {"REQUESTLINE", "HEADER", "CONTENT"}
    /\ m_route \in RequestLines
    /\ m_content_length \in Int
    /\ m_linger \in BOOLEAN
    /\ pc \in {"in", "parse", "out", "closed", "lost"}
    /\ ret \in {"NO_REQUEST", "BAD_REQUEST", "NO_RESOURCE", "HANDLED",
               "FORBIDDEN_REQUEST", "INTERNAL_ERROR"}
    /\ \A i \in 1..2 : m_iv[i].base \in Nat /\ m_iv[i].len \in Nat
    /\ message \in Messages
    /\ count \in 1..MaxMessages

\* parse_content() is called with the body that came with the headers, all of it
\* and nothing else, and with the length the headers gave: nothing is left of an
\* earlier request, and no line's end is off by one.
BodyIsHandedOver ==
    pc = "parse" /\ m_check_stat = "CONTENT" =>
        /\ m_content_length = Declared(message)
        /\ SubSeq(m_read_buf, m_start_line + 1, m_read_index)
              = SubSeq(message, HeadersEnd(message) + 1, Len(message))

\* The outcomes a request deserves as a whole, however it is cut up.  One whose
\* Content-Length overflows the sum of parse_content() may be taken either way.
Expected(m) ==
    LET has(x) == \E i \in DOMAIN m : m[i] = x
        end    == Declared(m) + HeadersEnd(m)
    IN
    CASE has("bad")                     -> {"BAD_REQUEST"}
      [] has("get")                     -> Handled
      [] has("put") /\ Declared(m) = 0  -> {"NO_RESOURCE"}
      [] OTHER -> {code \in Handled : end > INT_MAX \/ Len(m) >= end}
                    \cup {code \in {"BAD_REQUEST"} : end > INT_MAX \/ Len(m) < end}

\* process_read() gives a request the same outcome however it is cut into
\* segments, and not before it is complete: nothing of an earlier request or of
\* an earlier pass over a partial line disturbs it.
OutcomeIgnoresSegments ==
    pc = "out" => unsent = <<>> /\ inbox = <<>> /\ ret \in Expected(message)

\* process_read() never asks for more of a request it has completely: a connection
\* that waits for bytes with nothing of its request under way has been answered.
CompleteIsAnswered ==
    pc = "in" /\ unsent = <<>> /\ inbox = <<>> => ret # "NO_REQUEST"

\* The client gets the bytes of the answer in order, each once, across every
\* way writev may cut them and across the two buffers.
AnswerInOrder ==
    /\ \A i \in DOMAIN out : out[i] = i - 1
    /\ Answered => Len(out) = AnswerLen

\* A request that has been sent completely is answered, or its connection is
\* closed (when it does not fit the buffer, or asked for it) or lost.
RequestIsAnswered == (unsent = <<>>) ~> (Answered \/ pc \in {"closed", "lost"})
=============================================================================
