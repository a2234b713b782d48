------------------------------ MODULE EventLoop ------------------------------
(***************************************************************************)
(* One backend process: the epoll loop of src/src/main.cpp, the table of   *)
(* http_conn objects indexed by file descriptor, and the worker pool.      *)
(*                                                                         *)
(* The main thread accepts, reads, writes and closes; the workers parse    *)
(* and answer.  An http_conn has no lock: the program relies on            *)
(* EPOLLONESHOT, which switches a descriptor off when epoll_wait reports   *)
(* it, so that the descriptor's object has one user until somebody calls   *)
(* modfd.  Whether that discipline holds, and what becomes of a connection *)
(* when a step of it is skipped, is what this module is about.             *)
(*                                                                         *)
(* A request is ReqLen segments and an answer RespLen bytes; what is in    *)
(* them, and how process_read tells a complete request, is HttpConn's      *)
(* matter.  process_read may also answer before the request is whole: a    *)
(* request line it cannot parse, a route that needs no body, a body that   *)
(* has not arrived.  init() then empties the buffer, and what the client   *)
(* still sends of that request is read as the beginning of the next one.   *)
(* Clients wait for an answer before they send again, as the Nginx proxy   *)
(* in front of the backends does.                                          *)
(***************************************************************************)
EXTENDS Integers, Sequences, FiniteSets, FiniteSetsExt

CONSTANTS
    Workers, NoRequest, MaxRequests,   \* the pool's parameters
    OsFds,        \* descriptors the operating system can hand out are 1..OsFds
    MaxFd,        \* max_fd: users[] has this many entries
    ReqLen,       \* segments of a request
    RespLen,      \* bytes of an answer
    SndBuf,       \* capacity of a socket's send buffer, in bytes
    MaxBacklog,   \* bound: connections waiting in the listen queue
    MaxEarly      \* bound: requests of the open connections answered before they are whole

ASSUME LoopAssumption ==
    /\ OsFds \in Nat /\ MaxFd \in 1..OsFds
    /\ {ReqLen, RespLen, SndBuf, MaxBacklog} \subseteq Nat \ {0}
    /\ IsFiniteSet(Workers) /\ Workers # {}      \* as the pool assumes
    /\ MaxRequests \in Nat \ {0} /\ MaxEarly \in Nat
    /\ NoRequest \notin 1..(MaxFd - 1)

AllFds   == 1..OsFds
Fds      == 1..(MaxFd - 1)      \* the entries of users[] a connection can get
ListenFd == 0
NoFd     == -1

VARIABLES
    \* the pool, see ThreadPool
    m_workqueue, m_queuestat, m_stop, workerPc, request, mainPc,
    \* http_conn, one entry per descriptor
    m_sockfd, m_read_index, m_iv, m_linger,
    m_user_count, \* the static counter of open connections
    stage,        \* where each worker is inside process()
    users,        \* "alive", or "deleted" once main has left its loop
    events,       \* what the last epoll_wait reported and main has still to handle
    \* the kernel and the clients
    open,         \* descriptors that are open sockets
    interest,     \* epoll registration: "none", "in", "out", or "off" (one-shot fired)
    inbox,        \* segments received by the kernel and not read yet
    flight,       \* bytes written and not yet received by the client
    sent,         \* segments of its current request the client has sent
    late,         \* segments it still sends of a request that is answered already
    got,          \* bytes of the answer the client has received
    peerHup,      \* the client has closed its end
    backlog,      \* connections not accepted yet
    early         \* history: requests of this connection answered before they were whole

poolVars   == <<m_workqueue, m_queuestat, m_stop, workerPc, request, mainPc>>
connVars   == <<m_sockfd, m_read_index, m_iv, m_linger>>
serverVars == <<m_user_count, stage, users, events>>
kernelVars == <<open, interest, inbox, flight, sent, late, early, got, peerHup, backlog>>
vars       == <<poolVars, connVars, serverVars, kernelVars>>

Pool == INSTANCE ThreadPool WITH Requests <- Fds

Stages == {"none", "parse", "arm_in", "arm_out", "return"}

\* new http_conn[max_fd] leaves the members indeterminate; two values stand
\* for what the memory may hold.  (m_iv and m_linger are indeterminate too;
\* like the others they are assigned by Accept before anything reads them.)
Init ==
    /\ Pool!PoolInit
    /\ m_sockfd \in [Fds -> {NoFd, ListenFd}]
    /\ m_read_index \in [Fds -> {0, 1}]
    /\ m_iv = [fd \in Fds |-> 0]
    /\ m_linger = [fd \in Fds |-> TRUE]
    /\ m_user_count = 0
    /\ stage = [w \in Workers |-> "none"]
    /\ users = "alive"
    /\ events = {}
    /\ open = {}
    /\ interest = [fd \in Fds |-> "none"]
    /\ inbox = [fd \in Fds |-> 0]
    /\ flight = [fd \in Fds |-> 0]
    /\ sent = [fd \in Fds |-> 0]
    /\ late = [fd \in Fds |-> 0]
    /\ early = [fd \in Fds |-> 0]
    /\ got = [fd \in Fds |-> 0]
    /\ peerHup = [fd \in Fds |-> FALSE]
    /\ backlog = 0

-----------------------------------------------------------------------------
(* epoll *)

\* EPOLL_CTL_MOD fails on a descriptor that is not registered.
Modfd(fd, ev) ==
    interest' = [interest EXCEPT ![fd] = IF @ = "none" THEN @ ELSE ev]

\* The branch of the loop an fd's event mask leads to: a hang-up is tested
\* first.
Mask(fd) ==
    CASE interest[fd] \notin {"in", "out"}                           -> "nothing"
      [] interest[fd] \in {"in", "out"} /\ peerHup[fd]               -> "hup"
      [] interest[fd] = "in"  /\ ~peerHup[fd] /\ inbox[fd] > 0       -> "in"
      [] interest[fd] = "out" /\ ~peerHup[fd] /\ flight[fd] < SndBuf -> "out"
      [] OTHER                                                       -> "nothing"

Ready ==
    {<<fd, Mask(fd)>> : fd \in {f \in open : Mask(f) # "nothing"}}
        \cup (IF backlog > 0 THEN {<<ListenFd, "in">>} ELSE {})

MainFree == users = "alive" /\ mainPc = "loop"

\* Mutant: addfd() and modfd() without EPOLLONESHOT.
EpollWaitLevelTriggered ==
    /\ MainFree
    /\ events = {}
    /\ Ready # {}
    /\ events' = Ready
    /\ UNCHANGED <<poolVars, connVars, m_user_count, stage, users, kernelVars>>

\* epoll_wait reports every ready descriptor and switches the one-shot ones
\* off.
EpollWait ==
    /\ MainFree
    /\ events = {}
    /\ Ready # {}
    /\ events' = Ready
    /\ interest' = [fd \in Fds |->
                      IF \E ev \in Ready : ev[1] = fd THEN "off" ELSE interest[fd]]
    /\ UNCHANGED <<poolVars, connVars, m_user_count, stage, users,
                   open, inbox, flight, sent, late, early, got, peerHup, backlog>>

Take(ev) ==
    /\ MainFree
    /\ ev \in events
    /\ events' = events \ {ev}

-----------------------------------------------------------------------------
(* http_conn *)

\* http_conn::init(): the object forgets the previous request.
InitConn(fd) ==
    /\ m_read_index' = [m_read_index EXCEPT ![fd] = 0]
    /\ m_iv' = [m_iv EXCEPT ![fd] = 0]
    /\ m_linger' = [m_linger EXCEPT ![fd] = TRUE]

\* Mutant: m_user_count-- is forgotten.
CloseConnUncounted(fd) ==
    /\ m_sockfd' = [m_sockfd EXCEPT ![fd] = NoFd]
    /\ open' = open \ {fd}
    /\ interest' = [interest EXCEPT ![fd] = "none"]
    /\ inbox' = [inbox EXCEPT ![fd] = 0]
    /\ flight' = [flight EXCEPT ![fd] = 0]
    /\ sent' = [sent EXCEPT ![fd] = 0]
    /\ late' = [late EXCEPT ![fd] = 0]
    /\ early' = [early EXCEPT ![fd] = 0]
    /\ got' = [got EXCEPT ![fd] = 0]
    /\ peerHup' = [peerHup EXCEPT ![fd] = FALSE]
    /\ UNCHANGED m_user_count

\* http_conn::close_conn(); the kernel drops what was still in the socket.
CloseConn(fd) ==
    IF m_sockfd[fd] = NoFd
    THEN UNCHANGED <<m_sockfd, m_user_count, open, interest, inbox, flight,
                     sent, late, early, got, peerHup>>
    ELSE /\ m_sockfd' = [m_sockfd EXCEPT ![fd] = NoFd]
         /\ m_user_count' = m_user_count - 1
         /\ open' = open \ {fd}
         /\ interest' = [interest EXCEPT ![fd] = "none"]
         /\ inbox' = [inbox EXCEPT ![fd] = 0]
         /\ flight' = [flight EXCEPT ![fd] = 0]
         /\ sent' = [sent EXCEPT ![fd] = 0]
         /\ late' = [late EXCEPT ![fd] = 0]
         /\ early' = [early EXCEPT ![fd] = 0]
         /\ got' = [got EXCEPT ![fd] = 0]
         /\ peerHup' = [peerHup EXCEPT ![fd] = FALSE]

-----------------------------------------------------------------------------
(* The branches of main's for loop *)

\* accept() fails: the client is gone again.
AcceptError ==
    /\ Take(<<ListenFd, "in">>)
    /\ backlog = 0
    /\ UNCHANGED <<poolVars, connVars, m_user_count, stage, users, kernelVars>>

\* accept() returns the lowest free descriptor; too many users, or a
\* descriptor outside users[]: close it at once.
AcceptRefuse ==
    /\ Take(<<ListenFd, "in">>)
    /\ backlog > 0
    /\ m_user_count >= MaxFd \/ Min(AllFds \ open) >= MaxFd
    /\ backlog' = backlog - 1
    /\ UNCHANGED <<poolVars, connVars, m_user_count, stage, users,
                   open, interest, inbox, flight, sent, late, early, got, peerHup>>

\* users[connfd].init(connfd, client_address)
Accept ==
    LET connfd == Min(AllFds \ open) IN
    /\ Take(<<ListenFd, "in">>)
    /\ backlog > 0
    /\ m_user_count < MaxFd /\ connfd < MaxFd
    /\ backlog' = backlog - 1
    /\ open' = open \cup {connfd}
    /\ m_sockfd' = [m_sockfd EXCEPT ![connfd] = connfd]
    /\ m_user_count' = m_user_count + 1
    /\ interest' = [interest EXCEPT ![connfd] = "in"]
    /\ InitConn(connfd)
    /\ UNCHANGED <<poolVars, stage, users, inbox, flight, sent, late, early, got, peerHup>>

\* Mutant: a hang-up is skipped.
HandleHupIgnored(fd) ==
    /\ Take(<<fd, "hup">>)
    /\ UNCHANGED <<poolVars, connVars, m_user_count, stage, users, kernelVars>>

HandleHup(fd) ==
    /\ Take(<<fd, "hup">>)
    /\ CloseConn(fd)
    /\ UNCHANGED <<poolVars, m_read_index, m_iv, m_linger, stage, users, backlog>>

\* read() meets the end of the stream: close_conn().
HandleInEof(fd) ==
    /\ Take(<<fd, "in">>)
    /\ peerHup[fd]
    /\ m_read_index' = [m_read_index EXCEPT ![fd] = @ + inbox[fd]]
    /\ CloseConn(fd)
    /\ UNCHANGED <<poolVars, m_iv, m_linger, stage, users, backlog>>

\* read() empties the socket.
ReadAll(fd) ==
    /\ Take(<<fd, "in">>)
    /\ ~peerHup[fd]
    /\ m_read_index' = [m_read_index EXCEPT ![fd] = @ + inbox[fd]]
    /\ inbox' = [inbox EXCEPT ![fd] = 0]
    /\ UNCHANGED <<m_sockfd, m_iv, m_linger, m_user_count, stage, users,
                   open, interest, flight, sent, late, early, got, peerHup, backlog>>

\* pool->append(users + sockfd) returns true ...
HandleIn(fd) == ReadAll(fd) /\ Pool!AppendPush(fd)

\* ... or false, and the loop does not look at what it returns.
HandleInRejected(fd) == ReadAll(fd) /\ Pool!AppendReject

\* Mutant: append() returns before it wakes a worker.
MainReleaseDropped ==
    /\ mainPc = "release"
    /\ mainPc' = "loop"
    /\ UNCHANGED <<m_workqueue, m_queuestat, m_stop, workerPc, request,
                   connVars, serverVars, kernelVars>>

MainRelease ==
    /\ Pool!AppendRelease
    /\ UNCHANGED <<connVars, serverVars, kernelVars>>

\* write(): the peer has reset the connection, writev fails: close_conn().
HandleOutError(fd) ==
    /\ Take(<<fd, "out">>)
    /\ peerHup[fd]
    /\ CloseConn(fd)
    /\ UNCHANGED <<poolVars, m_read_index, m_iv, m_linger, stage, users, backlog>>

\* What writev can place in the send buffer.
Writable(fd) == Min({m_iv[fd], SndBuf - flight[fd]})

\* Mutant: iov_base and iov_len are not advanced before the next writev.
HandleOutRepeats(fd) ==
    /\ Take(<<fd, "out">>)
    /\ Writable(fd) < m_iv[fd]
    /\ flight' = [flight EXCEPT ![fd] = @ + Writable(fd)]
    /\ Modfd(fd, "out")
    /\ UNCHANGED <<poolVars, connVars, m_user_count, stage,
                   users, open, inbox, sent, late, early, got, peerHup, backlog>>

\* Mutant: no modfd() on EAGAIN.
HandleOutNotArmed(fd) ==
    /\ Take(<<fd, "out">>)
    /\ Writable(fd) < m_iv[fd]
    /\ m_iv' = [m_iv EXCEPT ![fd] = @ - Writable(fd)]
    /\ flight' = [flight EXCEPT ![fd] = @ + Writable(fd)]
    /\ UNCHANGED <<poolVars, m_sockfd, m_read_index, m_linger, m_user_count, stage,
                   users, open, interest, inbox, sent, late, early, got, peerHup, backlog>>

\* write(): part of the answer goes out, then EAGAIN: wait for room.
HandleOutPartly(fd) ==
    /\ Take(<<fd, "out">>)
    /\ Writable(fd) < m_iv[fd]
    /\ m_iv' = [m_iv EXCEPT ![fd] = @ - Writable(fd)]
    /\ flight' = [flight EXCEPT ![fd] = @ + Writable(fd)]
    /\ Modfd(fd, "out")
    /\ UNCHANGED <<poolVars, m_sockfd, m_read_index, m_linger, m_user_count, stage,
                   users, open, inbox, sent, late, early, got, peerHup, backlog>>

\* write(): the answer is out and the connection persists: init(), listen again.
HandleOutKeep(fd) ==
    /\ Take(<<fd, "out">>)
    /\ Writable(fd) = m_iv[fd]
    /\ m_linger[fd]
    /\ flight' = [flight EXCEPT ![fd] = @ + Writable(fd)]
    /\ InitConn(fd)
    /\ Modfd(fd, "in")
    /\ UNCHANGED <<poolVars, m_sockfd, m_user_count, stage, users,
                   open, inbox, sent, late, early, got, peerHup, backlog>>

\* write(): the answer is out and the request asked to close: close_conn().
HandleOutClose(fd) ==
    /\ Take(<<fd, "out">>)
    /\ Writable(fd) = m_iv[fd]
    /\ ~m_linger[fd]
    /\ m_iv' = [m_iv EXCEPT ![fd] = 0]
    /\ CloseConn(fd)
    /\ UNCHANGED <<poolVars, m_read_index, m_linger, stage, users, backlog>>

\* epoll_wait fails: main leaves its loop and deletes users[] ...
LeaveLoop ==
    /\ MainFree
    /\ events = {}
    /\ users' = "deleted"
    /\ UNCHANGED <<poolVars, connVars, m_user_count, stage, events, kernelVars>>

\* ... and then the pool.
DeletePool ==
    /\ users = "deleted"
    /\ Pool!Destructor
    /\ UNCHANGED <<connVars, serverVars, kernelVars>>

Exited ==
    /\ mainPc = "joined"
    /\ UNCHANGED vars

-----------------------------------------------------------------------------
(* The workers: threadpool::run() and http_conn::process() *)

Stage(w, s) == stage' = [stage EXCEPT ![w] = s]

WorkerLoop(w) ==
    /\ Pool!LoopTest(w) \/ Pool!Acquire(w) \/ Pool!CheckStop(w)
    /\ UNCHANGED <<connVars, serverVars, kernelVars>>

WorkerPop(w) ==
    /\ Pool!Pop(w)
    /\ Stage(w, IF workerPc'[w] = "process" THEN "parse" ELSE "none")
    /\ UNCHANGED <<connVars, m_user_count, users, events, kernelVars>>

\* process_read() returns NO_REQUEST: what is in the buffer does not reach the
\* end of the client's request.
ProcessIncomplete(w) ==
    LET fd == request[w] IN
    /\ stage[w] = "parse"
    /\ m_read_index[fd] < ReqLen \/ sent[fd] < ReqLen \/ inbox[fd] > 0
    /\ Stage(w, "arm_in")
    /\ UNCHANGED <<poolVars, connVars, m_user_count, users, events, kernelVars>>

\* process_read() handles the request, whole or not (a line it cannot parse, an
\* empty line before the body), and process_write() lays the answer out.  The
\* Connection header decides m_linger.
ProcessAnswer(w) ==
    LET fd == request[w] IN
    /\ stage[w] = "parse"
    /\ m_read_index[fd] > 0
    /\ m_read_index[fd] < ReqLen => MapThenSumSet(LAMBDA g : early[g], Fds) < MaxEarly
    /\ m_iv' = [m_iv EXCEPT ![fd] = RespLen]
    /\ \E keep \in BOOLEAN : m_linger' = [m_linger EXCEPT ![fd] = keep]
    /\ early' = [early EXCEPT ![fd] = IF m_read_index[fd] < ReqLen THEN @ + 1 ELSE @]
    /\ Stage(w, "arm_out")
    /\ UNCHANGED <<poolVars, m_sockfd, m_read_index, m_user_count, users, events,
                   open, interest, inbox, flight, sent, late, got, peerHup, backlog>>

\* Mutant: process() returns on NO_REQUEST without modfd().
ProcessArmOutOnly(w) ==
    /\ stage[w] \in {"arm_in", "arm_out"}
    /\ IF stage[w] = "arm_in" THEN UNCHANGED interest ELSE Modfd(request[w], "out")
    /\ Stage(w, "return")
    /\ UNCHANGED <<poolVars, connVars, m_user_count, users, events,
                   open, inbox, flight, sent, late, early, got, peerHup, backlog>>

\* The modfd() at the end of process(): from here on the descriptor belongs
\* to main again, although the worker has not returned yet.
ProcessArm(w) ==
    LET fd == request[w] IN
    /\ stage[w] \in {"arm_in", "arm_out"}
    /\ Modfd(fd, IF stage[w] = "arm_in" THEN "in" ELSE "out")
    /\ Stage(w, "return")
    /\ UNCHANGED <<poolVars, connVars, m_user_count, users, events,
                   open, inbox, flight, sent, late, early, got, peerHup, backlog>>

ProcessReturn(w) ==
    /\ stage[w] = "return"
    /\ Pool!Processed(w)
    /\ Stage(w, "none")
    /\ UNCHANGED <<connVars, m_user_count, users, events, kernelVars>>

-----------------------------------------------------------------------------
(* The clients; external. *)

ClientConnect ==
    /\ backlog < MaxBacklog
    /\ backlog' = backlog + 1
    /\ UNCHANGED <<poolVars, connVars, serverVars,
                   open, interest, inbox, flight, sent, late, early, got, peerHup>>

\* A client gives up before it is accepted.
ClientAbort ==
    /\ backlog > 0
    /\ backlog' = backlog - 1
    /\ UNCHANGED <<poolVars, connVars, serverVars,
                   open, interest, inbox, flight, sent, late, early, got, peerHup>>

ClientSend(fd) ==
    /\ fd \in open /\ ~peerHup[fd]
    /\ late[fd] = 0 /\ sent[fd] < ReqLen
    /\ sent' = [sent EXCEPT ![fd] = @ + 1]
    /\ inbox' = [inbox EXCEPT ![fd] = @ + 1]
    /\ UNCHANGED <<poolVars, connVars, serverVars,
                   open, interest, flight, late, early, got, peerHup, backlog>>

\* The rest of a request whose answer is there already.
ClientSendLate(fd) ==
    /\ fd \in open /\ ~peerHup[fd]
    /\ late[fd] > 0
    /\ late' = [late EXCEPT ![fd] = @ - 1]
    /\ inbox' = [inbox EXCEPT ![fd] = @ + 1]
    /\ UNCHANGED <<poolVars, connVars, serverVars,
                   open, interest, flight, sent, early, got, peerHup, backlog>>

\* With a whole answer received the client goes on to its next request, after
\* the rest of the one that was answered.  An answer to nothing is dropped.
ClientReceive(fd) ==
    LET total == got[fd] + flight[fd]
        done  == total >= RespLen
    IN
    /\ fd \in open /\ ~peerHup[fd]
    /\ flight[fd] > 0
    /\ flight' = [flight EXCEPT ![fd] = 0]
    /\ got' = [got EXCEPT ![fd] = IF done THEN total - RespLen ELSE total]
    /\ sent' = [sent EXCEPT ![fd] = IF done THEN 0 ELSE @]
    /\ late' = [late EXCEPT ![fd] = IF done /\ sent[fd] > 0 THEN ReqLen - sent[fd] ELSE @]
    /\ UNCHANGED <<poolVars, connVars, serverVars,
                   open, interest, inbox, early, peerHup, backlog>>

ClientClose(fd) ==
    /\ fd \in open /\ ~peerHup[fd]
    /\ peerHup' = [peerHup EXCEPT ![fd] = TRUE]
    /\ UNCHANGED <<poolVars, connVars, serverVars,
                   open, interest, inbox, flight, sent, late, early, got, backlog>>

-----------------------------------------------------------------------------
HandleEvent(fd) ==
    \/ HandleHup(fd)
    \/ HandleInEof(fd) \/ HandleIn(fd) \/ HandleInRejected(fd)
    \/ HandleOutError(fd) \/ HandleOutPartly(fd) \/ HandleOutKeep(fd) \/ HandleOutClose(fd)

MainLoop ==
    \/ EpollWait
    \/ AcceptError \/ AcceptRefuse \/ Accept
    \/ \E fd \in Fds : HandleEvent(fd)
    \/ MainRelease

WorkerStep(w) ==
    \/ WorkerLoop(w) \/ WorkerPop(w)
    \/ ProcessIncomplete(w) \/ ProcessAnswer(w) \/ ProcessArm(w) \/ ProcessReturn(w)

Client(fd) == ClientSend(fd) \/ ClientSendLate(fd) \/ ClientReceive(fd) \/ ClientClose(fd)

Next ==
    \/ MainLoop
    \/ LeaveLoop \/ DeletePool \/ Exited
    \/ \E w \in Workers : WorkerStep(w)
    \/ ClientConnect \/ ClientAbort
    \/ \E fd \in Fds : Client(fd)

(***************************************************************************)
(* Every thread of the process keeps running, and a client that is owed an *)
(* answer reads what arrives.  epoll_wait is never assumed to fail, and no *)
(* client is assumed to connect, to finish its request or to close.        *)
(***************************************************************************)
Fairness ==
    /\ WF_vars(MainLoop)
    /\ WF_vars(DeletePool)
    /\ \A w \in Workers : WF_vars(WorkerStep(w))
    /\ \A fd \in Fds : WF_vars(ClientReceive(fd))

Spec == Init /\ [][Next]_vars /\ Fairness

-----------------------------------------------------------------------------
(* Properties *)

\* Type invariant of the process.
TypeOK ==
    /\ Pool!PoolTypeOK
    /\ m_sockfd \in [Fds -> Fds \cup {NoFd, ListenFd}]
    /\ m_read_index \in [Fds -> Nat]
    /\ m_iv \in [Fds -> 0..RespLen]
    /\ m_linger \in [Fds -> BOOLEAN]
    /\ m_user_count \in Nat
    /\ stage \in [Workers -> Stages]
    /\ users \in {"alive", "deleted"}
    /\ events \subseteq ({<<ListenFd, "in">>} \cup Fds \X {"hup", "in", "out"})
    /\ open \subseteq Fds
    /\ interest \in [Fds -> {"none", "in", "out", "off"}]
    /\ inbox \in [Fds -> Nat]
    /\ flight \in [Fds -> 0..SndBuf]
    /\ sent \in [Fds -> 0..ReqLen]
    /\ late \in [Fds -> 0..(ReqLen - 1)]
    /\ early \in [Fds -> 0..MaxEarly]
    /\ got \in [Fds -> Nat]
    /\ peerHup \in [Fds -> BOOLEAN]
    /\ backlog \in 0..MaxBacklog

\* In how many places somebody may touch the http_conn of fd: an armed
\* registration, an event main has not handled, the queue, a worker that has
\* not re-armed it yet.
Owners(fd) ==
    (IF interest[fd] \in {"in", "out"} THEN 1 ELSE 0)
    + Cardinality({ev \in events : ev[1] = fd})
    + Cardinality({i \in DOMAIN m_workqueue : m_workqueue[i] = fd})
    + Cardinality({w \in Workers : request[w] = fd /\ stage[w] # "return"})

\* EPOLLONESHOT does what the lock-free http_conn needs: an open connection
\* never has two owners, which would race on its fields, and nothing refers to
\* a closed one, whose descriptor may already be another client's.
SingleOwner ==
    users = "alive" => \A fd \in Fds : Owners(fd) <= IF fd \in open THEN 1 ELSE 0

\* Nor is a connection ever without an owner, so that nobody would ever look
\* at it again, provided that the queue can hold every connection of the
\* table: then append() never returns false, which main would not notice.
AlwaysAttended ==
    users = "alive" /\ MaxRequests >= MaxFd - 1 => \A fd \in open : Owners(fd) > 0

\* The static m_user_count, which main compares with max_fd, is the number of
\* open connections, and users[fd] is the object of descriptor fd: no branch
\* closes a connection twice or forgets to count one.
UserCountExact ==
    users = "alive" =>
        /\ m_user_count = Cardinality(open)
        /\ \A fd \in open : m_sockfd[fd] = fd

\* The bytes of a connection, across the reuse of its object for the next
\* request and of its descriptor for the next client.  The answer bytes in
\* m_iv, on their way and with the client are always whole answers.  And as
\* long as no request of the connection was answered before it was whole, what
\* the client sent is in the kernel or in m_read_buf, and there is one answer
\* to it or none yet: nothing is lost, repeated or left from before, whatever
\* happened to the descriptor's former connections.
StreamConservation ==
    users = "alive" =>
        \A fd \in open :
            LET answer == m_iv[fd] + flight[fd] + got[fd] IN
            /\ \E n \in 0..answer : answer = n * RespLen
            /\ early[fd] = 0 =>
                \/ m_read_index[fd] + inbox[fd] = sent[fd] /\ answer = 0
                \/ /\ sent[fd] = ReqLen /\ inbox[fd] = 0
                   /\ answer = RespLen
                   /\ m_read_index[fd] = IF m_iv[fd] > 0 THEN ReqLen ELSE 0

\* A client that has sent a whole request is answered or its connection is
\* closed, unless the process is on its way out.
RequestIsAnswered ==
    \A fd \in Fds : (sent[fd] = ReqLen) ~> (sent[fd] < ReqLen \/ users = "deleted")

\* When a client hangs up, its descriptor is given back, whoever holds the
\* connection at that moment.
HangupIsClosed ==
    \A fd \in Fds : peerHup[fd] ~> (~peerHup[fd] \/ users = "deleted")

\* The pool inside the process is the pool of ThreadPool, with its fairness:
\* process() always returns.
PoolInside == Pool!PoolSpec
=============================================================================
