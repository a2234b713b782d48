--------------------------- MODULE EventLoopProofs --------------------------
(***************************************************************************)
(* The safety properties of EventLoop, proved for every number of workers  *)
(* and descriptors, every queue length and every length of requests and    *)
(* answers; and the proof that the pool inside the process takes only the  *)
(* steps of ThreadPool.                                                    *)
(***************************************************************************)
EXTENDS EventLoop, FiniteSetTheorems, WellFoundedInduction, TLAPS

Masks == {"hup", "in", "out"}

\* The types the proof needs; the bounds of TypeOK follow from the invariant.
ServerTypes ==
    /\ m_workqueue \in Seq(Fds)
    /\ workerPc \in [Workers -> Pool!WorkerStates]
    /\ request \in [Workers -> Fds \cup {NoRequest}]
    /\ stage \in [Workers -> Stages]
    /\ users \in {"alive", "deleted"}
    /\ events \subseteq ({<<ListenFd, "in">>} \cup (Fds \X Masks))

ConnTypes ==
    /\ m_sockfd \in [Fds -> Int]
    /\ m_read_index \in [Fds -> Nat]
    /\ m_iv \in [Fds -> Nat]
    /\ m_user_count \in Int
    /\ open \subseteq Fds
    /\ interest \in [Fds -> {"none", "in", "out", "off"}]
    /\ inbox \in [Fds -> Nat]
    /\ flight \in [Fds -> 0..SndBuf]
    /\ sent \in [Fds -> 0..ReqLen]
    /\ late \in [Fds -> Int]
    /\ early \in [Fds -> Nat]
    /\ got \in [Fds -> Nat]

\* A worker has a request exactly while it is inside process().
WorkersInside ==
    \A w \in Workers :
        IF workerPc[w] = "process"
        THEN stage[w] # "none" /\ request[w] \in Fds
        ELSE stage[w] = "none" /\ request[w] = NoRequest

(***************************************************************************)
(* The four places where somebody may touch the http_conn of fd.           *)
(***************************************************************************)
Armed(fd)    == interest[fd] \in {"in", "out"}
Reported(fd) == \E mask \in Masks : <<fd, mask>> \in events
Queued(fd)   == \E i \in DOMAIN m_workqueue : m_workqueue[i] = fd
Served(fd)   == \E w \in Workers : request[w] = fd /\ stage[w] # "return"

\* No object is in two of the four places ...
PlacesExclude ==
    \A fd \in Fds :
        /\ Armed(fd) => ~Reported(fd) /\ ~Queued(fd) /\ ~Served(fd)
        /\ Reported(fd) => ~Queued(fd) /\ ~Served(fd)
        /\ Queued(fd) => ~Served(fd)

\* ... nor in one of them twice.
PlacesUnique ==
    /\ \A fd \in Fds : \A m, n \in Masks : <<fd, m>> \in events /\ <<fd, n>> \in events => m = n
    /\ \A i, j \in DOMAIN m_workqueue : m_workqueue[i] = m_workqueue[j] => i = j
    /\ \A v, w \in Workers :
          request[v] = request[w] /\ request[v] \in Fds
          /\ stage[v] # "return" /\ stage[w] # "return" => v = w

\* What is in one of them is open.
OwnedIsOpen ==
    \A fd \in Fds : Armed(fd) \/ Reported(fd) \/ Queued(fd) \/ Served(fd) => fd \in open

\* What is open is in one of them, when the queue has room for every connection.
OpenIsOwned ==
    MaxRequests >= MaxFd - 1 =>
        \A fd \in open : Armed(fd) \/ Reported(fd) \/ Queued(fd) \/ Served(fd)

\* The table: an open descriptor is registered and is its object's m_sockfd, and
\* nothing is left in the kernel of a closed one.
TableExact ==
    /\ m_user_count = Cardinality(open)
    /\ \A fd \in open : m_sockfd[fd] = fd /\ interest[fd] # "none"
    /\ \A fd \in Fds \ open : /\ inbox[fd] = 0 /\ flight[fd] = 0 /\ sent[fd] = 0 /\ got[fd] = 0
                             /\ late[fd] = 0 /\ early[fd] = 0

\* Between answers m_iv is empty; a connection that waits for room to write, or is
\* about to, has bytes to write.
Reading(fd) ==
    \/ interest[fd] = "in" \/ <<fd, "in">> \in events \/ Queued(fd)
    \/ \E w \in Workers : request[w] = fd /\ stage[w] \in {"parse", "arm_in"}
Writing(fd) ==
    \/ interest[fd] = "out" \/ <<fd, "out">> \in events
    \/ \E w \in Workers : request[w] = fd /\ stage[w] = "arm_out"

DirectionExact ==
    \A fd \in Fds : (Reading(fd) => m_iv[fd] = 0) /\ (Writing(fd) => m_iv[fd] > 0)

\* A number of bytes is a number of whole answers.
Whole(bytes) == \E n \in 0..bytes : bytes = n * RespLen

\* The answer bytes of a connection.
Answer(fd) == m_iv[fd] + flight[fd] + got[fd]

\* What StreamConservation says of a connection none of whose requests was answered
\* early; and only a request answered early has a rest to come.
Plain(fd) ==
    /\ late[fd] = 0
    /\ \/ m_read_index[fd] + inbox[fd] = sent[fd] /\ Answer(fd) = 0
       \/ /\ sent[fd] = ReqLen /\ inbox[fd] = 0
          /\ Answer(fd) = RespLen
          /\ m_read_index[fd] = IF m_iv[fd] > 0 THEN ReqLen ELSE 0

\* StreamConservation for one connection.
Stream(fd) == Whole(Answer(fd)) /\ (early[fd] = 0 => Plain(fd))

StreamsExact == \A fd \in open : Stream(fd)

\* What holds until main leaves its loop; after that the workers that are still in
\* process() use deleted objects.
AliveInv ==
    /\ PlacesExclude /\ PlacesUnique
    /\ OwnedIsOpen /\ OpenIsOwned
    /\ TableExact
    /\ DirectionExact /\ StreamsExact

\* The inductive invariant.
LoopInv == ServerTypes /\ ConnTypes /\ WorkersInside /\ (users = "alive" => AliveInv)

-----------------------------------------------------------------------------
(* Smallest elements *)

\* A set of natural numbers has a smallest, which Min returns.
LEMMA MinOfSet ==
    ASSUME NEW S \in SUBSET Nat, S # {}
    PROVE  Min(S) \in S /\ \A y \in S : Min(S) <= y
<1>1. PICK x \in S : \A y \in S : ~(<<y, x>> \in OpToRel(<, Nat))
  BY WFMin, NatLessThanWellFounded, Zenon
<1>2. \A y \in S : <<y, x>> \in Nat \X Nat
  OBVIOUS
<1>3. \A y \in S : ~(y < x)
  BY <1>1, <1>2 DEF OpToRel
<1>4. \A y \in S : x <= y
  BY <1>3
<1> QED
  BY <1>4 DEF Min

\* writev places what is left of the answer, or what the buffer has room for.
LEMMA WritableBounds ==
    ASSUME ConnTypes, NEW fd \in Fds
    PROVE  /\ Writable(fd) \in Nat
           /\ Writable(fd) <= m_iv[fd]
           /\ flight[fd] + Writable(fd) \in 0..SndBuf
<1>1. m_iv[fd] \in Nat /\ flight[fd] \in 0..SndBuf /\ SndBuf \in Nat
  BY LoopAssumption DEF ConnTypes
<1>2. \E x \in {m_iv[fd], SndBuf - flight[fd]} : \A y \in {m_iv[fd], SndBuf - flight[fd]} : x <= y
  BY <1>1
<1>3. /\ Writable(fd) \in {m_iv[fd], SndBuf - flight[fd]}
      /\ \A y \in {m_iv[fd], SndBuf - flight[fd]} : Writable(fd) <= y
  BY <1>2 DEF Writable, Min
<1> QED
  BY <1>1, <1>3

\* The descriptors are finitely many ...
LEMMA FdsFinite == IsFiniteSet(Fds) /\ Cardinality(Fds) = MaxFd - 1
<1>1. MaxFd \in Int /\ MaxFd - 1 >= 0
  BY LoopAssumption
<1>2. /\ IsFiniteSet(1..(MaxFd - 1))
      /\ Cardinality(1..(MaxFd - 1)) = IF 1 > MaxFd - 1 THEN 0 ELSE (MaxFd - 1) - 1 + 1
  BY <1>1, FS_Interval
<1> QED
  BY <1>1, <1>2 DEF Fds

\* ... and so are the open ones.
LEMMA OpenFinite ==
    ASSUME ConnTypes
    PROVE  IsFiniteSet(open) /\ Cardinality(open) \in Nat
BY FdsFinite, FS_Subset, FS_CardinalityType DEF ConnTypes

-----------------------------------------------------------------------------
(* Whole answers *)

\* No byte is no answer ...
LEMMA NoAnswerIsWhole == Whole(0)
<1>1. 0 \in 0..0 /\ 0 = 0 * RespLen
  BY LoopAssumption
<1> QED
  BY <1>1 DEF Whole

\* ... an answer more is whole ...
LEMMA OneMoreAnswer ==
    ASSUME NEW a \in Nat, Whole(a)
    PROVE  Whole(a + RespLen)
<1>1. RespLen \in Nat \ {0}
  BY LoopAssumption
<1>2. PICK n \in 0..a : a = n * RespLen
  BY DEF Whole
<1>3. a + RespLen = (n + 1) * RespLen /\ n + 1 \in 0..(a + RespLen)
  BY <1>1, <1>2
<1> QED
  BY <1>3 DEF Whole

\* ... and so is an answer less.
LEMMA OneAnswerLess ==
    ASSUME NEW a \in Nat, Whole(a), a >= RespLen
    PROVE  Whole(a - RespLen)
<1>1. RespLen \in Nat \ {0}
  BY LoopAssumption
<1>2. PICK n \in 0..a : a = n * RespLen
  BY DEF Whole
<1>3. n # 0
  BY <1>1, <1>2
<1>4. a - RespLen = (n - 1) * RespLen /\ n - 1 \in Nat
  BY <1>1, <1>2, <1>3
<1>5. \A k \in Nat : k <= k * RespLen
  BY <1>1
<1> QED
  BY <1>1, <1>4, <1>5 DEF Whole

-----------------------------------------------------------------------------
(* The main thread *)

\* What epoll_wait reports of a descriptor depends on what it was armed for.
LEMMA MaskOfArmed ==
    ASSUME NEW fd
    PROVE  /\ Mask(fd) \in Masks \cup {"nothing"}
           /\ Mask(fd) # "nothing" => Armed(fd)
           /\ Mask(fd) = "in" => interest[fd] = "in"
           /\ Mask(fd) = "out" => interest[fd] = "out"
BY DEF Mask, Masks, Armed

\* A reported connection is open, its object is in no other place, and the report
\* is the only one.
LEMMA ReportedAlone ==
    ASSUME LoopInv, NEW fd \in Fds, NEW mask \in Masks, Take(<<fd, mask>>)
    PROVE  /\ users = "alive" /\ AliveInv /\ mainPc = "loop"
           /\ fd \in open /\ ~Armed(fd) /\ ~Queued(fd) /\ ~Served(fd)
           /\ \A m \in Masks : <<fd, m>> \notin events'
           /\ \A g \in Fds \ {fd} : \A m \in Masks : <<g, m>> \in events' <=> <<g, m>> \in events
           /\ events' \subseteq events
<1>1. users = "alive" /\ mainPc = "loop" /\ AliveInv /\ <<fd, mask>> \in events
      /\ events' = events \ {<<fd, mask>>}
  BY DEF Take, MainFree, LoopInv
<1>2. Reported(fd)
  BY <1>1 DEF Reported
<1>3. fd \in open /\ ~Armed(fd) /\ ~Queued(fd) /\ ~Served(fd)
  BY <1>1, <1>2 DEF AliveInv, PlacesExclude, OwnedIsOpen
<1>4. \A m \in Masks : <<fd, m>> \notin events'
  BY <1>1 DEF AliveInv, PlacesUnique
<1> QED
  BY <1>1, <1>3, <1>4

\* close_conn() on a reported connection takes it out of every place.
LEMMA CloseInv ==
    ASSUME LoopInv, NEW fd \in Fds, NEW mask \in Masks, Take(<<fd, mask>>), CloseConn(fd),
           UNCHANGED <<poolVars, stage, users>>,
           m_read_index' \in [Fds -> Nat], m_iv' \in [Fds -> Nat],
           \A g \in Fds \ {fd} : m_read_index'[g] = m_read_index[g] /\ m_iv'[g] = m_iv[g]
    PROVE  LoopInv'
<1>1. /\ users = "alive" /\ AliveInv
      /\ fd \in open /\ ~Armed(fd) /\ ~Queued(fd) /\ ~Served(fd)
      /\ \A m \in Masks : <<fd, m>> \notin events'
      /\ \A g \in Fds \ {fd} : \A m \in Masks : <<g, m>> \in events' <=> <<g, m>> \in events
      /\ events' \subseteq events
  BY ReportedAlone
<1>2. ServerTypes /\ ConnTypes /\ UNCHANGED <<m_workqueue, request, workerPc>>
  BY DEF LoopInv, poolVars
<1>3. m_sockfd[fd] # NoFd
  BY <1>1 DEF AliveInv, TableExact, Fds, NoFd
<1>4. /\ m_sockfd' = [m_sockfd EXCEPT ![fd] = NoFd]
      /\ m_user_count' = m_user_count - 1
      /\ open' = open \ {fd}
      /\ interest' = [interest EXCEPT ![fd] = "none"]
      /\ inbox' = [inbox EXCEPT ![fd] = 0]
      /\ flight' = [flight EXCEPT ![fd] = 0]
      /\ sent' = [sent EXCEPT ![fd] = 0]
      /\ late' = [late EXCEPT ![fd] = 0]
      /\ early' = [early EXCEPT ![fd] = 0]
      /\ got' = [got EXCEPT ![fd] = 0]
  BY <1>3 DEF CloseConn
<1>5. ServerTypes' /\ ConnTypes'
  <2>1. ServerTypes'
    BY <1>1, <1>2 DEF ServerTypes
  <2>2. 0 \in 0..SndBuf /\ 0 \in 0..ReqLen /\ NoFd \in Int
    BY LoopAssumption DEF NoFd
  <2>3. ConnTypes'
    BY <1>2, <1>4, <2>2 DEF ConnTypes
  <2> QED
    BY <2>1, <2>3
<1>6. WorkersInside'
  BY <1>2 DEF LoopInv, WorkersInside
<1>7. \A g \in Fds \ {fd} :
         /\ interest'[g] = interest[g] /\ m_sockfd'[g] = m_sockfd[g]
         /\ inbox'[g] = inbox[g] /\ flight'[g] = flight[g]
         /\ sent'[g] = sent[g] /\ got'[g] = got[g]
         /\ late'[g] = late[g] /\ early'[g] = early[g]
  BY <1>2, <1>4 DEF ConnTypes
<1>8. /\ interest'[fd] = "none" /\ inbox'[fd] = 0 /\ flight'[fd] = 0
      /\ sent'[fd] = 0 /\ got'[fd] = 0 /\ late'[fd] = 0 /\ early'[fd] = 0
  BY <1>2, <1>4 DEF ConnTypes
<1>9. \A g \in Fds : /\ Armed(g)' <=> g # fd /\ Armed(g)
                     /\ Reported(g)' <=> g # fd /\ Reported(g)
                     /\ Queued(g)' <=> Queued(g)
                     /\ Served(g)' <=> Served(g)
  BY <1>1, <1>2, <1>7, <1>8 DEF Armed, Reported, Queued, Served
<1>10. PlacesExclude' /\ OwnedIsOpen' /\ OpenIsOwned'
  BY <1>1, <1>4, <1>9 DEF AliveInv, PlacesExclude, OwnedIsOpen, OpenIsOwned, LoopInv, ConnTypes
<1>11. PlacesUnique'
  BY <1>1, <1>2 DEF AliveInv, PlacesUnique
<1>12. TableExact'
  <2>1. Cardinality(open') = Cardinality(open) - 1
    BY <1>1, <1>2, <1>4, OpenFinite, FS_RemoveElement
  <2>2. m_user_count' = Cardinality(open')
    BY <1>1, <1>4, <2>1 DEF AliveInv, TableExact
  <2>3. \A g \in open' : m_sockfd'[g] = g /\ interest'[g] # "none"
    BY <1>1, <1>2, <1>4, <1>7 DEF AliveInv, TableExact, ConnTypes
  <2>4. \A g \in Fds \ open' : /\ inbox'[g] = 0 /\ flight'[g] = 0 /\ sent'[g] = 0
                              /\ got'[g] = 0 /\ late'[g] = 0 /\ early'[g] = 0
    BY <1>1, <1>4, <1>7, <1>8 DEF AliveInv, TableExact
  <2> QED
    BY <2>2, <2>3, <2>4 DEF TableExact
<1>13. DirectionExact'
  <2>1. \A g \in Fds \ {fd} : (Reading(g)' <=> Reading(g)) /\ (Writing(g)' <=> Writing(g))
    BY <1>1, <1>2, <1>7, <1>9 DEF Reading, Writing, Masks
  <2>2. ~Reading(fd)' /\ ~Writing(fd)'
    BY <1>1, <1>8, <1>9 DEF Reading, Writing, Masks, Served
  <2> QED
    BY <1>1, <2>1, <2>2 DEF AliveInv, DirectionExact
<1>14. StreamsExact'
  BY <1>1, <1>2, <1>4, <1>7 DEF AliveInv, StreamsExact, Stream, Plain, Answer, ConnTypes
<1> QED
  BY <1>5, <1>6, <1>10, <1>11, <1>12, <1>13, <1>14 DEF LoopInv, AliveInv

\* The four branches that close a connection.
LEMMA ClosingInv ==
    ASSUME LoopInv, NEW fd \in Fds,
           HandleHup(fd) \/ HandleInEof(fd) \/ HandleOutError(fd) \/ HandleOutClose(fd)
    PROVE  LoopInv'
<1>1. \E mask \in Masks : Take(<<fd, mask>>)
  <2>1. Take(<<fd, "hup">>) \/ Take(<<fd, "in">>) \/ Take(<<fd, "out">>)
    BY DEF HandleHup, HandleInEof, HandleOutError, HandleOutClose
  <2> QED
    BY <2>1 DEF Masks
<1>2. CloseConn(fd) /\ UNCHANGED <<poolVars, stage, users>>
  BY DEF HandleHup, HandleInEof, HandleOutError, HandleOutClose
<1>3. /\ m_read_index' \in [Fds -> Nat] /\ m_iv' \in [Fds -> Nat]
      /\ \A g \in Fds \ {fd} : m_read_index'[g] = m_read_index[g] /\ m_iv'[g] = m_iv[g]
  BY DEF HandleHup, HandleInEof, HandleOutError, HandleOutClose, LoopInv, ConnTypes
<1> QED
  BY <1>1, <1>2, <1>3, CloseInv

\* The queue never holds all the connections of the table while one of them is
\* with main.
LEMMA QueueHasRoom ==
    ASSUME ServerTypes, PlacesUnique, NEW fd \in Fds, ~Queued(fd)
    PROVE  Len(m_workqueue) <= MaxFd - 2
<1>1. m_workqueue \in Injection(1..Len(m_workqueue), Fds \ {fd})
  BY DEF ServerTypes, PlacesUnique, Queued, Injection, IsInjective
<1>2. IsFiniteSet(Fds) /\ Cardinality(Fds) = MaxFd - 1 /\ MaxFd \in Int
  BY FdsFinite, LoopAssumption
<1>3. IsFiniteSet(Fds \ {fd}) /\ Cardinality(Fds \ {fd}) = Cardinality(Fds) - 1
  BY <1>2, FS_RemoveElement
<1>4. Cardinality(1..Len(m_workqueue)) <= Cardinality(Fds \ {fd})
  BY <1>1, <1>3, FS_Injection
<1>5. Len(m_workqueue) \in Nat
  BY DEF ServerTypes
<1>6. Cardinality(1..Len(m_workqueue))
        = IF 1 > Len(m_workqueue) THEN 0 ELSE Len(m_workqueue) - 1 + 1
  BY <1>5, FS_Interval
<1> QED
  BY <1>2, <1>3, <1>4, <1>5, <1>6

\* read() and append(): the connection is handed to the workers.
LEMMA HandleInInv ==
    ASSUME LoopInv, NEW fd \in Fds, HandleIn(fd) \/ HandleInRejected(fd)
    PROVE  LoopInv'
<1>1. Take(<<fd, "in">>)
  BY DEF HandleIn, HandleInRejected, ReadAll
<1>2. /\ users = "alive" /\ AliveInv
      /\ fd \in open /\ ~Armed(fd) /\ ~Queued(fd) /\ ~Served(fd)
      /\ \A m \in Masks : <<fd, m>> \notin events'
      /\ \A g \in Fds \ {fd} : \A m \in Masks : <<g, m>> \in events' <=> <<g, m>> \in events
      /\ events' \subseteq events
  BY <1>1, ReportedAlone DEF Masks
<1>3. <<fd, "in">> \in events /\ Reading(fd)
  <2>1. <<fd, "in">> \in events
    BY <1>1, Zenon DEF Take
  <2> QED
    BY <2>1, Zenon DEF Reading
<1>4. ServerTypes /\ ConnTypes /\ WorkersInside
  BY DEF LoopInv
<1>5. /\ m_read_index' = [m_read_index EXCEPT ![fd] = @ + inbox[fd]]
      /\ inbox' = [inbox EXCEPT ![fd] = 0]
      /\ UNCHANGED <<m_sockfd, m_iv, m_user_count, stage, users, open, interest, flight,
                     sent, late, early, got>>
  BY DEF HandleIn, HandleInRejected, ReadAll
<1>6. UNCHANGED <<workerPc, request>>
  BY DEF HandleIn, HandleInRejected, Pool!AppendPush, Pool!AppendReject, Pool!poolVars
<1>7. \/ m_workqueue' = Append(m_workqueue, fd)
      \/ m_workqueue' = m_workqueue /\ Len(m_workqueue) >= MaxRequests
  BY DEF HandleIn, HandleInRejected, Pool!AppendPush, Pool!AppendReject, Pool!poolVars
<1>8. /\ m_workqueue' \in Seq(Fds)
      /\ \A g \in Fds \ {fd} : Queued(g)' <=> Queued(g)
      /\ Queued(fd)' \/ Len(m_workqueue) >= MaxRequests
      /\ \A i, j \in DOMAIN m_workqueue' : m_workqueue'[i] = m_workqueue'[j] => i = j
  <2>1. CASE m_workqueue' = m_workqueue /\ Len(m_workqueue) >= MaxRequests
    BY <1>2, <1>4, <2>1 DEF ServerTypes, Queued, AliveInv, PlacesUnique
  <2>2. CASE m_workqueue' = Append(m_workqueue, fd)
    <3>1. /\ m_workqueue' \in Seq(Fds) /\ Len(m_workqueue) \in Nat
          /\ DOMAIN m_workqueue = 1..Len(m_workqueue)
          /\ DOMAIN m_workqueue' = 1..(Len(m_workqueue) + 1)
          /\ m_workqueue'[Len(m_workqueue) + 1] = fd
          /\ \A i \in 1..Len(m_workqueue) : m_workqueue'[i] = m_workqueue[i]
      BY <1>4, <2>2 DEF ServerTypes
    <3>2. \A i \in 1..Len(m_workqueue) : m_workqueue[i] # fd
      BY <1>2, <3>1 DEF Queued
    <3>3. \A i, j \in 1..Len(m_workqueue) : m_workqueue[i] = m_workqueue[j] => i = j
      BY <1>2, <3>1 DEF AliveInv, PlacesUnique
    <3>4. \A i, j \in DOMAIN m_workqueue' : m_workqueue'[i] = m_workqueue'[j] => i = j
      BY <3>1, <3>2, <3>3
    <3>5. Queued(fd)' /\ \A g \in Fds \ {fd} : Queued(g)' <=> Queued(g)
      BY <3>1 DEF Queued
    <3> QED
      BY <3>1, <3>4, <3>5
  <2> QED
    BY <1>7, <2>1, <2>2
<1>9. ServerTypes'
  BY <1>2, <1>4, <1>5, <1>6, <1>8 DEF ServerTypes
<1>10. ConnTypes'
  BY <1>4, <1>5 DEF ConnTypes
<1>11. WorkersInside'
  BY <1>4, <1>5, <1>6 DEF WorkersInside
<1>12. \A g \in Fds : /\ Armed(g)' <=> Armed(g)
                      /\ Reported(g)' <=> g # fd /\ Reported(g)
                      /\ Served(g)' <=> Served(g)
  BY <1>2, <1>5, <1>6 DEF Armed, Reported, Served
<1>13. PlacesExclude' /\ OwnedIsOpen'
  BY <1>2, <1>5, <1>8, <1>12 DEF AliveInv, PlacesExclude, OwnedIsOpen
<1>14. OpenIsOwned'
  <2> SUFFICES ASSUME MaxRequests >= MaxFd - 1, NEW g \in open
               PROVE  Armed(g)' \/ Reported(g)' \/ Queued(g)' \/ Served(g)'
    BY <1>5 DEF OpenIsOwned
  <2>1. g \in Fds
    BY <1>4 DEF ConnTypes
  <2>2. Queued(fd)'
    <3>1. Len(m_workqueue) <= MaxFd - 2 /\ Len(m_workqueue) \in Nat
      BY <1>2, <1>4, QueueHasRoom DEF AliveInv, ServerTypes
    <3> QED
      BY <1>8, <3>1, LoopAssumption
  <2> QED
    BY <1>2, <1>8, <1>12, <2>1, <2>2 DEF AliveInv, OpenIsOwned
<1>15. PlacesUnique'
  BY <1>2, <1>5, <1>6, <1>8 DEF AliveInv, PlacesUnique
<1>16. \A g \in Fds \ {fd} : m_read_index'[g] = m_read_index[g] /\ inbox'[g] = inbox[g]
  BY <1>4, <1>5 DEF ConnTypes
<1>17. m_read_index'[fd] = m_read_index[fd] + inbox[fd] /\ inbox'[fd] = 0
  BY <1>4, <1>5 DEF ConnTypes
<1>18. TableExact'
  BY <1>2, <1>5, <1>16 DEF AliveInv, TableExact
<1>19. DirectionExact'
  <2>1. \A g \in Fds \ {fd} : (Reading(g)' => Reading(g)) /\ (Writing(g)' => Writing(g))
    BY <1>2, <1>5, <1>6, <1>8 DEF Reading, Writing, Masks
  <2>2. ~Writing(fd)'
    BY <1>2, <1>5, <1>6 DEF Writing, Armed, Served, Masks
  <2>3. m_iv[fd] = 0
    BY <1>2, <1>3 DEF AliveInv, DirectionExact
  <2> QED
    BY <1>2, <1>5, <2>1, <2>2, <2>3 DEF AliveInv, DirectionExact
<1>20. StreamsExact'
  <2> SUFFICES ASSUME NEW g \in open PROVE Stream(g)'
    BY <1>5 DEF StreamsExact
  <2>1. g \in Fds /\ Stream(g)
    BY <1>2, <1>4 DEF ConnTypes, AliveInv, StreamsExact
  <2>2. CASE g # fd
    BY <1>5, <1>16, <2>1, <2>2 DEF Stream, Plain, Answer
  <2>3. CASE g = fd
    <3>1. m_read_index[fd] \in Nat /\ inbox[fd] \in Nat
      BY <1>4 DEF ConnTypes
    <3> QED
      BY <1>5, <1>17, <2>1, <2>3, <3>1 DEF Stream, Plain, Answer
  <2> QED
    BY <2>2, <2>3
<1> QED
  BY <1>9, <1>10, <1>11, <1>13, <1>14, <1>15, <1>18, <1>19, <1>20 DEF LoopInv, AliveInv

\* write(): the bytes move to the socket, and the connection is armed again, to
\* write on or for the next request.
LEMMA HandleOutInv ==
    ASSUME LoopInv, NEW fd \in Fds, HandleOutPartly(fd) \/ HandleOutKeep(fd)
    PROVE  LoopInv'
<1>1. Take(<<fd, "out">>)
  BY DEF HandleOutPartly, HandleOutKeep
<1>2. /\ users = "alive" /\ AliveInv
      /\ fd \in open /\ ~Armed(fd) /\ ~Queued(fd) /\ ~Served(fd)
      /\ \A m \in Masks : <<fd, m>> \notin events'
      /\ \A g \in Fds \ {fd} : \A m \in Masks : <<g, m>> \in events' <=> <<g, m>> \in events
      /\ events' \subseteq events
  BY <1>1, ReportedAlone DEF Masks
<1>3. <<fd, "out">> \in events /\ Writing(fd)
  BY <1>1 DEF Take, Writing
<1>4. ServerTypes /\ ConnTypes /\ WorkersInside
  BY DEF LoopInv
<1>5. /\ flight' = [flight EXCEPT ![fd] = @ + Writable(fd)]
      /\ UNCHANGED <<m_workqueue, workerPc, request, m_sockfd, m_user_count, stage, users, open,
                     inbox, sent, late, early, got>>
  BY DEF HandleOutPartly, HandleOutKeep, poolVars
<1>6. interest[fd] # "none" /\ m_iv[fd] > 0
  BY <1>2, <1>3 DEF AliveInv, TableExact, DirectionExact
<1>7. PICK dir \in {"in", "out"} :
         /\ interest' = [interest EXCEPT ![fd] = dir]
         /\ IF dir = "out"
            THEN /\ Writable(fd) < m_iv[fd] /\ UNCHANGED m_read_index
                 /\ m_iv' = [m_iv EXCEPT ![fd] = @ - Writable(fd)]
            ELSE /\ Writable(fd) = m_iv[fd]
                 /\ m_read_index' = [m_read_index EXCEPT ![fd] = 0]
                 /\ m_iv' = [m_iv EXCEPT ![fd] = 0]
  <2>1. CASE HandleOutPartly(fd)
    BY <1>6, <2>1 DEF HandleOutPartly, Modfd
  <2>2. CASE HandleOutKeep(fd)
    BY <1>6, <2>2 DEF HandleOutKeep, Modfd, InitConn
  <2> QED
    BY <2>1, <2>2
<1>8. /\ Writable(fd) \in Nat /\ Writable(fd) <= m_iv[fd]
      /\ flight[fd] + Writable(fd) \in 0..SndBuf
  BY <1>4, WritableBounds
<1>9. /\ interest'[fd] = dir /\ flight'[fd] = flight[fd] + Writable(fd)
      /\ m_iv'[fd] = m_iv[fd] - Writable(fd)
      /\ m_read_index'[fd] = IF dir = "out" THEN m_read_index[fd] ELSE 0
      /\ m_iv'[fd] > 0 <=> dir = "out"
  BY <1>4, <1>5, <1>7, <1>8 DEF ConnTypes
<1>10. \A g \in Fds \ {fd} : /\ interest'[g] = interest[g] /\ flight'[g] = flight[g]
                             /\ m_iv'[g] = m_iv[g] /\ m_read_index'[g] = m_read_index[g]
  BY <1>4, <1>5, <1>7 DEF ConnTypes
<1>11. ServerTypes' /\ WorkersInside'
  BY <1>2, <1>4, <1>5 DEF ServerTypes, WorkersInside
<1>12. ConnTypes'
  BY <1>4, <1>5, <1>7, <1>8 DEF ConnTypes
<1>13. \A g \in Fds : /\ Armed(g)' <=> g = fd \/ Armed(g)
                      /\ Reported(g)' <=> g # fd /\ Reported(g)
                      /\ Queued(g)' <=> Queued(g)
                      /\ Served(g)' <=> Served(g)
  BY <1>2, <1>5, <1>9, <1>10 DEF Armed, Reported, Queued, Served
<1>14. PlacesExclude' /\ OwnedIsOpen' /\ OpenIsOwned'
  BY <1>2, <1>4, <1>5, <1>13 DEF AliveInv, PlacesExclude, OwnedIsOpen, OpenIsOwned, ConnTypes
<1>15. PlacesUnique'
  BY <1>2, <1>5 DEF AliveInv, PlacesUnique
<1>16. TableExact'
  <2>1. \A g \in open : interest'[g] # "none"
    BY <1>2, <1>4, <1>9, <1>10 DEF AliveInv, TableExact, ConnTypes
  <2> QED
    BY <1>2, <1>4, <1>5, <1>10, <2>1 DEF AliveInv, TableExact, ConnTypes
<1>17. DirectionExact'
  <2>1. \A g \in Fds \ {fd} : (Reading(g)' <=> Reading(g)) /\ (Writing(g)' <=> Writing(g))
    BY <1>2, <1>5, <1>10, <1>13 DEF Reading, Writing, Masks
  <2>2. (Reading(fd)' => dir = "in") /\ (Writing(fd)' => dir = "out")
    BY <1>2, <1>5, <1>9, <1>13 DEF Reading, Writing, Masks, Served
  <2>3. m_iv'[fd] \in Nat
    BY <1>12 DEF ConnTypes
  <2> QED
    BY <1>2, <1>9, <1>10, <2>1, <2>2, <2>3 DEF AliveInv, DirectionExact
<1>18. StreamsExact'
  <2> SUFFICES ASSUME NEW g \in open PROVE Stream(g)'
    BY <1>5 DEF StreamsExact
  <2>1. g \in Fds /\ Stream(g)
    BY <1>2, <1>4 DEF ConnTypes, AliveInv, StreamsExact
  <2>2. CASE g # fd
    BY <1>5, <1>10, <2>1, <2>2 DEF Stream, Plain, Answer
  <2>3. CASE g = fd
    <3>1. m_iv[fd] \in Nat /\ flight[fd] \in Nat /\ got[fd] \in Nat /\ RespLen \in Nat
      BY <1>4, LoopAssumption DEF ConnTypes
    <3>2. m_iv'[fd] + flight'[fd] + got[fd] = m_iv[fd] + flight[fd] + got[fd]
      BY <1>8, <1>9, <3>1
    <3>3. Answer(fd)' = Answer(fd)
      BY <1>5, <3>2 DEF Answer
    <3>4. Whole(Answer(fd)')
      BY <2>1, <2>3, <3>3 DEF Stream
    <3>5. Answer(fd) = 0 => FALSE
      BY <1>6, <3>1 DEF Answer
    <3>6. early[fd] = 0 => Plain(fd)'
      BY <1>5, <1>6, <1>9, <2>1, <2>3, <3>1, <3>3, <3>5 DEF Stream, Plain
    <3> QED
      BY <1>5, <2>3, <3>4, <3>6 DEF Stream
  <2> QED
    BY <2>2, <2>3
<1> QED
  BY <1>11, <1>12, <1>14, <1>15, <1>16, <1>17, <1>18 DEF LoopInv, AliveInv

\* epoll_wait moves armed connections to the events, and switches them off.
LEMMA EpollWaitInv ==
    ASSUME LoopInv, EpollWait
    PROVE  LoopInv'
<1>1. /\ users = "alive" /\ AliveInv /\ events = {} /\ events' = Ready
      /\ UNCHANGED <<m_workqueue, workerPc, request, m_sockfd, m_read_index, m_iv, m_user_count,
                     stage, users, open, inbox, flight, sent, late, early, got>>
  BY DEF EpollWait, MainFree, LoopInv, poolVars, connVars
<1>2. ServerTypes /\ ConnTypes /\ WorkersInside
  BY DEF LoopInv
<1>3. \A g \in Fds : \A m \in Masks : <<g, m>> \in Ready <=> g \in open /\ Mask(g) = m
  <2> SUFFICES ASSUME NEW g \in Fds, NEW m \in Masks
               PROVE  <<g, m>> \in Ready <=> g \in open /\ Mask(g) = m
    OBVIOUS
  <2>1. g # ListenFd
    BY DEF Fds, ListenFd
  <2>2. m # "nothing"
    BY DEF Masks
  <2> HIDE DEF Mask
  <2>3. \A f : <<g, m>> = <<f, Mask(f)>> <=> g = f /\ Mask(g) = m
    OBVIOUS
  <2>4. <<g, m>> # <<ListenFd, "in">>
    BY <2>1
  <2> QED
    BY <2>2, <2>3, <2>4 DEF Ready
<1>4. Ready \subseteq ({<<ListenFd, "in">>} \cup (Fds \X Masks))
  <2>1. \A f \in open : Mask(f) # "nothing" => <<f, Mask(f)>> \in Fds \X Masks
    BY <1>2, MaskOfArmed DEF ConnTypes
  <2> QED
    BY <2>1 DEF Ready
<1>5. \A g \in Fds :
         interest'[g] = IF g \in open /\ Mask(g) # "nothing" THEN "off" ELSE interest[g]
  <2> TAKE g \in Fds
  <2>1. (\E ev \in Ready : ev[1] = g) <=> g \in open /\ Mask(g) # "nothing"
    <3>1. g # ListenFd
      BY DEF Fds, ListenFd
    <3>2. ASSUME NEW ev \in Ready, ev[1] = g PROVE g \in open /\ Mask(g) # "nothing"
      <4>1. ev # <<ListenFd, "in">>
        BY <3>1, <3>2
      <4>2. PICK f \in open : Mask(f) # "nothing" /\ ev = <<f, Mask(f)>>
        BY <4>1 DEF Ready
      <4>3. f = g
        BY <3>2, <4>2
      <4> QED
        BY <4>2, <4>3
    <3>3. ASSUME g \in open, Mask(g) # "nothing" PROVE \E ev \in Ready : ev[1] = g
      <4>1. <<g, Mask(g)>> \in Ready
        BY <3>3 DEF Ready
      <4>2. <<g, Mask(g)>>[1] = g
        OBVIOUS
      <4> QED
        BY <4>1, <4>2
    <3> QED
      BY <3>2, <3>3
  <2>2. interest'[g] = IF \E ev \in Ready : ev[1] = g THEN "off" ELSE interest[g]
    BY DEF EpollWait
  <2> QED
    BY <2>1, <2>2
<1>6. interest' \in [Fds -> {"none", "in", "out", "off"}]
  BY <1>2 DEF EpollWait, ConnTypes
<1>7. ServerTypes' /\ WorkersInside'
  BY <1>1, <1>2, <1>4 DEF ServerTypes, WorkersInside
<1>8. ConnTypes'
  BY <1>1, <1>2, <1>6 DEF ConnTypes
<1>9. \A g \in Fds : Mask(g) \in Masks \cup {"nothing"} /\ (Mask(g) # "nothing" => Armed(g))
  BY MaskOfArmed
<1>10. \A g \in Fds : /\ Reported(g)' <=> g \in open /\ Mask(g) # "nothing"
                      /\ Armed(g)' <=> Armed(g) /\ ~(g \in open /\ Mask(g) # "nothing")
                      /\ Queued(g)' <=> Queued(g)
                      /\ Served(g)' <=> Served(g)
  <2>1. \A g \in Fds : Reported(g)' <=> g \in open /\ Mask(g) # "nothing"
    BY <1>1, <1>3, <1>9 DEF Reported, Masks
  <2>2. \A g \in Fds : Armed(g)' <=> Armed(g) /\ ~(g \in open /\ Mask(g) # "nothing")
    BY <1>5 DEF Armed
  <2>3. \A g \in Fds : (Queued(g)' <=> Queued(g)) /\ (Served(g)' <=> Served(g))
    BY <1>1 DEF Queued, Served
  <2> QED
    BY <2>1, <2>2, <2>3
<1>11. \A g \in Fds : ~Reported(g)
  BY <1>1 DEF Reported
<1>12. PlacesExclude' /\ OwnedIsOpen' /\ OpenIsOwned'
  BY <1>1, <1>2, <1>9, <1>10, <1>11
     DEF AliveInv, PlacesExclude, OwnedIsOpen, OpenIsOwned, ConnTypes
<1>13. PlacesUnique'
  BY <1>1, <1>3 DEF AliveInv, PlacesUnique
<1>14. TableExact'
  <2>1. \A g \in open : interest'[g] # "none"
    BY <1>1, <1>2, <1>5 DEF AliveInv, TableExact, ConnTypes
  <2> QED
    BY <1>1, <2>1 DEF AliveInv, TableExact
<1>15. DirectionExact'
  <2> SUFFICES ASSUME NEW g \in Fds
               PROVE  (Reading(g)' => Reading(g)) /\ (Writing(g)' => Writing(g))
    BY <1>1 DEF AliveInv, DirectionExact
  <2>1. <<g, "in">> \in events' => interest[g] = "in"
    BY <1>1, <1>3, MaskOfArmed DEF Masks
  <2>2. <<g, "out">> \in events' => interest[g] = "out"
    BY <1>1, <1>3, MaskOfArmed DEF Masks
  <2>3. interest'[g] \in {interest[g], "off"}
    BY <1>5
  <2> QED
    BY <1>1, <1>10, <2>1, <2>2, <2>3 DEF Reading, Writing
<1>16. StreamsExact'
  BY <1>1 DEF AliveInv, StreamsExact, Stream, Plain, Answer
<1> QED
  BY <1>7, <1>8, <1>12, <1>13, <1>14, <1>15, <1>16 DEF LoopInv, AliveInv

\* An event of the listening socket is nobody's connection.
LEMMA ListenEvent ==
    ASSUME Take(<<ListenFd, "in">>)
    PROVE  /\ \A g \in Fds : \A m : <<g, m>> \in events' <=> <<g, m>> \in events
           /\ events' \subseteq events
<1>1. \A g \in Fds : g # ListenFd
  BY DEF Fds, ListenFd
<1> QED
  BY <1>1 DEF Take

\* accept() gives a descriptor that is closed, and its object starts afresh.
LEMMA AcceptInv ==
    ASSUME LoopInv, Accept
    PROVE  LoopInv'
<1>1. /\ users = "alive" /\ AliveInv
      /\ UNCHANGED <<m_workqueue, workerPc, request, stage, users, inbox, flight, sent, late,
                     early, got>>
      /\ Take(<<ListenFd, "in">>)
  BY DEF Accept, Take, MainFree, LoopInv, poolVars
<1>2. ServerTypes /\ ConnTypes /\ WorkersInside
  BY DEF LoopInv
<1>3. PICK fd \in Fds \ open : fd = Min(AllFds \ open)
  <2>1. AllFds \ open \subseteq Nat
    BY LoopAssumption DEF AllFds
  <2>2. MaxFd \in AllFds \ open
    BY <1>2, LoopAssumption DEF AllFds, Fds, ConnTypes
  <2>3. Min(AllFds \ open) \in AllFds \ open
    BY <2>1, <2>2, MinOfSet
  <2>4. Min(AllFds \ open) < MaxFd
    BY DEF Accept
  <2> QED
    BY <2>3, <2>4, LoopAssumption DEF AllFds, Fds
<1>4. /\ open' = open \cup {fd}
      /\ m_sockfd' = [m_sockfd EXCEPT ![fd] = fd]
      /\ m_user_count' = m_user_count + 1
      /\ interest' = [interest EXCEPT ![fd] = "in"]
      /\ m_read_index' = [m_read_index EXCEPT ![fd] = 0]
      /\ m_iv' = [m_iv EXCEPT ![fd] = 0]
  BY <1>3 DEF Accept, InitConn
<1>5. /\ \A g \in Fds : \A m : <<g, m>> \in events' <=> <<g, m>> \in events
      /\ events' \subseteq events
  BY <1>1, ListenEvent
<1>6. ServerTypes' /\ WorkersInside'
  BY <1>1, <1>2, <1>5 DEF ServerTypes, WorkersInside
<1>7. fd \in Fds /\ fd \in Int
  BY <1>3, LoopAssumption DEF Fds
<1>8. ConnTypes'
  BY <1>1, <1>2, <1>4, <1>7 DEF ConnTypes
<1>9. /\ interest'[fd] = "in" /\ m_sockfd'[fd] = fd /\ m_read_index'[fd] = 0 /\ m_iv'[fd] = 0
      /\ \A g \in Fds \ {fd} : /\ interest'[g] = interest[g] /\ m_sockfd'[g] = m_sockfd[g]
                               /\ m_read_index'[g] = m_read_index[g] /\ m_iv'[g] = m_iv[g]
  BY <1>2, <1>4, <1>7 DEF ConnTypes
<1>10. \A g \in Fds : /\ Armed(g)' <=> g = fd \/ Armed(g)
                      /\ Reported(g)' <=> Reported(g)
                      /\ Queued(g)' <=> Queued(g)
                      /\ Served(g)' <=> Served(g)
  BY <1>1, <1>5, <1>9 DEF Armed, Reported, Queued, Served
<1>11. ~Armed(fd) /\ ~Reported(fd) /\ ~Queued(fd) /\ ~Served(fd)
  BY <1>1, <1>3 DEF AliveInv, OwnedIsOpen
<1>12. PlacesExclude' /\ OwnedIsOpen' /\ OpenIsOwned'
  BY <1>1, <1>2, <1>4, <1>10, <1>11
     DEF AliveInv, PlacesExclude, OwnedIsOpen, OpenIsOwned, ConnTypes
<1>13. PlacesUnique'
  BY <1>1, <1>5 DEF AliveInv, PlacesUnique
<1>14. TableExact'
  <2>1. m_user_count' = Cardinality(open')
    <3>1. Cardinality(open \cup {fd}) = Cardinality(open) + 1
      BY <1>2, <1>3, OpenFinite, FS_AddElement
    <3> QED
      BY <1>1, <1>4, <3>1 DEF AliveInv, TableExact
  <2>2. \A g \in open' : m_sockfd'[g] = g /\ interest'[g] # "none"
    BY <1>1, <1>2, <1>4, <1>9 DEF AliveInv, TableExact, ConnTypes
  <2> QED
    BY <1>1, <1>4, <2>1, <2>2 DEF AliveInv, TableExact
<1>15. DirectionExact'
  <2>1. \A g \in Fds \ {fd} : (Reading(g)' <=> Reading(g)) /\ (Writing(g)' <=> Writing(g))
    BY <1>1, <1>5, <1>9, <1>10 DEF Reading, Writing
  <2>2. ~Writing(fd)'
    BY <1>1, <1>5, <1>9, <1>10, <1>11 DEF Writing, Served, Reported, Masks
  <2> QED
    BY <1>1, <1>9, <2>1, <2>2 DEF AliveInv, DirectionExact
<1>16. StreamsExact'
  <2> SUFFICES ASSUME NEW g \in open' PROVE Stream(g)'
    BY DEF StreamsExact
  <2>1. CASE g = fd
    <3>1. inbox'[fd] = 0 /\ flight'[fd] = 0 /\ sent'[fd] = 0 /\ got'[fd] = 0 /\ late'[fd] = 0
      BY <1>1, <1>3 DEF AliveInv, TableExact
    <3>2. Answer(fd)' = 0
      BY <1>9, <3>1 DEF Answer
    <3>3. Plain(fd)'
      BY <1>9, <3>1, <3>2 DEF Plain
    <3> QED
      BY <2>1, <3>2, <3>3, NoAnswerIsWhole DEF Stream
  <2>2. CASE g # fd
    <3>1. g \in open /\ g \in Fds
      BY <1>2, <1>4, <2>2 DEF ConnTypes
    <3> QED
      BY <1>1, <1>9, <2>2, <3>1 DEF AliveInv, StreamsExact, Stream, Plain, Answer
  <2> QED
    BY <2>1, <2>2
<1> QED
  BY <1>6, <1>8, <1>12, <1>13, <1>14, <1>15, <1>16 DEF LoopInv, AliveInv

\* A step that moves no connection from place to place and touches none of its
\* bytes keeps the invariant.
LEMMA QuietInv ==
    ASSUME LoopInv,
           UNCHANGED <<m_workqueue, request, stage, users, m_sockfd, m_read_index, m_iv,
                       m_user_count, open, interest, inbox, flight, sent, late, early, got>>,
           workerPc' \in [Workers -> Pool!WorkerStates],
           \A w \in Workers : workerPc'[w] = "process" <=> workerPc[w] = "process",
           events' \subseteq events,
           \A g \in Fds : \A m \in Masks : <<g, m>> \in events' <=> <<g, m>> \in events
    PROVE  LoopInv'
<1>1. ServerTypes' /\ ConnTypes' /\ WorkersInside'
  BY DEF LoopInv, ServerTypes, ConnTypes, WorkersInside
<1>2. ASSUME users = "alive" PROVE AliveInv'
  <2>1. AliveInv
    BY <1>2 DEF LoopInv
  <2>2. \A g \in Fds : /\ Armed(g)' <=> Armed(g)
                       /\ Reported(g)' <=> Reported(g)
                       /\ Queued(g)' <=> Queued(g)
                       /\ Served(g)' <=> Served(g)
    BY DEF Armed, Reported, Queued, Served
  <2>3. PlacesExclude' /\ OwnedIsOpen' /\ OpenIsOwned'
    BY <2>1, <2>2 DEF AliveInv, PlacesExclude, OwnedIsOpen, OpenIsOwned, LoopInv, ConnTypes
  <2>4. PlacesUnique'
    BY <2>1 DEF AliveInv, PlacesUnique
  <2>5. TableExact'
    BY <2>1 DEF AliveInv, TableExact
  <2>6. DirectionExact'
    <3>1. \A g \in Fds : (Reading(g)' <=> Reading(g)) /\ (Writing(g)' <=> Writing(g))
      BY <2>2 DEF Reading, Writing, Masks
    <3> QED
      BY <2>1, <3>1 DEF AliveInv, DirectionExact
  <2>7. StreamsExact'
    BY <2>1 DEF AliveInv, StreamsExact, Stream, Plain, Answer
  <2> QED
    BY <2>3, <2>4, <2>5, <2>6, <2>7 DEF AliveInv
<1> QED
  BY <1>1, <1>2 DEF LoopInv

\* accept() that fails or is refused, the release of append(), the destructor, the
\* steps of run() outside process(), and clients that connect, give up or hang up.
LEMMA QuietSteps ==
    ASSUME LoopInv,
           \/ AcceptError \/ AcceptRefuse \/ MainRelease \/ DeletePool \/ Exited
           \/ \E w \in Workers : WorkerLoop(w)
           \/ ClientConnect \/ ClientAbort \/ \E fd \in Fds : ClientClose(fd)
           \/ UNCHANGED vars
    PROVE  LoopInv'
<1>1. UNCHANGED <<m_workqueue, request, stage, users, m_sockfd, m_read_index, m_iv,
                  m_user_count, open, interest, inbox, flight, sent, late, early, got>>
  BY DEF AcceptError, AcceptRefuse, MainRelease, DeletePool, Exited, WorkerLoop, ClientConnect,
         ClientAbort, ClientClose, vars, poolVars, connVars, serverVars, kernelVars,
         Pool!AppendRelease, Pool!Destructor, Pool!DestructorStop, Pool!DestructorRelease,
         Pool!DestructorJoin, Pool!LoopTest, Pool!Acquire, Pool!CheckStop
<1>2. workerPc \in [Workers -> Pool!WorkerStates]
  BY DEF LoopInv, ServerTypes
<1>3. /\ workerPc' \in [Workers -> Pool!WorkerStates]
      /\ \A w \in Workers : workerPc'[w] = "process" <=> workerPc[w] = "process"
  <2>1. CASE \E w \in Workers : WorkerLoop(w)
    BY <1>2, <2>1 DEF WorkerLoop, Pool!LoopTest, Pool!Acquire, Pool!CheckStop, Pool!Goto,
                      Pool!WorkerStates
  <2>2. CASE UNCHANGED workerPc
    BY <1>2, <2>2
  <2> QED
    BY <2>1, <2>2
    DEF AcceptError, AcceptRefuse, MainRelease, DeletePool, Exited, ClientConnect,
        ClientAbort, ClientClose, vars, poolVars,
        Pool!AppendRelease, Pool!Destructor, Pool!DestructorStop, Pool!DestructorRelease,
        Pool!DestructorJoin
<1>4. UNCHANGED events \/ Take(<<ListenFd, "in">>)
  BY DEF AcceptError, AcceptRefuse, MainRelease, DeletePool, Exited, WorkerLoop, ClientConnect,
         ClientAbort, ClientClose, vars, serverVars
<1>5. /\ events' \subseteq events
      /\ \A g \in Fds : \A m \in Masks : <<g, m>> \in events' <=> <<g, m>> \in events
  BY <1>4, ListenEvent
<1> QED
  BY <1>1, <1>3, <1>5, QuietInv

\* Once main has left its loop only the types are promised.
LEMMA LeaveLoopInv ==
    ASSUME LoopInv, LeaveLoop
    PROVE  LoopInv'
<1>1. /\ users' = "deleted"
      /\ UNCHANGED <<m_workqueue, workerPc, request, stage, events, m_sockfd, m_read_index, m_iv,
                     m_user_count, open, interest, inbox, flight, sent, late, early, got>>
  BY DEF LeaveLoop, poolVars, connVars, kernelVars
<1> QED
  BY <1>1 DEF LoopInv, ServerTypes, ConnTypes, WorkersInside

-----------------------------------------------------------------------------
(* The clients *)

\* A segment is sent, or what is in flight is received.
LEMMA ClientInv ==
    ASSUME LoopInv, NEW fd \in Fds, ClientSend(fd) \/ ClientSendLate(fd) \/ ClientReceive(fd)
    PROVE  LoopInv'
<1>1. UNCHANGED <<m_workqueue, workerPc, request, stage, users, events, m_sockfd, m_read_index,
                  m_iv, m_user_count, open, interest, early>>
  BY DEF ClientSend, ClientSendLate, ClientReceive, poolVars, connVars, serverVars
<1>2. ConnTypes /\ fd \in open
  BY DEF LoopInv, ClientSend, ClientSendLate, ClientReceive
<1>3. /\ m_iv[fd] \in Nat /\ m_read_index[fd] \in Nat /\ inbox[fd] \in Nat /\ got[fd] \in Nat
      /\ flight[fd] \in 0..SndBuf /\ sent[fd] \in 0..ReqLen /\ late[fd] \in Int
      /\ SndBuf \in Nat /\ ReqLen \in Nat \ {0} /\ RespLen \in Nat \ {0}
  BY <1>2, LoopAssumption DEF ConnTypes
<1>4. /\ \A g \in Fds \ {fd} : /\ inbox'[g] = inbox[g] /\ flight'[g] = flight[g]
                               /\ sent'[g] = sent[g] /\ late'[g] = late[g] /\ got'[g] = got[g]
      /\ \/ /\ sent[fd] < ReqLen
            /\ sent'[fd] = sent[fd] + 1 /\ inbox'[fd] = inbox[fd] + 1
            /\ flight'[fd] = flight[fd] /\ got'[fd] = got[fd] /\ late'[fd] = late[fd]
         \/ late[fd] > 0 /\ flight'[fd] = flight[fd] /\ got'[fd] = got[fd]
         \/ /\ flight[fd] > 0 /\ inbox'[fd] = inbox[fd] /\ flight'[fd] = 0
            /\ IF got[fd] + flight[fd] >= RespLen
               THEN /\ got'[fd] = (got[fd] + flight[fd]) - RespLen /\ sent'[fd] = 0
                    /\ late'[fd] = IF sent[fd] > 0 THEN ReqLen - sent[fd] ELSE late[fd]
               ELSE /\ got'[fd] = got[fd] + flight[fd] /\ sent'[fd] = sent[fd]
                    /\ late'[fd] = late[fd]
  <2>1. CASE ClientSend(fd)
    BY <1>2, <2>1 DEF ClientSend, ConnTypes
  <2>2. CASE ClientSendLate(fd)
    BY <1>2, <2>2 DEF ClientSendLate, ConnTypes
  <2>3. CASE ClientReceive(fd)
    <3>1. /\ flight[fd] > 0 /\ UNCHANGED inbox
          /\ flight' = [flight EXCEPT ![fd] = 0]
          /\ got' = [got EXCEPT ![fd] = IF got[fd] + flight[fd] >= RespLen
                                       THEN (got[fd] + flight[fd]) - RespLen
                                       ELSE got[fd] + flight[fd]]
          /\ sent' = [sent EXCEPT ![fd] = IF got[fd] + flight[fd] >= RespLen THEN 0 ELSE @]
          /\ late' = [late EXCEPT ![fd] = IF got[fd] + flight[fd] >= RespLen /\ sent[fd] > 0
                                         THEN ReqLen - sent[fd] ELSE @]
      BY <2>3, Zenon DEF ClientReceive
    <3>2. CASE got[fd] + flight[fd] >= RespLen
      BY <1>2, <3>1, <3>2 DEF ConnTypes
    <3>3. CASE ~(got[fd] + flight[fd] >= RespLen)
      BY <1>2, <3>1, <3>3 DEF ConnTypes
    <3> QED
      BY <3>2, <3>3
  <2> QED
    BY <2>1, <2>2, <2>3
<1>5. /\ inbox' \in [Fds -> Nat] /\ flight' \in [Fds -> 0..SndBuf]
      /\ sent' \in [Fds -> 0..ReqLen] /\ got' \in [Fds -> Nat] /\ late' \in [Fds -> Int]
  <2>1. CASE ClientSend(fd)
    <3>1. sent[fd] + 1 \in 0..ReqLen /\ inbox[fd] + 1 \in Nat
      BY <1>3, <2>1 DEF ClientSend
    <3> QED
      BY <1>2, <2>1, <3>1 DEF ClientSend, ConnTypes
  <2>2. CASE ClientSendLate(fd)
    <3>1. late[fd] - 1 \in Int /\ inbox[fd] + 1 \in Nat
      BY <1>3
    <3> QED
      BY <1>2, <2>2, <3>1 DEF ClientSendLate, ConnTypes
  <2>3. CASE ClientReceive(fd)
    <3>1. /\ 0 \in 0..SndBuf /\ 0 \in 0..ReqLen /\ got[fd] + flight[fd] \in Nat
          /\ ReqLen - sent[fd] \in Int
          /\ got[fd] + flight[fd] >= RespLen => (got[fd] + flight[fd]) - RespLen \in Nat
      BY <1>3
    <3>2. /\ (IF got[fd] + flight[fd] >= RespLen THEN (got[fd] + flight[fd]) - RespLen
              ELSE got[fd] + flight[fd]) \in Nat
          /\ (IF got[fd] + flight[fd] >= RespLen THEN 0 ELSE sent[fd]) \in 0..ReqLen
          /\ (IF got[fd] + flight[fd] >= RespLen /\ sent[fd] > 0
              THEN ReqLen - sent[fd] ELSE late[fd]) \in Int
      BY <1>3, <3>1
    <3>3. inbox' = inbox /\ flight' = [flight EXCEPT ![fd] = 0]
      BY <2>3 DEF ClientReceive
    <3>4. got' = [got EXCEPT ![fd] = IF got[fd] + flight[fd] >= RespLen
                                     THEN (got[fd] + flight[fd]) - RespLen
                                     ELSE got[fd] + flight[fd]]
      BY <2>3 DEF ClientReceive
    <3>5. sent' = [sent EXCEPT ![fd] = IF got[fd] + flight[fd] >= RespLen THEN 0 ELSE @]
      BY <2>3, Zenon DEF ClientReceive
    <3>6. late' = [late EXCEPT ![fd] = IF got[fd] + flight[fd] >= RespLen /\ sent[fd] > 0
                                       THEN ReqLen - sent[fd] ELSE @]
      BY <2>3, Zenon DEF ClientReceive
    <3> QED
      BY <1>2, <3>1, <3>2, <3>3, <3>4, <3>5, <3>6 DEF ConnTypes
  <2> QED
    BY <2>1, <2>2, <2>3
<1>6. ServerTypes' /\ WorkersInside'
  BY <1>1 DEF LoopInv, ServerTypes, WorkersInside
<1>7. ConnTypes'
  BY <1>1, <1>2, <1>5 DEF ConnTypes
<1>8. ASSUME users = "alive" PROVE AliveInv'
  <2>1. AliveInv
    BY <1>8 DEF LoopInv
  <2>2. PlacesExclude' /\ OwnedIsOpen' /\ OpenIsOwned' /\ PlacesUnique'
    BY <1>1, <2>1 DEF AliveInv, PlacesExclude, OwnedIsOpen, OpenIsOwned, PlacesUnique, Armed,
                      Reported, Queued, Served
  <2>3. DirectionExact'
    BY <1>1, <2>1 DEF AliveInv, DirectionExact, Reading, Writing, Queued
  <2>4. TableExact'
    BY <1>1, <1>2, <1>4, <2>1 DEF AliveInv, TableExact
  <2>5. StreamsExact'
    <3> SUFFICES ASSUME NEW g \in open PROVE Stream(g)'
      BY <1>1 DEF StreamsExact
    <3>1. g \in Fds /\ Stream(g)
      BY <1>2, <2>1 DEF ConnTypes, AliveInv, StreamsExact
    <3>2. CASE g # fd
      BY <1>1, <1>4, <3>1, <3>2 DEF Stream, Plain, Answer
    <3>3. CASE g = fd
      <4>1. Answer(fd) \in Nat /\ Whole(Answer(fd)) /\ (early[fd] = 0 => Plain(fd))
        BY <1>3, <3>1, <3>3 DEF Stream, Answer
      <4>2. Answer(fd)' = m_iv[fd] + flight'[fd] + got'[fd]
        BY <1>1 DEF Answer
      <4>3. \/ Answer(fd)' = Answer(fd)
            \/ Answer(fd) >= RespLen /\ Answer(fd)' = Answer(fd) - RespLen
        BY <1>3, <1>4, <4>2 DEF Answer
      <4>4. Whole(Answer(fd)')
        BY <4>1, <4>3, OneAnswerLess
      <4>5. ASSUME early[fd] = 0 PROVE Plain(fd)'
        <5>1. /\ late[fd] = 0
              /\ \/ /\ m_read_index[fd] + inbox[fd] = sent[fd]
                    /\ m_iv[fd] + flight[fd] + got[fd] = 0
                 \/ /\ sent[fd] = ReqLen /\ inbox[fd] = 0
                    /\ m_iv[fd] + flight[fd] + got[fd] = RespLen
                    /\ m_read_index[fd] = IF m_iv[fd] > 0 THEN ReqLen ELSE 0
          BY <4>1, <4>5 DEF Plain, Answer
        <5>2. /\ late'[fd] = 0
              /\ \/ /\ m_read_index[fd] + inbox'[fd] = sent'[fd]
                    /\ m_iv[fd] + flight'[fd] + got'[fd] = 0
                 \/ /\ sent'[fd] = ReqLen /\ inbox'[fd] = 0
                    /\ m_iv[fd] + flight'[fd] + got'[fd] = RespLen
                    /\ m_read_index[fd] = IF m_iv[fd] > 0 THEN ReqLen ELSE 0
          <6>1. CASE sent[fd] < ReqLen /\ sent'[fd] = sent[fd] + 1 /\ inbox'[fd] = inbox[fd] + 1
                     /\ flight'[fd] = flight[fd] /\ got'[fd] = got[fd] /\ late'[fd] = late[fd]
            BY <1>3, <5>1, <6>1
          <6>2. CASE /\ flight[fd] > 0 /\ inbox'[fd] = inbox[fd] /\ flight'[fd] = 0
                     /\ got[fd] + flight[fd] >= RespLen
                     /\ got'[fd] = (got[fd] + flight[fd]) - RespLen /\ sent'[fd] = 0
                     /\ late'[fd] = IF sent[fd] > 0 THEN ReqLen - sent[fd] ELSE late[fd]
            <7>1. m_iv[fd] + flight[fd] + got[fd] = RespLen /\ sent[fd] = ReqLen
              BY <1>3, <5>1, <6>2
            <7>2. m_iv[fd] = 0
              BY <1>3, <6>2, <7>1
            <7>3. inbox[fd] = 0 /\ m_read_index[fd] = 0
              BY <1>3, <5>1, <7>1, <7>2
            <7>4. got'[fd] = 0
              BY <1>3, <6>2, <7>1, <7>2
            <7>5. late'[fd] = 0
              BY <1>3, <6>2, <7>1
            <7> QED
              BY <6>2, <7>2, <7>3, <7>4, <7>5
          <6>3. CASE /\ flight[fd] > 0 /\ inbox'[fd] = inbox[fd] /\ flight'[fd] = 0
                     /\ got'[fd] = got[fd] + flight[fd] /\ sent'[fd] = sent[fd]
                     /\ late'[fd] = late[fd]
            BY <1>3, <5>1, <6>3
          <6> QED
            BY <1>3, <1>4, <5>1, <6>1, <6>2, <6>3
        <5> QED
          BY <1>1, <4>2, <5>2 DEF Plain
      <4> QED
        BY <1>1, <3>3, <4>4, <4>5 DEF Stream
    <3> QED
      BY <3>2, <3>3
  <2> QED
    BY <2>2, <2>3, <2>4, <2>5 DEF AliveInv
<1> QED
  BY <1>1, <1>6, <1>7, <1>8 DEF LoopInv

-----------------------------------------------------------------------------
(* The workers *)

\* A worker in process() has a request, which is a connection of the table.
LEMMA ServedByWorker ==
    ASSUME LoopInv, NEW w \in Workers, stage[w] # "none"
    PROVE  /\ workerPc[w] = "process" /\ request[w] \in Fds
           /\ stage[w] # "return" => Served(request[w])
BY DEF LoopInv, WorkersInside, Served

\* run() takes the oldest request: it leaves the queue and is served.
LEMMA PopStepInv ==
    ASSUME LoopInv, NEW w \in Workers, WorkerPop(w)
    PROVE  LoopInv'
<1>1. /\ UNCHANGED <<users, events, m_sockfd, m_read_index, m_iv, m_user_count, open, interest,
                     inbox, flight, sent, late, early, got>>
      /\ workerPc[w] = "pop"
      /\ stage' = [stage EXCEPT ![w] = IF workerPc'[w] = "process" THEN "parse" ELSE "none"]
  BY DEF WorkerPop, Stage, Pool!Pop, connVars, kernelVars
<1>2. ServerTypes /\ ConnTypes /\ WorkersInside
  BY DEF LoopInv
<1>3. stage[w] = "none" /\ request[w] = NoRequest
  BY <1>1, <1>2 DEF WorkersInside
<1>4. CASE m_workqueue = <<>>
  <2>1. workerPc' = [workerPc EXCEPT ![w] = "test"] /\ UNCHANGED <<m_workqueue, request>>
    BY <1>4 DEF WorkerPop, Pool!Pop, Pool!Goto
  <2>2. workerPc'[w] = "test"
    BY <1>2, <2>1 DEF ServerTypes
  <2>3. stage' = stage
    BY <1>1, <1>2, <1>3, <2>2 DEF ServerTypes
  <2>4. /\ workerPc' \in [Workers -> Pool!WorkerStates]
        /\ \A v \in Workers : workerPc'[v] = "process" <=> workerPc[v] = "process"
    BY <1>1, <1>2, <2>1 DEF ServerTypes, Pool!WorkerStates
  <2> QED
    BY <1>1, <2>1, <2>3, <2>4, QuietInv
<1>5. CASE m_workqueue # <<>>
  <2>1. PICK fd \in Fds : fd = Head(m_workqueue)
    BY <1>2, <1>5 DEF ServerTypes
  <2>2. /\ request' = [request EXCEPT ![w] = fd]
        /\ m_workqueue' = Tail(m_workqueue)
        /\ workerPc' = [workerPc EXCEPT ![w] = "process"]
    BY <1>5, <2>1 DEF WorkerPop, Pool!Pop, Pool!Goto
  <2>3. stage' = [stage EXCEPT ![w] = "parse"]
    BY <1>1, <1>2, <2>2 DEF ServerTypes
  <2>4. /\ Len(m_workqueue) \in Nat \ {0} /\ m_workqueue[1] = fd
        /\ m_workqueue' \in Seq(Fds)
        /\ DOMAIN m_workqueue = 1..Len(m_workqueue)
        /\ DOMAIN m_workqueue' = 1..(Len(m_workqueue) - 1)
        /\ \A i \in 1..(Len(m_workqueue) - 1) : m_workqueue'[i] = m_workqueue[i + 1]
    BY <1>2, <1>5, <2>1, <2>2 DEF ServerTypes
  <2>5. /\ request'[w] = fd /\ stage'[w] = "parse" /\ workerPc'[w] = "process"
        /\ \A v \in Workers \ {w} :
              request'[v] = request[v] /\ stage'[v] = stage[v] /\ workerPc'[v] = workerPc[v]
    BY <1>2, <2>2, <2>3 DEF ServerTypes
  <2>6. ServerTypes'
    BY <1>1, <1>2, <2>2, <2>3, <2>4 DEF ServerTypes, Stages, Pool!WorkerStates
  <2>7. ConnTypes'
    BY <1>1, <1>2 DEF ConnTypes
  <2>8. WorkersInside'
    BY <1>2, <2>1, <2>5 DEF WorkersInside
  <2>9. ASSUME users = "alive" PROVE AliveInv'
    <3>1. AliveInv
      BY <2>9 DEF LoopInv
    <3>2. Queued(fd)
      BY <2>4 DEF Queued
    <3>3. ~Armed(fd) /\ ~Reported(fd) /\ ~Served(fd) /\ fd \in open
      BY <3>1, <3>2 DEF AliveInv, PlacesExclude, OwnedIsOpen
    <3>4. \A i, j \in 1..Len(m_workqueue) : m_workqueue[i] = m_workqueue[j] => i = j
      BY <2>4, <3>1 DEF AliveInv, PlacesUnique
    <3>5. \A g \in Fds : Queued(g)' <=> g # fd /\ Queued(g)
      <4>1. ~Queued(fd)'
        BY <2>4, <3>4 DEF Queued
      <4>2. ASSUME NEW g \in Fds, Queued(g)' PROVE Queued(g)
        BY <2>4, <4>2 DEF Queued
      <4>3. ASSUME NEW g \in Fds, g # fd, Queued(g) PROVE Queued(g)'
        <5>1. PICK i \in 1..Len(m_workqueue) : m_workqueue[i] = g
          BY <2>4, <4>3 DEF Queued
        <5>2. i - 1 \in 1..(Len(m_workqueue) - 1) /\ m_workqueue[(i - 1) + 1] = g
          BY <2>4, <4>3, <5>1
        <5>3. m_workqueue'[i - 1] = g
          BY <2>4, <5>2
        <5> QED
          BY <2>4, <5>2, <5>3 DEF Queued
      <4> QED
        BY <4>1, <4>2, <4>3
    <3>6. \A g \in Fds : Served(g)' <=> g = fd \/ Served(g)
      <4>1. Served(fd)'
        BY <2>5 DEF Served
      <4>2. ASSUME NEW g \in Fds, g # fd PROVE Served(g)' <=> Served(g)
        BY <1>3, <2>5, <4>2, LoopAssumption DEF Served, Fds
      <4> QED
        BY <4>1, <4>2
    <3>7. \A g \in Fds : (Armed(g)' <=> Armed(g)) /\ (Reported(g)' <=> Reported(g))
      BY <1>1 DEF Armed, Reported
    <3>8. PlacesExclude' /\ OwnedIsOpen' /\ OpenIsOwned'
      BY <1>1, <1>2, <3>1, <3>3, <3>5, <3>6, <3>7
         DEF AliveInv, PlacesExclude, OwnedIsOpen, OpenIsOwned, ConnTypes
    <3>9. PlacesUnique'
      <4>1. \A i, j \in DOMAIN m_workqueue' : m_workqueue'[i] = m_workqueue'[j] => i = j
        BY <2>4, <3>4
      <4>2. \A v \in Workers \ {w} : request[v] = fd => stage[v] = "return"
        BY <3>3 DEF Served
      <4>3. \A u, v \in Workers :
               request'[u] = request'[v] /\ request'[u] \in Fds
               /\ stage'[u] # "return" /\ stage'[v] # "return" => u = v
        BY <2>5, <3>1, <4>2 DEF AliveInv, PlacesUnique
      <4> QED
        BY <1>1, <3>1, <4>1, <4>3 DEF AliveInv, PlacesUnique
    <3>10. TableExact'
      BY <1>1, <3>1 DEF AliveInv, TableExact
    <3>11. DirectionExact'
      <4>1. \A g \in Fds \ {fd} : (Reading(g)' => Reading(g)) /\ (Writing(g)' => Writing(g))
        BY <1>1, <2>5, <3>5 DEF Reading, Writing
      <4>2. ~Writing(fd)'
        BY <1>1, <2>5, <3>3 DEF Writing, Armed, Reported, Served, Masks
      <4>3. m_iv[fd] = 0
        BY <3>1, <3>2 DEF AliveInv, DirectionExact, Reading
      <4> QED
        BY <1>1, <3>1, <4>1, <4>2, <4>3 DEF AliveInv, DirectionExact
    <3>12. StreamsExact'
      BY <1>1, <3>1 DEF AliveInv, StreamsExact, Stream, Plain, Answer
    <3> QED
      BY <3>8, <3>9, <3>10, <3>11, <3>12 DEF AliveInv
  <2> QED
    BY <1>1, <2>6, <2>7, <2>8, <2>9 DEF LoopInv
<1> QED
  BY <1>4, <1>5

\* What was read of a request of n segments, n of them and no more than were sent,
\* is all of it.
LEMMA WholeRequest ==
    \A read, left, all, n \in Nat :
        read + left = all /\ read >= n /\ all <= n => read = n /\ left = 0 /\ all = n
OBVIOUS

\* process_read() decides: the connection stays with its worker.
LEMMA ParseInv ==
    ASSUME LoopInv, NEW w \in Workers, ProcessIncomplete(w) \/ ProcessAnswer(w)
    PROVE  LoopInv'
<1>1. /\ UNCHANGED <<m_workqueue, workerPc, request, users, events, m_sockfd, m_read_index,
                     m_user_count, open, interest, inbox, flight, sent, late, got>>
      /\ stage[w] = "parse"
  BY DEF ProcessIncomplete, ProcessAnswer, poolVars, connVars, kernelVars
<1>2. ServerTypes /\ ConnTypes /\ WorkersInside
  BY DEF LoopInv
<1>3. PICK fd \in Fds : fd = request[w] /\ workerPc[w] = "process" /\ Served(fd)
  BY <1>1, ServedByWorker
<1>4. \/ stage' = [stage EXCEPT ![w] = "arm_in"] /\ UNCHANGED <<m_iv, early>>
      \/ /\ stage' = [stage EXCEPT ![w] = "arm_out"]
         /\ early' = [early EXCEPT ![fd] = IF m_read_index[fd] < ReqLen THEN @ + 1 ELSE @]
         /\ m_read_index[fd] > 0
         /\ m_iv' = [m_iv EXCEPT ![fd] = RespLen]
  BY <1>3 DEF ProcessIncomplete, ProcessAnswer, Stage, connVars, kernelVars
<1>5. /\ stage'[w] \in {"arm_in", "arm_out"}
      /\ \A v \in Workers \ {w} : stage'[v] = stage[v]
      /\ \A g \in Fds \ {fd} : m_iv'[g] = m_iv[g] /\ early'[g] = early[g]
      /\ stage'[w] = "arm_in" => m_iv'[fd] = m_iv[fd] /\ early'[fd] = early[fd]
      /\ stage'[w] = "arm_out" =>
            /\ m_iv'[fd] = RespLen /\ m_read_index[fd] > 0
            /\ early'[fd] = IF m_read_index[fd] < ReqLen THEN early[fd] + 1 ELSE early[fd]
  BY <1>2, <1>4 DEF ServerTypes, ConnTypes
<1>6. ServerTypes'
  BY <1>1, <1>2, <1>4 DEF ServerTypes, Stages
<1>7. ConnTypes'
  <2>1. early' \in [Fds -> Nat]
    BY <1>2, <1>4 DEF ConnTypes
  <2> QED
    BY <1>1, <1>2, <1>4, <2>1, LoopAssumption DEF ConnTypes
<1>8. WorkersInside'
  BY <1>1, <1>2, <1>3, <1>5 DEF WorkersInside
<1>9. ASSUME users = "alive" PROVE AliveInv'
  <2>1. AliveInv
    BY <1>9 DEF LoopInv
  <2>2. fd \in open /\ ~Armed(fd) /\ ~Reported(fd) /\ ~Queued(fd)
    BY <1>3, <2>1 DEF AliveInv, PlacesExclude, OwnedIsOpen
  <2>3. \A v \in Workers \ {w} : request[v] = fd => stage[v] = "return"
    BY <1>1, <1>3, <2>1 DEF AliveInv, PlacesUnique
  <2>4. \A g \in Fds : /\ Armed(g)' <=> Armed(g)
                       /\ Reported(g)' <=> Reported(g)
                       /\ Queued(g)' <=> Queued(g)
                       /\ Served(g)' <=> Served(g)
    BY <1>1, <1>5 DEF Armed, Reported, Queued, Served
  <2>5. PlacesExclude' /\ OwnedIsOpen' /\ OpenIsOwned'
    BY <1>1, <1>2, <2>1, <2>4 DEF AliveInv, PlacesExclude, OwnedIsOpen, OpenIsOwned, ConnTypes
  <2>6. PlacesUnique'
    BY <1>1, <1>5, <2>1 DEF AliveInv, PlacesUnique
  <2>7. TableExact'
    <3>1. \A g \in Fds \ open : early'[g] = early[g]
      BY <1>5, <2>2
    <3> QED
      BY <1>1, <2>1, <3>1 DEF AliveInv, TableExact
  <2>8. m_iv[fd] = 0
    <3>1. Reading(fd)
      BY <1>1, <1>3 DEF Reading
    <3> QED
      BY <2>1, <3>1 DEF AliveInv, DirectionExact
  <2>9. DirectionExact'
    <3>1. \A g \in Fds \ {fd} : (Reading(g)' <=> Reading(g)) /\ (Writing(g)' <=> Writing(g))
      BY <1>1, <1>3, <1>5, <2>4 DEF Reading, Writing
    <3>2. (Reading(fd)' => stage'[w] = "arm_in") /\ (Writing(fd)' => stage'[w] = "arm_out")
      BY <1>1, <1>5, <2>2, <2>3, <2>4 DEF Reading, Writing, Armed, Reported, Masks
    <3> QED
      BY <1>5, <2>1, <2>8, <3>1, <3>2, LoopAssumption DEF AliveInv, DirectionExact
  <2>10. StreamsExact'
    <3> SUFFICES ASSUME NEW g \in open PROVE Stream(g)'
      BY <1>1 DEF StreamsExact
    <3>1. g \in Fds /\ Stream(g)
      BY <1>2, <2>1 DEF ConnTypes, AliveInv, StreamsExact
    <3>2. CASE g # fd \/ stage'[w] = "arm_in"
      BY <1>1, <1>5, <3>1, <3>2 DEF Stream, Plain, Answer
    <3>3. CASE g = fd /\ stage'[w] = "arm_out"
      <4>1. /\ m_read_index[fd] \in Nat /\ inbox[fd] \in Nat /\ got[fd] \in Nat
            /\ flight[fd] \in Nat /\ sent[fd] \in Nat /\ sent[fd] <= ReqLen /\ early[fd] \in Nat
            /\ SndBuf \in Nat /\ ReqLen \in Nat \ {0} /\ RespLen \in Nat \ {0}
        BY <1>2, LoopAssumption DEF ConnTypes
      <4>2. Answer(fd) = flight[fd] + got[fd] /\ Answer(fd) \in Nat
        BY <2>8, <4>1 DEF Answer
      <4>3. Answer(fd)' = Answer(fd) + RespLen
        BY <1>1, <1>5, <3>3, <4>1, <4>2 DEF Answer
      <4>4. Whole(Answer(fd)')
        BY <3>1, <3>3, <4>2, <4>3, OneMoreAnswer DEF Stream
      <4>5. ASSUME early'[fd] = 0 PROVE Plain(fd)'
        <5>1. m_read_index[fd] >= ReqLen /\ early[fd] = 0 /\ m_iv'[fd] = RespLen
          BY <1>5, <3>3, <4>1, <4>5
        <5>2. /\ late[fd] = 0
              /\ \/ m_read_index[fd] + inbox[fd] = sent[fd] /\ Answer(fd) = 0
                 \/ m_read_index[fd] = 0
          BY <2>8, <3>1, <3>3, <5>1 DEF Stream, Plain
        <5>3. m_read_index[fd] + inbox[fd] = sent[fd] /\ Answer(fd) = 0
          BY <4>1, <5>1, <5>2
        <5>4. m_read_index[fd] = ReqLen /\ inbox[fd] = 0 /\ sent[fd] = ReqLen
          BY <4>1, <5>1, <5>3, WholeRequest
        <5>5. Answer(fd)' = RespLen /\ m_iv'[fd] > 0
          BY <4>1, <4>3, <5>1, <5>3
        <5> QED
          BY <1>1, <5>2, <5>4, <5>5 DEF Plain
      <4> QED
        BY <3>3, <4>4, <4>5 DEF Stream
    <3> QED
      BY <1>5, <3>2, <3>3
  <2> QED
    BY <2>5, <2>6, <2>7, <2>9, <2>10 DEF AliveInv
<1> QED
  BY <1>1, <1>6, <1>7, <1>8, <1>9 DEF LoopInv

\* The modfd() at the end of process() hands the connection from the worker back
\* to epoll.
LEMMA ArmInv ==
    ASSUME LoopInv, NEW w \in Workers, ProcessArm(w)
    PROVE  LoopInv'
<1>1. /\ UNCHANGED <<m_workqueue, workerPc, request, users, events, m_sockfd, m_read_index, m_iv,
                     m_user_count, open, inbox, flight, sent, late, early, got>>
      /\ stage[w] \in {"arm_in", "arm_out"}
      /\ stage' = [stage EXCEPT ![w] = "return"]
  BY DEF ProcessArm, Stage, poolVars, connVars
<1>2. ServerTypes /\ ConnTypes /\ WorkersInside
  BY DEF LoopInv
<1>3. PICK fd \in Fds : fd = request[w] /\ workerPc[w] = "process" /\ Served(fd)
  BY <1>1, ServedByWorker
<1>4. PICK dir \in {"in", "out"} :
         /\ dir = "in" <=> stage[w] = "arm_in"
         /\ interest' = [interest EXCEPT ![fd] = IF interest[fd] = "none" THEN interest[fd] ELSE dir]
  BY <1>2, <1>3 DEF ProcessArm, Modfd, ConnTypes
<1>5. /\ stage'[w] = "return" /\ \A v \in Workers \ {w} : stage'[v] = stage[v]
      /\ \A g \in Fds \ {fd} : interest'[g] = interest[g]
      /\ interest[fd] # "none" => interest'[fd] = dir
  BY <1>1, <1>2, <1>4 DEF ServerTypes, ConnTypes
<1>6. ServerTypes'
  BY <1>1, <1>2 DEF ServerTypes, Stages
<1>7. ConnTypes'
  BY <1>1, <1>2, <1>4 DEF ConnTypes
<1>8. WorkersInside'
  BY <1>1, <1>2, <1>3, <1>5 DEF WorkersInside
<1>9. ASSUME users = "alive" PROVE AliveInv'
  <2>1. AliveInv
    BY <1>9 DEF LoopInv
  <2>2. fd \in open /\ ~Armed(fd) /\ ~Reported(fd) /\ ~Queued(fd)
    BY <1>3, <2>1 DEF AliveInv, PlacesExclude, OwnedIsOpen
  <2>3. interest'[fd] = dir
    BY <1>5, <2>1, <2>2 DEF AliveInv, TableExact
  <2>4. \A v \in Workers \ {w} : request[v] = fd => stage[v] = "return"
    BY <1>1, <1>3, <2>1 DEF AliveInv, PlacesUnique
  <2>5. \A g \in Fds : /\ Armed(g)' <=> g = fd \/ Armed(g)
                       /\ Reported(g)' <=> Reported(g)
                       /\ Queued(g)' <=> Queued(g)
    BY <1>1, <1>5, <2>3 DEF Armed, Reported, Queued
  <2>6. \A g \in Fds : Served(g)' <=> g # fd /\ Served(g)
    <3>1. ~Served(fd)'
      BY <1>1, <1>5, <2>4 DEF Served
    <3>2. \A g \in Fds \ {fd} : Served(g)' <=> Served(g)
      BY <1>1, <1>3, <1>5 DEF Served
    <3> QED
      BY <3>1, <3>2
  <2>7. PlacesExclude' /\ OwnedIsOpen' /\ OpenIsOwned'
    BY <1>1, <1>2, <2>1, <2>2, <2>5, <2>6
       DEF AliveInv, PlacesExclude, OwnedIsOpen, OpenIsOwned, ConnTypes
  <2>8. PlacesUnique'
    BY <1>1, <1>5, <2>1 DEF AliveInv, PlacesUnique
  <2>9. TableExact'
    <3>1. \A g \in open : interest'[g] # "none"
      BY <1>2, <1>5, <2>1, <2>3 DEF AliveInv, TableExact, ConnTypes
    <3> QED
      BY <1>1, <2>1, <3>1 DEF AliveInv, TableExact
  <2>10. DirectionExact'
    <3>1. \A g \in Fds \ {fd} : (Reading(g)' => Reading(g)) /\ (Writing(g)' => Writing(g))
      BY <1>1, <1>5, <2>5 DEF Reading, Writing
    <3>2. (Reading(fd)' => dir = "in") /\ (Writing(fd)' => dir = "out")
      BY <1>1, <1>5, <2>2, <2>3, <2>4, <2>5 DEF Reading, Writing, Reported, Masks
    <3>3. (dir = "in" => Reading(fd)) /\ (dir = "out" => Writing(fd))
      BY <1>1, <1>3, <1>4 DEF Reading, Writing
    <3> QED
      BY <1>1, <2>1, <3>1, <3>2, <3>3 DEF AliveInv, DirectionExact
  <2>11. StreamsExact'
    BY <1>1, <2>1 DEF AliveInv, StreamsExact, Stream, Plain, Answer
  <2> QED
    BY <2>7, <2>8, <2>9, <2>10, <2>11 DEF AliveInv
<1> QED
  BY <1>1, <1>6, <1>7, <1>8, <1>9 DEF LoopInv

\* The worker returns; the connection has long been epoll's, or another worker's.
LEMMA ReturnInv ==
    ASSUME LoopInv, NEW w \in Workers, ProcessReturn(w)
    PROVE  LoopInv'
<1>1. /\ UNCHANGED <<m_workqueue, users, events, m_sockfd, m_read_index, m_iv,
                     m_user_count, open, interest, inbox, flight, sent, late, early, got>>
      /\ stage[w] = "return"
      /\ stage' = [stage EXCEPT ![w] = "none"]
      /\ request' = [request EXCEPT ![w] = NoRequest]
      /\ workerPc' = [workerPc EXCEPT ![w] = "test"]
  BY DEF ProcessReturn, Stage, Pool!Processed, Pool!Goto, connVars, kernelVars
<1>2. ServerTypes /\ ConnTypes /\ WorkersInside
  BY DEF LoopInv
<1>3. /\ request'[w] = NoRequest /\ stage'[w] = "none" /\ workerPc'[w] = "test"
      /\ \A v \in Workers \ {w} :
            request'[v] = request[v] /\ stage'[v] = stage[v] /\ workerPc'[v] = workerPc[v]
  BY <1>1, <1>2 DEF ServerTypes
<1>4. NoRequest \notin Fds
  BY LoopAssumption DEF Fds
<1>5. ServerTypes'
  BY <1>1, <1>2 DEF ServerTypes, Stages, Pool!WorkerStates
<1>6. ConnTypes'
  BY <1>1, <1>2 DEF ConnTypes
<1>7. WorkersInside'
  BY <1>2, <1>3 DEF WorkersInside
<1>8. ASSUME users = "alive" PROVE AliveInv'
  <2>1. AliveInv
    BY <1>8 DEF LoopInv
  <2>2. \A g \in Fds : /\ Armed(g)' <=> Armed(g)
                       /\ Reported(g)' <=> Reported(g)
                       /\ Queued(g)' <=> Queued(g)
                       /\ Served(g)' <=> Served(g)
    BY <1>1, <1>3, <1>4 DEF Armed, Reported, Queued, Served
  <2>3. PlacesExclude' /\ OwnedIsOpen' /\ OpenIsOwned'
    BY <1>1, <1>2, <2>1, <2>2 DEF AliveInv, PlacesExclude, OwnedIsOpen, OpenIsOwned, ConnTypes
  <2>4. PlacesUnique'
    BY <1>1, <1>3, <1>4, <2>1 DEF AliveInv, PlacesUnique
  <2>5. TableExact'
    BY <1>1, <2>1 DEF AliveInv, TableExact
  <2>6. DirectionExact'
    <3>1. \A g \in Fds : (Reading(g)' => Reading(g)) /\ (Writing(g)' => Writing(g))
      BY <1>1, <1>3, <1>4, <2>2 DEF Reading, Writing
    <3> QED
      BY <1>1, <2>1, <3>1 DEF AliveInv, DirectionExact
  <2>7. StreamsExact'
    BY <1>1, <2>1 DEF AliveInv, StreamsExact, Stream, Plain, Answer
  <2> QED
    BY <2>3, <2>4, <2>5, <2>6, <2>7 DEF AliveInv
<1> QED
  BY <1>1, <1>5, <1>6, <1>7, <1>8 DEF LoopInv

-----------------------------------------------------------------------------
(* The results *)

\* The process starts with no connection and every worker at the top of run().
LEMMA LoopInitInv == Init => LoopInv
<1> SUFFICES ASSUME Init PROVE LoopInv
  OBVIOUS
<1>1. /\ m_workqueue = <<>> /\ workerPc = [w \in Workers |-> "test"]
      /\ request = [w \in Workers |-> NoRequest] /\ stage = [w \in Workers |-> "none"]
      /\ users = "alive" /\ events = {} /\ open = {} /\ m_user_count = 0
      /\ interest = [fd \in Fds |-> "none"]
  BY DEF Init, Pool!PoolInit
<1>2. ServerTypes
  BY <1>1 DEF ServerTypes, Stages, Pool!WorkerStates
<1>3. ConnTypes
  <2>1. m_sockfd \in [Fds -> {-1, 0}] /\ m_read_index \in [Fds -> {0, 1}]
    BY DEF Init, NoFd, ListenFd
  <2>2. 0 \in 0..SndBuf /\ 0 \in 0..ReqLen
    BY LoopAssumption
  <2>3. m_sockfd \in [Fds -> Int] /\ m_read_index \in [Fds -> Nat]
    BY <2>1
  <2> QED
    BY <1>1, <2>2, <2>3 DEF Init, ConnTypes
<1>4. WorkersInside
  BY <1>1 DEF WorkersInside
<1>5. NoRequest \notin Fds
  BY LoopAssumption DEF Fds
<1>6. \A g \in Fds : ~Armed(g) /\ ~Reported(g) /\ ~Queued(g) /\ ~Served(g)
  BY <1>1, <1>5 DEF Armed, Reported, Queued, Served
<1>7. PlacesExclude /\ OwnedIsOpen /\ OpenIsOwned
  BY <1>1, <1>6 DEF PlacesExclude, OwnedIsOpen, OpenIsOwned
<1>8. PlacesUnique
  BY <1>1, <1>5 DEF PlacesUnique
<1>9. TableExact
  BY <1>1, FS_EmptySet DEF Init, TableExact
<1>10. DirectionExact
  BY <1>1, <1>5, <1>6 DEF DirectionExact, Reading, Writing
<1>11. StreamsExact
  BY <1>1 DEF StreamsExact
<1> QED
  BY <1>2, <1>3, <1>4, <1>7, <1>8, <1>9, <1>10, <1>11 DEF LoopInv, AliveInv

\* Every reachable state of the process satisfies the inductive invariant.
THEOREM LoopInvariant == Spec => []LoopInv
<1>1. LoopInv /\ [Next]_vars => LoopInv'
  <2> SUFFICES ASSUME LoopInv, [Next]_vars PROVE LoopInv'
    OBVIOUS
  <2>1. CASE MainLoop
    <3>1. CASE EpollWait
      BY <3>1, EpollWaitInv
    <3>2. CASE Accept
      BY <3>2, AcceptInv
    <3>3. CASE AcceptError \/ AcceptRefuse \/ MainRelease
      BY <3>3, QuietSteps
    <3>4. CASE \E fd \in Fds : HandleEvent(fd)
      <4> PICK fd \in Fds : HandleEvent(fd)
        BY <3>4
      <4>1. CASE HandleHup(fd) \/ HandleInEof(fd) \/ HandleOutError(fd) \/ HandleOutClose(fd)
        BY <4>1, ClosingInv
      <4>2. CASE HandleIn(fd) \/ HandleInRejected(fd)
        BY <4>2, HandleInInv
      <4>3. CASE HandleOutPartly(fd) \/ HandleOutKeep(fd)
        BY <4>3, HandleOutInv
      <4> QED
        BY <4>1, <4>2, <4>3 DEF HandleEvent
    <3> QED
      BY <2>1, <3>1, <3>2, <3>3, <3>4 DEF MainLoop
  <2>2. CASE LeaveLoop
    BY <2>2, LeaveLoopInv
  <2>3. CASE DeletePool \/ Exited \/ ClientConnect \/ ClientAbort \/ UNCHANGED vars
    BY <2>3, QuietSteps
  <2>4. CASE \E w \in Workers : WorkerStep(w)
    <3> PICK w \in Workers : WorkerStep(w)
      BY <2>4
    <3>1. CASE WorkerLoop(w)
      BY <3>1, QuietSteps
    <3> QED
      BY <3>1, PopStepInv, ParseInv, ArmInv, ReturnInv DEF WorkerStep
  <2>5. CASE \E fd \in Fds : Client(fd)
    <3> PICK fd \in Fds : Client(fd)
      BY <2>5
    <3>1. CASE ClientClose(fd)
      BY <3>1, QuietSteps
    <3> QED
      BY <3>1, ClientInv DEF Client
  <2> QED
    BY <2>1, <2>2, <2>3, <2>4, <2>5 DEF Next
<1> QED
  BY LoopInitInv, <1>1, PTL DEF Spec

\* A set whose elements are all the same has at most one, and none when it is
\* empty.
LEMMA AtMostOne ==
    ASSUME NEW S, \A x, y \in S : x = y
    PROVE  Cardinality(S) = IF S = {} THEN 0 ELSE 1
<1>1. CASE S = {}
  BY <1>1, FS_EmptySet
<1>2. CASE S # {}
  <2>1. PICK x \in S : TRUE
    BY <1>2
  <2>2. S = {x}
    BY <2>1
  <2> QED
    BY <1>2, <2>2, FS_Singleton
<1> QED
  BY <1>1, <1>2

\* Owners counts the places of a connection, each of which holds it at most once.
LEMMA OwnersArePlaces ==
    ASSUME LoopInv, users = "alive", NEW fd \in Fds
    PROVE  Owners(fd) = (IF Armed(fd) THEN 1 ELSE 0) + (IF Reported(fd) THEN 1 ELSE 0)
                        + (IF Queued(fd) THEN 1 ELSE 0) + (IF Served(fd) THEN 1 ELSE 0)
<1> DEFINE E == {ev \in events : ev[1] = fd}
           Q == {i \in DOMAIN m_workqueue : m_workqueue[i] = fd}
           R == {w \in Workers : request[w] = fd /\ stage[w] # "return"}
<1>1. AliveInv /\ ServerTypes /\ fd # ListenFd
  BY DEF LoopInv, Fds, ListenFd
<1>2. Cardinality(E) = IF Reported(fd) THEN 1 ELSE 0
  <2>1. \A ev \in E : \E m \in Masks : ev = <<fd, m>>
    <3> SUFFICES ASSUME NEW ev \in events, ev[1] = fd PROVE \E m \in Masks : ev = <<fd, m>>
      OBVIOUS
    <3>1. ev # <<ListenFd, "in">>
      BY <1>1
    <3>2. ev \in Fds \X Masks
      BY <1>1, <3>1 DEF ServerTypes
    <3> QED
      BY <3>2
  <2>2. \A x, y \in E : x = y
    BY <1>1, <2>1 DEF AliveInv, PlacesUnique
  <2>3. E # {} <=> Reported(fd)
    <3>1. \A m \in Masks : <<fd, m>> \in events => <<fd, m>> \in E
      OBVIOUS
    <3> QED
      BY <2>1, <3>1 DEF Reported
  <2> QED
    BY <2>2, <2>3, AtMostOne
<1>3. Cardinality(Q) = IF Queued(fd) THEN 1 ELSE 0
  <2>1. \A x, y \in Q : x = y
    BY <1>1 DEF AliveInv, PlacesUnique
  <2>2. Q # {} <=> Queued(fd)
    BY DEF Queued
  <2> QED
    BY <2>1, <2>2, AtMostOne
<1>4. Cardinality(R) = IF Served(fd) THEN 1 ELSE 0
  <2>1. \A x, y \in R : x = y
    BY <1>1 DEF AliveInv, PlacesUnique
  <2>2. R # {} <=> Served(fd)
    BY DEF Served
  <2> QED
    BY <2>1, <2>2, AtMostOne
<1>5. Owners(fd) = (IF Armed(fd) THEN 1 ELSE 0) + Cardinality(E) + Cardinality(Q) + Cardinality(R)
  BY DEF Owners, Armed
<1> QED
  BY <1>2, <1>3, <1>4, <1>5

\* EPOLLONESHOT keeps every http_conn with one owner, and none once it is closed,
\* for any number of workers, connections and queued requests.
THEOREM OneOwner == Spec => []SingleOwner
<1>1. LoopInv => SingleOwner
  <2> SUFFICES ASSUME LoopInv, users = "alive", NEW fd \in Fds
               PROVE  Owners(fd) <= IF fd \in open THEN 1 ELSE 0
    BY DEF SingleOwner
  <2> QED
    BY OwnersArePlaces DEF LoopInv, AliveInv, PlacesExclude, OwnedIsOpen
<1> QED
  BY <1>1, LoopInvariant, PTL

\* With a queue for every connection, no open connection is ever forgotten.
THEOREM AlwaysAnOwner == Spec => []AlwaysAttended
<1>1. LoopInv => AlwaysAttended
  <2> SUFFICES ASSUME LoopInv, users = "alive", MaxRequests >= MaxFd - 1, NEW fd \in open
               PROVE  Owners(fd) > 0
    BY DEF AlwaysAttended
  <2>1. fd \in Fds
    BY DEF LoopInv, ConnTypes
  <2>2. Armed(fd) \/ Reported(fd) \/ Queued(fd) \/ Served(fd)
    BY DEF LoopInv, AliveInv, OpenIsOwned
  <2> QED
    BY <2>1, <2>2, OwnersArePlaces
<1> QED
  BY <1>1, LoopInvariant, PTL

\* m_user_count is the number of open connections and users[fd] is fd's.
THEOREM CountIsExact == Spec => []UserCountExact
<1>1. LoopInv => UserCountExact
  BY DEF LoopInv, AliveInv, TableExact, UserCountExact
<1> QED
  BY <1>1, LoopInvariant, PTL

\* The answer bytes of a connection are always whole answers, and until one of its
\* requests is answered early no byte of a request or of an answer is lost, repeated
\* or left from before, however often an object is reused and a descriptor reassigned.
THEOREM StreamsConserved == Spec => []StreamConservation
<1>1. LoopInv => StreamConservation
  BY DEF LoopInv, AliveInv, StreamsExact, Stream, Plain, Whole, Answer, StreamConservation
<1> QED
  BY <1>1, LoopInvariant, PTL

-----------------------------------------------------------------------------
(* The pool inside the process *)

\* Every step of the process is a step of ThreadPool or none of its business: main
\* appends only from its loop, and process() returns only where run() called it.
THEOREM LoopImplementsPool == Spec => Pool!PoolSafetySpec
<1>1. Init => Pool!PoolInit
  BY DEF Init
<1>2. LoopInv /\ [Next]_vars => [Pool!PoolNext]_(Pool!poolVars)
  <2> SUFFICES ASSUME LoopInv, [Next]_vars PROVE [Pool!PoolNext]_(Pool!poolVars)
    OBVIOUS
  <2>1. CASE MainLoop
    BY <2>1 DEF MainLoop, EpollWait, AcceptError, AcceptRefuse, Accept, HandleEvent, HandleHup,
                HandleInEof, HandleIn, HandleInRejected, ReadAll, HandleOutError, HandleOutPartly,
                HandleOutKeep, HandleOutClose, MainRelease, poolVars, Pool!poolVars, Pool!PoolNext
  <2>2. CASE LeaveLoop \/ DeletePool \/ Exited
    BY <2>2 DEF LeaveLoop, DeletePool, Exited, vars, poolVars, Pool!poolVars, Pool!PoolNext
  <2>3. CASE \E w \in Workers : WorkerStep(w)
    BY <2>3 DEF WorkerStep, WorkerLoop, WorkerPop, ProcessIncomplete, ProcessAnswer, ProcessArm,
                ProcessReturn, poolVars, Pool!poolVars, Pool!PoolNext, Pool!WorkerNext
  <2>4. CASE ClientConnect \/ ClientAbort \/ \E fd \in Fds : Client(fd)
    BY <2>4 DEF ClientConnect, ClientAbort, Client, ClientSend, ClientSendLate, ClientReceive,
                ClientClose,
                poolVars, Pool!poolVars
  <2>5. CASE UNCHANGED vars
    BY <2>5 DEF vars, poolVars, Pool!poolVars
  <2> QED
    BY <2>1, <2>2, <2>3, <2>4, <2>5 DEF Next
<1> QED
  BY <1>1, <1>2, LoopInvariant, PTL DEF Spec, Pool!PoolSafetySpec

\* The theorems of ThreadPoolProofs, about the pool of this process.
PoolProofs == INSTANCE ThreadPoolProofs WITH Requests <- Fds

\* What ThreadPoolProofs assumes of its constants, LoopAssumption gives.
LEMMA PoolAssumed == PoolProofs!IsFiniteSet(Workers) /\ NoRequest \notin Fds
BY LoopAssumption DEF PoolProofs!IsFiniteSet, IsFiniteSet, Fds

\* The two instances of ThreadPool are the same pool.
LEMMA SamePool ==
    /\ Pool!PoolInit => PoolProofs!PoolInit
    /\ [Pool!PoolNext]_(Pool!poolVars) => [PoolProofs!PoolNext]_(PoolProofs!poolVars)
<1>1. Pool!PoolInit => PoolProofs!PoolInit
  BY DEF Pool!PoolInit, PoolProofs!PoolInit
<1>2. UNCHANGED Pool!poolVars => UNCHANGED PoolProofs!poolVars
  BY DEF Pool!poolVars, PoolProofs!poolVars
<1>3. \A w \in Workers : Pool!WorkerNext(w) => PoolProofs!WorkerNext(w)
  BY DEF Pool!WorkerNext, Pool!LoopTest, Pool!Acquire, Pool!CheckStop, Pool!Pop, Pool!Processed,
         Pool!Goto, PoolProofs!WorkerNext, PoolProofs!LoopTest, PoolProofs!Acquire,
         PoolProofs!CheckStop, PoolProofs!Pop, PoolProofs!Processed, PoolProofs!Goto
<1>4. Pool!Destructor => PoolProofs!Destructor
  <2>1. Pool!Cardinality(Workers) = PoolProofs!Cardinality(Workers)
    BY DEF Pool!Cardinality, PoolProofs!Cardinality
  <2> QED
    BY <2>1 DEF Pool!Destructor, Pool!DestructorStop, Pool!DestructorRelease, Pool!DestructorJoin,
                Pool!At, PoolProofs!Destructor, PoolProofs!DestructorStop,
                PoolProofs!DestructorRelease, PoolProofs!DestructorJoin, PoolProofs!At
<1>5. Pool!PoolNext => PoolProofs!PoolNext
  BY <1>3, <1>4 DEF Pool!PoolNext, Pool!AppendPush, Pool!AppendReject, Pool!AppendRelease,
         Pool!Destroyed, Pool!poolVars, PoolProofs!PoolNext, PoolProofs!AppendPush,
         PoolProofs!AppendReject, PoolProofs!AppendRelease, PoolProofs!Destroyed,
         PoolProofs!poolVars
<1> QED
  BY <1>1, <1>2, <1>5

\* So what ThreadPoolProofs proves holds in the process: main's append() and the
\* workers never lose or invent a permit, no worker finds the queue empty, and the
\* destructor wakes everybody.
THEOREM LoopPermitsAccounted ==
    Spec => []PoolProofs!PermitAccounting /\ []PoolProofs!PopFindsRequest
            /\ []PoolProofs!JoinersHavePermits
<1>1. PoolProofs!PoolSafetySpec => []PoolProofs!PermitAccounting
  BY PoolAssumed, LoopAssumption, PoolProofs!PermitsAccounted
<1>2. PoolProofs!PoolSafetySpec => []PoolProofs!PopFindsRequest
  BY PoolAssumed, LoopAssumption, PoolProofs!PopAlwaysFinds
<1>3. PoolProofs!PoolSafetySpec => []PoolProofs!JoinersHavePermits
  BY PoolAssumed, LoopAssumption, PoolProofs!JoinNeverStarves
<1>4. Pool!PoolSafetySpec => PoolProofs!PoolSafetySpec
  BY SamePool, PTL DEF Pool!PoolSafetySpec, PoolProofs!PoolSafetySpec
<1> QED
  BY <1>1, <1>2, <1>3, <1>4, LoopImplementsPool, PTL
=============================================================================
