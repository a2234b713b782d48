---------------------------- MODULE LeasesProofs ----------------------------
(***************************************************************************)
(* The safety properties of the two pools of a backend, proved for every   *)
(* number of threads and every pool size: ConnectionPool's for every       *)
(* number of connections, RedisClient's for every number of contexts.  And *)
(* the proof that a backend with both pools, Leases, implements the        *)
(* specification of each, so that what is proved of a pool alone holds of  *)
(* the two together.                                                       *)
(***************************************************************************)
EXTENDS Leases, FiniteSetTheorems, TLAPS

-----------------------------------------------------------------------------
(* The PostgreSQL pool: its invariant *)

\* Before init() returns nobody calls and there is no permit.
NobodyBeforeReady ==
    phase # "ready" => reserve = 0 /\ \A t \in Threads : pc[t] = "idle"

\* The counters are right.
CountersExact ==
    /\ free_conn = Len(conn_list)
    /\ cur_conn = Cardinality(At("query"))

\* Exactly the threads that run a query hold a connection.
LeaseIsQuery == \A t \in Threads : lease[t] # NoConn <=> pc[t] = "query"

\* Every connection is idle or held.
EachIsSomewhere ==
    phase = "ready" =>
        /\ Len(conn_list) + Cardinality(At("query")) = Cardinality(Conns)
        /\ \A c \in Conns : c \in Idle \/ \E t \in At("query") : lease[t] = c

\* The inductive invariant.
ConnInv ==
    /\ TypeOK
    /\ NobodyBeforeReady
    /\ CountersExact
    /\ LeaseIsQuery
    /\ LeaseExclusive
    /\ PermitsMatchList
    /\ EachIsSomewhere

-----------------------------------------------------------------------------
\* The sets the invariant counts are finite.
LEMMA AtFinite ==
    /\ \A label : IsFiniteSet(At(label)) /\ Cardinality(At(label)) \in Nat
    /\ IsFiniteSet(InBetween) /\ Cardinality(InBetween) \in Nat
    /\ Cardinality(Conns) \in Nat /\ Cardinality(Threads) \in Nat
<1>1. \A label : At(label) \subseteq Threads
  BY DEF At
<1>2. InBetween \subseteq Threads
  BY DEF InBetween, At
<1> QED
  BY <1>1, <1>2, ConnectionAssumption, FS_Subset, FS_CardinalityType

\* A thread that moves leaves one set and joins another.
LEMMA AtMoves ==
    ASSUME TypeOK, NEW t \in Threads, NEW label \in PcStates, Goto(t, label)
    PROVE  \A l \in PcStates :
              At(l)' = IF l = label THEN At(l) \cup {t} ELSE At(l) \ {t}
<1>1. \A u \in Threads : pc'[u] = IF u = t THEN label ELSE pc[u]
  BY DEF TypeOK, Goto
<1> QED
  BY <1>1 DEF At

\* The invariant holds before init().
LEMMA InitInv == Init => ConnInv
<1> SUFFICES ASSUME Init PROVE ConnInv
  OBVIOUS
<1>1. At("query") = {}
  BY DEF Init, At
<1>2. Cardinality(At("query")) = 0
  BY <1>1, FS_EmptySet
<1>3. TypeOK
  BY DEF Init, TypeOK, PcStates
<1>4. LeaseExclusive
  BY DEF Init, LeaseExclusive
<1> QED
  BY <1>2, <1>3, <1>4 DEF Init, ConnInv, NobodyBeforeReady, CountersExact, LeaseIsQuery,
                          PermitsMatchList, EachIsSomewhere

\* A list that holds as many different connections as there are holds all.
LEMMA FullList ==
    ASSUME TypeOK, LeaseExclusive, Len(conn_list) = Cardinality(Conns)
    PROVE  Idle = Conns
<1>1. conn_list \in Injection(1..Len(conn_list), Conns)
  BY DEF TypeOK, LeaseExclusive, Injection, IsInjective
<1>2. Cardinality(1..Len(conn_list)) = Len(conn_list)
  BY FS_Interval DEF TypeOK
<1>3. conn_list \in Surjection(1..Len(conn_list), Conns)
  BY <1>1, <1>2, ConnectionAssumption, FS_Injection
<1> QED
  BY <1>3 DEF Surjection, Idle, TypeOK

\* A connection at the end of the list leaves the others where they are.
LEMMA AppendedIdle ==
    ASSUME TypeOK, NEW c \in Conns, conn_list' = Append(conn_list, c)
    PROVE  /\ conn_list' \in Seq(Conns)
           /\ Len(conn_list') = Len(conn_list) + 1
           /\ Idle' = Idle \cup {c}
           /\ c \notin Idle
              /\ (\A i, j \in DOMAIN conn_list : conn_list[i] = conn_list[j] => i = j)
              => \A i, j \in DOMAIN conn_list' : conn_list'[i] = conn_list'[j] => i = j
<1>1. /\ conn_list' \in Seq(Conns)
      /\ Len(conn_list') = Len(conn_list) + 1
      /\ DOMAIN conn_list' = 1..(Len(conn_list) + 1)
      /\ DOMAIN conn_list = 1..Len(conn_list)
      /\ Len(conn_list) \in Nat
  BY DEF TypeOK
<1>2. /\ \A i \in 1..Len(conn_list) : conn_list'[i] = conn_list[i]
      /\ conn_list'[Len(conn_list) + 1] = c
  BY DEF TypeOK
<1>3. Idle' = Idle \cup {c}
  BY <1>1, <1>2 DEF Idle
<1>4. ASSUME c \notin Idle,
             \A i, j \in DOMAIN conn_list : conn_list[i] = conn_list[j] => i = j
      PROVE  \A i, j \in DOMAIN conn_list' : conn_list'[i] = conn_list'[j] => i = j
  BY <1>1, <1>2, <1>4 DEF Idle
<1> QED
  BY <1>1, <1>3, <1>4

\* Taking the first connection of the list leaves exactly the others.
LEMMA TakenIdle ==
    ASSUME TypeOK, conn_list # <<>>, conn_list' = Tail(conn_list),
           \A i, j \in DOMAIN conn_list : conn_list[i] = conn_list[j] => i = j
    PROVE  /\ conn_list' \in Seq(Conns)
           /\ Len(conn_list') = Len(conn_list) - 1
           /\ Head(conn_list) \in Conns
           /\ Head(conn_list) \notin Idle'
           /\ Idle = Idle' \cup {Head(conn_list)}
           /\ \A i, j \in DOMAIN conn_list' : conn_list'[i] = conn_list'[j] => i = j
<1>1. /\ conn_list' \in Seq(Conns)
      /\ Len(conn_list) \in Nat /\ Len(conn_list) > 0
      /\ Len(conn_list') = Len(conn_list) - 1
      /\ DOMAIN conn_list' = 1..(Len(conn_list) - 1)
      /\ DOMAIN conn_list = 1..Len(conn_list)
  BY DEF TypeOK
<1>2. /\ \A i \in 1..(Len(conn_list) - 1) : conn_list'[i] = conn_list[i + 1]
      /\ Head(conn_list) = conn_list[1]
      /\ Head(conn_list) \in Conns
  BY <1>1 DEF TypeOK
<1>3. Head(conn_list) \notin Idle'
  BY <1>1, <1>2 DEF Idle
<1>4. Idle = Idle' \cup {Head(conn_list)}
  <2>1. ASSUME NEW i \in DOMAIN conn_list
        PROVE  conn_list[i] \in Idle' \cup {Head(conn_list)}
    <3>1. CASE i = 1
      BY <3>1, <1>2
    <3>2. CASE i # 1
      <4>1. i - 1 \in DOMAIN conn_list' /\ conn_list'[i - 1] = conn_list[i]
        BY <3>2, <1>1, <1>2
      <4> QED
        BY <4>1 DEF Idle
    <3> QED
      BY <3>1, <3>2
  <2>2. ASSUME NEW i \in DOMAIN conn_list'
        PROVE  conn_list'[i] \in Idle
    BY <1>1, <1>2 DEF Idle
  <2>3. Head(conn_list) \in Idle
    BY <1>1, <1>2 DEF Idle
  <2> QED
    BY <2>1, <2>2, <2>3 DEF Idle
<1>5. \A i, j \in DOMAIN conn_list' : conn_list'[i] = conn_list'[j] => i = j
  BY <1>1, <1>2
<1> QED
  BY <1>1, <1>2, <1>3, <1>4, <1>5

-----------------------------------------------------------------------------
\* init() keeps the invariant.
LEMMA StartInv ==
    ASSUME ConnInv,
           (\E c \in Conns : OpenConnection(c)) \/ OpenFails \/ InitDone \/ Exited
    PROVE  ConnInv'
<1>1. CASE \E c \in Conns : OpenConnection(c)
  <2> PICK c \in Conns : OpenConnection(c)
    BY <1>1
  <2>1. /\ conn_list' \in Seq(Conns)
        /\ Len(conn_list') = Len(conn_list) + 1
        /\ Idle' = Idle \cup {c}
        /\ \A i, j \in DOMAIN conn_list' : conn_list'[i] = conn_list'[j] => i = j
    BY AppendedIdle DEF ConnInv, LeaseExclusive, OpenConnection
  <2>2. At("query")' = At("query")
    BY DEF OpenConnection, At
  <2>3. TypeOK'
    BY <2>1 DEF ConnInv, TypeOK, OpenConnection
  <2>4. LeaseExclusive'
    <3>1. \A t \in Threads : lease[t] = NoConn
      BY DEF ConnInv, NobodyBeforeReady, LeaseIsQuery, OpenConnection
    <3> QED
      BY <2>1, <3>1 DEF LeaseExclusive, OpenConnection
  <2>5. CountersExact'
    BY <2>1, <2>2 DEF ConnInv, CountersExact, OpenConnection
  <2>6. NobodyBeforeReady' /\ LeaseIsQuery' /\ PermitsMatchList' /\ EachIsSomewhere'
    BY DEF ConnInv, NobodyBeforeReady, LeaseIsQuery, PermitsMatchList, EachIsSomewhere,
           OpenConnection
  <2> QED
    BY <2>3, <2>4, <2>5, <2>6 DEF ConnInv
<1>2. CASE OpenFails
  BY <1>2 DEF OpenFails, ConnInv, TypeOK, NobodyBeforeReady, CountersExact, LeaseIsQuery,
              LeaseExclusive, Idle, PermitsMatchList, EachIsSomewhere, At
<1>3. CASE InitDone
  <2>1. Idle' = Idle /\ Idle = Conns
    BY <1>3, FullList DEF InitDone, ConnInv, Idle
  <2>2. At("query") = {} /\ At("query")' = {} /\ InBetween' = {}
    BY <1>3 DEF InitDone, ConnInv, NobodyBeforeReady, At, InBetween
  <2>3. Cardinality(At("query")') = 0 /\ Cardinality(InBetween') = 0
    BY <2>2, FS_EmptySet
  <2>4. TypeOK' /\ NobodyBeforeReady' /\ LeaseIsQuery'
    BY <1>3 DEF InitDone, ConnInv, TypeOK, NobodyBeforeReady, LeaseIsQuery
  <2>5. LeaseExclusive'
    BY <1>3, <2>1 DEF InitDone, ConnInv, LeaseExclusive
  <2>6. CountersExact'
    BY <1>3, <2>2 DEF InitDone, ConnInv, CountersExact
  <2>7. PermitsMatchList'
    BY <1>3, <2>3 DEF InitDone, ConnInv, TypeOK, CountersExact, PermitsMatchList
  <2>8. EachIsSomewhere'
    BY <1>3, <2>1, <2>3 DEF InitDone, ConnInv, TypeOK, EachIsSomewhere
  <2> QED
    BY <2>4, <2>5, <2>6, <2>7, <2>8 DEF ConnInv
<1>4. CASE Exited
  BY <1>4 DEF Exited, vars, ConnInv, TypeOK, NobodyBeforeReady, CountersExact, LeaseIsQuery,
              LeaseExclusive, Idle, PermitsMatchList, EachIsSomewhere, At, InBetween
<1> QED
  BY <1>1, <1>2, <1>3, <1>4

\* The semaphore operations and the start of a call move no connection.
LEMMA PermitInv ==
    ASSUME ConnInv, NEW t \in Threads, Call(t) \/ Acquire(t) \/ Release(t)
    PROVE  ConnInv'
<1>1. phase = "ready" /\ phase' = "ready"
  BY DEF Call, Acquire, Release, ConnInv, NobodyBeforeReady
<1>2. \E label \in {"acquire", "lock", "idle"} : Goto(t, label) /\ t \notin At("query")
  BY DEF Call, Acquire, Release, At
<1>3. At("query")' = At("query")
  BY <1>2, AtMoves DEF ConnInv, PcStates
<1>4. conn_list' = conn_list /\ lease' = lease /\ free_conn' = free_conn /\ cur_conn' = cur_conn
  BY DEF Call, Acquire, Release
<1>5. Idle' = Idle
  BY <1>4 DEF Idle
<1>6. TypeOK'
  BY <1>1 DEF Call, Acquire, Release, Goto, ConnInv, TypeOK, PcStates
<1>7. NobodyBeforeReady' /\ CountersExact' /\ LeaseExclusive' /\ EachIsSomewhere'
  BY <1>1, <1>3, <1>4, <1>5 DEF ConnInv, NobodyBeforeReady, CountersExact, LeaseExclusive,
                                EachIsSomewhere
<1>8. LeaseIsQuery'
  <2>1. \A u \in Threads : pc'[u] = "query" <=> pc[u] = "query"
    BY <1>3 DEF At
  <2> QED
    BY <2>1, <1>4 DEF ConnInv, LeaseIsQuery
<1>9. PermitsMatchList'
  <2>1. CASE Call(t)
    <3>1. Goto(t, "acquire") /\ t \notin InBetween
      BY <2>1 DEF Call, InBetween, At
    <3>2. InBetween' = InBetween
      BY <3>1, AtMoves DEF ConnInv, PcStates, InBetween
    <3> QED
      BY <2>1, <3>2 DEF Call, ConnInv, PermitsMatchList
  <2>2. CASE Acquire(t)
    <3>1. Goto(t, "lock") /\ t \notin InBetween
      BY <2>2 DEF Acquire, InBetween, At
    <3>2. InBetween' = InBetween \cup {t}
      BY <3>1, AtMoves DEF ConnInv, PcStates, InBetween
    <3>3. Cardinality(InBetween') = Cardinality(InBetween) + 1
      BY <3>1, <3>2, AtFinite, FS_AddElement
    <3> QED
      BY <1>1, <2>2, <3>3, AtFinite DEF Acquire, ConnInv, TypeOK, PermitsMatchList
  <2>3. CASE Release(t)
    <3>1. Goto(t, "idle") /\ t \in InBetween
      BY <2>3 DEF Release, InBetween, At
    <3>2. InBetween' = InBetween \ {t}
      BY <3>1, AtMoves DEF ConnInv, PcStates, InBetween
    <3>3. Cardinality(InBetween') = Cardinality(InBetween) - 1
      BY <3>1, <3>2, AtFinite, FS_RemoveElement
    <3> QED
      BY <1>1, <2>3, <3>3, AtFinite DEF Release, ConnInv, TypeOK, PermitsMatchList
  <2> QED
    BY <2>1, <2>2, <2>3
<1> QED
  BY <1>6, <1>7, <1>8, <1>9 DEF ConnInv

\* get_connection() never finds the list empty: a thread at the mutex has a
\* permit, and the permits count the idle connections.
LEMMA LockFindsConnection ==
    ASSUME ConnInv, NEW t \in At("lock")
    PROVE  conn_list # <<>> /\ phase = "ready"
<1>1. t \in Threads /\ pc[t] = "lock"
  BY DEF At
<1>2. phase = "ready"
  BY <1>1 DEF ConnInv, NobodyBeforeReady
<1>3. Cardinality(InBetween) # 0
  BY AtFinite, FS_EmptySet DEF InBetween
<1>4. Len(conn_list) # 0
  BY <1>2, <1>3, AtFinite DEF ConnInv, TypeOK, PermitsMatchList
<1> QED
  BY <1>2, <1>4

\* The critical section of get_connection() keeps the invariant.
LEMMA TakeInv ==
    ASSUME ConnInv, NEW t \in Threads, Take(t)
    PROVE  ConnInv'
<1> DEFINE c == Head(conn_list)
<1>1. t \in At("lock") /\ t \notin At("query") /\ t \in InBetween
  BY DEF Take, At, InBetween
<1>2. conn_list # <<>> /\ phase = "ready"
  BY <1>1, LockFindsConnection
<1>3. /\ lease' = [lease EXCEPT ![t] = c]
      /\ conn_list' = Tail(conn_list)
      /\ free_conn' = free_conn - 1
      /\ cur_conn' = cur_conn + 1
      /\ Goto(t, "query")
      /\ reserve' = reserve /\ phase' = phase
  BY <1>2 DEF Take
<1>4. /\ conn_list' \in Seq(Conns)
      /\ Len(conn_list') = Len(conn_list) - 1
      /\ c \in Conns
      /\ c \notin Idle'
      /\ Idle = Idle' \cup {c}
      /\ \A i, j \in DOMAIN conn_list' : conn_list'[i] = conn_list'[j] => i = j
  BY <1>2, <1>3, TakenIdle DEF ConnInv, LeaseExclusive
<1>5. At("query")' = At("query") \cup {t} /\ InBetween' = InBetween \ {t}
  BY <1>1, <1>3, AtMoves DEF ConnInv, PcStates, InBetween
<1>6. /\ Cardinality(At("query")') = Cardinality(At("query")) + 1
      /\ Cardinality(InBetween') = Cardinality(InBetween) - 1
  <2>1. Cardinality(At("query") \cup {t}) = Cardinality(At("query")) + 1
    BY <1>1, AtFinite, FS_AddElement
  <2>2. Cardinality(InBetween \ {t}) = Cardinality(InBetween) - 1
    BY <1>1, AtFinite, FS_RemoveElement
  <2> QED
    BY <1>5, <2>1, <2>2
<1>7. Len(conn_list) \in Nat /\ Len(conn_list) > 0
  BY <1>2 DEF ConnInv, TypeOK
<1>8. \A u \in Threads : lease'[u] = IF u = t THEN c ELSE lease[u]
  BY <1>3 DEF ConnInv, TypeOK
<1>9. \A u \in Threads : pc'[u] = IF u = t THEN "query" ELSE pc[u]
  BY <1>3 DEF ConnInv, TypeOK, Goto
<1> HIDE DEF c
<1>10. TypeOK'
  BY <1>3, <1>4, <1>7 DEF ConnInv, TypeOK, CountersExact, Goto, PcStates
<1>11. NobodyBeforeReady'
  BY <1>2, <1>3 DEF NobodyBeforeReady
<1>12. CountersExact'
  BY <1>3, <1>4, <1>6 DEF ConnInv, CountersExact
<1>13. LeaseIsQuery'
  BY <1>4, <1>8, <1>9, ConnectionAssumption DEF ConnInv, LeaseIsQuery
<1>14. LeaseExclusive'
  BY <1>4, <1>8, ConnectionAssumption DEF ConnInv, LeaseExclusive
<1>15. PermitsMatchList'
  <2>1. Len(conn_list) = reserve + Cardinality(InBetween) /\ reserve \in Nat
    BY <1>2 DEF ConnInv, TypeOK, PermitsMatchList
  <2>2. Len(conn_list') = reserve' + Cardinality(InBetween')
    BY <2>1, <1>3, <1>4, <1>6, <1>7, AtFinite
  <2> QED
    BY <2>2 DEF PermitsMatchList
<1>16. EachIsSomewhere'
  <2>1. Len(conn_list') + Cardinality(At("query")') = Cardinality(Conns)
    BY <1>2, <1>4, <1>6, <1>7, AtFinite DEF ConnInv, EachIsSomewhere
  <2>2. \A d \in Conns : d \in Idle' \/ \E u \in At("query")' : lease'[u] = d
    <3> TAKE d \in Conns
    <3>1. CASE d \in Idle
      BY <3>1, <1>4, <1>5, <1>8
    <3>2. CASE \E u \in At("query") : lease[u] = d
      <4> PICK u \in At("query") : lease[u] = d
        BY <3>2
      <4>1. u \in Threads /\ u # t /\ u \in At("query")'
        BY <1>1, <1>5 DEF At
      <4> QED
        BY <4>1, <1>8
    <3> QED
      BY <1>2, <3>1, <3>2 DEF ConnInv, EachIsSomewhere
  <2> QED
    BY <2>1, <2>2 DEF EachIsSomewhere
<1> QED
  BY <1>10, <1>11, <1>12, <1>13, <1>14, <1>15, <1>16 DEF ConnInv

\* The critical section of release_connection() keeps the invariant.
LEMMA PutBackInv ==
    ASSUME ConnInv, NEW t \in Threads, PutBack(t)
    PROVE  ConnInv'
<1> DEFINE c == lease[t]
<1>1. t \in At("query") /\ t \notin InBetween
  BY DEF PutBack, At, InBetween
<1>2. phase = "ready"
  BY DEF PutBack, ConnInv, NobodyBeforeReady
<1>3. c \in Conns /\ c # NoConn /\ c \notin Idle
  BY DEF PutBack, ConnInv, TypeOK, LeaseIsQuery, LeaseExclusive
<1>4. /\ conn_list' \in Seq(Conns)
      /\ Len(conn_list') = Len(conn_list) + 1
      /\ Idle' = Idle \cup {c}
      /\ \A i, j \in DOMAIN conn_list' : conn_list'[i] = conn_list'[j] => i = j
  BY <1>3, AppendedIdle DEF PutBack, ConnInv, LeaseExclusive
<1>5. /\ free_conn' = free_conn + 1
      /\ cur_conn' = cur_conn - 1
      /\ lease' = [lease EXCEPT ![t] = NoConn]
      /\ Goto(t, "release")
      /\ reserve' = reserve /\ phase' = phase
  BY DEF PutBack
<1>6. At("query")' = At("query") \ {t} /\ InBetween' = InBetween \cup {t}
  BY <1>1, <1>5, AtMoves DEF ConnInv, PcStates, InBetween
<1>7. /\ Cardinality(At("query")') = Cardinality(At("query")) - 1
      /\ Cardinality(InBetween') = Cardinality(InBetween) + 1
  BY <1>1, <1>6, AtFinite, FS_AddElement, FS_RemoveElement
<1>8. Cardinality(At("query")) > 0
  BY <1>1, AtFinite, FS_EmptySet
<1>9. Len(conn_list) \in Nat
  BY DEF ConnInv, TypeOK
<1>10. \A u \in Threads : lease'[u] = IF u = t THEN NoConn ELSE lease[u]
  BY <1>5 DEF ConnInv, TypeOK
<1>11. \A u \in Threads : pc'[u] = IF u = t THEN "release" ELSE pc[u]
  BY <1>5 DEF ConnInv, TypeOK, Goto
<1>12. TypeOK'
  BY <1>4, <1>5, <1>8, AtFinite DEF ConnInv, TypeOK, CountersExact, Goto, PcStates
<1>13. NobodyBeforeReady'
  BY <1>2, <1>5 DEF NobodyBeforeReady
<1>14. CountersExact'
  BY <1>4, <1>5, <1>7 DEF ConnInv, CountersExact
<1>15. LeaseIsQuery'
  BY <1>10, <1>11 DEF ConnInv, LeaseIsQuery
<1>16. LeaseExclusive'
  BY <1>3, <1>4, <1>10 DEF ConnInv, LeaseExclusive
<1>17. PermitsMatchList'
  BY <1>4, <1>5, <1>7, <1>9, AtFinite DEF ConnInv, TypeOK, PermitsMatchList
<1>18. EachIsSomewhere'
  <2>1. Len(conn_list') + Cardinality(At("query")') = Cardinality(Conns)
    BY <1>2, <1>4, <1>7, <1>9, AtFinite DEF ConnInv, EachIsSomewhere
  <2>2. \A d \in Conns : d \in Idle' \/ \E u \in At("query")' : lease'[u] = d
    <3> TAKE d \in Conns
    <3>1. CASE d \in Idle
      BY <3>1, <1>4
    <3>2. CASE \E u \in At("query") : lease[u] = d
      <4> PICK u \in At("query") : lease[u] = d
        BY <3>2
      <4>1. CASE u = t
        BY <4>1, <1>4
      <4>2. CASE u # t
        BY <4>2, <1>6, <1>10 DEF At
      <4> QED
        BY <4>1, <4>2
    <3> QED
      BY <1>2, <3>1, <3>2 DEF ConnInv, EachIsSomewhere
  <2> QED
    BY <2>1, <2>2 DEF EachIsSomewhere
<1> QED
  BY <1>12, <1>13, <1>14, <1>15, <1>16, <1>17, <1>18 DEF ConnInv

-----------------------------------------------------------------------------
\* Every reachable state of the pool satisfies the inductive invariant.
THEOREM ConnInvariant == SafetySpec => []ConnInv
<1>1. ConnInv /\ [Next]_vars => ConnInv'
  <2> SUFFICES ASSUME ConnInv, [Next]_vars PROVE ConnInv'
    OBVIOUS
  <2>1. CASE (\E c \in Conns : OpenConnection(c)) \/ OpenFails \/ InitDone \/ Exited
    BY <2>1, StartInv
  <2>2. CASE \E t \in Threads : Call(t) \/ Lease(t)
    BY <2>2, PermitInv, TakeInv, PutBackInv DEF Lease
  <2>3. CASE UNCHANGED vars
    BY <2>3 DEF vars, ConnInv, TypeOK, NobodyBeforeReady, CountersExact, LeaseIsQuery,
                LeaseExclusive, Idle, PermitsMatchList, EachIsSomewhere, At, InBetween
  <2> QED
    BY <2>1, <2>2, <2>3 DEF Next
<1> QED
  BY InitInv, <1>1, PTL DEF SafetySpec

\* No PGconn is ever with two threads, or leased and idle at once.
THEOREM LeasesAreExclusive == SafetySpec => []LeaseExclusive
<1>1. ConnInv => LeaseExclusive
  BY DEF ConnInv
<1> QED
  BY <1>1, ConnInvariant, PTL

\* Whichever way its query ends, a DAO call loses no connection, and free_conn
\* and cur_conn stay right.
THEOREM NoneIsLost == SafetySpec => []NoConnectionLost
<1>1. ConnInv => NoConnectionLost
  <2> SUFFICES ASSUME ConnInv PROVE NoConnectionLost
    OBVIOUS
  <2>1. ASSUME phase = "ready"
        PROVE  Idle \cup {lease[t] : t \in At("query")} = Conns
    <3>1. Idle \subseteq Conns
      BY DEF ConnInv, TypeOK, Idle
    <3>2. \A t \in At("query") : lease[t] \in Conns
      BY DEF ConnInv, TypeOK, LeaseIsQuery, At
    <3>3. \A c \in Conns : c \in Idle \/ \E t \in At("query") : lease[t] = c
      BY <2>1 DEF ConnInv, EachIsSomewhere
    <3> QED
      BY <3>1, <3>2, <3>3
  <2> QED
    BY <2>1 DEF ConnInv, NoConnectionLost, CountersExact
<1> QED
  BY <1>1, ConnInvariant, PTL

\* A thread past the semaphore never gets NULL from get_connection(), although
\* semaphore and list are changed at different moments.
THEOREM PermitAlwaysFinds == SafetySpec => []PermitFindsConnection
<1>1. ConnInv => PermitFindsConnection
  BY LockFindsConnection DEF PermitFindsConnection
<1> QED
  BY <1>1, ConnInvariant, PTL

\* While no more threads are inside a DAO call than there are connections,
\* acquire() never blocks; with as many connections as threads, never at all.
THEOREM AcquireIsFree == SafetySpec => []AcquireNeverBlocks
<1>1. ConnInv => AcquireNeverBlocks
  <2> SUFFICES ASSUME ConnInv,
                      Cardinality(Threads \ At("idle")) <= Cardinality(Conns),
                      NEW t \in At("acquire")
               PROVE  reserve > 0
    BY DEF AcquireNeverBlocks
  <2>1. phase = "ready"
    BY DEF ConnInv, NobodyBeforeReady, At
  <2> DEFINE Busy == At("query") \cup InBetween
  <2>2. At("query") \cap InBetween = {} /\ t \notin Busy /\ Busy \cup {t} \subseteq Threads \ At("idle")
    BY DEF InBetween, At
  <2>3. IsFiniteSet(Busy) /\ Cardinality(Busy) = Cardinality(At("query")) + Cardinality(InBetween)
    <3>1. /\ IsFiniteSet(Busy)
          /\ Cardinality(Busy) = Cardinality(At("query")) + Cardinality(InBetween)
                                - Cardinality(At("query") \cap InBetween)
      BY AtFinite, FS_Union
    <3>2. Cardinality(At("query") \cap InBetween) = 0
      BY <2>2, FS_EmptySet
    <3> QED
      BY <3>1, <3>2, AtFinite
  <2>4. Cardinality(Busy \cup {t}) = Cardinality(Busy) + 1
    BY <2>2, <2>3, FS_AddElement
  <2>5. /\ Cardinality(Busy \cup {t}) <= Cardinality(Threads \ At("idle"))
        /\ Cardinality(Threads \ At("idle")) \in Nat
    BY <2>2, FS_Subset, FS_CardinalityType, ConnectionAssumption
  <2> QED
    BY <2>1, <2>3, <2>4, <2>5, AtFinite
    DEF ConnInv, TypeOK, PermitsMatchList, EachIsSomewhere
<1> QED
  BY <1>1, ConnInvariant, PTL

-----------------------------------------------------------------------------
(* The Redis pool: its invariant *)

\* The threads that owe the pool a context: they hold one, or are replacing it.
Outside == Holding \cup RedisAt("replace") \cup RedisAt("giveup")

\* The threads a sleeper may count on to be woken, or to be passed by.
Wakers == RedisAt("notify") \cup RedisAt("get")

\* While init() runs nobody calls, and the pool is not announced.
NobodyBeforeDone ==
    redisPhase = "init" => ~available_ /\ \A t \in RedisThreads : redisPc[t] = "out"

\* Exactly the threads with a command or a release under way have a context.
ContextIsHeld == \A t \in RedisThreads : context[t] # NoContext <=> t \in Holding

\* A context is in one place of the pool, or with one thread.
ContextExclusive ==
    /\ \A i, j \in DOMAIN conn_pool_ : conn_pool_[i] = conn_pool_[j] => i = j
    /\ \A t \in Holding :
          /\ context[t] \notin Pooled
          /\ \A u \in Holding : context[u] = context[t] => u = t

\* The open contexts are those in the pool and those with a thread.
OpenedIsSomewhere ==
    \A c : c \in opened <=> c \in Pooled \/ \E t \in Holding : context[t] = c

\* The pool keeps its size while it is available, and is empty when it is not.
SizeKept ==
    redisPhase = "done" =>
        IF available_
        THEN Len(conn_pool_) + Cardinality(Outside) = RedisPoolSize
        ELSE conn_pool_ = <<>>

\* The inductive invariant.
RedisInv ==
    /\ RedisTypeOK
    /\ NobodyBeforeDone
    /\ ContextIsHeld
    /\ ContextExclusive
    /\ OpenedIsSomewhere
    /\ SizeKept
    /\ NoLostWakeup

-----------------------------------------------------------------------------
(* The sets and the list the invariant counts *)

\* The sets of threads are finite.
LEMMA RedisFinite ==
    /\ IsFiniteSet(Holding) /\ Cardinality(Holding) \in Nat
    /\ IsFiniteSet(Outside) /\ Cardinality(Outside) \in Nat
    /\ IsFiniteSet(Wakers) /\ Cardinality(Wakers) \in Nat
<1>1. Holding \subseteq RedisThreads /\ Outside \subseteq RedisThreads /\ Wakers \subseteq RedisThreads
  BY DEF Holding, Outside, Wakers, RedisAt
<1> QED
  BY <1>1, RedisAssumption, FS_Subset, FS_CardinalityType

\* A thread that moves leaves one set and joins another.
LEMMA RedisAtMoves ==
    ASSUME RedisTypeOK, NEW t \in RedisThreads, NEW label \in RedisStates, RedisGoto(t, label)
    PROVE  /\ redisPc' \in [RedisThreads -> RedisStates]
           /\ \A l : RedisAt(l)' = IF l = label THEN RedisAt(l) \cup {t} ELSE RedisAt(l) \ {t}
<1>1. \A u \in RedisThreads : redisPc'[u] = IF u = t THEN label ELSE redisPc[u]
  BY DEF RedisTypeOK, RedisGoto
<1>2. redisPc' \in [RedisThreads -> RedisStates]
  BY DEF RedisTypeOK, RedisGoto
<1> QED
  BY <1>1, <1>2 DEF RedisAt

\* A context at the end of the pool leaves the others where they are.
LEMMA AppendedPool ==
    ASSUME RedisTypeOK, NEW c \in Contexts, conn_pool_' = Append(conn_pool_, c)
    PROVE  /\ conn_pool_' \in Seq(Contexts)
           /\ Len(conn_pool_) \in Nat /\ Len(conn_pool_') = Len(conn_pool_) + 1
           /\ Pooled' = Pooled \cup {c}
           /\ c \notin Pooled
              /\ (\A i, j \in DOMAIN conn_pool_ : conn_pool_[i] = conn_pool_[j] => i = j)
              => \A i, j \in DOMAIN conn_pool_' : conn_pool_'[i] = conn_pool_'[j] => i = j
<1>1. /\ conn_pool_' \in Seq(Contexts)
      /\ Len(conn_pool_') = Len(conn_pool_) + 1
      /\ DOMAIN conn_pool_' = 1..(Len(conn_pool_) + 1)
      /\ DOMAIN conn_pool_ = 1..Len(conn_pool_)
      /\ Len(conn_pool_) \in Nat
  BY DEF RedisTypeOK
<1>2. /\ \A i \in 1..Len(conn_pool_) : conn_pool_'[i] = conn_pool_[i]
      /\ conn_pool_'[Len(conn_pool_) + 1] = c
  BY DEF RedisTypeOK
<1>3. Pooled' = Pooled \cup {c}
  BY <1>1, <1>2 DEF Pooled
<1>4. ASSUME c \notin Pooled,
             \A i, j \in DOMAIN conn_pool_ : conn_pool_[i] = conn_pool_[j] => i = j
      PROVE  \A i, j \in DOMAIN conn_pool_' : conn_pool_'[i] = conn_pool_'[j] => i = j
  BY <1>1, <1>2, <1>4 DEF Pooled
<1> QED
  BY <1>1, <1>3, <1>4

\* Taking the first context of the pool leaves exactly the others.
LEMMA TakenPool ==
    ASSUME RedisTypeOK, conn_pool_ # <<>>, conn_pool_' = Tail(conn_pool_),
           \A i, j \in DOMAIN conn_pool_ : conn_pool_[i] = conn_pool_[j] => i = j
    PROVE  /\ conn_pool_' \in Seq(Contexts)
           /\ Len(conn_pool_) \in Nat /\ Len(conn_pool_') = Len(conn_pool_) - 1
           /\ Head(conn_pool_) \in Contexts
           /\ Head(conn_pool_) \notin Pooled'
           /\ Pooled = Pooled' \cup {Head(conn_pool_)}
           /\ \A i, j \in DOMAIN conn_pool_' : conn_pool_'[i] = conn_pool_'[j] => i = j
<1>1. /\ conn_pool_' \in Seq(Contexts)
      /\ Len(conn_pool_) \in Nat /\ Len(conn_pool_) > 0
      /\ Len(conn_pool_') = Len(conn_pool_) - 1
      /\ DOMAIN conn_pool_' = 1..(Len(conn_pool_) - 1)
      /\ DOMAIN conn_pool_ = 1..Len(conn_pool_)
  BY DEF RedisTypeOK
<1>2. /\ \A i \in 1..(Len(conn_pool_) - 1) : conn_pool_'[i] = conn_pool_[i + 1]
      /\ Head(conn_pool_) = conn_pool_[1]
      /\ Head(conn_pool_) \in Contexts
  BY <1>1 DEF RedisTypeOK
<1>3. Head(conn_pool_) \notin Pooled'
  BY <1>1, <1>2 DEF Pooled
<1>4. Pooled = Pooled' \cup {Head(conn_pool_)}
  <2>1. ASSUME NEW i \in DOMAIN conn_pool_, i # 1
        PROVE  conn_pool_[i] \in Pooled'
    <3>1. i - 1 \in DOMAIN conn_pool_' /\ conn_pool_'[i - 1] = conn_pool_[i]
      BY <2>1, <1>1, <1>2
    <3> QED
      BY <3>1 DEF Pooled
  <2>2. ASSUME NEW i \in DOMAIN conn_pool_'
        PROVE  conn_pool_'[i] \in Pooled
    BY <1>1, <1>2 DEF Pooled
  <2>3. Head(conn_pool_) \in Pooled
    BY <1>1, <1>2 DEF Pooled
  <2> QED
    BY <1>2, <2>1, <2>2, <2>3 DEF Pooled
<1>5. \A i, j \in DOMAIN conn_pool_' : conn_pool_'[i] = conn_pool_'[j] => i = j
  BY <1>1, <1>2
<1> QED
  BY <1>1, <1>2, <1>3, <1>4, <1>5

\* A thread that is inside the client finds init() done.
LEMMA InsideIsDone ==
    ASSUME RedisInv, NEW t \in RedisThreads, redisPc[t] # "out"
    PROVE  redisPhase = "done"
BY DEF RedisInv, RedisTypeOK, NobodyBeforeDone

\* The contexts do not move when their holders stay the same.
LEMMA ContextsStay ==
    ASSUME RedisInv, UNCHANGED <<conn_pool_, available_, opened, redisPhase, context>>,
           Holding' = Holding, Outside' = Outside
    PROVE  ContextIsHeld' /\ ContextExclusive' /\ OpenedIsSomewhere' /\ SizeKept'
<1>1. Pooled' = Pooled
  BY DEF Pooled
<1> QED
  BY <1>1 DEF RedisInv, ContextIsHeld, ContextExclusive, OpenedIsSomewhere, SizeKept

-----------------------------------------------------------------------------
(* Every step keeps the invariant *)

\* The invariant holds before init().
LEMMA RedisInitInv == RedisInit => RedisInv
<1> SUFFICES ASSUME RedisInit PROVE RedisInv
  OBVIOUS
<1>1. Holding = {} /\ Pooled = {} /\ RedisAt("asleep") = {}
  BY DEF RedisInit, Holding, RedisAt, Pooled
<1>2. RedisTypeOK
  <2>1. available_ \in BOOLEAN
    BY Zenon DEF RedisInit
  <2>2. /\ conn_pool_ \in Seq(Contexts)
        /\ opened \in SUBSET Contexts
        /\ redisPhase \in {"init", "done"}
        /\ redisPc \in [RedisThreads -> RedisStates]
        /\ context \in [RedisThreads -> Contexts \cup {NoContext}]
    BY DEF RedisInit, RedisStates
  <2> QED
    BY <2>1, <2>2, Zenon DEF RedisTypeOK
<1>3. NobodyBeforeDone /\ ContextIsHeld
  BY <1>1 DEF RedisInit, NobodyBeforeDone, ContextIsHeld
<1>4. ContextExclusive
  BY <1>1 DEF RedisInit, ContextExclusive
<1>5. OpenedIsSomewhere /\ SizeKept /\ NoLostWakeup
  BY <1>1 DEF RedisInit, OpenedIsSomewhere, SizeKept, NoLostWakeup
<1> QED
  BY <1>2, <1>3, <1>4, <1>5 DEF RedisInv

\* init() keeps the invariant, whether or not it gets all its connections.
LEMMA RedisStartInv ==
    ASSUME RedisInv, RedisStart
    PROVE  RedisInv'
<1>1. /\ redisPhase = "init" /\ ~available_ /\ UNCHANGED <<redisPc, context>>
      /\ \A t \in RedisThreads : redisPc[t] = "out"
  BY DEF RedisStart, RedisOpen, RedisOpenFails, RedisReady, RedisInv, NobodyBeforeDone
<1>2. /\ Holding = {} /\ Holding' = {} /\ Outside' = {}
      /\ RedisAt("asleep")' = {}
  BY <1>1 DEF Holding, Outside, RedisAt
<1>3. NoLostWakeup' /\ ContextIsHeld'
  BY <1>1, <1>2 DEF NoLostWakeup, RedisInv, ContextIsHeld
<1>4. \A c : c \in opened <=> c \in Pooled
  BY <1>2 DEF RedisInv, OpenedIsSomewhere
<1>5. ASSUME NEW c \in Contexts, RedisOpen(c)
      PROVE  RedisInv'
  <2>1. /\ conn_pool_' = Append(conn_pool_, c) /\ opened' = opened \cup {c}
        /\ UNCHANGED <<available_, redisPhase>> /\ c \notin Pooled
    BY <1>4, <1>5 DEF RedisOpen
  <2>2. /\ conn_pool_' \in Seq(Contexts)
        /\ Pooled' = Pooled \cup {c}
        /\ \A i, j \in DOMAIN conn_pool_' : conn_pool_'[i] = conn_pool_'[j] => i = j
    BY <2>1, AppendedPool DEF RedisInv, ContextExclusive
  <2>3. RedisTypeOK' /\ NobodyBeforeDone'
    BY <1>1, <2>1, <2>2 DEF RedisInv, RedisTypeOK, NobodyBeforeDone
  <2>4. ContextExclusive' /\ OpenedIsSomewhere' /\ SizeKept'
    BY <1>1, <1>2, <1>4, <2>1, <2>2 DEF ContextExclusive, OpenedIsSomewhere, SizeKept
  <2> QED
    BY <1>3, <2>3, <2>4 DEF RedisInv
<1>6. CASE RedisOpenFails
  <2>1. /\ conn_pool_' = <<>> /\ opened' = opened \ Pooled /\ redisPhase' = "done"
        /\ UNCHANGED available_
    BY <1>6 DEF RedisOpenFails
  <2>2. Pooled' = {}
    BY <2>1 DEF Pooled
  <2>3. RedisTypeOK' /\ NobodyBeforeDone'
    BY <1>1, <2>1 DEF RedisInv, RedisTypeOK, NobodyBeforeDone
  <2>4. ContextExclusive'
    BY <1>2, <2>1 DEF ContextExclusive
  <2>5. OpenedIsSomewhere' /\ SizeKept'
    BY <1>1, <1>2, <1>4, <2>1, <2>2 DEF OpenedIsSomewhere, SizeKept
  <2> QED
    BY <1>3, <2>3, <2>4, <2>5 DEF RedisInv
<1>7. CASE RedisReady
  <2>1. /\ Len(conn_pool_) = RedisPoolSize /\ available_' = TRUE /\ redisPhase' = "done"
        /\ UNCHANGED <<conn_pool_, opened>>
    BY <1>7 DEF RedisReady
  <2>2. Pooled' = Pooled
    BY <2>1 DEF Pooled
  <2>3. available_' \in BOOLEAN
    BY <2>1, Zenon
  <2>4. RedisTypeOK' /\ NobodyBeforeDone'
    BY <1>1, <2>1, <2>3 DEF RedisInv, RedisTypeOK, NobodyBeforeDone
  <2>5. ContextExclusive' /\ OpenedIsSomewhere'
    BY <1>2, <1>4, <2>1, <2>2 DEF RedisInv, ContextExclusive, OpenedIsSomewhere
  <2>6. SizeKept'
    <3>1. Cardinality(Outside') = 0
      BY <1>2, FS_EmptySet
    <3> QED
      BY <2>1, <3>1, RedisAssumption DEF SizeKept
  <2> QED
    BY <1>3, <2>4, <2>5, <2>6 DEF RedisInv
<1> QED
  BY <1>5, <1>6, <1>7 DEF RedisStart

\* The steps that move a thread and no context: a call, a wake-up, an answer, a
\* failed replacement.
LEMMA RedisMoveInv ==
    ASSUME RedisInv, NEW t \in RedisThreads,
           \/ RedisCall(t) \/ RedisSpuriousWake(t)
           \/ RedisReply(t) \/ RedisReplaceFails(t)
    PROVE  RedisInv'
<1>1. UNCHANGED <<conn_pool_, available_, opened, redisPhase, context>> /\ redisPhase = "done"
  BY InsideIsDone DEF RedisCall, RedisSpuriousWake, RedisReply, RedisReplaceFails
<1>2. PICK label \in RedisStates :
         /\ RedisGoto(t, label)
         /\ \/ redisPc[t] \in {"out", "asleep"} /\ label = "get"
            \/ redisPc[t] = "command" /\ label = "put"
            \/ redisPc[t] = "replace" /\ label = "giveup"
  BY DEF RedisCall, RedisSpuriousWake, RedisReply, RedisReplaceFails, RedisStates
<1>3. /\ redisPc' \in [RedisThreads -> RedisStates]
      /\ \A l : RedisAt(l)' = IF l = label THEN RedisAt(l) \cup {t} ELSE RedisAt(l) \ {t}
  BY <1>2, RedisAtMoves DEF RedisInv
<1>4. Holding' = Holding /\ Outside' = Outside
  BY <1>2, <1>3 DEF Holding, Outside, RedisAt
<1>5. ContextIsHeld' /\ ContextExclusive' /\ OpenedIsSomewhere' /\ SizeKept'
  BY <1>1, <1>4, ContextsStay
<1>6. RedisTypeOK' /\ NobodyBeforeDone'
  BY <1>1, <1>3 DEF RedisInv, RedisTypeOK, NobodyBeforeDone
<1>7. NoLostWakeup'
  <2>1. /\ RedisAt("asleep")' \subseteq RedisAt("asleep")
        /\ RedisAt("notifyAll")' = RedisAt("notifyAll")
        /\ Wakers \subseteq Wakers' /\ Wakers' \subseteq RedisThreads
    BY <1>2, <1>3 DEF RedisAt, Wakers
  <2>2. IsFiniteSet(Wakers') /\ Cardinality(Wakers) <= Cardinality(Wakers')
    BY <2>1, RedisAssumption, FS_Subset
  <2>3. Cardinality(Wakers') \in Nat
    BY <2>2, FS_CardinalityType
  <2> QED
    BY <1>1, <2>1, <2>2, <2>3, RedisFinite DEF RedisInv, RedisTypeOK, NoLostWakeup, Wakers
<1> QED
  BY <1>5, <1>6, <1>7 DEF RedisInv

\* The critical section of get_connection(): without the pool, asleep, or with a
\* context.
LEMMA RedisLeaseInv ==
    ASSUME RedisInv, NEW t \in RedisThreads, RedisLease(t)
    PROVE  RedisInv'
<1>1. redisPc[t] = "get" /\ redisPhase = "done" /\ UNCHANGED <<available_, opened, redisPhase>>
  BY InsideIsDone DEF RedisLease
<1>2. t \in RedisAt("get") /\ t \in Wakers /\ t \notin Outside /\ t \notin Holding
  BY <1>1 DEF RedisAt, Wakers, Outside, Holding
<1>3. CASE /\ (~available_ /\ RedisGoto(t, "out")) \/ (conn_pool_ = <<>> /\ RedisGoto(t, "asleep"))
           /\ UNCHANGED <<conn_pool_, context>>
  <2>1. PICK label \in {"out", "asleep"} : RedisGoto(t, label) /\ (label = "asleep" => available_)
    BY <1>3 DEF RedisLease, RedisGoto, RedisInv, RedisTypeOK
  <2>2. label \in RedisStates
    BY DEF RedisStates
  <2>3. /\ redisPc' \in [RedisThreads -> RedisStates]
        /\ \A l : RedisAt(l)' = IF l = label THEN RedisAt(l) \cup {t} ELSE RedisAt(l) \ {t}
    BY <2>1, <2>2, RedisAtMoves DEF RedisInv
  <2>4. Holding' = Holding /\ Outside' = Outside /\ RedisAt("notifyAll")' = RedisAt("notifyAll")
    BY <1>2, <2>3 DEF Holding, Outside, RedisAt
  <2>5. ContextIsHeld' /\ ContextExclusive' /\ OpenedIsSomewhere' /\ SizeKept'
    BY <1>1, <1>3, <2>4, ContextsStay
  <2>6. RedisTypeOK' /\ NobodyBeforeDone'
    BY <1>1, <1>3, <2>3 DEF RedisInv, RedisTypeOK, NobodyBeforeDone
  <2>7. NoLostWakeup'
    <3>1. Len(conn_pool_') = 0
      BY <1>1, <1>3 DEF RedisInv, SizeKept
    <3>2. IsFiniteSet(Wakers') /\ Cardinality(Wakers') \in Nat
      <4>1. Wakers' \subseteq RedisThreads
        BY DEF Wakers, RedisAt
      <4> QED
        BY <4>1, RedisAssumption, FS_Subset, FS_CardinalityType
    <3>3. Len(conn_pool_') <= Cardinality(Wakers')
      BY <3>1, <3>2
    <3>4. ASSUME ~available_ PROVE RedisAt("asleep")' # {} => RedisAt("notifyAll")' # {}
      <4>1. label # "asleep"
        BY <2>1, <3>4
      <4>2. RedisAt("asleep")' \subseteq RedisAt("asleep")
        BY <2>3, <4>1
      <4> QED
        BY <2>4, <3>4, <4>2 DEF RedisInv, NoLostWakeup
    <3> QED
      BY <1>1, <3>3, <3>4 DEF NoLostWakeup, Wakers
  <2> QED
    BY <2>5, <2>6, <2>7 DEF RedisInv
<1>4. CASE /\ available_ /\ conn_pool_ # <<>>
           /\ context' = [context EXCEPT ![t] = Head(conn_pool_)]
           /\ conn_pool_' = Tail(conn_pool_)
           /\ RedisGoto(t, "command")
  <2> DEFINE c == Head(conn_pool_)
  <2>1. /\ redisPc' \in [RedisThreads -> RedisStates]
        /\ \A l : RedisAt(l)' = IF l = "command" THEN RedisAt(l) \cup {t} ELSE RedisAt(l) \ {t}
    BY <1>4, RedisAtMoves DEF RedisInv, RedisStates
  <2>2. /\ conn_pool_' \in Seq(Contexts)
        /\ Len(conn_pool_) \in Nat /\ Len(conn_pool_') = Len(conn_pool_) - 1
        /\ c \in Contexts /\ c \notin Pooled' /\ Pooled = Pooled' \cup {c}
        /\ \A i, j \in DOMAIN conn_pool_' : conn_pool_'[i] = conn_pool_'[j] => i = j
    BY <1>4, TakenPool DEF RedisInv, ContextExclusive
  <2>3. \A u \in RedisThreads : context'[u] = IF u = t THEN c ELSE context[u]
    BY <1>4 DEF RedisInv, RedisTypeOK
  <2> HIDE DEF c
  <2>4. RedisTypeOK' /\ NobodyBeforeDone'
    <3>1. context' \in [RedisThreads -> Contexts \cup {NoContext}]
      BY <1>4, <2>2 DEF RedisInv, RedisTypeOK, c
    <3> QED
      BY <1>1, <2>1, <2>2, <3>1 DEF RedisInv, RedisTypeOK, NobodyBeforeDone
  <2>5. Holding' = Holding \cup {t} /\ Outside' = Outside \cup {t} /\ Wakers' = Wakers \ {t}
    BY <1>2, <2>1 DEF Holding, Outside, Wakers, RedisAt
  <2>6. /\ Cardinality(Outside') = Cardinality(Outside) + 1
        /\ Cardinality(Wakers') = Cardinality(Wakers) - 1
    <3>1. Cardinality(Outside \cup {t}) = Cardinality(Outside) + 1
      BY <1>2, RedisFinite, FS_AddElement
    <3>2. Cardinality(Wakers \ {t}) = Cardinality(Wakers) - 1
      BY <1>2, RedisFinite, FS_RemoveElement
    <3> QED
      BY <2>5, <3>1, <3>2
  <2>7. Holding \subseteq RedisThreads
    BY DEF Holding, RedisAt
  <2>8. ContextIsHeld'
    BY <2>2, <2>3, <2>5, RedisAssumption DEF RedisInv, ContextIsHeld
  <2>9. ContextExclusive'
    BY <1>2, <2>2, <2>3, <2>5, <2>7 DEF RedisInv, ContextExclusive
  <2>10. OpenedIsSomewhere'
    BY <1>1, <1>2, <2>2, <2>3, <2>5, <2>7 DEF RedisInv, OpenedIsSomewhere
  <2>11. SizeKept'
    <3>1. Len(conn_pool_) + Cardinality(Outside) = RedisPoolSize
      BY <1>1, <1>4 DEF RedisInv, SizeKept
    <3>2. Len(conn_pool_') + Cardinality(Outside') = RedisPoolSize
      BY <2>2, <2>6, <3>1, RedisFinite
    <3> QED
      BY <1>1, <1>4, <3>2 DEF SizeKept
  <2>12. NoLostWakeup'
    <3>1. RedisAt("asleep")' \subseteq RedisAt("asleep")
      BY <2>1
    <3> QED
      BY <1>1, <1>4, <2>2, <2>6, <3>1, RedisFinite DEF RedisInv, NoLostWakeup, Wakers
  <2> QED
    BY <2>4, <2>8, <2>9, <2>10, <2>11, <2>12 DEF RedisInv
<1> QED
  BY <1>3, <1>4 DEF RedisLease

\* A context whose command got no reply is freed.
LEMMA RedisNoReplyInv ==
    ASSUME RedisInv, NEW t \in RedisThreads, RedisNoReply(t)
    PROVE  RedisInv'
<1>1. /\ redisPc[t] = "command" /\ redisPhase = "done"
      /\ opened' = opened \ {context[t]}
      /\ context' = [context EXCEPT ![t] = NoContext]
      /\ RedisGoto(t, "replace")
      /\ UNCHANGED <<conn_pool_, available_, redisPhase>>
  BY InsideIsDone DEF RedisNoReply
<1>2. t \in Holding /\ t \in Outside /\ Holding \subseteq RedisThreads
  BY <1>1 DEF RedisAt, Outside, Holding
<1>3. /\ redisPc' \in [RedisThreads -> RedisStates]
      /\ \A l : RedisAt(l)' = IF l = "replace" THEN RedisAt(l) \cup {t} ELSE RedisAt(l) \ {t}
  BY <1>1, RedisAtMoves DEF RedisInv, RedisStates
<1>4. Holding' = Holding \ {t} /\ Outside' = Outside /\ Wakers' = Wakers
  BY <1>1, <1>3 DEF Holding, Outside, Wakers, RedisAt
<1>5. \A u \in RedisThreads : context'[u] = IF u = t THEN NoContext ELSE context[u]
  BY <1>1 DEF RedisInv, RedisTypeOK
<1>6. Pooled' = Pooled
  BY <1>1 DEF Pooled
<1>7. RedisTypeOK' /\ NobodyBeforeDone'
  BY <1>1, <1>3 DEF RedisInv, RedisTypeOK, NobodyBeforeDone
<1>8. ContextIsHeld'
  BY <1>4, <1>5 DEF RedisInv, ContextIsHeld
<1>9. ContextExclusive'
  BY <1>1, <1>2, <1>4, <1>5, <1>6 DEF RedisInv, ContextExclusive
<1>10. OpenedIsSomewhere'
  <2>1. \A u \in Holding \ {t} : context[u] # context[t]
    BY <1>2 DEF RedisInv, ContextExclusive
  <2>2. context[t] \notin Pooled
    BY <1>2 DEF RedisInv, ContextExclusive
  <2>3. \A u \in Holding \ {t} : context'[u] = context[u]
    BY <1>2, <1>5
  <2> QED
    BY <1>1, <1>2, <1>4, <1>6, <2>1, <2>2, <2>3 DEF RedisInv, OpenedIsSomewhere
<1>11. SizeKept'
  BY <1>1, <1>4 DEF RedisInv, SizeKept
<1>12. NoLostWakeup'
  <2>1. RedisAt("asleep")' \subseteq RedisAt("asleep") /\ RedisAt("notifyAll")' = RedisAt("notifyAll")
    BY <1>1, <1>3 DEF RedisAt
  <2> QED
    BY <1>1, <1>4, <2>1 DEF RedisInv, NoLostWakeup, Wakers
<1> QED
  BY <1>7, <1>8, <1>9, <1>10, <1>11, <1>12 DEF RedisInv

\* A replacement is a context nobody has.
LEMMA RedisReplaceInv ==
    ASSUME RedisInv, NEW t \in RedisThreads, RedisReplace(t)
    PROVE  RedisInv'
<1>1. PICK c \in Contexts \ opened :
         opened' = opened \cup {c} /\ context' = [context EXCEPT ![t] = c]
  BY DEF RedisReplace
<1>2. /\ redisPc[t] = "replace" /\ redisPhase = "done"
      /\ RedisGoto(t, "put")
      /\ UNCHANGED <<conn_pool_, available_, redisPhase>>
  BY InsideIsDone DEF RedisReplace
<1>3. t \notin Holding /\ t \in Outside /\ Holding \subseteq RedisThreads
  BY <1>2 DEF RedisAt, Outside, Holding
<1>4. /\ redisPc' \in [RedisThreads -> RedisStates]
      /\ \A l : RedisAt(l)' = IF l = "put" THEN RedisAt(l) \cup {t} ELSE RedisAt(l) \ {t}
  BY <1>2, RedisAtMoves DEF RedisInv, RedisStates
<1>5. Holding' = Holding \cup {t} /\ Outside' = Outside /\ Wakers' = Wakers
  BY <1>2, <1>4 DEF Holding, Outside, Wakers, RedisAt
<1>6. \A u \in RedisThreads : context'[u] = IF u = t THEN c ELSE context[u]
  BY <1>1 DEF RedisInv, RedisTypeOK
<1>7. Pooled' = Pooled
  BY <1>2 DEF Pooled
<1>8. RedisTypeOK' /\ NobodyBeforeDone'
  BY <1>1, <1>2, <1>4 DEF RedisInv, RedisTypeOK, NobodyBeforeDone
<1>9. ContextIsHeld'
  BY <1>5, <1>6, RedisAssumption DEF RedisInv, ContextIsHeld
<1>10. c \notin Pooled /\ \A u \in Holding : context[u] # c /\ context'[u] = context[u]
  BY <1>3, <1>6 DEF RedisInv, OpenedIsSomewhere
<1>11. ContextExclusive'
  BY <1>2, <1>3, <1>5, <1>6, <1>7, <1>10 DEF RedisInv, ContextExclusive
<1>12. OpenedIsSomewhere'
  BY <1>1, <1>5, <1>6, <1>7, <1>10 DEF RedisInv, OpenedIsSomewhere
<1>13. SizeKept'
  BY <1>2, <1>5 DEF RedisInv, SizeKept
<1>14. NoLostWakeup'
  <2>1. RedisAt("asleep")' \subseteq RedisAt("asleep") /\ RedisAt("notifyAll")' = RedisAt("notifyAll")
    BY <1>2, <1>4 DEF RedisAt
  <2> QED
    BY <1>2, <1>5, <2>1 DEF RedisInv, NoLostWakeup, Wakers
<1> QED
  BY <1>8, <1>9, <1>11, <1>12, <1>13, <1>14 DEF RedisInv

\* release_connection(): the context goes back, or is freed when another thread
\* has given the pool up in the meantime.
LEMMA RedisPutInv ==
    ASSUME RedisInv, NEW t \in RedisThreads, RedisPut(t)
    PROVE  RedisInv'
<1> DEFINE c == context[t]
<1>1. /\ redisPc[t] = "put" /\ redisPhase = "done"
      /\ context' = [context EXCEPT ![t] = NoContext]
      /\ UNCHANGED <<available_, redisPhase>>
  BY InsideIsDone DEF RedisPut
<1>2. t \in Holding /\ t \in Outside /\ t \notin Wakers /\ Holding \subseteq RedisThreads
  BY <1>1 DEF RedisAt, Outside, Holding, Wakers
<1>3. \A u \in RedisThreads : context'[u] = IF u = t THEN NoContext ELSE context[u]
  BY <1>1 DEF RedisInv, RedisTypeOK
<1>4. c \in Contexts /\ c \notin Pooled /\ c \in opened
  BY <1>2 DEF RedisInv, RedisTypeOK, ContextIsHeld, ContextExclusive, OpenedIsSomewhere
<1>5. \A u \in Holding \ {t} : context'[u] = context[u] /\ context[u] # c
  BY <1>2, <1>3 DEF RedisInv, ContextExclusive
<1>6. PICK label \in {"out", "notify"} : RedisGoto(t, label) /\ (label = "notify" <=> available_)
  BY DEF RedisPut
<1>7. /\ redisPc' \in [RedisThreads -> RedisStates]
      /\ \A l : RedisAt(l)' = IF l = label THEN RedisAt(l) \cup {t} ELSE RedisAt(l) \ {t}
  BY <1>6, RedisAtMoves DEF RedisInv, RedisStates
<1>8. /\ Holding' = Holding \ {t} /\ Outside' = Outside \ {t}
      /\ Wakers' = IF available_ THEN Wakers \cup {t} ELSE Wakers
  BY <1>2, <1>6, <1>7 DEF Holding, Outside, Wakers, RedisAt
<1>9. /\ Cardinality(Outside') = Cardinality(Outside) - 1
      /\ Cardinality(Wakers') = IF available_ THEN Cardinality(Wakers) + 1 ELSE Cardinality(Wakers)
  <2>1. Cardinality(Outside \ {t}) = Cardinality(Outside) - 1
    BY <1>2, RedisFinite, FS_RemoveElement
  <2>2. Cardinality(Wakers \cup {t}) = Cardinality(Wakers) + 1
    BY <1>2, RedisFinite, FS_AddElement
  <2> QED
    BY <1>8, <2>1, <2>2
<1>10. RedisAt("asleep")' \subseteq RedisAt("asleep") /\ RedisAt("notifyAll")' = RedisAt("notifyAll")
  BY <1>1, <1>6, <1>7 DEF RedisAt
<1>11. NobodyBeforeDone' /\ ContextIsHeld'
  BY <1>1, <1>3, <1>8 DEF RedisInv, NobodyBeforeDone, ContextIsHeld
<1> HIDE DEF c
<1>12. CASE ~available_
  <2>1. opened' = opened \ {c} /\ UNCHANGED conn_pool_
    BY <1>12 DEF RedisPut, c
  <2>2. Pooled' = Pooled
    BY <2>1 DEF Pooled
  <2>3. RedisTypeOK'
    BY <1>1, <1>7, <2>1 DEF RedisInv, RedisTypeOK
  <2>4. ContextExclusive'
    BY <1>5, <1>8, <2>1, <2>2 DEF RedisInv, ContextExclusive
  <2>5. OpenedIsSomewhere'
    BY <1>2, <1>4, <1>5, <1>8, <2>1, <2>2 DEF RedisInv, OpenedIsSomewhere, c
  <2>6. SizeKept'
    BY <1>1, <1>12, <2>1 DEF RedisInv, SizeKept
  <2>7. NoLostWakeup'
    BY <1>1, <1>8, <1>9, <1>10, <1>12, <2>1 DEF RedisInv, NoLostWakeup, Wakers
  <2> QED
    BY <1>11, <2>3, <2>4, <2>5, <2>6, <2>7 DEF RedisInv
<1>13. CASE available_
  <2>1. conn_pool_' = Append(conn_pool_, c) /\ UNCHANGED opened
    BY <1>13 DEF RedisPut, c
  <2>2. /\ conn_pool_' \in Seq(Contexts)
        /\ Len(conn_pool_) \in Nat /\ Len(conn_pool_') = Len(conn_pool_) + 1
        /\ Pooled' = Pooled \cup {c}
        /\ \A i, j \in DOMAIN conn_pool_' : conn_pool_'[i] = conn_pool_'[j] => i = j
    BY <1>4, <2>1, AppendedPool DEF RedisInv, ContextExclusive
  <2>3. RedisTypeOK'
    BY <1>1, <1>7, <2>1, <2>2 DEF RedisInv, RedisTypeOK
  <2>4. ContextExclusive'
    BY <1>5, <1>8, <2>2 DEF RedisInv, ContextExclusive
  <2>5. OpenedIsSomewhere'
    BY <1>2, <1>4, <1>5, <1>8, <2>1, <2>2 DEF RedisInv, OpenedIsSomewhere, c
  <2>6. SizeKept'
    <3>1. Len(conn_pool_) + Cardinality(Outside) = RedisPoolSize
      BY <1>1, <1>13 DEF RedisInv, SizeKept
    <3>2. Len(conn_pool_') + Cardinality(Outside') = RedisPoolSize
      BY <1>9, <2>2, <3>1, RedisFinite
    <3> QED
      BY <1>1, <1>13, <3>2 DEF SizeKept
  <2>7. NoLostWakeup'
    <3>1. RedisAt("asleep")' # {} => Len(conn_pool_) <= Cardinality(Wakers)
      BY <1>10 DEF RedisInv, NoLostWakeup, Wakers
    <3>2. RedisAt("asleep")' # {} => Len(conn_pool_') <= Cardinality(Wakers')
      BY <1>9, <1>13, <2>2, <3>1, RedisFinite
    <3> QED
      BY <1>1, <1>13, <3>2 DEF NoLostWakeup, Wakers
  <2> QED
    BY <1>11, <2>3, <2>4, <2>5, <2>6, <2>7 DEF RedisInv
<1> QED
  BY <1>12, <1>13

\* notify_one() passes the notification on to a sleeper, notify_all() leaves none.
LEMMA RedisNotifyInv ==
    ASSUME RedisInv, NEW t \in RedisThreads, RedisNotify(t) \/ RedisNotifyAll(t)
    PROVE  RedisInv'
<1>1. UNCHANGED <<conn_pool_, available_, opened, redisPhase, context>> /\ redisPhase = "done"
  BY InsideIsDone DEF RedisNotify, RedisNotifyAll
<1>2. /\ redisPc' \in [RedisThreads -> RedisStates]
      /\ redisPc[t] \in {"notify", "notifyAll"} /\ redisPc'[t] = "out"
      /\ \A u \in RedisThreads \ {t} :
            redisPc'[u] = redisPc[u] \/ (redisPc[u] = "asleep" /\ redisPc'[u] = "get")
  <2>1. ASSUME NEW u \in RedisAt("asleep"), redisPc[t] = "notify",
               redisPc' = [redisPc EXCEPT ![t] = "out", ![u] = "get"]
        PROVE  <1>2!:
    <3>1. u \in RedisThreads /\ redisPc[u] = "asleep" /\ u # t
      BY <2>1 DEF RedisAt
    <3> QED
      BY <2>1, <3>1 DEF RedisInv, RedisTypeOK, RedisStates
  <2>2. CASE redisPc[t] = "notify" /\ RedisGoto(t, "out")
    BY <2>2 DEF RedisGoto, RedisInv, RedisTypeOK, RedisStates
  <2>3. CASE RedisNotifyAll(t)
    BY <2>3 DEF RedisNotifyAll, RedisInv, RedisTypeOK, RedisStates
  <2> QED
    BY <2>1, <2>2, <2>3 DEF RedisNotify
<1>3. Holding' = Holding /\ Outside' = Outside
  <2>1. \A l \in {"command", "put", "replace", "giveup"} : RedisAt(l)' = RedisAt(l)
    BY <1>2 DEF RedisAt
  <2> QED
    BY <2>1 DEF Holding, Outside
<1>4. ContextIsHeld' /\ ContextExclusive' /\ OpenedIsSomewhere' /\ SizeKept'
  BY <1>1, <1>3, ContextsStay
<1>5. RedisTypeOK' /\ NobodyBeforeDone'
  BY <1>1, <1>2 DEF RedisInv, RedisTypeOK, NobodyBeforeDone
<1>6. NoLostWakeup'
  <2>1. CASE RedisAt("asleep")' = {}
    BY <2>1 DEF NoLostWakeup
  <2>2. ASSUME NEW u \in RedisAt("asleep"), RedisNotify(t),
               redisPc' = [redisPc EXCEPT ![t] = "out", ![u] = "get"]
        PROVE  NoLostWakeup'
    <3>1. /\ u \in RedisThreads /\ redisPc[u] = "asleep" /\ redisPc[t] = "notify" /\ u # t
          /\ \A v \in RedisThreads :
                redisPc'[v] = IF v = t THEN "out" ELSE IF v = u THEN "get" ELSE redisPc[v]
      BY <2>2 DEF RedisAt, RedisNotify, RedisInv, RedisTypeOK
    <3>2. /\ Wakers' = (Wakers \ {t}) \cup {u} /\ t \in Wakers /\ u \notin Wakers
          /\ RedisAt("notifyAll")' = RedisAt("notifyAll")
      BY <3>1 DEF Wakers, RedisAt
    <3>3. /\ IsFiniteSet(Wakers \ {t})
          /\ Cardinality(Wakers \ {t}) = Cardinality(Wakers) - 1
      BY <3>2, RedisFinite, FS_RemoveElement
    <3>4. Cardinality((Wakers \ {t}) \cup {u}) = Cardinality(Wakers \ {t}) + 1
      BY <3>2, <3>3, FS_AddElement
    <3>5. Cardinality(Wakers') = Cardinality(Wakers)
      BY <3>2, <3>3, <3>4, RedisFinite
    <3>6. Len(conn_pool_) <= Cardinality(Wakers) /\ (~available_ => RedisAt("notifyAll") # {})
      BY DEF RedisInv, NoLostWakeup, Wakers
    <3> QED
      BY <1>1, <3>2, <3>5, <3>6 DEF NoLostWakeup, Wakers
  <2>3. CASE RedisNotify(t) /\ RedisAt("asleep") = {}
    <3>1. RedisAt("asleep")' = {}
      BY <1>2, <2>3 DEF RedisAt
    <3> QED
      BY <2>1, <3>1
  <2>4. CASE RedisNotifyAll(t)
    <3>1. RedisAt("asleep")' = {}
      BY <2>4 DEF RedisNotifyAll, RedisAt
    <3> QED
      BY <2>1, <3>1
  <2> QED
    BY <2>2, <2>3, <2>4 DEF RedisNotify
<1> QED
  BY <1>4, <1>5, <1>6 DEF RedisInv

\* Giving the pool up frees the idle contexts; the held ones stay with their threads.
LEMMA RedisGiveUpInv ==
    ASSUME RedisInv, NEW t \in RedisThreads, RedisGiveUp(t)
    PROVE  RedisInv'
<1>1. /\ redisPc[t] = "giveup" /\ redisPhase = "done" /\ available_' = FALSE
      /\ opened' = opened \ Pooled /\ conn_pool_' = <<>>
      /\ RedisGoto(t, "notifyAll")
      /\ UNCHANGED <<redisPhase, context>>
  BY InsideIsDone DEF RedisGiveUp
<1>2. /\ redisPc' \in [RedisThreads -> RedisStates]
      /\ \A l : RedisAt(l)' = IF l = "notifyAll" THEN RedisAt(l) \cup {t} ELSE RedisAt(l) \ {t}
  BY <1>1, RedisAtMoves DEF RedisInv, RedisStates
<1>3. Holding' = Holding /\ Pooled' = {}
  BY <1>1, <1>2 DEF Holding, RedisAt, Pooled
<1>4. RedisTypeOK'
  <2>1. available_' \in BOOLEAN
    BY <1>1, Zenon
  <2> QED
    BY <1>1, <1>2, <2>1 DEF RedisInv, RedisTypeOK
<1>5. NobodyBeforeDone' /\ ContextIsHeld' /\ SizeKept'
  BY <1>1, <1>3 DEF RedisInv, NobodyBeforeDone, ContextIsHeld, SizeKept
<1>6. ContextExclusive'
  BY <1>1, <1>3 DEF RedisInv, ContextExclusive
<1>7. OpenedIsSomewhere'
  BY <1>1, <1>3 DEF RedisInv, OpenedIsSomewhere, ContextExclusive
<1>8. NoLostWakeup'
  <2>1. IsFiniteSet(Wakers') /\ Cardinality(Wakers') \in Nat
    <3>1. Wakers' \subseteq RedisThreads
      BY DEF Wakers, RedisAt
    <3> QED
      BY <3>1, RedisAssumption, FS_Subset, FS_CardinalityType
  <2>2. RedisAt("notifyAll")' # {} /\ Len(conn_pool_') = 0
    BY <1>1, <1>2
  <2> QED
    BY <2>1, <2>2 DEF NoLostWakeup, Wakers
<1> QED
  BY <1>4, <1>5, <1>6, <1>7, <1>8 DEF RedisInv

\* Every reachable state of the client satisfies the inductive invariant.
THEOREM RedisInvariant == RedisSpec => []RedisInv
<1>1. RedisInv /\ [RedisNext]_redisVars => RedisInv'
  <2> SUFFICES ASSUME RedisInv, [RedisNext]_redisVars PROVE RedisInv'
    OBVIOUS
  <2>1. CASE RedisStart
    BY <2>1, RedisStartInv
  <2>2. CASE \E t \in RedisThreads : RedisCall(t) \/ RedisStep(t) \/ RedisSpuriousWake(t)
    BY <2>2, RedisMoveInv, RedisLeaseInv, RedisNoReplyInv, RedisReplaceInv, RedisPutInv,
       RedisNotifyInv, RedisGiveUpInv DEF RedisStep
  <2>3. CASE UNCHANGED redisVars
    BY <2>3 DEF redisVars, RedisInv, RedisTypeOK, NobodyBeforeDone, ContextIsHeld,
                ContextExclusive, OpenedIsSomewhere, SizeKept, NoLostWakeup, Holding, Outside,
                RedisAt, Pooled
  <2> QED
    BY <2>1, <2>2, <2>3 DEF RedisNext
<1> QED
  BY RedisInitInv, <1>1, PTL DEF RedisSpec

-----------------------------------------------------------------------------
(* What the invariant says of the contexts *)

\* As many contexts are open as are in the pool and with the threads.
LEMMA OpenedCounted ==
    ASSUME RedisInv
    PROVE  /\ opened = Pooled \cup {context[t] : t \in Holding}
           /\ Cardinality(opened) = Len(conn_pool_) + Cardinality(Holding)
<1> DEFINE Held == {context[t] : t \in Holding}
           places == 1..Len(conn_pool_)
           owner == [t \in Holding |-> context[t]]
<1>1. opened = Pooled \cup Held
  BY DEF RedisInv, OpenedIsSomewhere
<1>2. Pooled \cap Held = {}
  BY DEF RedisInv, ContextExclusive
<1>3. IsFiniteSet(Pooled) /\ Cardinality(Pooled) = Len(conn_pool_)
  <2>1. conn_pool_ \in Surjection(places, Pooled) /\ conn_pool_ \in Injection(places, Pooled)
    BY DEF RedisInv, RedisTypeOK, ContextExclusive, Surjection, Injection, IsInjective, Pooled
  <2>2. IsFiniteSet(places) /\ Cardinality(places) = Len(conn_pool_)
    BY FS_Interval DEF RedisInv, RedisTypeOK
  <2> QED
    BY <2>1, <2>2, FS_Surjection
<1>4. IsFiniteSet(Held) /\ Cardinality(Held) = Cardinality(Holding)
  <2>1. owner \in Surjection(Holding, Held) /\ owner \in Injection(Holding, Held)
    BY DEF RedisInv, ContextExclusive, Surjection, Injection, IsInjective
  <2> QED
    BY <2>1, RedisFinite, FS_Surjection
<1> HIDE DEF Held
<1>5. Cardinality(Pooled \cup Held)
         = Cardinality(Pooled) + Cardinality(Held) - Cardinality(Pooled \cap Held)
  BY <1>3, <1>4, FS_Union
<1>6. Cardinality(Pooled \cap Held) = 0
  BY <1>2, FS_EmptySet
<1> QED
  BY <1>1, <1>3, <1>4, <1>5, <1>6, RedisFinite DEF RedisInv, RedisTypeOK, Held

\* Whatever commands, replacements and give-ups do, every open redisContext is in
\* the pool or with one thread, and none is leaked.
THEOREM ContextsAreConserved == RedisSpec => []ContextsConserved
<1>1. RedisInv => ContextsConserved
  BY OpenedCounted DEF RedisInv, SizeKept, Outside, ContextsConserved
<1> QED
  BY <1>1, RedisInvariant, PTL

\* A thread asleep in cv_.wait() is never forgotten, although release_connection()
\* notifies after it has left the mutex.
THEOREM NoWakeupIsLost == RedisSpec => []NoLostWakeup
<1>1. RedisInv => NoLostWakeup
  BY DEF RedisInv
<1> QED
  BY <1>1, RedisInvariant, PTL

-----------------------------------------------------------------------------
(* The backend with both pools *)

\* A step of the backend is a step of one pool and stutters in the other.
LEMMA LeasesStep ==
    ASSUME [LeasesNext]_leaseVars
    PROVE  [Next]_vars /\ [RedisNext]_redisVars
<1>1. CASE StartPostgres
  BY <1>1 DEF StartPostgres, Next
<1>2. CASE StartRedis
  BY <1>2 DEF StartRedis, RedisNext
<1>3. CASE NotStarted \/ UNCHANGED leaseVars
  BY <1>3 DEF NotStarted, leaseVars
<1>4. ASSUME NEW t \in Threads, CallDao(t) \/ InDao(t)
      PROVE  [Next]_vars /\ [RedisNext]_redisVars
  BY <1>4 DEF CallDao, InDao, Next
<1>5. ASSUME NEW t \in Threads, CallCache(t) \/ InCache(t) \/ WakesAlone(t)
      PROVE  [Next]_vars /\ [RedisNext]_redisVars
  BY <1>5, LeasesAssumption DEF CallCache, InCache, WakesAlone, RedisNext
<1> QED
  BY <1>1, <1>2, <1>3, <1>4, <1>5 DEF LeasesNext

\* The backend implements both pools: main()'s order of initialisation and the
\* threads' alternation between them only leave out behaviours.
THEOREM LeasesImplementPools == LeasesSpec => SafetySpec /\ RedisSpec
<1>1. LeasesInit => Init /\ RedisInit
  BY DEF LeasesInit
<1> QED
  BY <1>1, LeasesStep, PTL DEF LeasesSpec, SafetySpec, RedisSpec

\* In a backend with both pools no connection or context is shared, lost or
\* leaked, get_connection() never returns NULL, and no wake-up is lost.
THEOREM LeasesAreSafe ==
    LeasesSpec => [](/\ LeaseExclusive /\ NoConnectionLost /\ PermitFindsConnection
                     /\ AcquireNeverBlocks /\ ContextsConserved /\ NoLostWakeup)
<1> QED
  BY LeasesImplementPools, LeasesAreExclusive, NoneIsLost, PermitAlwaysFinds, AcquireIsFree,
     ContextsAreConserved, NoWakeupIsLost, PTL
=============================================================================
