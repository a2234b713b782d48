------------------------ MODULE ResourceServiceProofs ------------------------
(***************************************************************************)
(* The safety properties of ResourceService, proved for every number of    *)
(* threads, processes, users, rows, writes and faults, however requests    *)
(* interleave and whatever fails.                                          *)
(***************************************************************************)
EXTENDS ResourceService, TLAPS

Labels == {"idle", "cache_get", "clear", "select", "selected", "cache_set",
           "storage", "clear_delete", "write", "inv_one", "inv_list"}

RowT    == [id : Nat, owner : Users, is_file : BOOLEAN, ver : Nat]
OpT     == [kind : Kinds, user : Users, id : 0..MaxId, ver : Nat]
Entries == {Miss} \cup {Hit(rs) : rs \in SUBSET RowT}
Results == {Failed} \cup {Found(rs) : rs \in SUBSET RowT}

\* The types the proofs need.
Types ==
    /\ db \subseteq RowT
    /\ lastId \in Nat /\ writes \in Nat
    /\ cache \in [Keys -> Entries]
    /\ DOMAIN msg = Processes
    /\ pc \in [Threads -> Labels]
    /\ op \in [Threads -> OpT \cup {NoOp}]
    /\ local \in [Threads -> Results]
    /\ \A t \in Threads : pc[t] # "idle" => op[t] \in OpT

\* An idle thread has nothing in its hands.
IdleEmpty == \A t \in Threads : pc[t] = "idle" => local[t].rows = {}

\* The inductive invariant for OwnerIsolation.
IsolationInv == Types /\ IdleEmpty /\ OwnerIsolation

-----------------------------------------------------------------------------
(* The steps of a thread *)

\* What entries and results hold.
LEMMA Fields ==
    /\ ~Miss.hit /\ Miss.rows = {} /\ ~Failed.ok /\ Failed.rows = {}
    /\ \A rs : Hit(rs).hit /\ Hit(rs).rows = rs /\ Found(rs).ok /\ Found(rs).rows = rs
BY DEF Miss, Hit, Failed, Found

\* A row that is updated keeps its id and its owner.
LEMMA RowUpdate ==
    ASSUME NEW r \in RowT, NEW v \in Nat
    PROVE  LET n == [r EXCEPT !.ver = v] IN n \in RowT /\ n.id = r.id /\ n.owner = r.owner
BY DEF RowT

\* A statement changes only rows of the thread's user; an update or a delete only
\* those with the id of the request, an insert adds the next id.
LEMMA StatementFrame ==
    ASSUME Types, NEW t \in Threads, pc[t] # "idle", Statement(t)
    PROVE  /\ db' \subseteq RowT /\ lastId' \in Nat /\ lastId' >= lastId
           /\ op[t].kind \in WriteKinds
           /\ \A r : r.owner # op[t].user => (r \in db' <=> r \in db)
           /\ op[t].kind = "create" =>
                 /\ \A r : r.id # lastId + 1 => (r \in db' <=> r \in db)
                 /\ lastId' = lastId + 1
           /\ op[t].kind # "create" => \A r : r.id # op[t].id => (r \in db' <=> r \in db)
           /\ (\A r \in db : r.id \in 1..lastId) => \A r \in db' : r.id \in 1..lastId'
<1>1. op[t] \in OpT /\ op[t].user \in Users /\ op[t].ver \in Nat /\ lastId \in Nat /\ db \subseteq RowT
  BY DEF Types, OpT
<1>2. Matching(t) = {r \in db : r.owner = op[t].user /\ (op[t].kind = "list" \/ r.id = op[t].id)}
  BY DEF Matching, AsksFor
<1>3. CASE Insert(t)
  <2>1. PICK f \in BOOLEAN :
           db' = db \cup {[id |-> lastId + 1, owner |-> op[t].user, is_file |-> f, ver |-> op[t].ver]}
    BY <1>3 DEF Insert
  <2> DEFINE n == [id |-> lastId + 1, owner |-> op[t].user, is_file |-> f, ver |-> op[t].ver]
  <2>2. n \in RowT /\ n.id = lastId + 1 /\ n.owner = op[t].user /\ db' = db \cup {n}
    BY <1>1, <2>1 DEF RowT
  <2>3. lastId' = lastId + 1 /\ op[t].kind = "create"
    BY <1>3 DEF Insert
  <2> HIDE DEF n
  <2> QED
    BY <1>1, <2>2, <2>3 DEF WriteKinds
<1>4. CASE Update(t)
  <2>1. /\ db' = (db \ Matching(t)) \cup {[r EXCEPT !.ver = op[t].ver] : r \in Matching(t)}
        /\ lastId' = lastId /\ op[t].kind = "update"
    BY <1>4 DEF Update
  <2>2. \A r \in Matching(t) :
           LET n == [r EXCEPT !.ver = op[t].ver] IN n \in RowT /\ n.id = r.id /\ n.owner = r.owner
    BY <1>1, <1>2, RowUpdate
  <2>3. \A n \in {[r EXCEPT !.ver = op[t].ver] : r \in Matching(t)} :
           n \in RowT /\ \E r \in Matching(t) : n.id = r.id /\ n.owner = r.owner
    BY <2>2
  <2>4. \A r \in Matching(t) : r \in db /\ r.owner = op[t].user /\ r.id = op[t].id
    BY <1>2, <2>1
  <2> DEFINE N == {[r EXCEPT !.ver = op[t].ver] : r \in Matching(t)}
  <2>5. db' = (db \ Matching(t)) \cup N
    BY <2>1
  <2>6. \A n \in N : n \in RowT /\ n.id = op[t].id /\ n.owner = op[t].user
                     /\ \E r \in db : n.id = r.id
    BY <2>3, <2>4
  <2> HIDE DEF N
  <2> QED
    BY <1>1, <2>1, <2>4, <2>5, <2>6 DEF WriteKinds
<1>5. CASE Delete(t)
  <2>1. db' = db \ Matching(t) /\ lastId' = lastId /\ op[t].kind = "delete"
    BY <1>5 DEF Delete
  <2>2. \A r \in Matching(t) : r \in db /\ r.owner = op[t].user /\ r.id = op[t].id
    BY <1>2, <2>1
  <2> QED
    BY <1>1, <2>1, <2>2 DEF WriteKinds
<1> QED
  BY <1>3, <1>4, <1>5 DEF Statement

\* A step of a handler ends the request, or goes on with it, perhaps with a result
\* of its SELECT.
LEMMA StepForms ==
    ASSUME NEW t \in Threads, Step(t)
    PROVE  /\ pc[t] # "idle"
           /\ \/ Reply(t)
              \/ /\ \E label \in Labels \ {"idle"} : Goto(t, label)
                 /\ op' = op
                 /\ local' = local \/ Return(t, Failed) \/ Return(t, Found(Matching(t)))
<1> USE DEF At, Continue, Labels
<1>1. CASE CacheHit(t) \/ InvalidateList(t) \/ CacheSet(t) \/ UrlSelected(t) \/ WriteFails(t)
           \/ WriteReplyLost(t)
  BY <1>1 DEF CacheHit, InvalidateList, CacheSet, UrlSelected, WriteFails, WriteReplyLost
<1>2. CASE CacheMiss(t) \/ InvalidateOne(t) \/ Clear(t) \/ ClearDelete(t) \/ Write(t)
  BY <1>2 DEF CacheMiss, InvalidateOne, Clear, ClearDelete, Write
<1>3. CASE Select(t) \/ SelectFails(t)
  BY <1>3 DEF Select, SelectFails
<1>4. CASE ListSelected(t) \/ GetSelected(t) \/ DeleteSelected(t) \/ DeleteFile(t)
  BY <1>4 DEF ListSelected, GetSelected, DeleteSelected, DeleteFile
<1> QED
  BY <1>1, <1>2, <1>3, <1>4 DEF Step

\* The other threads are left alone.
LEMMA StepFrame ==
    ASSUME Types, NEW t \in Threads, Step(t)
    PROVE  /\ pc[t] # "idle"
           /\ pc' \in [Threads -> Labels]
           /\ op' \in [Threads -> OpT \cup {NoOp}]
           /\ local' \in [Threads -> Results]
           /\ \A s \in Threads \ {t} : pc'[s] = pc[s] /\ op'[s] = op[s] /\ local'[s] = local[s]
           /\ \/ pc'[t] = "idle" /\ op'[t] = NoOp /\ local'[t] = Failed
              \/ /\ pc'[t] # "idle" /\ op'[t] = op[t]
                 /\ local'[t] \in {local[t], Failed, Found(Matching(t))}
<1>1. Failed \in Results /\ Found(Matching(t)) \in Results
  <2>1. Matching(t) \in SUBSET RowT
    BY DEF Types, Matching
  <2> QED
    BY <2>1 DEF Results
<1>2. /\ pc \in [Threads -> Labels] /\ op \in [Threads -> OpT \cup {NoOp}]
      /\ local \in [Threads -> Results]
  BY DEF Types
<1>3. pc[t] # "idle"
  BY StepForms
<1>4. CASE Reply(t)
  BY <1>1, <1>2, <1>3, <1>4 DEF Reply, Labels
<1>5. CASE /\ \E label \in Labels \ {"idle"} : Goto(t, label)
           /\ op' = op
           /\ local' = local \/ Return(t, Failed) \/ Return(t, Found(Matching(t)))
  <2>1. /\ pc' \in [Threads -> Labels] /\ pc'[t] # "idle"
        /\ \A s \in Threads \ {t} : pc'[s] = pc[s]
    BY <1>2, <1>5 DEF Goto
  <2>2. /\ local' \in [Threads -> Results] /\ local'[t] \in {local[t], Failed, Found(Matching(t))}
        /\ \A s \in Threads \ {t} : local'[s] = local[s]
    BY <1>1, <1>2, <1>5 DEF Return
  <2> QED
    BY <1>2, <1>3, <1>5, <2>1, <2>2
<1> QED
  BY <1>4, <1>5, StepForms

\* What a step does to the table, the cache and the message.
LEMMA StepGlobal ==
    ASSUME NEW t \in Threads, Step(t)
    PROVE  /\ UNCHANGED <<db, lastId>> \/ (At(t, "write") /\ Statement(t) /\ UNCHANGED cache)
           /\ \/ UNCHANGED cache
              \/ At(t, "cache_set") /\ cache' = [cache EXCEPT ![KeyOf(t)] = Hit(local[t].rows)]
              \/ \E key : cache' = [cache EXCEPT ![key] = Miss]
           /\ msg' = msg \/ \E b \in BOOLEAN : SetMsg(t, b)
           /\ writes' = writes
<1>1. CASE CacheHit(t) \/ InvalidateList(t) \/ CacheSet(t) \/ UrlSelected(t) \/ WriteFails(t)
           \/ WriteReplyLost(t)
  BY <1>1 DEF CacheHit, InvalidateList, CacheSet, UrlSelected, WriteFails, WriteReplyLost, Del
<1>2. CASE CacheMiss(t) \/ InvalidateOne(t) \/ Clear(t) \/ ClearDelete(t) \/ Write(t)
  BY <1>2 DEF CacheMiss, InvalidateOne, Clear, ClearDelete, Write, Del
<1>3. CASE Select(t) \/ SelectFails(t)
  BY <1>3 DEF Select, SelectFails
<1>4. CASE ListSelected(t) \/ GetSelected(t) \/ DeleteSelected(t) \/ DeleteFile(t)
  BY <1>4 DEF ListSelected, GetSelected, DeleteSelected, DeleteFile
<1> QED
  BY <1>1, <1>2, <1>3, <1>4 DEF Step

\* A request occupies an idle thread and changes nothing else.
LEMMA StartFrame ==
    ASSUME Types, NEW t \in Threads, NEW k \in Kinds, NEW u \in Users, NEW i \in 0..MaxId,
           Start(t, k, u, i)
    PROVE  /\ pc[t] = "idle" /\ UNCHANGED <<db, lastId, cache, msg, local>> /\ writes' \in Nat
           /\ pc' \in [Threads -> Labels]
           /\ pc'[t] = IF k \in ReadKinds THEN "cache_get" ELSE "clear"
           /\ op' \in [Threads -> OpT \cup {NoOp}] /\ op'[t] \in OpT
           /\ op'[t].kind = k /\ op'[t].user = u /\ op'[t].id = i
           /\ \A s \in Threads \ {t} : pc'[s] = pc[s] /\ op'[s] = op[s]
<1> DEFINE n == [kind |-> k, user |-> u, id |-> i, ver |-> IF k \in WriteKinds THEN writes + 1 ELSE 0]
<1>1. n \in OpT /\ n.kind = k /\ n.user = u /\ n.id = i
  BY DEF Types, OpT
<1>2. /\ op' = [op EXCEPT ![t] = n] /\ pc[t] = "idle"
      /\ UNCHANGED <<db, lastId, cache, msg, local>>
      /\ writes' = IF k \in WriteKinds THEN writes + 1 ELSE writes
      /\ pc' = [pc EXCEPT ![t] = IF k \in ReadKinds THEN "cache_get" ELSE "clear"]
  BY DEF Start, At, Goto
<1> HIDE DEF n
<1>3. op' \in [Threads -> OpT \cup {NoOp}] /\ op'[t] = n /\ \A s \in Threads \ {t} : op'[s] = op[s]
  BY <1>1, <1>2 DEF Types
<1>4. /\ pc' \in [Threads -> Labels] /\ pc'[t] = IF k \in ReadKinds THEN "cache_get" ELSE "clear"
      /\ \A s \in Threads \ {t} : pc'[s] = pc[s]
  BY <1>2 DEF Types, Labels
<1>5. writes' \in Nat
  BY <1>2 DEF Types
<1> QED
  BY <1>1, <1>2, <1>3, <1>4, <1>5

\* Every step keeps the types.
LEMMA TypesInv == Types /\ [Next]_vars => Types'
<1> SUFFICES ASSUME Types, [Next]_vars PROVE Types'
  OBVIOUS
<1>1. ASSUME NEW t \in Threads, NEW k \in Kinds, NEW u \in Users, NEW i \in 0..MaxId,
             Start(t, k, u, i)
      PROVE  Types'
  BY <1>1, StartFrame DEF Types
<1>2. ASSUME NEW t \in Threads, Step(t) PROVE Types'
  <2>1. db' \subseteq RowT /\ lastId' \in Nat
    BY <1>2, StepGlobal, StepFrame, StatementFrame DEF Types
  <2>2. cache' \in [Keys -> Entries]
    <3>1. Hit(local[t].rows) \in Entries
      <4>1. local[t] \in Results
        BY DEF Types
      <4>2. local[t].rows \in SUBSET RowT
        BY <4>1, Fields DEF Results
      <4> QED
        BY <4>2 DEF Entries
    <3>2. Miss \in Entries
      BY DEF Entries
    <3> QED
      BY <1>2, <3>1, <3>2, StepGlobal DEF Types
  <2>3. DOMAIN msg' = Processes
    BY <1>2, StepGlobal DEF Types, SetMsg
  <2>4. writes' \in Nat
    BY <1>2, StepGlobal DEF Types
  <2>5. /\ pc' \in [Threads -> Labels] /\ op' \in [Threads -> OpT \cup {NoOp}]
        /\ local' \in [Threads -> Results]
        /\ \A s \in Threads : pc'[s] # "idle" => op'[s] \in OpT
    BY <1>2, StepFrame DEF Types
  <2> QED
    BY <2>1, <2>2, <2>3, <2>4, <2>5 DEF Types
<1>3. ASSUME NEW key \in Keys, Expire(key) PROVE Types'
  <2>1. cache' \in [Keys -> Entries]
    BY <1>3 DEF Types, Expire, Entries
  <2> QED
    BY <1>3, <2>1 DEF Types, Expire
<1>4. CASE UNCHANGED vars
  BY <1>4 DEF Types, vars
<1> QED
  BY <1>1, <1>2, <1>3, <1>4 DEF Next

\* The service starts with an empty table, an empty cache and idle threads.
LEMMA InitTypes == Init => Types /\ IdleEmpty /\ OwnerIsolation
<1> SUFFICES ASSUME Init PROVE Types /\ IdleEmpty /\ OwnerIsolation
  OBVIOUS
<1>1. /\ db = {} /\ lastId = 0 /\ writes = 0 /\ cache = [k \in Keys |-> Miss]
      /\ msg = [p \in Processes |-> FALSE] /\ pc = [t \in Threads |-> "idle"]
      /\ op = [t \in Threads |-> NoOp] /\ local = [t \in Threads |-> Failed]
  BY DEF Init
<1>2. Types
  BY <1>1 DEF Types, Labels, Entries, Results
<1>3. IdleEmpty /\ OwnerIsolation
  BY <1>1, Fields DEF IdleEmpty, OwnerIsolation
<1> QED
  BY <1>2, <1>3

-----------------------------------------------------------------------------
(* OwnerIsolation *)

\* What a user is answered, or finds in the cache, are rows of that user, with any
\* number of threads and processes and whatever statements and commands fail.
THEOREM UsersAreIsolated == SafetySpec => []OwnerIsolation
<1>1. IsolationInv /\ [Next]_vars => IsolationInv'
  <2> SUFFICES ASSUME IsolationInv, [Next]_vars PROVE IsolationInv'
    OBVIOUS
  <2>1. Types /\ IdleEmpty /\ OwnerIsolation /\ Types'
    BY TypesInv DEF IsolationInv
  <2>2. ASSUME NEW t \in Threads, NEW k \in Kinds, NEW u \in Users, NEW i \in 0..MaxId,
               Start(t, k, u, i)
        PROVE  IdleEmpty' /\ OwnerIsolation'
    <3>1. /\ pc[t] = "idle" /\ UNCHANGED <<cache, local>>
          /\ pc'[t] # "idle"
          /\ \A s \in Threads \ {t} : pc'[s] = pc[s] /\ op'[s] = op[s]
      BY <2>1, <2>2, StartFrame
    <3>2. local[t].rows = {}
      BY <2>1, <3>1 DEF IdleEmpty
    <3> QED
      BY <2>1, <3>1, <3>2 DEF IdleEmpty, OwnerIsolation
  <2>3. ASSUME NEW t \in Threads, Step(t)
        PROVE  IdleEmpty' /\ OwnerIsolation'
    <3>1. /\ \A s \in Threads \ {t} : pc'[s] = pc[s] /\ op'[s] = op[s] /\ local'[s] = local[s]
          /\ \/ pc'[t] = "idle" /\ op'[t] = NoOp /\ local'[t] = Failed
             \/ /\ pc'[t] # "idle" /\ op'[t] = op[t]
                /\ local'[t] \in {local[t], Failed, Found(Matching(t))}
      BY <2>1, <2>3, StepFrame
    <3>2. \A r \in Matching(t) : r.owner = op[t].user
      BY DEF Matching, AsksFor
    <3>3. IdleEmpty'
      BY <2>1, <3>1, Fields DEF IdleEmpty
    <3>4. \A s \in Threads : \A r \in local'[s].rows : r.owner = op'[s].user
      BY <2>1, <3>1, <3>2, Fields DEF OwnerIsolation
    <3>5. \A key \in Keys : \A r \in cache'[key].rows : r.owner = key[1]
      <4>1. CASE UNCHANGED cache
        BY <2>1, <4>1 DEF OwnerIsolation
      <4>2. CASE cache' = [cache EXCEPT ![KeyOf(t)] = Hit(local[t].rows)]
        <5>1. KeyOf(t)[1] = op[t].user
          BY DEF KeyOf, ListKey, OneKey
        <5>2. \A key \in Keys : cache'[key] = IF key = KeyOf(t) THEN Hit(local[t].rows) ELSE cache[key]
          BY <2>1, <4>2 DEF Types
        <5> QED
          BY <2>1, <5>1, <5>2, Fields DEF OwnerIsolation
      <4>3. CASE \E key : cache' = [cache EXCEPT ![key] = Miss]
        <5>1. \A key \in Keys : cache'[key] = cache[key] \/ cache'[key] = Miss
          BY <2>1, <4>3 DEF Types
        <5> QED
          BY <2>1, <5>1, Fields DEF OwnerIsolation
      <4> QED
        BY <2>3, <4>1, <4>2, <4>3, StepGlobal
    <3> QED
      BY <3>3, <3>4, <3>5 DEF OwnerIsolation
  <2>4. ASSUME NEW key \in Keys, Expire(key) PROVE IdleEmpty' /\ OwnerIsolation'
    <3>1. UNCHANGED <<pc, op, local>> /\ cache' = [cache EXCEPT ![key] = Miss]
      BY <2>4 DEF Expire
    <3>2. \A k \in Keys : cache'[k] = cache[k] \/ cache'[k] = Miss
      BY <2>1, <3>1 DEF Types
    <3> QED
      BY <2>1, <3>1, <3>2, Fields DEF IdleEmpty, OwnerIsolation
  <2>5. CASE UNCHANGED vars
    BY <2>1, <2>5 DEF vars, IdleEmpty, OwnerIsolation, IsolationInv
  <2> QED
    BY <2>1, <2>2, <2>3, <2>4, <2>5 DEF Next, IsolationInv
<1>2. Init => IsolationInv
  BY InitTypes DEF IsolationInv
<1>3. IsolationInv => OwnerIsolation
  BY DEF IsolationInv
<1> QED
  BY <1>1, <1>2, <1>3, PTL DEF SafetySpec

-----------------------------------------------------------------------------
(* CacheCoherent *)

\* Only a request for one row names one, and only reads meet the cache.
Shape(t) ==
    /\ pc[t] # "idle" => (op[t].kind \in {"list", "create"} <=> op[t].id = 0)
    /\ pc[t] \in {"cache_get", "cache_set"} => op[t].kind \in ReadKinds

\* A reader that is not overtaken has what the table says, and one that has found
\* its row asked for an id the sequence has given out.
Holds(t) ==
    /\ pc[t] \in {"selected", "cache_set"} /\ op[t].kind \in ReadKinds /\ t \notin overtaken =>
          local[t].rows = Matching(t)
    /\ pc[t] = "cache_set" \/ (pc[t] = "selected" /\ local[t].ok) =>
          (op[t].kind = "get" => op[t].id \in 1..lastId)

\* Ids come from the sequence, and a single row is cached only once it has existed.
KnownIds == \A r \in db : r.id \in 1..lastId
KnownKeys == \A key \in Keys : cache[key].hit /\ key[2] # 0 => key[2] \in 1..lastId

\* The inductive invariant for CacheCoherent.
CoherenceInv ==
    /\ Types /\ KnownIds /\ KnownKeys /\ CacheCoherent
    /\ \A t \in Threads : Shape(t) /\ Holds(t)

\* The rows a request asks for are those its cache entry should hold.
LEMMA MatchingIsTruth ==
    ASSUME Types, NEW t \in Threads, pc[t] # "idle", Shape(t), op[t].kind \in ReadKinds
    PROVE  KeyOf(t) \in Keys /\ Truth(KeyOf(t)) = Matching(t) /\ KeyOf(t)[2] = op[t].id
<1>1. op[t].user \in Users /\ op[t].id \in 0..MaxId /\ (op[t].kind = "list" <=> op[t].id = 0)
  BY DEF Types, OpT, Shape, ReadKinds
<1>2. MaxId \in Nat
  BY ServiceAssumption
<1>3. KeyOf(t) = <<op[t].user, op[t].id>>
  BY <1>1 DEF KeyOf, ListKey, OneKey
<1>4. KeyOf(t) \in Keys
  BY <1>1, <1>2, <1>3 DEF Keys, Ids
<1>5. KeyOf(t)[1] = op[t].user /\ KeyOf(t)[2] = op[t].id
  BY <1>3
<1> QED
  BY <1>1, <1>4, <1>5 DEF Truth, Matching, AsksFor

\* A statement marks the readers whose rows it changes; no other step changes the
\* table, or the mark of another thread.
LEMMA StepMarks ==
    ASSUME NEW t \in Threads, Step(t), NEW s \in Threads \ {t}
    PROVE  \/ /\ UNCHANGED <<db, lastId>>
              /\ s \in overtaken' <=> s \in overtaken
           \/ /\ At(t, "write") /\ Statement(t)
              /\ s \notin overtaken' /\ pc[s] \in {"selected", "cache_set"} =>
                    s \notin overtaken /\ {r \in db' : AsksFor(s, r)} = Matching(s)
<1>1. CASE CacheHit(t) \/ InvalidateList(t) \/ CacheSet(t) \/ UrlSelected(t) \/ WriteFails(t)
  BY <1>1 DEF CacheHit, InvalidateList, CacheSet, UrlSelected, WriteFails, history
<1>2. CASE CacheMiss(t) \/ InvalidateOne(t) \/ Clear(t) \/ ClearDelete(t)
  BY <1>2 DEF CacheMiss, InvalidateOne, Clear, ClearDelete, history
<1>3. CASE Select(t) \/ SelectFails(t)
  BY <1>3 DEF Select, SelectFails
<1>4. CASE ListSelected(t) \/ GetSelected(t) \/ DeleteSelected(t) \/ DeleteFile(t)
  BY <1>4 DEF ListSelected, GetSelected, DeleteSelected, DeleteFile, history
<1>5. CASE Write(t) \/ WriteReplyLost(t)
  BY <1>5 DEF Write, WriteReplyLost, Statement, At
<1> QED
  BY <1>1, <1>2, <1>3, <1>4, <1>5 DEF Step

\* A thread that a step does not touch still holds what the table says, or is marked.
LEMMA OthersHold ==
    ASSUME CoherenceInv, NEW t \in Threads, Step(t), NEW s \in Threads \ {t}
    PROVE  Shape(s)' /\ Holds(s)'
<1>1. /\ pc[t] # "idle"
      /\ pc'[s] = pc[s] /\ op'[s] = op[s] /\ local'[s] = local[s]
  BY StepFrame DEF CoherenceInv
<1>2. Shape(s) /\ Holds(s) /\ Types
  BY DEF CoherenceInv
<1>3. Shape(s)'
  BY <1>1, <1>2 DEF Shape
<1>4. lastId \in Nat /\ lastId' \in Nat /\ lastId' >= lastId
  <2>1. lastId \in Nat
    BY <1>2 DEF Types
  <2> QED
    BY <1>1, <1>2, <2>1, StepGlobal, StatementFrame
<1>5. Matching(s)' = {r \in db' : AsksFor(s, r)}
  BY <1>1 DEF Matching, AsksFor
<1>6. pc[s] \in {"selected", "cache_set"} /\ s \notin overtaken' =>
         s \notin overtaken /\ Matching(s)' = Matching(s)
  <2>1. CASE UNCHANGED <<db, lastId>> /\ (s \in overtaken' <=> s \in overtaken)
    BY <1>5, <2>1 DEF Matching
  <2>2. CASE s \notin overtaken' /\ pc[s] \in {"selected", "cache_set"} =>
                s \notin overtaken /\ {r \in db' : AsksFor(s, r)} = Matching(s)
    BY <1>5, <2>2
  <2> QED
    BY <2>1, <2>2, StepMarks
<1> QED
  BY <1>1, <1>2, <1>3, <1>4, <1>6 DEF Holds

\* A step of a handler that goes on leaves it with what the table says.
LEMMA StepHolds ==
    ASSUME CoherenceInv, NEW t \in Threads, Step(t)
    PROVE  Shape(t)' /\ Holds(t)'
<1>1. /\ DOMAIN pc = Threads /\ DOMAIN local = Threads
      /\ Types /\ KnownIds /\ Shape(t) /\ Holds(t) /\ pc[t] # "idle"
  BY StepFrame DEF CoherenceInv, Types
<1>2. UNCHANGED <<db, op>> => Matching(t)' = Matching(t)
  BY DEF Matching, AsksFor
<1> USE <1>1 DEF At, Goto, Continue
<1>3. CASE Reply(t)
  BY <1>3 DEF Reply, Shape, Holds
<1>4. CASE CacheMiss(t) \/ InvalidateOne(t) \/ Clear(t) \/ ClearDelete(t) \/ Write(t)
  <2>1. op' = op /\ pc'[t] \in {"clear", "inv_list", "write", "select", "inv_one"}
    BY <1>4 DEF CacheMiss, InvalidateOne, Clear, ClearDelete, Write
  <2> QED
    BY <2>1 DEF Shape, Holds
<1>5. CASE Select(t)
  <2>1. pc'[t] = "selected" /\ UNCHANGED <<op, db, lastId>>
    BY <1>5 DEF Select
  <2>2. \/ local'[t] = Found(Matching(t)) /\ (op[t].kind = "list" \/ Matching(t) # {})
        \/ local'[t] = Failed /\ Matching(t) = {}
    BY <1>5 DEF Select, Return
  <2>3. Shape(t)'
    BY <2>1 DEF Shape
  <2>4. local'[t].rows = Matching(t)
    BY <2>2, Fields
  <2>5. local'[t].ok /\ op[t].kind = "get" => op[t].id \in 1..lastId
    <3> SUFFICES ASSUME local'[t].ok, op[t].kind = "get" PROVE op[t].id \in 1..lastId
      OBVIOUS
    <3>1. PICK r \in Matching(t) : TRUE
      BY <2>2, Fields
    <3>2. r \in db /\ r.id = op[t].id
      BY DEF Matching, AsksFor
    <3> QED
      BY <3>2 DEF KnownIds
  <2> QED
    BY <1>2, <2>1, <2>3, <2>4, <2>5 DEF Holds
<1>6. CASE SelectFails(t)
  <2>1. pc'[t] = "selected" /\ op' = op /\ local'[t] = Failed /\ t \in overtaken'
    BY <1>6 DEF SelectFails, Return
  <2>2. Shape(t)'
    BY <2>1 DEF Shape
  <2> QED
    BY <2>1, <2>2, Fields DEF Holds
<1>7. CASE (ListSelected(t) \/ GetSelected(t)) /\ ~Reply(t)
  <2>1. /\ pc[t] = "selected" /\ pc'[t] = "cache_set"
        /\ UNCHANGED <<db, lastId, op, local, overtaken>> /\ op[t].kind \in ReadKinds
        /\ op[t].kind = "list" \/ local[t].ok
    BY <1>7 DEF ListSelected, GetSelected, ReadKinds, history
  <2>2. Shape(t)'
    BY <2>1 DEF Shape
  <2> QED
    BY <1>2, <2>1, <2>2 DEF Holds
<1>8. CASE (DeleteSelected(t) \/ DeleteFile(t)) /\ ~Reply(t)
  <2>1. op' = op /\ pc'[t] \in {"storage", "clear_delete"}
    BY <1>8 DEF DeleteSelected, DeleteFile
  <2> QED
    BY <2>1 DEF Shape, Holds
<1>9. CASE CacheHit(t) \/ InvalidateList(t) \/ CacheSet(t) \/ UrlSelected(t) \/ WriteFails(t)
           \/ WriteReplyLost(t)
  BY <1>3, <1>9 DEF CacheHit, InvalidateList, CacheSet, UrlSelected, WriteFails, WriteReplyLost
<1> QED
  BY <1>3, <1>4, <1>5, <1>6, <1>7, <1>8, <1>9 DEF Step

\* An invalidation that is under way in another thread still is.
LEMMA InvalidationGoesOn ==
    ASSUME NEW t \in Threads, \A s \in Threads \ {t} : pc'[s] = pc[s] /\ op'[s] = op[s],
           NEW key \in Keys, Invalidating(key), pc[t] \notin {"inv_one", "inv_list"}
    PROVE  Invalidating(key)'
<1>1. PICK s \in Threads : /\ op[s].user = key[1]
                           /\ \/ At(s, "inv_one") /\ key[2] \in {0, op[s].id}
                              \/ At(s, "inv_list") /\ key[2] = 0
  BY DEF Invalidating
<1>2. s # t
  BY <1>1 DEF At
<1> QED
  BY <1>1, <1>2 DEF Invalidating, At

\* With the table and the cache unchanged, a step of a thread that does not end an
\* invalidation leaves the cache coherent.
LEMMA QuietStep ==
    ASSUME CacheCoherent, KnownIds, KnownKeys, UNCHANGED <<db, lastId, cache, excused>>,
           NEW t \in Threads, pc[t] \notin {"inv_one", "inv_list"},
           \A s \in Threads \ {t} : pc'[s] = pc[s] /\ op'[s] = op[s]
    PROVE  CacheCoherent' /\ KnownIds' /\ KnownKeys'
<1>1. \A key \in Keys : Fresh(key)' <=> Fresh(key)
  BY DEF Fresh, Truth
<1>2. \A key \in Keys : Invalidating(key) => Invalidating(key)'
  BY InvalidationGoesOn
<1> QED
  BY <1>1, <1>2 DEF CacheCoherent, KnownIds, KnownKeys

\* An entry that is stored is true, or its reader is marked.
LEMMA CacheSetCoherent ==
    ASSUME CoherenceInv, NEW t \in Threads, CacheSet(t)
    PROVE  CacheCoherent' /\ KnownIds' /\ KnownKeys'
<1>1. /\ Types /\ Shape(t) /\ Holds(t) /\ KnownIds /\ KnownKeys /\ CacheCoherent
      /\ cache \in [Keys -> Entries]
  BY DEF CoherenceInv, Types
<1>2. /\ pc[t] = "cache_set" /\ UNCHANGED <<db, lastId>>
      /\ \A s \in Threads \ {t} : pc'[s] = pc[s] /\ op'[s] = op[s]
  <2>1. Step(t)
    BY DEF Step
  <2> QED
    BY <1>1, <2>1, StepFrame DEF CacheSet, At
<1>3. CASE UNCHANGED <<cache, excused>>
  BY <1>1, <1>2, <1>3, QuietStep
<1>4. CASE /\ cache' = [cache EXCEPT ![KeyOf(t)] = Hit(local[t].rows)]
           /\ excused' = IF t \in overtaken THEN excused \cup {KeyOf(t)} ELSE excused \ {KeyOf(t)}
  <2>1. op[t].kind \in ReadKinds
    BY <1>1, <1>2 DEF Shape
  <2>2. KeyOf(t) \in Keys /\ Truth(KeyOf(t)) = Matching(t) /\ KeyOf(t)[2] = op[t].id
    BY <1>1, <1>2, <2>1, MatchingIsTruth
  <2>3. t \notin overtaken => local[t].rows = Matching(t)
    BY <1>1, <1>2, <2>1 DEF Holds
  <2>4. \A key \in Keys : Truth(key)' = Truth(key)
    BY <1>2 DEF Truth
  <2>5. \A key \in Keys : cache'[key] = IF key = KeyOf(t) THEN Hit(local[t].rows) ELSE cache[key]
    BY <1>1, <1>4
  <2>6. \A key \in Keys : Invalidating(key) => Invalidating(key)'
    BY <1>2, InvalidationGoesOn
  <2>7. ASSUME NEW key \in Keys PROVE Fresh(key)' \/ Invalidating(key)' \/ key \in excused'
    <3>1. CASE key # KeyOf(t)
      <4>1. key \in excused => key \in excused'
        BY <1>4, <3>1
      <4>2. Fresh(key) => Fresh(key)'
        BY <2>4, <2>5, <3>1 DEF Fresh
      <4> QED
        BY <1>1, <2>6, <4>1, <4>2 DEF CacheCoherent
    <3>2. CASE key = KeyOf(t) /\ t \in overtaken
      BY <1>4, <3>2
    <3>3. CASE key = KeyOf(t) /\ t \notin overtaken
      BY <2>2, <2>3, <2>4, <2>5, <3>3, Fields DEF Fresh
    <3> QED
      BY <3>1, <3>2, <3>3
  <2>8. op[t].kind = "get" \/ op[t].id = 0
    BY <1>1, <1>2, <2>1 DEF Shape, ReadKinds
  <2>9. KnownKeys'
    BY <1>1, <1>2, <2>2, <2>5, <2>8 DEF KnownKeys, Holds
  <2> QED
    BY <1>1, <1>2, <2>7, <2>9 DEF CacheCoherent, KnownIds
<1> QED
  BY <1>3, <1>4 DEF CacheSet

\* A DEL makes the entry it names true, or excuses it, and ends only the
\* invalidation of that entry.
LEMMA InvalidateCoherent ==
    ASSUME CoherenceInv, NEW t \in Threads, InvalidateOne(t) \/ InvalidateList(t)
    PROVE  CacheCoherent' /\ KnownIds' /\ KnownKeys'
<1>1. /\ Types /\ KnownIds /\ KnownKeys /\ CacheCoherent
      /\ cache \in [Keys -> Entries] /\ DOMAIN pc = Threads
  BY DEF CoherenceInv, Types
<1>2. Step(t)
  BY DEF Step
<1>3. \A s \in Threads \ {t} : pc'[s] = pc[s] /\ op'[s] = op[s]
  BY <1>1, <1>2, StepFrame
<1>4. \A key \in Keys : op[t].user = key[1] => key = <<op[t].user, key[2]>>
  BY DEF Keys
<1>5. PICK i : /\ Del(<<op[t].user, i>>) /\ UNCHANGED <<db, lastId>>
               /\ \/ pc[t] = "inv_one" /\ i = op[t].id /\ pc'[t] = "inv_list" /\ op'[t] = op[t]
                  \/ pc[t] = "inv_list" /\ i = 0
  <2>1. CASE InvalidateOne(t)
    BY <1>1, <1>2, <2>1 DEF InvalidateOne, At, Goto, OneKey
  <2>2. CASE InvalidateList(t)
    BY <1>1, <1>2, <2>2 DEF InvalidateList, At, ListKey
  <2> QED
    BY <2>1, <2>2
<1> DEFINE gone == <<op[t].user, i>>
<1>6. /\ \A key \in Keys : key # gone => cache'[key] = cache[key] /\ (key \in excused => key \in excused')
      /\ gone \in Keys => cache'[gone] = Miss \/ gone \in excused'
      /\ \A key \in Keys : cache'[key] = cache[key] \/ cache'[key] = Miss
  BY <1>1, <1>5 DEF Del
<1> HIDE DEF gone
<1>7. \A key \in Keys : Truth(key)' = Truth(key)
  BY <1>5 DEF Truth
<1>8. ASSUME NEW key \in Keys PROVE Fresh(key)' \/ Invalidating(key)' \/ key \in excused'
  <2>1. CASE key = gone
    BY <1>6, <2>1, Fields DEF Fresh
  <2>2. CASE key # gone /\ (Fresh(key) \/ key \in excused)
    BY <1>6, <1>7, <2>2 DEF Fresh
  <2>3. CASE Invalidating(key) /\ key # gone
    <3>1. PICK s \in Threads : /\ op[s].user = key[1]
                               /\ \/ At(s, "inv_one") /\ key[2] \in {0, op[s].id}
                                  \/ At(s, "inv_list") /\ key[2] = 0
      BY <2>3 DEF Invalidating
    <3>2. CASE s # t
      BY <1>3, <3>1, <3>2 DEF Invalidating, At
    <3>3. CASE s = t
      <4>1. pc[t] = "inv_one" /\ key[2] = 0 /\ pc'[t] = "inv_list" /\ op'[t] = op[t]
        BY <1>4, <1>5, <2>3, <3>1, <3>3 DEF At, gone
      <4> QED
        BY <3>1, <3>3, <4>1 DEF Invalidating, At
    <3> QED
      BY <3>2, <3>3
  <2> QED
    BY <1>1, <2>1, <2>2, <2>3 DEF CacheCoherent
<1>9. KnownKeys'
  BY <1>1, <1>5, <1>6, Fields DEF KnownKeys
<1> QED
  BY <1>1, <1>5, <1>8, <1>9 DEF CacheCoherent, KnownIds

\* A statement makes untrue only entries that its thread then deletes, or has to
\* leave because it does not learn of its success.
LEMMA WriteCoherent ==
    ASSUME CoherenceInv, NEW t \in Threads, Write(t) \/ WriteReplyLost(t)
    PROVE  CacheCoherent' /\ KnownIds' /\ KnownKeys'
<1>1. /\ Types /\ KnownIds /\ KnownKeys /\ CacheCoherent
      /\ DOMAIN pc = Threads /\ lastId \in Nat
  BY DEF CoherenceInv, Types
<1>2. pc[t] = "write" /\ Statement(t) /\ UNCHANGED cache
  BY <1>1 DEF Write, WriteReplyLost, At
<1>3. \A s \in Threads \ {t} : pc'[s] = pc[s] /\ op'[s] = op[s]
  BY <1>1, StepFrame DEF Step
<1>4. /\ lastId' \in Nat /\ lastId' >= lastId
      /\ \A r : r.owner # op[t].user => (r \in db' <=> r \in db)
      /\ op[t].kind = "create" => \A r : r.id # lastId + 1 => (r \in db' <=> r \in db)
      /\ op[t].kind # "create" => \A r : r.id # op[t].id => (r \in db' <=> r \in db)
      /\ \A r \in db' : r.id \in 1..lastId'
  BY <1>1, <1>2, StatementFrame DEF KnownIds
<1>5. \A key \in Keys : Truth(key)' = {r \in db' : r.owner = key[1] /\ (key[2] = 0 \/ r.id = key[2])}
  BY DEF Truth
<1>6. \A key \in Keys : key[1] = op[t].user =>
         /\ key[2] = 0 => key = ListKey(op[t].user)
         /\ key[2] = op[t].id => key = OneKey(op[t].user, op[t].id)
  BY DEF Keys, ListKey, OneKey
<1>7. \A key \in Keys : key \in excused => key \in excused'
  BY DEF Write, WriteReplyLost
<1>8. ASSUME NEW key \in Keys PROVE Fresh(key)' \/ Invalidating(key)' \/ key \in excused'
  <2>1. ASSUME Truth(key)' = Truth(key)
        PROVE  Fresh(key)' \/ Invalidating(key)' \/ key \in excused'
    <3>1. Fresh(key) => Fresh(key)'
      BY <1>2, <2>1 DEF Fresh
    <3>2. Invalidating(key) => Invalidating(key)'
      BY <1>2, <1>3, InvalidationGoesOn
    <3> QED
      BY <1>1, <1>7, <3>1, <3>2 DEF CacheCoherent
  <2>2. CASE key[1] # op[t].user
    BY <1>4, <1>5, <2>1, <2>2 DEF Truth
  <2>3. CASE /\ key[1] = op[t].user
             /\ key[2] = 0 \/ (op[t].kind # "create" /\ key[2] = op[t].id)
    <3>1. CASE Write(t)
      <4>1. op' = op /\ pc'[t] = IF op[t].kind = "create" THEN "inv_list" ELSE "inv_one"
        BY <1>1, <3>1 DEF Write, Goto
      <4> QED
        BY <2>3, <4>1 DEF Invalidating, At
    <3>2. CASE WriteReplyLost(t)
      <4>1. key \in Touched(t)
        BY <1>6, <2>3 DEF Touched
      <4> QED
        BY <3>2, <4>1 DEF WriteReplyLost
    <3> QED
      BY <3>1, <3>2
  <2>4. CASE key[2] # 0 /\ op[t].kind = "create" /\ key[2] = lastId + 1
    <3>1. ~cache[key].hit
      BY <1>1, <2>4 DEF KnownKeys
    <3> QED
      BY <1>2, <3>1 DEF Fresh
  <2>5. CASE key[2] # 0 /\ key[2] # (IF op[t].kind = "create" THEN lastId + 1 ELSE op[t].id)
    BY <1>4, <1>5, <2>1, <2>5 DEF Truth
  <2> QED
    BY <2>2, <2>3, <2>4, <2>5
<1>9. KnownKeys'
  BY <1>1, <1>2, <1>4 DEF KnownKeys
<1> QED
  BY <1>4, <1>8, <1>9 DEF CacheCoherent, KnownIds

\* Every step of a handler leaves the cache coherent.
LEMMA StepCoherent ==
    ASSUME CoherenceInv, NEW t \in Threads, Step(t)
    PROVE  CacheCoherent' /\ KnownIds' /\ KnownKeys'
<1>1. /\ Types /\ KnownIds /\ KnownKeys /\ CacheCoherent
  BY DEF CoherenceInv
<1>2. \A s \in Threads \ {t} : pc'[s] = pc[s] /\ op'[s] = op[s]
  BY <1>1, StepFrame
<1>3. CASE UNCHANGED <<db, lastId, cache, excused>> /\ pc[t] \notin {"inv_one", "inv_list"}
  BY <1>1, <1>2, <1>3, QuietStep
<1>4. CASE CacheHit(t) \/ CacheMiss(t) \/ Clear(t) \/ Select(t) \/ SelectFails(t)
  BY <1>3, <1>4 DEF CacheHit, CacheMiss, Clear, Select, SelectFails, At, history
<1>5. CASE ListSelected(t) \/ GetSelected(t) \/ UrlSelected(t) \/ DeleteSelected(t)
  BY <1>3, <1>5 DEF ListSelected, GetSelected, UrlSelected, DeleteSelected, At, history
<1>6. CASE DeleteFile(t) \/ ClearDelete(t) \/ WriteFails(t)
  BY <1>3, <1>6 DEF DeleteFile, ClearDelete, WriteFails, At, history
<1> QED
  BY <1>4, <1>5, <1>6, CacheSetCoherent, InvalidateCoherent, WriteCoherent DEF Step

\* Every step keeps the invariant.
LEMMA CoherenceNext == CoherenceInv /\ [Next]_vars => CoherenceInv'
<1> SUFFICES ASSUME CoherenceInv, [Next]_vars PROVE CoherenceInv'
  OBVIOUS
<1>1. /\ Types /\ Types' /\ KnownIds /\ KnownKeys /\ CacheCoherent
      /\ \A t \in Threads : Shape(t) /\ Holds(t)
  BY TypesInv DEF CoherenceInv
<1>2. ASSUME NEW t \in Threads, NEW k \in Kinds, NEW u \in Users, NEW i \in 0..MaxId,
             Start(t, k, u, i)
      PROVE  CoherenceInv'
  <2>1. /\ pc[t] = "idle" /\ UNCHANGED <<db, lastId, cache, local>>
        /\ pc'[t] = IF k \in ReadKinds THEN "cache_get" ELSE "clear"
        /\ op'[t].kind = k /\ op'[t].user = u /\ op'[t].id = i
        /\ \A s \in Threads \ {t} : pc'[s] = pc[s] /\ op'[s] = op[s]
    BY <1>1, <1>2, StartFrame
  <2>2. (k \in {"list", "create"} <=> i = 0) /\ UNCHANGED <<overtaken, excused>>
    BY <1>2 DEF Start, history
  <2>3. CacheCoherent' /\ KnownIds' /\ KnownKeys'
    BY <1>1, <2>1, <2>2, QuietStep
  <2>4. Shape(t)' /\ Holds(t)'
    BY <2>1, <2>2 DEF Shape, Holds
  <2>5. ASSUME NEW s \in Threads \ {t} PROVE Shape(s)' /\ Holds(s)'
    BY <1>1, <2>1, <2>2 DEF Shape, Holds, Matching, AsksFor
  <2> QED
    BY <1>1, <2>3, <2>4, <2>5 DEF CoherenceInv
<1>3. ASSUME NEW t \in Threads, Step(t)
      PROVE  CoherenceInv'
  <2>1. CacheCoherent' /\ KnownIds' /\ KnownKeys'
    BY <1>3, StepCoherent
  <2>2. \A s \in Threads : Shape(s)' /\ Holds(s)'
    BY <1>3, StepHolds, OthersHold
  <2> QED
    BY <1>1, <2>1, <2>2 DEF CoherenceInv
<1>4. ASSUME NEW key \in Keys, Expire(key) PROVE CoherenceInv'
  <2>1. /\ UNCHANGED <<db, lastId, pc, op, local, overtaken>>
        /\ cache' = [cache EXCEPT ![key] = Miss] /\ excused' = excused \ {key}
    BY <1>4 DEF Expire
  <2>2. /\ \A k \in Keys : cache'[k] = cache[k] \/ cache'[k] = Miss
        /\ cache'[key] = Miss
    BY <1>1, <2>1 DEF Types
  <2>3. \A k \in Keys : Truth(k)' = Truth(k) /\ (Invalidating(k) => Invalidating(k)')
    BY <2>1 DEF Truth, Invalidating, At
  <2>4. CacheCoherent' /\ KnownKeys'
    BY <1>1, <2>1, <2>2, <2>3, Fields DEF CacheCoherent, Fresh, KnownKeys
  <2>5. KnownIds' /\ \A s \in Threads : Shape(s)' /\ Holds(s)'
    BY <1>1, <2>1 DEF KnownIds, Shape, Holds, Matching, AsksFor
  <2> QED
    BY <1>1, <2>4, <2>5 DEF CoherenceInv
<1>5. CASE UNCHANGED vars
  <2>1. UNCHANGED <<db, lastId, cache, pc, op, local, overtaken, excused>>
    BY <1>5 DEF vars, history
  <2>2. CacheCoherent'
    BY <1>1, <2>1 DEF CacheCoherent, Fresh, Truth, Invalidating, At
  <2>3. KnownKeys' /\ KnownIds' /\ \A s \in Threads : Shape(s)' /\ Holds(s)'
    BY <1>1, <2>1 DEF KnownKeys, KnownIds, Shape, Holds, Matching, AsksFor
  <2> QED
    BY <1>1, <2>2, <2>3 DEF CoherenceInv
<1> QED
  BY <1>2, <1>3, <1>4, <1>5 DEF Next

\* An entry of the cache that disagrees with the table has one of the named reasons:
\* with any number of workers that share ResourceDAO::msg, processes, overlapping
\* requests of one user, and whatever statements and commands fail.
THEOREM CacheStaysCoherent == SafetySpec => []CacheCoherent
<1>1. Init => CoherenceInv
  <2> SUFFICES ASSUME Init PROVE CoherenceInv
    OBVIOUS
  <2>1. db = {} /\ cache = [k \in Keys |-> Miss] /\ pc = [t \in Threads |-> "idle"]
    BY DEF Init
  <2>2. KnownIds /\ KnownKeys /\ CacheCoherent
    BY <2>1, Fields DEF KnownIds, KnownKeys, CacheCoherent, Fresh
  <2>3. \A t \in Threads : Shape(t) /\ Holds(t)
    BY <2>1 DEF Shape, Holds
  <2> QED
    BY <2>2, <2>3, InitTypes DEF CoherenceInv
<1>2. CoherenceInv => CacheCoherent
  BY DEF CoherenceInv
<1> QED
  BY <1>1, <1>2, CoherenceNext, PTL DEF SafetySpec
=============================================================================
