--------------------------- MODULE ResourceService ---------------------------
(***************************************************************************)
(* The resource handlers of src/src/service/resource_service.cpp with the  *)
(* DAO and the read-through cache below them, run by the worker threads of *)
(* one or several backend processes against one database and one Redis.    *)
(*                                                                         *)
(* Each call that leaves the thread (a Redis command, a statement, a       *)
(* request to the object store) and each access to the static string       *)
(* ResourceDAO::msg is one action.  A row's title and content are a        *)
(* version number; what StorageService does is only whether it succeeds.   *)
(***************************************************************************)
EXTENDS Integers, FiniteSets

CONSTANTS
    Threads,
    Backend,       \* the process each thread belongs to
    Users,
    MaxId,         \* bound: rows ever inserted
    MaxWrites,     \* bound: inserts, updates and deletes started
    MaxFaults,     \* bound: failing statements and Redis commands
    FaultKinds     \* what may fail

ASSUME ServiceAssumption ==
    /\ IsFiniteSet(Threads) /\ IsFiniteSet(Users)
    /\ {MaxId, MaxWrites, MaxFaults} \subseteq Nat
    /\ FaultKinds \subseteq {"redis", "statement", "reply"}
    /\ DOMAIN Backend = Threads

VARIABLES
    db,        \* the table resources
    lastId,    \* its id sequence
    cache,     \* what Redis holds under each key
    msg,       \* ResourceDAO::msg of each process is not empty
    pc, op,    \* where each thread is, and the request it handles
    local,     \* what its statement returned
    writes, faults,
    \* history
    overtaken, \* threads whose rows are not the table's: their SELECT failed,
               \* or a statement has changed the rows since
    excused    \* keys whose entry may be stale: see CacheCoherent

history == <<overtaken, excused>>
vars    == <<db, lastId, cache, msg, pc, op, local, writes, faults, history>>

Ids       == 1..MaxId
Processes == {Backend[t] : t \in Threads}
Rows      == [id : Ids, owner : Users, is_file : BOOLEAN, ver : 0..MaxWrites]

\* resource_key() and resources_key(); id 0 stands for the list.
Keys          == Users \X (Ids \cup {0})
OneKey(u, id) == <<u, id>>
ListKey(u)    == <<u, 0>>

Miss    == [hit |-> FALSE, rows |-> {}]
Hit(rs) == [hit |-> TRUE, rows |-> rs]

Failed    == [ok |-> FALSE, rows |-> {}]
Found(rs) == [ok |-> TRUE, rows |-> rs]

ReadKinds  == {"list", "get"}
WriteKinds == {"create", "update", "delete"}
Kinds      == ReadKinds \cup WriteKinds \cup {"url"}

NoOp == [kind |-> "list", user |-> CHOOSE u \in Users : TRUE, id |-> 0, ver |-> 0]

Init ==
    /\ db = {}
    /\ lastId = 0
    /\ cache = [k \in Keys |-> Miss]
    /\ msg = [p \in Processes |-> FALSE]
    /\ pc = [t \in Threads |-> "idle"]
    /\ op = [t \in Threads |-> NoOp]
    /\ local = [t \in Threads |-> Failed]
    /\ writes = 0
    /\ faults = 0
    /\ overtaken = {} /\ excused = {}

-----------------------------------------------------------------------------
At(t, label)   == pc[t] = label
Goto(t, label) == pc' = [pc EXCEPT ![t] = label]

\* The handler returns, with an error, a status or the rows it has; its
\* local state is gone.
Reply(t) ==
    /\ pc' = [pc EXCEPT ![t] = "idle"]
    /\ op' = [op EXCEPT ![t] = NoOp]
    /\ local' = [local EXCEPT ![t] = Failed]

Continue(t, label) == Goto(t, label) /\ UNCHANGED <<op, local>>

SetMsg(t, b) == msg' = [msg EXCEPT ![Backend[t]] = b]
Return(t, r) == local' = [local EXCEPT ![t] = r]

\* "redis": a command gets no reply; "statement": PostgreSQL refuses or never
\* sees a statement; "reply": it executes one and the result is lost.
Fault(kind) ==
    /\ kind \in FaultKinds
    /\ faults < MaxFaults
    /\ faults' = faults + 1

KeyOf(t) == IF op[t].kind = "list" THEN ListKey(op[t].user)
                                   ELSE OneKey(op[t].user, op[t].id)

\* A request arrives at an idle thread.  The number of a write stands for the
\* title and content it carries.
Start(t, k, u, i) ==
    /\ At(t, "idle")
    /\ k \in {"list", "create"} <=> i = 0
    /\ k \in WriteKinds => writes < MaxWrites
    /\ k = "create" => lastId + Cardinality({s \in Threads : op[s].kind = "create"}) < MaxId
    /\ writes' = IF k \in WriteKinds THEN writes + 1 ELSE writes
    /\ op' = [op EXCEPT ![t] = [kind |-> k, user |-> u, id |-> i,
                                ver |-> IF k \in WriteKinds THEN writes + 1 ELSE 0]]
    /\ Goto(t, IF k \in ReadKinds THEN "cache_get" ELSE "clear")
    /\ UNCHANGED <<db, lastId, cache, msg, local, faults, history>>

-----------------------------------------------------------------------------
(* ResourceCache *)

\* get_resource(s): a hit is the answer; a miss, or a Redis that does not
\* answer, leads to the database.
CacheHit(t) ==
    /\ At(t, "cache_get")
    /\ cache[KeyOf(t)].hit
    /\ Reply(t)
    /\ UNCHANGED <<db, lastId, cache, msg, writes, faults, history>>

CacheMiss(t) ==
    /\ At(t, "cache_get")
    /\ \/ ~cache[KeyOf(t)].hit /\ UNCHANGED faults
       \/ Fault("redis")
    /\ Goto(t, "clear")
    /\ UNCHANGED <<db, lastId, cache, msg, op, local, writes, history>>

\* set_resource(s), then the answer.
CacheSet(t) ==
    /\ At(t, "cache_set")
    /\ \/ /\ cache' = [cache EXCEPT ![KeyOf(t)] = Hit(local[t].rows)]
          /\ excused' = IF t \in overtaken THEN excused \cup {KeyOf(t)} ELSE excused \ {KeyOf(t)}
          /\ UNCHANGED faults
       \/ Fault("redis") /\ UNCHANGED <<cache, excused>>
    /\ Reply(t)
    /\ UNCHANGED <<db, lastId, msg, writes, overtaken>>

\* One DEL; its failure is only logged.
Del(key) ==
    \/ /\ cache' = [cache EXCEPT ![key] = Miss]
       /\ excused' = excused \ {key}
       /\ UNCHANGED faults
    \/ /\ Fault("redis")
       /\ excused' = excused \cup {key}
       /\ UNCHANGED cache

InvalidateOne(t) ==
    /\ At(t, "inv_one")
    /\ Del(OneKey(op[t].user, op[t].id))
    /\ Goto(t, "inv_list")
    /\ UNCHANGED <<db, lastId, msg, op, local, writes, overtaken>>

InvalidateList(t) ==
    /\ At(t, "inv_list")
    /\ Del(ListKey(op[t].user))
    /\ Reply(t)
    /\ UNCHANGED <<db, lastId, msg, writes, overtaken>>

\* Mutant: the entries are stored without a time to live.
ExpireNever(key) == FALSE /\ UNCHANGED vars

\* The time to live given by SETEX runs out.
Expire(key) ==
    /\ cache[key].hit
    /\ cache' = [cache EXCEPT ![key] = Miss]
    /\ excused' = excused \ {key}
    /\ UNCHANGED <<db, lastId, msg, pc, op, local, writes, faults, overtaken>>

-----------------------------------------------------------------------------
(* ResourceDAO *)

\* msg.clear() at the head of every DAO function.
Clear(t) ==
    /\ At(t, "clear")
    /\ SetMsg(t, FALSE)
    /\ Goto(t, IF op[t].kind \in WriteKinds \ {"delete"} THEN "write" ELSE "select")
    /\ UNCHANGED <<db, lastId, cache, op, local, writes, faults, history>>

\* Mutant: the statement forgets user_id=$1.
AsksForAnyOwner(t, r) == op[t].kind = "list" \/ r.id = op[t].id

\* WHERE user_id=$1, with AND id=$2 unless the list is asked for.
AsksFor(t, r) == r.owner = op[t].user /\ (op[t].kind = "list" \/ r.id = op[t].id)

Matching(t) == {r \in db : AsksFor(t, r)}

\* The SELECT of get_resources() and get_resource(), which calls an empty
\* result an error.
Select(t) ==
    /\ At(t, "select")
    /\ IF op[t].kind = "list" \/ Matching(t) # {}
       THEN Return(t, Found(Matching(t))) /\ UNCHANGED msg
       ELSE Return(t, Failed) /\ SetMsg(t, TRUE)
    /\ overtaken' = overtaken \ {t}
    /\ Goto(t, "selected")
    /\ UNCHANGED <<db, lastId, cache, op, writes, faults, excused>>

SelectFails(t) ==
    /\ At(t, "select")
    /\ Fault("statement")
    /\ Return(t, Failed)
    /\ SetMsg(t, TRUE)
    /\ overtaken' = overtaken \cup {t}
    /\ Goto(t, "selected")
    /\ UNCHANGED <<db, lastId, cache, op, writes, excused>>

\* The service layer after the SELECT.  get_resources() decides by the
\* static message whether its query failed, ...
ListSelected(t) ==
    /\ At(t, "selected") /\ op[t].kind = "list"
    /\ IF msg[Backend[t]]
       THEN Reply(t)
       ELSE Continue(t, "cache_set")
    /\ UNCHANGED <<db, lastId, cache, msg, writes, faults, history>>

\* Mutant: get_resource() retries until the row is there.
GetSelectedRetries(t) ==
    /\ At(t, "selected") /\ op[t].kind = "get"
    /\ Continue(t, IF local[t].ok THEN "cache_set" ELSE "clear")
    /\ UNCHANGED <<db, lastId, cache, msg, writes, faults, history>>

\* ... the others by the optional they got.
GetSelected(t) ==
    /\ At(t, "selected") /\ op[t].kind = "get"
    /\ IF local[t].ok
       THEN Continue(t, "cache_set")
       ELSE Reply(t)
    /\ UNCHANGED <<db, lastId, cache, msg, writes, faults, history>>

\* get_file_download_url() answers with an error or with what StorageService
\* signs; nothing is stored.
UrlSelected(t) ==
    /\ At(t, "selected") /\ op[t].kind = "url"
    /\ Reply(t)
    /\ UNCHANGED <<db, lastId, cache, msg, writes, faults, history>>

DeleteSelected(t) ==
    /\ At(t, "selected") /\ op[t].kind = "delete"
    /\ IF ~local[t].ok
       THEN Reply(t)
       ELSE Continue(t, IF \E r \in local[t].rows : r.is_file THEN "storage" ELSE "clear_delete")
    /\ UNCHANGED <<db, lastId, cache, msg, writes, faults, history>>

\* StorageService::delete_file() returns true or, for any reason, false.
DeleteFile(t) ==
    /\ At(t, "storage")
    /\ \/ Continue(t, "clear_delete")
       \/ Reply(t)
    /\ UNCHANGED <<db, lastId, cache, msg, writes, faults, history>>

ClearDelete(t) ==
    /\ At(t, "clear_delete")
    /\ SetMsg(t, FALSE)
    /\ Goto(t, "write")
    /\ UNCHANGED <<db, lastId, cache, op, local, writes, faults, history>>

\* What INSERT, UPDATE and DELETE do to the table; only rows of the user's
\* are updated or deleted, and is_file never changes.
Insert(t) ==
    /\ op[t].kind = "create"
    /\ \E f \in BOOLEAN :
          db' = db \cup {[id |-> lastId + 1, owner |-> op[t].user, is_file |-> f, ver |-> op[t].ver]}
    /\ lastId' = lastId + 1

Update(t) ==
    /\ op[t].kind = "update"
    /\ Matching(t) # {}
    /\ db' = (db \ Matching(t)) \cup {[r EXCEPT !.ver = op[t].ver] : r \in Matching(t)}
    /\ UNCHANGED lastId

Delete(t) ==
    /\ op[t].kind = "delete"
    /\ Matching(t) # {}
    /\ db' = db \ Matching(t)
    /\ UNCHANGED lastId

Statement(t) ==
    /\ Insert(t) \/ Update(t) \/ Delete(t)
    /\ overtaken' = overtaken \cup {s \in Threads : /\ At(s, "selected") \/ At(s, "cache_set")
                                                  /\ {r \in db' : AsksFor(s, r)} # Matching(s)}

\* The entries that a write should drop.
Touched(t) == {ListKey(op[t].user)} \cup
              {key \in {OneKey(op[t].user, op[t].id)} : op[t].kind # "create"}

\* Mutant: only the list's entry is dropped.
WriteInvalidatesListOnly(t) ==
    /\ At(t, "write")
    /\ Statement(t)
    /\ Goto(t, "inv_list")
    /\ UNCHANGED <<cache, msg, op, local, writes, faults, excused>>

\* The statement succeeds; a new row has no entry of its own to drop.
Write(t) ==
    /\ At(t, "write")
    /\ Statement(t)
    /\ Goto(t, IF op[t].kind = "create" THEN "inv_list" ELSE "inv_one")
    /\ UNCHANGED <<cache, msg, op, local, writes, faults, excused>>

\* The statement affects no row, or fails: an error, and no invalidation.
WriteFails(t) ==
    /\ At(t, "write")
    /\ \/ op[t].kind \in {"update", "delete"} /\ Matching(t) = {} /\ UNCHANGED faults
       \/ Fault("statement")
    /\ SetMsg(t, TRUE)
    /\ Reply(t)
    /\ UNCHANGED <<db, lastId, cache, writes, history>>

\* The connection breaks after the commit: the DAO reports a failure of what
\* has happened, and nothing is invalidated.
WriteReplyLost(t) ==
    /\ At(t, "write")
    /\ Statement(t)
    /\ Fault("reply")
    /\ SetMsg(t, TRUE)
    /\ Reply(t)
    /\ excused' = excused \cup Touched(t)
    /\ UNCHANGED <<cache, writes>>

-----------------------------------------------------------------------------
Step(t) ==
    \/ CacheHit(t) \/ CacheMiss(t) \/ CacheSet(t)
    \/ InvalidateOne(t) \/ InvalidateList(t)
    \/ Clear(t) \/ Select(t) \/ SelectFails(t)
    \/ ListSelected(t) \/ GetSelected(t) \/ UrlSelected(t) \/ DeleteSelected(t)
    \/ DeleteFile(t) \/ ClearDelete(t)
    \/ Write(t) \/ WriteFails(t) \/ WriteReplyLost(t)

Next ==
    \/ \E t \in Threads, k \in Kinds, u \in Users, i \in 0..MaxId : Start(t, k, u, i)
    \/ \E t \in Threads : Step(t)
    \/ \E key \in Keys : Expire(key)

SafetySpec == Init /\ [][Next]_vars

\* A thread goes on with the request it handles, and Redis drops an entry
\* whose time is over.  No request is assumed to come.
Spec ==
    /\ SafetySpec
    /\ \A t \in Threads : WF_vars(Step(t))
    /\ \A key \in Keys : WF_vars(Expire(key))

-----------------------------------------------------------------------------
(* Properties *)

\* Type invariant of the service.
TypeOK ==
    /\ db \subseteq Rows
    /\ lastId \in 0..MaxId
    /\ cache \in [Keys -> [hit : BOOLEAN, rows : SUBSET Rows]]
    /\ \A key \in Keys :
          cache[key].hit /\ key[2] # 0 => \E r \in Rows : cache[key].rows = {r} /\ r.id = key[2]
    /\ msg \in [Processes -> BOOLEAN]
    /\ pc \in [Threads -> {"idle", "cache_get", "clear", "select", "selected", "cache_set",
                           "storage", "clear_delete", "write", "inv_one", "inv_list"}]
    /\ op \in [Threads -> [kind : Kinds, user : Users, id : 0..MaxId, ver : 0..MaxWrites]]
    /\ local \in [Threads -> [ok : BOOLEAN, rows : SUBSET Rows]]
    /\ writes \in 0..MaxWrites
    /\ faults \in 0..MaxFaults
    /\ overtaken \subseteq Threads /\ excused \subseteq Keys

\* What an entry of the cache should say.
Truth(key) ==
    {r \in db : r.owner = key[1] /\ (key[2] = 0 \/ r.id = key[2])}

Fresh(key) == cache[key].hit => cache[key].rows = Truth(key)

Invalidating(key) ==
    \E t \in Threads :
        /\ op[t].user = key[1]
        /\ \/ At(t, "inv_one") /\ key[2] \in {0, op[t].id}
           \/ At(t, "inv_list") /\ key[2] = 0

\* The cache agrees with the table, in every interleaving of overlapping
\* requests and whatever fails, but for the entries there is a reason for: a
\* thread is about to delete it for the write it has just made; its DEL failed;
\* the result of a write was lost; or it was stored by a reader whose rows a
\* write has overtaken, or whose SELECT failed.
CacheCoherent ==
    \A key \in Keys : Fresh(key) \/ Invalidating(key) \/ key \in excused

\* Users see their own rows only: in what a handler is about to answer and in
\* every entry of the cache, also while rows come and go under the requests of
\* other users and statements fail.
OwnerIsolation ==
    /\ \A t \in Threads : \A r \in local[t].rows : r.owner = op[t].user
    /\ \A key \in Keys : \A r \in cache[key].rows : r.owner = key[1]

\* Once the writes and the faults have stopped, the cache agrees with the
\* table for good: whatever stale entry they left runs out.
EventuallyFresh == <>[](\A key \in Keys : Fresh(key))

\* Every request gets an answer, whatever fails.
RequestIsAnswered == \A t \in Threads : (pc[t] # "idle") ~> (pc[t] = "idle")

\* "Returns all resources for a user as a JSON array"
\* (src/src/service/resource_service.cpp:70): a list that is answered, and put
\* into the cache, is one that the database returned.
ListIsFromDatabase ==
    \A t \in Threads : At(t, "cache_set") => local[t].ok
=============================================================================
