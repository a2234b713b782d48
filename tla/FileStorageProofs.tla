-------------------------- MODULE FileStorageProofs --------------------------
(***************************************************************************)
(* The safety properties of FileStorage, proved for every number of users, *)
(* filenames, uploads, rows, endpoints and deleting threads, and whatever  *)
(* sanitize_filename() maps onto one name.                                 *)
(***************************************************************************)
EXTENDS FileStorage, TLAPS

Uploads == {[user |-> k.user, millis |-> k.millis, name |-> k.name, key |-> k] : k \in Keys}

\* The types the proofs need.
Types ==
    /\ endpoint \in Endpoints
    /\ uploads \in Seq(Uploads)
    /\ store \in [Keys -> Nat]
    /\ content \in Seq(Contents) /\ carried \in Seq(SUBSET Keys)
    /\ Len(carried) = Len(content)
    /\ arrived \subseteq UploadIds /\ gone \subseteq Rows /\ wanted \subseteq Rows
    /\ removed \subseteq Keys
    /\ deletePc \in [Deleters -> {"idle", "remove", "delete"}]
    /\ DOMAIN deleteRow = Deleters /\ deleteUrl \in [Deleters -> Contents]

\* A row has carried the URL it carries.
CarriesContent == \A r \in Rows : KeysOf(content[r]) \subseteq carried[r]

\* Bytes are under the key of the upload that put them there.
StoredUnderKey ==
    \A k \in Keys : store[k] # 0 => store[k] \in arrived /\ uploads[store[k]].key = k

\* A delete is under way for a row somebody wants deleted, with a URL that row has
\* carried, and deletes the row only when that URL's object has been removed.
RequestsAreOfRows ==
    \A d \in Deleters : deletePc[d] # "idle" =>
        /\ deleteRow[d] \in wanted
        /\ KeysOf(deleteUrl[d]) \subseteq carried[deleteRow[d]]
        /\ deletePc[d] = "delete" => KeysOf(deleteUrl[d]) \cap removed # {}

\* A row goes only after an object whose URL it has carried.
GoneIsRemoved == \A r \in gone : carried[r] \cap removed # {}

\* What a delete has removed is gone until it is put again.
RemovedIsEmpty == \A k \in removed : store[k] = 0 \/ k \in late

\* A delete removes only what a row carried whose delete was asked for.
RemovedWasAsked == \A k \in removed : DeleteAsked(k)

\* The bytes of an upload stay where they are until a delete removes them.
OwnBytes ==
    \A u \in arrived :
        ~SameMoment(u) => store[uploads[u].key] = u \/ uploads[u].key \in removed

\* The inductive invariant.
FilesInv ==
    /\ Types
    /\ CarriesContent
    /\ StoredUnderKey
    /\ RequestsAreOfRows
    /\ GoneIsRemoved
    /\ RemovedIsEmpty
    /\ RemovedWasAsked
    /\ OwnBytes

-----------------------------------------------------------------------------
(* Uploads, rows and their keys *)

\* What is known of every upload and every row.
LEMMA UploadFacts ==
    ASSUME Types
    PROVE  /\ UploadIds = 1..Len(uploads) /\ Len(uploads) \in Nat
           /\ Rows = 1..Len(content) /\ Len(content) \in Nat /\ DOMAIN carried = Rows
           /\ \A u \in UploadIds : uploads[u] \in Uploads /\ u \in Nat /\ u # 0
           /\ \A r \in Rows : content[r] \in Contents /\ carried[r] \in SUBSET Keys
<1>1. /\ uploads \in Seq(Uploads) /\ content \in Seq(Contents) /\ carried \in Seq(SUBSET Keys)
      /\ Len(carried) = Len(content)
  BY DEF Types
<1> HIDE DEF Uploads, Contents, Keys
<1> QED
  BY <1>1 DEF UploadIds, Rows

\* A content that is a URL is the URL of a key.
LEMMA KeysOfContent ==
    ASSUME NEW c \in Contents
    PROVE  /\ KeysOf(c) \in SUBSET Keys
           /\ c # EmptyContent => c.key \in Keys /\ KeysOf(c) = {c.key}
BY DEF Contents, KeysOf, PublicUrl

\* An upload's key says who uploaded what when.
LEMMA KeyFields ==
    ASSUME NEW r \in Uploads
    PROVE  /\ r.key \in Keys
           /\ r.user = r.key.user /\ r.millis = r.key.millis /\ r.name = r.key.name
BY DEF Uploads

\* Only uploads of the same moment share a key.
LEMMA KeyIsUnique ==
    ASSUME Types, NEW u \in UploadIds, NEW v \in UploadIds, u # v,
           uploads[u].key = uploads[v].key
    PROVE  SameMoment(u)
BY UploadFacts, KeyFields DEF SameMoment

\* ObjectKey() gives a key, and the upload made of it is one.
LEMMA NewUpload ==
    ASSUME NEW u \in Users, NEW t \in 0..MaxMillis, NEW f \in Filenames, Accepted(f)
    PROVE  LET k == ObjectKey(u, t, f)
               r == [user |-> u, millis |-> t, name |-> Clean[f], key |-> k]
           IN  k \in Keys /\ r \in Uploads /\ r.key = k
<1>1. Clean[f] \in CleanNames
  BY DEF CleanNames, Accepted
<1> DEFINE k == ObjectKey(u, t, f)
<1>2. k \in Keys /\ k.user = u /\ k.millis = t /\ k.name = Clean[f]
  BY <1>1 DEF ObjectKey, Keys
<1> HIDE DEF k
<1>3. [user |-> k.user, millis |-> k.millis, name |-> k.name, key |-> k] \in Uploads
  BY <1>2 DEF Uploads
<1>4. [user |-> u, millis |-> t, name |-> Clean[f], key |-> k] \in Uploads
  BY <1>2, <1>3
<1> QED
  BY <1>2, <1>4 DEF k

\* Appending to a sequence keeps what it had.
LEMMA Appended ==
    ASSUME NEW S, NEW s \in Seq(S), NEW e \in S
    PROVE  /\ Append(s, e) \in Seq(S) /\ Len(Append(s, e)) = Len(s) + 1
           /\ \A i \in 1..Len(s) : Append(s, e)[i] = s[i]
           /\ Append(s, e)[Len(s) + 1] = e
OBVIOUS

-----------------------------------------------------------------------------
(* The steps of uploads and rows *)

\* A new upload disturbs none of the earlier ones.
LEMMA CreateKeeps ==
    ASSUME FilesInv, NEW x \in Users, NEW t \in 0..MaxMillis, NEW f \in Filenames,
           CreateUploadUrl(x, t, f)
    PROVE  FilesInv'
<1> DEFINE n == Len(uploads) + 1
<1>0. FilesInv /\ Types
  BY DEF FilesInv
<1>1. PICK r \in Uploads :
        /\ uploads' = Append(uploads, r)
        /\ UNCHANGED <<endpoint, store, rowVars, deleteVars, arrived, wanted, removed, late>>
  BY NewUpload DEF CreateUploadUrl
<1>2. UNCHANGED <<endpoint, store, content, gone, carried, deletePc, deleteRow, deleteUrl,
                  arrived, wanted, removed, late>>
  BY <1>1 DEF rowVars, deleteVars
<1>3. /\ uploads' \in Seq(Uploads) /\ Len(uploads') = n
      /\ \A i \in UploadIds : uploads'[i] = uploads[i]
  BY <1>0, <1>1, Appended, UploadFacts DEF Types
<1>4. UploadIds' = UploadIds \cup {n} /\ Rows' = Rows
  <2>1. UploadIds' = 1..n
    BY <1>3 DEF UploadIds
  <2> QED
    BY <1>0, <1>2, <2>1, UploadFacts DEF Rows
<1>5. Types'
  BY <1>0, <1>2, <1>3, <1>4 DEF Types
<1>6. arrived \subseteq UploadIds
  BY <1>0 DEF Types
<1> HIDE DEF n
<1>7. CarriesContent' /\ RequestsAreOfRows' /\ GoneIsRemoved' /\ RemovedIsEmpty' /\ RemovedWasAsked'
  BY <1>0, <1>2, <1>4 DEF FilesInv, CarriesContent, RequestsAreOfRows, GoneIsRemoved,
     RemovedIsEmpty, RemovedWasAsked, DeleteAsked
<1>8. StoredUnderKey'
  BY <1>0, <1>2, <1>3, <1>6 DEF FilesInv, StoredUnderKey
<1>9. OwnBytes'
  <2> SUFFICES ASSUME NEW u \in arrived, ~SameMoment(u)'
               PROVE  store[uploads'[u].key] = u \/ uploads'[u].key \in removed
    BY <1>2 DEF OwnBytes
  <2>1. ~SameMoment(u)
    BY <1>3, <1>4, <1>6 DEF SameMoment
  <2> QED
    BY <1>0, <1>3, <1>6, <2>1 DEF FilesInv, OwnBytes
<1> QED
  BY <1>5, <1>7, <1>8, <1>9 DEF FilesInv

\* A PUT puts the bytes under the upload's own key and disturbs only uploads that
\* share it.
LEMMA PutKeeps ==
    ASSUME FilesInv, NEW u \in UploadIds, PutObject(u)
    PROVE  FilesInv'
<1> DEFINE key == uploads[u].key
<1>0. Types /\ u \in Nat /\ u # 0 /\ key \in Keys
  BY UploadFacts, KeyFields DEF FilesInv
<1>1. /\ store' = [store EXCEPT ![key] = u]
      /\ arrived' = arrived \cup {u}
      /\ late' = IF key \in removed THEN late \cup {key} ELSE late
      /\ UNCHANGED <<endpoint, uploads, content, gone, carried, deletePc, deleteRow, deleteUrl,
                     wanted, removed>>
      /\ UploadIds' = UploadIds /\ Rows' = Rows
  BY DEF PutObject, rowVars, deleteVars, UploadIds, Rows
<1>2. \A k \in Keys : store'[k] = IF k = key THEN u ELSE store[k]
  BY <1>0, <1>1 DEF Types
<1> HIDE DEF key
<1>3. Types'
  BY <1>0, <1>1 DEF Types
<1>4. CarriesContent' /\ RequestsAreOfRows' /\ GoneIsRemoved' /\ RemovedWasAsked'
  BY <1>1 DEF FilesInv, CarriesContent, RequestsAreOfRows, GoneIsRemoved, RemovedWasAsked, DeleteAsked
<1>5. RemovedIsEmpty'
  BY <1>0, <1>1, <1>2 DEF FilesInv, RemovedIsEmpty, Types
<1>6. StoredUnderKey'
  BY <1>1, <1>2 DEF FilesInv, StoredUnderKey, key
<1>7. OwnBytes'
  <2> SUFFICES ASSUME NEW v \in arrived', ~SameMoment(v)'
               PROVE  store'[uploads[v].key] = v \/ uploads[v].key \in removed
    BY <1>1 DEF OwnBytes
  <2>1. ~SameMoment(v) /\ v \in UploadIds /\ uploads[v].key \in Keys
    BY <1>0, <1>1, UploadFacts, KeyFields DEF SameMoment, Types
  <2>2. CASE v = u
    BY <1>0, <1>2, <2>2 DEF key
  <2>3. CASE v # u
    <3>1. uploads[v].key # key
      BY <1>0, <2>1, <2>3, KeyIsUnique DEF key
    <3> QED
      BY <1>1, <1>2, <2>1, <2>3, <3>1 DEF FilesInv, OwnBytes
  <2> QED
    BY <2>2, <2>3
<1> QED
  BY <1>3, <1>4, <1>5, <1>6, <1>7 DEF FilesInv

\* Rows only ever carry more, so what holds of the keys they have carried stays.
LEMMA RowsKeep ==
    ASSUME FilesInv, Types', CarriesContent', Rows \subseteq Rows',
           \A r \in Rows : carried[r] \subseteq carried'[r],
           UNCHANGED <<endpoint, uploads, store, gone, deleteVars, arrived, wanted, removed, late>>
    PROVE  FilesInv'
<1>1. /\ UNCHANGED <<endpoint, uploads, store, gone, deletePc, deleteRow, deleteUrl, arrived,
                     wanted, removed, late>>
      /\ UploadIds' = UploadIds /\ gone \subseteq Rows /\ wanted \subseteq Rows
  BY DEF deleteVars, UploadIds, FilesInv, Types
<1>2. StoredUnderKey' /\ RemovedIsEmpty' /\ OwnBytes'
  BY <1>1 DEF FilesInv, StoredUnderKey, RemovedIsEmpty, OwnBytes, SameMoment
<1>3. RequestsAreOfRows'
  <2> SUFFICES ASSUME NEW d \in Deleters, deletePc[d] # "idle"
               PROVE  /\ deleteRow[d] \in wanted
                      /\ KeysOf(deleteUrl[d]) \subseteq carried'[deleteRow[d]]
                      /\ deletePc[d] = "delete" => KeysOf(deleteUrl[d]) \cap removed # {}
    BY <1>1 DEF RequestsAreOfRows
  <2> QED
    BY <1>1 DEF FilesInv, RequestsAreOfRows
<1>4. GoneIsRemoved'
  <2> SUFFICES ASSUME NEW r \in gone PROVE carried'[r] \cap removed # {}
    BY <1>1 DEF GoneIsRemoved
  <2>1. carried[r] \cap removed # {} /\ carried[r] \subseteq carried'[r]
    BY <1>1 DEF FilesInv, GoneIsRemoved
  <2> QED
    BY <2>1
<1>5. RemovedWasAsked'
  BY <1>1 DEF FilesInv, RemovedWasAsked, DeleteAsked
<1> QED
  BY <1>2, <1>3, <1>4, <1>5 DEF FilesInv

\* A new row takes nothing from the others.
LEMMA CreateRowKeeps ==
    ASSUME FilesInv, NEW c \in Contents, CreateRow(c)
    PROVE  FilesInv'
<1> DEFINE n == Len(content) + 1
<1>0. Types /\ KeysOf(c) \in SUBSET Keys
  BY KeysOfContent DEF FilesInv
<1>1. /\ content' = Append(content, c) /\ carried' = Append(carried, KeysOf(c))
      /\ UNCHANGED <<endpoint, uploads, store, gone, deleteVars, arrived, wanted, removed, late>>
  BY DEF CreateRow
<1>2. /\ content' \in Seq(Contents) /\ Len(content') = n /\ content'[n] = c
      /\ \A r \in Rows : content'[r] = content[r]
  BY <1>0, <1>1, Appended, UploadFacts DEF Types
<1>3. /\ carried' \in Seq(SUBSET Keys) /\ Len(carried') = n /\ carried'[n] = KeysOf(c)
      /\ \A r \in Rows : carried'[r] = carried[r]
  BY <1>0, <1>1, Appended, UploadFacts DEF Types
<1>4. Rows' = Rows \cup {n}
  <2>1. Rows' = 1..n
    BY <1>2 DEF Rows
  <2> QED
    BY <1>0, <2>1, UploadFacts
<1> HIDE DEF n
<1>5. Types'
  BY <1>0, <1>1, <1>2, <1>3, <1>4 DEF Types, deleteVars, UploadIds
<1>6. CarriesContent'
  BY <1>2, <1>3, <1>4 DEF FilesInv, CarriesContent
<1> QED
  BY <1>1, <1>3, <1>4, <1>5, <1>6, RowsKeep

\* A row that is given another URL still has carried the first.
LEMMA UpdateKeeps ==
    ASSUME FilesInv, NEW r \in Rows, NEW c \in Contents, UpdateContent(r, c)
    PROVE  FilesInv'
<1> DEFINE more == carried[r] \cup KeysOf(c)
<1>0. /\ Types /\ DOMAIN content = Rows /\ DOMAIN carried = Rows
      /\ more \in SUBSET Keys
  BY KeysOfContent, UploadFacts DEF FilesInv, Rows
<1>1. /\ content' = [content EXCEPT ![r] = c] /\ carried' = [carried EXCEPT ![r] = more]
      /\ UNCHANGED <<endpoint, uploads, store, gone, deleteVars, arrived, wanted, removed, late>>
  BY DEF UpdateContent
<1>2. /\ content' \in Seq(Contents) /\ Len(content') = Len(content) /\ Rows' = Rows
      /\ \A q \in Rows : content'[q] = IF q = r THEN c ELSE content[q]
  BY <1>0, <1>1 DEF Types, Rows
<1> HIDE DEF more
<1>3. /\ carried' \in Seq(SUBSET Keys) /\ Len(carried') = Len(carried)
      /\ \A q \in Rows : carried'[q] = IF q = r THEN more ELSE carried[q]
  BY <1>0, <1>1 DEF Types
<1>4. Types'
  BY <1>0, <1>1, <1>2, <1>3 DEF Types, deleteVars, UploadIds
<1>5. CarriesContent'
  BY <1>2, <1>3 DEF FilesInv, CarriesContent, more
<1>6. \A q \in Rows : carried[q] \subseteq carried'[q]
  BY <1>3 DEF more
<1> QED
  BY <1>1, <1>2, <1>4, <1>5, <1>6, RowsKeep

\* Another endpoint changes what URLs are readable and nothing else.
LEMMA ReconfigureKeeps ==
    ASSUME FilesInv, NEW e \in Endpoints, Reconfigure(e)
    PROVE  FilesInv'
<1>1. /\ UNCHANGED <<uploads, store, content, gone, carried, deletePc, deleteRow, deleteUrl,
                     arrived, wanted, removed, late>>
      /\ UploadIds' = UploadIds /\ Rows' = Rows /\ endpoint' \in Endpoints
  BY DEF Reconfigure, rowVars, deleteVars, UploadIds, Rows
<1>2. Types' /\ CarriesContent' /\ StoredUnderKey' /\ RequestsAreOfRows'
  BY <1>1 DEF FilesInv, Types, CarriesContent, StoredUnderKey, RequestsAreOfRows
<1>3. GoneIsRemoved' /\ RemovedIsEmpty' /\ RemovedWasAsked' /\ OwnBytes'
  BY <1>1 DEF FilesInv, GoneIsRemoved, RemovedIsEmpty, RemovedWasAsked, DeleteAsked, OwnBytes, SameMoment
<1> QED
  BY <1>2, <1>3 DEF FilesInv

-----------------------------------------------------------------------------
(* The steps of a delete *)

\* What a request that ends leaves of the threads.
LEMMA EndFacts ==
    ASSUME Types, NEW d \in Deleters, DeleteEnds(d)
    PROVE  /\ deletePc'[d] = "idle"
           /\ \A e \in Deleters \ {d} : /\ deletePc'[e] = deletePc[e] /\ deleteRow'[e] = deleteRow[e]
                                        /\ deleteUrl'[e] = deleteUrl[e]
           /\ deletePc' \in [Deleters -> {"idle", "remove", "delete"}]
           /\ DOMAIN deleteRow' = Deleters /\ deleteUrl' \in [Deleters -> Contents]
BY DEF Types, DeleteEnds, Contents

\* A request that ends, with or without an answer, changes nothing else.
LEMMA EndKeeps ==
    ASSUME FilesInv, NEW d \in Deleters, DeleteEnds(d),
           UNCHANGED <<endpoint, uploads, store, rowVars, arrived, wanted, removed, late>>
    PROVE  FilesInv'
<1>1. /\ UploadIds' = UploadIds /\ Rows' = Rows /\ Types
      /\ UNCHANGED <<endpoint, uploads, store, content, gone, carried, arrived, wanted, removed, late>>
  BY DEF rowVars, UploadIds, Rows, FilesInv
<1>2. Types'
  BY <1>1, EndFacts DEF Types
<1>3. RequestsAreOfRows'
  BY <1>1, EndFacts DEF FilesInv, RequestsAreOfRows
<1>4. CarriesContent' /\ StoredUnderKey'
  BY <1>1 DEF FilesInv, CarriesContent, StoredUnderKey
<1>5. GoneIsRemoved' /\ RemovedIsEmpty' /\ RemovedWasAsked' /\ OwnBytes'
  BY <1>1 DEF FilesInv, GoneIsRemoved, RemovedIsEmpty, RemovedWasAsked, DeleteAsked, OwnBytes, SameMoment
<1> QED
  BY <1>2, <1>3, <1>4, <1>5 DEF FilesInv

\* A delete starts with a row and the URL it carries.
LEMMA SelectKeeps ==
    ASSUME FilesInv, NEW d \in Deleters, NEW r \in Rows, DeleteSelect(d, r)
    PROVE  FilesInv'
<1>1. /\ UploadIds' = UploadIds /\ Rows' = Rows /\ Types /\ content[r] \in Contents
      /\ wanted' = wanted \cup {r}
      /\ deletePc' = [deletePc EXCEPT ![d] = "remove"]
      /\ deleteRow' = [deleteRow EXCEPT ![d] = r]
      /\ deleteUrl' = [deleteUrl EXCEPT ![d] = content[r]]
      /\ UNCHANGED <<endpoint, uploads, store, content, gone, carried, arrived, removed, late>>
  BY UploadFacts DEF DeleteSelect, rowVars, UploadIds, Rows, FilesInv
<1>2. /\ deletePc'[d] = "remove" /\ deleteRow'[d] = r /\ deleteUrl'[d] = content[r]
      /\ \A e \in Deleters \ {d} : /\ deletePc'[e] = deletePc[e] /\ deleteRow'[e] = deleteRow[e]
                                   /\ deleteUrl'[e] = deleteUrl[e]
  BY <1>1 DEF Types
<1>3. Types'
  BY <1>1 DEF Types
<1>4. RequestsAreOfRows'
  BY <1>1, <1>2 DEF FilesInv, RequestsAreOfRows, CarriesContent
<1>5. CarriesContent' /\ StoredUnderKey' /\ GoneIsRemoved' /\ RemovedIsEmpty'
  BY <1>1 DEF FilesInv, CarriesContent, StoredUnderKey, GoneIsRemoved, RemovedIsEmpty
<1>6. RemovedWasAsked' /\ OwnBytes'
  BY <1>1 DEF FilesInv, RemovedWasAsked, DeleteAsked, OwnBytes, SameMoment
<1> QED
  BY <1>3, <1>4, <1>5, <1>6 DEF FilesInv

\* The object store removes a key the row has carried, and no other.
LEMMA RemoveKeeps ==
    ASSUME FilesInv, NEW d \in Deleters, RemoveObject(d) \/ RemoveObjectUnheard(d)
    PROVE  FilesInv'
<1> DEFINE key == deleteUrl[d].key
<1>1. /\ UploadIds' = UploadIds /\ Rows' = Rows /\ Types
      /\ deletePc[d] = "remove" /\ deleteUrl[d] # EmptyContent
      /\ store' = [store EXCEPT ![key] = 0]
      /\ removed' = removed \cup {key}
      /\ late' = late \ {key}
      /\ UNCHANGED <<endpoint, uploads, content, gone, carried, arrived, wanted>>
  BY DEF RemoveObject, RemoveObjectUnheard, Removes, rowVars, UploadIds, Rows, Extractable, FilesInv
<1>2. key \in Keys /\ KeysOf(deleteUrl[d]) = {key}
  BY <1>1, KeysOfContent DEF Types
<1>3. deleteRow[d] \in wanted /\ key \in carried[deleteRow[d]]
  BY <1>1, <1>2 DEF FilesInv, RequestsAreOfRows
<1>4. \/ /\ deletePc' = [deletePc EXCEPT ![d] = "delete"]
         /\ UNCHANGED <<deleteRow, deleteUrl>>
      \/ DeleteEnds(d)
  BY DEF RemoveObject, RemoveObjectUnheard
<1>5. /\ \/ deletePc'[d] = "idle"
         \/ deletePc'[d] = "delete" /\ deleteRow'[d] = deleteRow[d] /\ deleteUrl'[d] = deleteUrl[d]
      /\ \A e \in Deleters \ {d} : /\ deletePc'[e] = deletePc[e] /\ deleteRow'[e] = deleteRow[e]
                                   /\ deleteUrl'[e] = deleteUrl[e]
      /\ deletePc' \in [Deleters -> {"idle", "remove", "delete"}]
      /\ DOMAIN deleteRow' = Deleters /\ deleteUrl' \in [Deleters -> Contents]
  <2>1. CASE DeleteEnds(d)
    BY <1>1, <2>1, EndFacts
  <2>2. CASE deletePc' = [deletePc EXCEPT ![d] = "delete"] /\ UNCHANGED <<deleteRow, deleteUrl>>
    BY <1>1, <2>2 DEF Types
  <2> QED
    BY <1>4, <2>1, <2>2
<1>6. \A k \in Keys : store'[k] = IF k = key THEN 0 ELSE store[k]
  BY <1>1, <1>2 DEF Types
<1> HIDE DEF key
<1>7. Types'
  BY <1>1, <1>2, <1>5 DEF Types
<1>8. RequestsAreOfRows'
  BY <1>1, <1>2, <1>3, <1>5 DEF FilesInv, RequestsAreOfRows
<1>9. CarriesContent' /\ GoneIsRemoved'
  <2>1. GoneIsRemoved'
    <3> SUFFICES ASSUME NEW r \in gone PROVE carried[r] \cap removed' # {}
      BY <1>1 DEF GoneIsRemoved
    <3> QED
      BY <1>1 DEF FilesInv, GoneIsRemoved
  <2> QED
    BY <1>1, <2>1 DEF FilesInv, CarriesContent
<1>10. StoredUnderKey'
  BY <1>1, <1>6 DEF FilesInv, StoredUnderKey
<1>11. RemovedIsEmpty'
  <2> SUFFICES ASSUME NEW k \in removed' PROVE store'[k] = 0 \/ k \in late'
    BY DEF RemovedIsEmpty
  <2> QED
    BY <1>1, <1>2, <1>6 DEF FilesInv, RemovedIsEmpty, Types
<1>12. RemovedWasAsked'
  BY <1>1, <1>3 DEF FilesInv, RemovedWasAsked, DeleteAsked
<1>13. OwnBytes'
  <2> SUFFICES ASSUME NEW u \in arrived, ~SameMoment(u)'
               PROVE  store'[uploads[u].key] = u \/ uploads[u].key \in removed'
    BY <1>1 DEF OwnBytes
  <2>1. ~SameMoment(u) /\ uploads[u].key \in Keys
    BY <1>1, UploadFacts, KeyFields DEF SameMoment, Types
  <2> QED
    BY <1>1, <1>6, <2>1 DEF FilesInv, OwnBytes
<1> QED
  BY <1>7, <1>8, <1>9, <1>10, <1>11, <1>12, <1>13 DEF FilesInv

\* The DELETE is executed for a row whose object has been removed.
LEMMA DeleteRowKeeps ==
    ASSUME FilesInv, NEW d \in Deleters, DeleteRow(d)
    PROVE  FilesInv'
<1>1. /\ UploadIds' = UploadIds /\ Rows' = Rows /\ Types /\ deletePc[d] = "delete"
      /\ gone' = gone \cup {deleteRow[d]}
      /\ DeleteEnds(d)
      /\ UNCHANGED <<endpoint, uploads, store, content, carried, arrived, wanted, removed, late>>
  BY DEF DeleteRow, UploadIds, Rows, FilesInv
<1>2. deleteRow[d] \in Rows /\ carried[deleteRow[d]] \cap removed # {}
  <2>1. /\ deleteRow[d] \in wanted /\ KeysOf(deleteUrl[d]) \subseteq carried[deleteRow[d]]
        /\ KeysOf(deleteUrl[d]) \cap removed # {}
    BY <1>1 DEF FilesInv, RequestsAreOfRows
  <2> QED
    BY <1>1, <2>1 DEF Types
<1>3. Types'
  BY <1>1, <1>2, EndFacts DEF Types
<1>4. RequestsAreOfRows'
  BY <1>1, EndFacts DEF FilesInv, RequestsAreOfRows
<1>5. GoneIsRemoved'
  BY <1>1, <1>2 DEF FilesInv, GoneIsRemoved
<1>6. CarriesContent' /\ StoredUnderKey' /\ RemovedIsEmpty'
  BY <1>1 DEF FilesInv, CarriesContent, StoredUnderKey, RemovedIsEmpty
<1>7. RemovedWasAsked' /\ OwnBytes'
  BY <1>1 DEF FilesInv, RemovedWasAsked, DeleteAsked, OwnBytes, SameMoment
<1> QED
  BY <1>3, <1>4, <1>5, <1>6, <1>7 DEF FilesInv

-----------------------------------------------------------------------------
(* The theorems *)

\* The invariant holds of uploads, rows and deletes, however they interleave and fail.
THEOREM FilesInvariant == FilesSpec => []FilesInv
<1>1. FilesInit => FilesInv
  <2> SUFFICES ASSUME FilesInit PROVE FilesInv
    OBVIOUS
  <2>1. /\ endpoint \in Endpoints /\ uploads = <<>> /\ content = <<>> /\ carried = <<>>
        /\ store = [k \in Keys |-> 0] /\ removed = {} /\ arrived = {} /\ gone = {} /\ wanted = {}
        /\ deletePc = [d \in Deleters |-> "idle"]
        /\ deleteRow = [d \in Deleters |-> 0] /\ deleteUrl = [d \in Deleters |-> EmptyContent]
    BY FilesAssumption DEF FilesInit
  <2>2. Types
    BY <2>1 DEF Types, Contents
  <2>3. Rows = {}
    BY <2>1 DEF Rows
  <2> QED
    BY <2>1, <2>2, <2>3 DEF FilesInv, CarriesContent, StoredUnderKey, RequestsAreOfRows,
                      GoneIsRemoved, RemovedIsEmpty, RemovedWasAsked, OwnBytes
<1>2. FilesInv /\ [FilesNext]_fileVars => FilesInv'
  <2> SUFFICES ASSUME FilesInv, [FilesNext]_fileVars PROVE FilesInv'
    OBVIOUS
  <2>1. CASE UploadNext
    BY <2>1, CreateKeeps, PutKeeps, CreateRowKeeps, UpdateKeeps, ReconfigureKeeps DEF UploadNext
  <2>2. ASSUME NEW d \in Deleters, DeleteNext(d) PROVE FilesInv'
    <3>1. CASE DeleteRefused(d) \/ RemoveFails(d) \/ DeleteRowFails(d)
      BY <3>1, EndKeeps DEF DeleteRefused, RemoveFails, DeleteRowFails
    <3> QED
      BY <2>2, <3>1, SelectKeeps, RemoveKeeps, DeleteRowKeeps DEF DeleteNext
  <2>3. CASE UNCHANGED fileVars
    <3>1. /\ UploadIds' = UploadIds /\ Rows' = Rows
          /\ UNCHANGED <<endpoint, uploads, store, content, gone, carried, deletePc, deleteRow,
                         deleteUrl, arrived, wanted, removed, late>>
      BY <2>3 DEF fileVars, rowVars, deleteVars, UploadIds, Rows
    <3>2. Types' /\ CarriesContent' /\ StoredUnderKey' /\ RequestsAreOfRows'
      BY <3>1 DEF FilesInv, Types, CarriesContent, StoredUnderKey, RequestsAreOfRows
    <3>3. GoneIsRemoved' /\ RemovedIsEmpty' /\ RemovedWasAsked' /\ OwnBytes'
      BY <3>1 DEF FilesInv, GoneIsRemoved, RemovedIsEmpty, RemovedWasAsked, DeleteAsked, OwnBytes,
                  SameMoment
    <3> QED
      BY <3>2, <3>3 DEF FilesInv
  <2> QED
    BY <2>1, <2>2, <2>3 DEF FilesNext
<1> QED
  BY <1>1, <1>2, PTL DEF FilesSpec, FilesSafety

\* delete_resource() leaves no object behind of a row it has deleted, unless the row
\* was given another URL or the bytes were put again afterwards.
THEOREM NoObjectIsOrphaned == FilesSpec => []DeleteLeavesNoObject
<1>1. FilesInv => DeleteLeavesNoObject
  <2> SUFFICES ASSUME FilesInv, NEW r \in gone, NEW k \in Keys, carried[r] = {k}
               PROVE  store[k] = 0 \/ k \in late
    BY DEF DeleteLeavesNoObject
  <2>1. k \in removed
    BY DEF FilesInv, GoneIsRemoved
  <2> QED
    BY <2>1 DEF FilesInv, RemovedIsEmpty
<1> QED
  BY <1>1, FilesInvariant, PTL

\* A download of a row returns what was uploaded to its URL from the moment it was,
\* unless a delete was asked for of a row with that URL; never the bytes of another
\* upload with a key of its own.
THEOREM RowsShowTheirUploads == FilesSpec => []RowShowsItsUpload
<1>1. FilesInv => RowShowsItsUpload
  <2> SUFFICES ASSUME FilesInv, NEW r \in Rows, Readable(r), NEW u \in arrived,
                      uploads[u].key = content[r].key, ~SameMoment(u)
               PROVE  Download(r) = u \/ DeleteAsked(uploads[u].key)
    BY DEF RowShowsItsUpload
  <2>1. store[uploads[u].key] = u \/ uploads[u].key \in removed
    BY DEF FilesInv, OwnBytes
  <2>2. CASE store[uploads[u].key] = u
    BY <2>2 DEF Download
  <2>3. CASE uploads[u].key \in removed
    BY <2>3 DEF FilesInv, RemovedWasAsked
  <2> QED
    BY <2>1, <2>2, <2>3
<1> QED
  BY <1>1, FilesInvariant, PTL
=============================================================================
