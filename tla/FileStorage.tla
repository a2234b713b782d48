---------------------------- MODULE FileStorage -----------------------------
(***************************************************************************)
(* A file resource lives in two places: the bytes in object storage, under *)
(* the key StorageService::create_upload_url() makes up, and a row of the  *)
(* resources table whose content is the public URL of that key.  Nothing   *)
(* ties the two together: the browser PUTs the bytes and then POSTs the    *)
(* row, but the handlers take the content a client sends, so a row may be  *)
(* made before the bytes or without them, carry the URL of another row, or *)
(* be given another URL later; and a presigned URL serves any number of    *)
(* PUTs.  delete_resource() removes the object and then the row.  Any step *)
(* may fail, or succeed without its caller hearing of it, and a backend    *)
(* may stop between two of them.                                           *)
(*                                                                         *)
(* A PUT, POST or UPDATE that fails (an expired URL among the causes)      *)
(* changes nothing, so it is no step here.  What a download returns is a   *)
(* function of the state (Download).  Rows are those with is_file set;     *)
(* PostgreSQL and the cache in front of it are the subject of              *)
(* ResourceService, here a statement is executed or fails.                 *)
(***************************************************************************)
EXTENDS Integers, Sequences, FiniteSets

CONSTANTS
    Users,
    Filenames,   \* the filenames clients send
    Clean,       \* Clean[f] is what sanitize_filename() makes of f
    Refused,     \* the filenames create_upload_url() refuses
    Endpoints,   \* values of S3_PUBLIC_ENDPOINT
    FirstEndpoint,
    EmptyContent, \* a content that is no URL of the bucket: "" when left out
    Deleters,    \* the worker threads that serve DELETE
    MaxUploads,  \* bound: presigned uploads in a behaviour
    MaxRows,     \* bound: file rows in a behaviour
    MaxMillis    \* bound: readings of the backends' clocks, 0..MaxMillis

ASSUME FilesAssumption ==
    /\ FirstEndpoint \in Endpoints
    /\ Refused \subseteq Filenames
    /\ DOMAIN Clean = Filenames
    /\ MaxUploads \in Nat
    /\ MaxRows \in Nat
    /\ MaxMillis \in Nat

VARIABLES
    endpoint,  \* the S3_PUBLIC_ENDPOINT the backends are deployed with
    uploads,   \* the uploads granted so far; an upload is known by its place
    store,     \* for each key, the upload whose bytes are there; 0 is none
    content,   \* the content column of each row made so far
    gone,      \* the rows that have been deleted
    deletePc, deleteRow, deleteUrl,  \* delete_resource() in each thread
    \* History, for the properties:
    arrived,   \* the uploads whose bytes have reached the store
    carried,   \* for each row, the keys whose URL it has carried
    wanted,    \* the rows whose delete the user has asked for
    removed,   \* the keys whose object a delete has removed
    late       \* the keys put again since a delete last removed them

rowVars == <<content, gone, carried>>

deleteVars == <<deletePc, deleteRow, deleteUrl>>

fileVars == <<endpoint, uploads, store, rowVars, deleteVars, arrived, wanted,
              removed, late>>

UploadIds == DOMAIN uploads

Rows == DOMAIN content

CleanNames == {Clean[f] : f \in Filenames \ Refused}

Keys == [user : Users, millis : 0..MaxMillis, name : CleanNames]

\* Mutant: the key does not tell uploads of one name apart.
ObjectKeyTimeless(u, t, f) == [user |-> u, millis |-> 0, name |-> Clean[f]]

\* "users/" <user_id> "/uploads/" <epoch millis> "-" <clean filename>
ObjectKey(u, t, f) == [user |-> u, millis |-> t, name |-> Clean[f]]

\* A public URL is the endpoint of the day in front of the key (the bucket is
\* part of the endpoint here).
PublicUrl(e, k) == [endpoint |-> e, key |-> k]

\* What a client may send as content: a URL of any endpoint and key, whether
\* granted to it or not, or something else.
Contents == {PublicUrl(e, k) : e \in Endpoints, k \in Keys} \cup {EmptyContent}

\* The keys a content gives access to.
KeysOf(c) == IF c = EmptyContent THEN {} ELSE {c.key}

\* extract_object_key_from_public_url() finds the prefix it expects.
Extractable(url) == url # EmptyContent /\ url.endpoint = endpoint

FilesInit ==
    /\ endpoint = FirstEndpoint
    /\ uploads = <<>>
    /\ store = [k \in Keys |-> 0]
    /\ content = <<>> /\ gone = {} /\ carried = <<>>
    /\ deletePc = [d \in Deleters |-> "idle"]
    /\ deleteRow = [d \in Deleters |-> 0]
    /\ deleteUrl = [d \in Deleters |-> EmptyContent]
    /\ arrived = {} /\ wanted = {} /\ removed = {} /\ late = {}

-----------------------------------------------------------------------------
(* Upload: presigned URL, PUT of the bytes, POST and PUT of the row *)

\* Neither empty, too long, a path, nor of a blocked extension or type.
Accepted(f) == f \notin Refused

\* create_upload_url() accepts the filename and signs a URL for a new key.  The
\* backends read their own system clocks, which need not agree nor only advance.
CreateUploadUrl(u, t, f) ==
    /\ Len(uploads) < MaxUploads
    /\ Accepted(f)
    /\ uploads' = Append(uploads, [user |-> u, millis |-> t, name |-> Clean[f],
                                   key |-> ObjectKey(u, t, f)])
    /\ UNCHANGED <<endpoint, store, rowVars, deleteVars, arrived, wanted, removed, late>>

\* A PUT to the presigned URL reaches the object store: once, again, or after
\* everything else.
PutObject(u) ==
    LET key == uploads[u].key IN
    /\ store' = [store EXCEPT ![key] = u]
    /\ arrived' = arrived \cup {u}
    /\ late' = IF key \in removed THEN late \cup {key} ELSE late
    /\ UNCHANGED <<endpoint, uploads, rowVars, deleteVars, wanted, removed>>

\* handle_post_resource() inserts a file row with the content it is given.
CreateRow(c) ==
    /\ Len(content) < MaxRows
    /\ content' = Append(content, c)
    /\ carried' = Append(carried, KeysOf(c))
    /\ UNCHANGED <<endpoint, uploads, store, gone, deleteVars, arrived, wanted, removed, late>>

\* handle_put_resource() sends the content it is given, or "", to the UPDATE;
\* is_file stays.
UpdateContent(r, c) ==
    /\ r \notin gone
    /\ content' = [content EXCEPT ![r] = c]
    /\ carried' = [carried EXCEPT ![r] = @ \cup KeysOf(c)]
    /\ UNCHANGED <<endpoint, uploads, store, gone, deleteVars, arrived, wanted, removed, late>>

\* The backends are deployed again with another public endpoint.
Reconfigure(e) ==
    /\ e # endpoint
    /\ endpoint' = e
    /\ UNCHANGED <<uploads, store, rowVars, deleteVars, arrived, wanted, removed, late>>

-----------------------------------------------------------------------------
(* Delete: SELECT, RemoveObject, DELETE *)

\* delete_resource() finds the row.  The user who has asked once asks again
\* until the row is gone.
DeleteSelect(d, r) ==
    /\ deletePc[d] = "idle"
    /\ r \notin gone
    /\ wanted' = wanted \cup {r}
    /\ deletePc' = [deletePc EXCEPT ![d] = "remove"]
    /\ deleteRow' = [deleteRow EXCEPT ![d] = r]
    /\ deleteUrl' = [deleteUrl EXCEPT ![d] = content[r]]
    /\ UNCHANGED <<endpoint, uploads, store, rowVars, arrived, removed, late>>

\* The request ends; the thread's locals go with it.
DeleteEnds(d) ==
    /\ deletePc' = [deletePc EXCEPT ![d] = "idle"]
    /\ deleteRow' = [deleteRow EXCEPT ![d] = 0]
    /\ deleteUrl' = [deleteUrl EXCEPT ![d] = EmptyContent]

\* delete_file() returns "invalid file url".
DeleteRefused(d) ==
    /\ deletePc[d] = "remove"
    /\ ~Extractable(deleteUrl[d])
    /\ DeleteEnds(d)
    /\ UNCHANGED <<endpoint, uploads, store, rowVars, arrived, wanted, removed, late>>

\* The object store deletes what is under the key, which may be nothing.
Removes(d) ==
    LET key == deleteUrl[d].key IN
    /\ deletePc[d] = "remove"
    /\ Extractable(deleteUrl[d])
    /\ store' = [store EXCEPT ![key] = 0]
    /\ removed' = removed \cup {key}
    /\ late' = late \ {key}
    /\ UNCHANGED <<endpoint, uploads, rowVars, arrived, wanted>>

\* Mutant: removing an object that is already gone is an error.
RemoveObjectOnce(d) ==
    /\ Removes(d)
    /\ store[deleteUrl[d].key] # 0
    /\ deletePc' = [deletePc EXCEPT ![d] = "delete"]
    /\ UNCHANGED <<deleteRow, deleteUrl>>

\* RemoveObject succeeds, for a key without an object too.
RemoveObject(d) ==
    /\ Removes(d)
    /\ deletePc' = [deletePc EXCEPT ![d] = "delete"]
    /\ UNCHANGED <<deleteRow, deleteUrl>>

\* The object is removed, but delete_file() gets an error or the backend stops.
RemoveObjectUnheard(d) == Removes(d) /\ DeleteEnds(d)

\* Mutant: delete_resource() goes on when delete_file() has failed.
RemoveFailsIgnored(d) ==
    /\ deletePc[d] = "remove"
    /\ Extractable(deleteUrl[d])
    /\ deletePc' = [deletePc EXCEPT ![d] = "delete"]
    /\ UNCHANGED <<endpoint, uploads, store, rowVars, arrived, wanted, removed, late,
                   deleteRow, deleteUrl>>

\* delete_file() returns false and the row is kept, or the backend stops.
RemoveFails(d) ==
    /\ deletePc[d] = "remove"
    /\ Extractable(deleteUrl[d])
    /\ DeleteEnds(d)
    /\ UNCHANGED <<endpoint, uploads, store, rowVars, arrived, wanted, removed, late>>

\* The DELETE is executed; when another request was first it affects no row.
DeleteRow(d) ==
    /\ deletePc[d] = "delete"
    /\ gone' = gone \cup {deleteRow[d]}
    /\ DeleteEnds(d)
    /\ UNCHANGED <<endpoint, uploads, store, content, carried, arrived, wanted, removed, late>>

\* The DELETE fails, or the backend stops before it.
DeleteRowFails(d) ==
    /\ deletePc[d] = "delete"
    /\ DeleteEnds(d)
    /\ UNCHANGED <<endpoint, uploads, store, rowVars, arrived, wanted, removed, late>>

-----------------------------------------------------------------------------
UploadNext ==
    \/ \E u \in Users, t \in 0..MaxMillis, f \in Filenames : CreateUploadUrl(u, t, f)
    \/ \E u \in UploadIds : PutObject(u)
    \/ \E c \in Contents : CreateRow(c) \/ \E r \in Rows : UpdateContent(r, c)
    \/ \E e \in Endpoints : Reconfigure(e)

DeleteNext(d) ==
    \/ \E r \in Rows : DeleteSelect(d, r)
    \/ DeleteRefused(d) \/ RemoveObject(d) \/ RemoveObjectUnheard(d) \/ RemoveFails(d)
    \/ DeleteRow(d) \/ DeleteRowFails(d)

FilesNext == UploadNext \/ \E d \in Deleters : DeleteNext(d)

\* The user tries again while the row is there, a thread does not stop inside a
\* request without ending it, and storage and database do not fail for ever.
FilesFairness ==
    /\ \A r \in 1..MaxRows :
          SF_fileVars(r \in wanted /\ \E d \in Deleters : DeleteSelect(d, r))
    /\ \A d \in Deleters :
          /\ WF_fileVars(DeleteNext(d))
          /\ SF_fileVars(RemoveObject(d))
          /\ SF_fileVars(DeleteRow(d))

FilesSafety == FilesInit /\ [][FilesNext]_fileVars

FilesSpec == FilesSafety /\ FilesFairness

-----------------------------------------------------------------------------
(* Properties *)

\* Type invariant of the two stores and the requests between them.
FilesTypeOK ==
    /\ endpoint \in Endpoints
    /\ \A u \in UploadIds : uploads[u].key \in Keys
    /\ store \in [Keys -> 0..Len(uploads)]
    /\ content \in Seq(Contents) /\ carried \in Seq(SUBSET Keys)
    /\ Len(carried) = Len(content)
    /\ gone \subseteq Rows /\ wanted \subseteq Rows /\ arrived \subseteq UploadIds
    /\ removed \subseteq Keys /\ late \subseteq Keys
    /\ deletePc \in [Deleters -> {"idle", "remove", "delete"}]
    /\ deleteRow \in [Deleters -> 0..Len(content)]
    /\ deleteUrl \in [Deleters -> Contents]

\* Another upload of the same user and clean name was granted in the same
\* millisecond, by this backend or by one whose clock differs: the only case
\* in which the key of current_epoch_millis() is not unique.
SameMoment(u) ==
    \E v \in UploadIds \ {u} :
        /\ uploads[v].user = uploads[u].user
        /\ uploads[v].name = uploads[u].name
        /\ uploads[v].millis = uploads[u].millis

\* What a download of the row returns: the upload whose bytes come back, 0 for
\* none.
Download(r) == store[content[r].key]

Readable(r) == r \notin gone /\ Extractable(content[r])

\* Somebody has asked to delete a row that carries, or once carried, this key's
\* URL.
DeleteAsked(k) == \E r \in wanted : k \in carried[r]

\* A row with the URL of an upload shows the bytes of that upload from the moment
\* they are there, before the row or after it, whatever other uploads, users,
\* names, rows, updates and deletes there are: no object is overwritten or taken
\* over, and the only thing that removes one is a delete somebody asked for of a
\* row with its URL.
RowShowsItsUpload ==
    \A r \in Rows : Readable(r) =>
        \A u \in arrived :
            uploads[u].key = content[r].key /\ ~SameMoment(u) =>
                Download(r) = u \/ DeleteAsked(uploads[u].key)

\* No row is deleted while its object is kept, whatever fails when and whichever
\* two deletes overlap: where the row has carried one URL all its life, the object
\* is gone with it, unless the bytes were put again after the delete had removed
\* them.  (After an UPDATE to another URL the first object is nobody's.)
DeleteLeavesNoObject ==
    \A r \in gone, k \in Keys :
        carried[r] = {k} => store[k] = 0 \/ k \in late

\* A delete that the user repeats succeeds in the end, also when an earlier try
\* has already removed the object or none was ever put there; unless the row does
\* not carry a URL of the endpoint in use, when delete_file() refuses every time.
DeleteSucceeds ==
    \A r \in 1..MaxRows :
        (r \in wanted) ~> (r \in Rows /\ (r \in gone \/ ~Extractable(content[r])))
=============================================================================
