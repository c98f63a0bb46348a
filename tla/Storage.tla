------------------------------- MODULE Storage -------------------------------
(***************************************************************************)
(* Attachments: the objects of a file in the bucket and its row in the     *)
(* database, which no transaction spans.  An upload puts every object      *)
(* under a fresh prefix, then inserts the row in the transaction of the    *)
(* consumer, and deletes the objects again if that transaction fails.      *)
(*                                                                         *)
(* An uploader u is a handler of the API or a program of the seed.  The    *)
(* module has actions but no behaviour of its own: Seeds composes it with  *)
(* the programs that upload.                                               *)
(*                                                                         *)
(* Left out: bytes, file names, the pixels of a rendition.                 *)
(***************************************************************************)
EXTENDS Integers, Sequences

CONSTANTS
    Uploaders,
    Files,        \* what is sent: [size |-> in MB, kind |-> what the bytes are or None]
    MaxFileMb,
    MaxUploads,   \* bound on the number of uploads that pass validation
    NoFile        \* bytes that are no accepted type, an absent row

UploadIds == 1..MaxUploads
Kinds    == {"image", "pdf"}
FileVersions == {"original", "preview", "thumbnail"}

ASSUME StorageConstants ==
    /\ MaxFileMb \in Nat /\ MaxUploads \in Nat
    /\ \A f \in Files : f.size \in Nat /\ f.kind \in Kinds \cup {NoFile}

VARIABLES
    objects,      \* the bucket: keys <<prefix, version>>
    attachments,  \* attachments: the kind in the row of each prefix, or NoFile
    upload,       \* uploads in flight
    uploads,      \* prefixes handed out so far
    purge,        \* the keys the purge has listed and not yet deleted
    strayed,      \* history: prefixes an upload, a server or a delete failed on
    doubted,      \* history: prefixes whose commit was not acknowledged
    purged        \* history: prefixes the purge has listed

storageVars == <<objects, attachments, upload, uploads, purge, strayed, doubted, purged>>
-----------------------------------------------------------------------------
\* validateUpload.
Acceptable(f) == f.size > 0 /\ f.size <= MaxFileMb /\ f.kind # NoFile

\* An image has renditions, a PDF only the original.
Versions(kind) ==
    IF kind = "image" THEN <<"original", "preview", "thumbnail">> ELSE <<"original">>
Served(kind) == {v \in FileVersions : v = "original" \/ kind = "image"}

Waiting == [pc |-> "idle"]
UploadGoto(u, r) == upload' = [upload EXCEPT ![u] = r]

\* uploadForOwner.
StartUpload(u, f) ==
    /\ upload[u] = Waiting
    /\ Acceptable(f)
    /\ uploads < MaxUploads                                  \* bound
    /\ uploads' = uploads + 1                                \* a fresh uuid
    /\ UploadGoto(u, [pc |-> "put", prefix |-> uploads', kind |-> f.kind, todo |-> Versions(f.kind)])
    /\ UNCHANGED <<objects, attachments, purge, strayed, doubted, purged>>

PutObject(u) ==
    /\ upload[u].pc = "put"
    /\ objects' = objects \cup {<<upload[u].prefix, Head(upload[u].todo)>>}
    /\ UploadGoto(u, IF Len(upload[u].todo) = 1 THEN [upload[u] EXCEPT !.pc = "prepared"]
                     ELSE [upload[u] EXCEPT !.todo = Tail(@)])
    /\ UNCHANGED <<uploads, attachments, purge, strayed, doubted, purged>>

\* A put fails, or the image has too many pixels to derive from: the exception
\* leaves uploadForOwner before there is anything cleanup could be called with.
AfterFailedPut_Skips(u) == [upload[u] EXCEPT !.pc = "prepared"]            \* mutant
AfterFailedPut(u) == Waiting
PutFails(u) ==
    /\ upload[u].pc = "put"
    /\ \E written \in BOOLEAN :
         objects' = IF written THEN objects \cup {<<upload[u].prefix, Head(upload[u].todo)>>} ELSE objects
    /\ UploadGoto(u, AfterFailedPut(u))
    /\ strayed' = strayed \cup {upload[u].prefix}
    /\ UNCHANGED <<uploads, attachments, purge, doubted, purged>>
-----------------------------------------------------------------------------
(***************************************************************************)
(* The consumer's transaction                                              *)
(***************************************************************************)
\* persist inserts the row, and the transaction commits.
CommitAttachment(u) ==
    /\ upload[u].pc = "prepared"
    /\ attachments' = [attachments EXCEPT ![upload[u].prefix] = upload[u].kind]
    /\ UploadGoto(u, Waiting)
    /\ UNCHANGED <<uploads, objects, purge, strayed, doubted, purged>>

\* The transaction fails, or it commits and the answer is lost: the consumer's
\* catch cleans up, whichever it was.
AfterFailure_Rethrows(u) == Waiting                                        \* mutant
AfterFailure(u) == [upload[u] EXCEPT !.pc = "cleanup", !.todo = Versions(upload[u].kind)]
TransactionFails(u) ==
    /\ upload[u].pc = "prepared"
    /\ UploadGoto(u, AfterFailure(u))
    /\ UNCHANGED <<uploads, objects, attachments, purge, strayed, doubted, purged>>
AnswerLost(u) ==
    /\ upload[u].pc = "prepared"
    /\ attachments' = [attachments EXCEPT ![upload[u].prefix] = upload[u].kind]
    /\ UploadGoto(u, AfterFailure(u))
    /\ doubted' = doubted \cup {upload[u].prefix}
    /\ UNCHANGED <<uploads, objects, purge, strayed, purged>>

\* cleanup deletes key by key; a delete that fails is logged.
Cleanup(u) ==
    /\ upload[u].pc = "cleanup"
    /\ LET key == <<upload[u].prefix, Head(upload[u].todo)>> IN
       \/ objects' = objects \ {key} /\ UNCHANGED strayed
       \/ strayed' = strayed \cup {key[1]} /\ UNCHANGED objects
    /\ UploadGoto(u, IF Len(upload[u].todo) = 1 THEN Waiting ELSE [upload[u] EXCEPT !.todo = Tail(@)])
    /\ UNCHANGED <<uploads, attachments, purge, doubted, purged>>

\* The process of the uploader stops.
UploaderStops(u) ==
    /\ upload' = [upload EXCEPT ![u] = Waiting]
    /\ strayed' = IF upload[u] = Waiting THEN strayed ELSE strayed \cup {upload[u].prefix}
    /\ UNCHANGED <<uploads, objects, attachments, purge, doubted, purged>>
-----------------------------------------------------------------------------
(***************************************************************************)
(* purge-attachments: list the keys under the prefix, delete what was      *)
(* listed.                                                                 *)
(***************************************************************************)
PurgeLists ==
    /\ purge = {} /\ objects # {}
    /\ purge' = objects
    /\ purged' = purged \cup {k[1] : k \in objects}
    /\ UNCHANGED <<uploads, objects, attachments, upload, strayed, doubted>>
PurgeDeletes ==
    /\ purge # {}
    /\ objects' = objects \ purge
    /\ purge' = {}
    /\ UNCHANGED <<uploads, attachments, upload, strayed, doubted, purged>>

UploadStep(u) ==
    \/ PutObject(u) \/ PutFails(u) \/ CommitAttachment(u) \/ TransactionFails(u) \/ AnswerLost(u) \/ Cleanup(u)

StorageInit ==
    /\ objects = {} /\ purge = {} /\ uploads = 0
    /\ attachments = [x \in UploadIds |-> NoFile]
    /\ upload = [u \in Uploaders |-> Waiting]
    /\ strayed = {} /\ doubted = {} /\ purged = {}

StorageTypeOK ==
    /\ objects \subseteq UploadIds \X FileVersions /\ purge \subseteq UploadIds \X FileVersions
    /\ attachments \in [UploadIds -> Kinds \cup {NoFile}]
    /\ uploads \in 0..MaxUploads
    /\ strayed \cup doubted \cup purged \subseteq UploadIds

\* getAttachmentDownload finds what it streams: every version that a stored row says
\* exists is in the bucket, unless a commit went unacknowledged or the bucket was purged.
RowsHaveObjects ==
    \A x \in UploadIds \ (doubted \cup purged) :
        attachments[x] # NoFile => \A v \in Served(attachments[x]) : <<x, v>> \in objects

\* A failed transaction leaves nothing behind: an object without a row belongs to an
\* upload in flight, unless the upload, a delete or the server failed on it.
NoStrayObjects ==
    \A k \in objects :
        \/ attachments[k[1]] # NoFile
        \/ k[1] \in strayed
        \/ \E u \in Uploaders : upload[u] # Waiting /\ upload[u].prefix = k[1]
=============================================================================
