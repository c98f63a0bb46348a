------------------------------ MODULE SeedsProofs ------------------------------
(***************************************************************************)
(* Proofs about Seeds, and with it about Accounts and Storage, whose       *)
(* actions it composes: for any number of handlers, accounts, roles, files *)
(* and runs of the seed program.                                           *)
(***************************************************************************)
EXTENDS Seeds, FiniteSetTheorems, WellFoundedInduction, TLAPS

-----------------------------------------------------------------------------
(***************************************************************************)
(* Attachments.  What an uploader has yet to put or to delete is in its    *)
(* todo; no two work on one prefix, and a prefix handed out next is new to *)
(* the bucket, to the table and to the purge.                              *)
(***************************************************************************)
\* What may be left of the versions of a kind.
Todos(kind) ==
    IF kind = "image"
    THEN {<<"original", "preview", "thumbnail">>, <<"preview", "thumbnail">>, <<"thumbnail">>}
    ELSE {<<"original">>}

UploadRow == [pc : {"put", "prepared", "cleanup"}, prefix : UploadIds, kind : Kinds \ {NoFile},
              todo : Todos("image") \cup Todos("pdf")]
InFlight(u) == upload[u] # Waiting

\* The prefix of an upload that has not asked for its row yet.
Unrowed(u) ==
    LET x == upload[u].prefix IN
    /\ attachments[x] = NoFile /\ x \notin doubted
    /\ \A k \in objects : k[1] = x => k[2] \in Served(upload[u].kind)
    /\ x \notin purged => \A v \in Served(upload[u].kind) :
         <<x, v>> \in objects \/ (upload[u].pc = "put" /\ v \in Range(upload[u].todo))

\* The prefix of an upload that deletes what it put.
Undoing(u) ==
    LET x == upload[u].prefix IN
    /\ attachments[x] = NoFile \/ x \in doubted
    /\ \A k \in objects :
         k[1] = x => k[2] \in Range(upload[u].todo) \/ x \in strayed \/ attachments[x] # NoFile

UploadOK(u) ==
    InFlight(u) => /\ upload[u] \in UploadRow
                   /\ upload[u].todo \in Todos(upload[u].kind)
                   /\ upload[u].prefix <= uploads
                   /\ IF upload[u].pc = "cleanup" THEN Undoing(u) ELSE Unrowed(u)

\* Prefixes that were not handed out are unknown.
Fresh ==
    \A x \in UploadIds : x > uploads =>
        /\ attachments[x] = NoFile /\ x \notin strayed \cup doubted \cup purged
        /\ \A k \in objects \cup purge : k[1] # x

StorageInv ==
    /\ StorageTypeOK
    /\ upload = [u \in Uploaders |-> upload[u]]
    /\ Fresh
    /\ \A k \in purge : k[1] \in purged
    /\ \A u \in Uploaders : UploadOK(u)
    /\ \A u, v \in Uploaders : InFlight(u) /\ InFlight(v) /\ upload[u].prefix = upload[v].prefix => u = v
    /\ RowsHaveObjects /\ NoStrayObjects

\* Versions are worked off one by one, and a kind is served all of its versions.
LEMMA TodoHead ==
    ASSUME NEW kind, NEW s \in Todos(kind)
    PROVE  /\ Head(s) \in Served(kind)
           /\ Len(s) = 1 => Range(s) = {Head(s)}
           /\ Len(s) # 1 => Tail(s) \in Todos(kind) /\ Range(s) = {Head(s)} \cup Range(Tail(s))
<1>1. CASE s = <<"original">>
  <2>1. Head(s) = "original" /\ Len(s) = 1 /\ DOMAIN s = {1} /\ s[1] = "original"
    BY <1>1
  <2> QED BY <2>1 DEF Served, FileVersions, Range
<1>2. CASE kind = "image" /\ s = <<"thumbnail">>
  <2>1. Head(s) = "thumbnail" /\ Len(s) = 1 /\ DOMAIN s = {1} /\ s[1] = "thumbnail"
    BY <1>2
  <2> QED BY <1>2, <2>1 DEF Served, FileVersions, Range
<1>3. CASE kind = "image" /\ s = <<"preview", "thumbnail">>
  <2>1. Head(s) = "preview" /\ Len(s) = 2 /\ DOMAIN s = {1, 2} /\ s[1] = "preview" /\ s[2] = "thumbnail"
    BY <1>3
  <2>2. Tail(s) = <<"thumbnail">>
    BY <1>3
  <2>3. Range(Tail(s)) = {"thumbnail"}
    <3>1. PICK t : t = <<"thumbnail">>
      OBVIOUS
    <3>2. DOMAIN t = {1} /\ t[1] = "thumbnail"
      BY <3>1
    <3>3. Range(t) = {"thumbnail"}
      BY <3>2 DEF Range
    <3> QED BY <2>2, <3>1, <3>3
  <2> QED BY <1>3, <2>1, <2>2, <2>3 DEF Served, FileVersions, Range, Todos
<1>4. CASE kind = "image" /\ s = <<"original", "preview", "thumbnail">>
  <2>1. /\ Head(s) = "original" /\ Len(s) = 3 /\ DOMAIN s = {1, 2, 3}
        /\ s[1] = "original" /\ s[2] = "preview" /\ s[3] = "thumbnail"
    BY <1>4
  <2>2. Tail(s) = <<"preview", "thumbnail">>
    BY <1>4
  <2>3. Range(Tail(s)) = {"preview", "thumbnail"}
    <3>1. PICK t : t = <<"preview", "thumbnail">>
      OBVIOUS
    <3>2. DOMAIN t = {1, 2} /\ t[1] = "preview" /\ t[2] = "thumbnail"
      BY <3>1
    <3>3. Range(t) = {"preview", "thumbnail"}
      BY <3>2 DEF Range
    <3> QED BY <2>2, <3>1, <3>3
  <2> QED BY <1>4, <2>1, <2>2, <2>3 DEF Served, FileVersions, Range, Todos
<1> QED BY <1>1, <1>2, <1>3, <1>4 DEF Todos

\* The versions of a kind are what an upload of it still has to put at first, and all that
\* is served.
LEMMA VersionsTodo ==
    ASSUME NEW kind
    PROVE  Versions(kind) \in Todos(kind) /\ Range(Versions(kind)) = Served(kind)
BY DEF Todos, Versions, Served, FileVersions, Range

\* Whatever is left to put is left of one of the two kinds.
LEMMA TodoKind ==
    ASSUME NEW kind, NEW s \in Todos(kind)
    PROVE  s \in Todos("image") \cup Todos("pdf")
BY DEF Todos

\* What holds of one prefix: its row has its objects, its objects a row or a reason.
RowOf(x) ==
    x \notin doubted \cup purged /\ attachments[x] # NoFile =>
        \A v \in Served(attachments[x]) : <<x, v>> \in objects
ReasonFor(x) ==
    \A k \in objects : k[1] = x =>
        attachments[x] # NoFile \/ x \in strayed
        \/ \E u \in Uploaders : upload[u] # Waiting /\ upload[u].prefix = x

\* Rows have objects and objects have rows, prefix by prefix.
LEMMA PerPrefix ==
    ASSUME StorageTypeOK
    PROVE  RowsHaveObjects /\ NoStrayObjects <=> \A x \in UploadIds : RowOf(x) /\ ReasonFor(x)
BY DEF RowsHaveObjects, NoStrayObjects, RowOf, ReasonFor, StorageTypeOK

\* A step of uploader u that touches the prefix it works on, and nothing else.
Touches(x) ==
    /\ \A y \in UploadIds \ {x} :
        /\ attachments'[y] = attachments[y]
        /\ y \in strayed' <=> y \in strayed
        /\ y \in doubted' <=> y \in doubted
    /\ \A k \in UploadIds \X FileVersions : k[1] # x => (k \in objects' <=> k \in objects)
    /\ purge' = purge /\ purged' = purged /\ uploads' = uploads

\* Such a step keeps what holds of the other prefixes and of the other uploaders.
LEMMA OwnPrefix ==
    ASSUME StorageInv, NEW u \in Uploaders, InFlight(u), NEW x \in UploadIds, x = upload[u].prefix,
           Touches(x), NEW r, UploadGoto(u, r), r = Waiting \/ r.prefix = x,
           StorageTypeOK', UploadOK(u)', RowOf(x)', ReasonFor(x)'
    PROVE  StorageInv'
<1>1. /\ upload' = [v \in Uploaders |-> upload'[v]] /\ upload'[u] = r
      /\ \A v \in Uploaders \ {u} : upload'[v] = upload[v]
  BY DEF StorageInv, UploadGoto
<1>2. x \in UploadIds /\ x <= uploads /\ StorageTypeOK
  BY DEF StorageInv, UploadOK, UploadRow
<1>3. PICK y \in UploadIds : y = upload[u].prefix
  BY <1>2
<1>4. \A v \in Uploaders \ {u} : InFlight(v) => upload[v].prefix # y /\ upload[v].prefix \in UploadIds
  BY <1>3 DEF StorageInv, UploadOK, UploadRow
<1>5. Fresh'
  <2> SUFFICES ASSUME NEW z \in UploadIds, z > uploads'
               PROVE  /\ attachments'[z] = NoFile /\ z \notin strayed' \cup doubted' \cup purged'
                      /\ \A k \in objects' \cup purge' : k[1] # z
    BY DEF Fresh
  <2>1. uploads' = uploads /\ uploads \in Int /\ x \in Int
    BY StorageConstants DEF Touches, StorageInv, StorageTypeOK, UploadIds
  <2>2. z # x /\ z > uploads
    BY <1>2, <2>1
  <2>3. /\ attachments[z] = NoFile /\ z \notin strayed \cup doubted \cup purged
        /\ \A k \in objects \cup purge : k[1] # z
    BY <2>2 DEF StorageInv, Fresh
  <2>4. \A k \in objects' : k \in UploadIds \X FileVersions
    BY DEF StorageTypeOK
  <2> QED BY <2>2, <2>3, <2>4 DEF Touches
<1>6. ASSUME NEW v \in Uploaders PROVE UploadOK(v)'
  <2>1. CASE v = u
    BY <2>1
  <2>2. CASE v # u
    <3>1. UploadOK(v) /\ upload'[v] = upload[v]
      BY <1>1, <2>2 DEF StorageInv
    <3>2. CASE ~ InFlight(v)
      BY <3>1, <3>2 DEF UploadOK, InFlight
    <3>3. CASE InFlight(v)
      <4>1. PICK z \in UploadIds : z = upload[v].prefix /\ z # y
        BY <1>4, <2>2, <3>3
      <4>2. /\ attachments'[z] = attachments[z] /\ (z \in strayed' <=> z \in strayed)
            /\ (z \in doubted' <=> z \in doubted) /\ purged' = purged /\ uploads' = uploads
            /\ \A k \in UploadIds \X FileVersions : k[1] = z => (k \in objects' <=> k \in objects)
        BY <1>3, <4>1 DEF Touches
      <4>3. \A k \in objects' : k \in UploadIds \X FileVersions
        BY DEF StorageTypeOK
      <4>4. Unrowed(v) => Unrowed(v)'
        <5>1. \A w \in Served(upload[v].kind) : <<z, w>> \in UploadIds \X FileVersions
          BY <4>1 DEF Served
        <5> QED BY <3>1, <4>1, <4>2, <4>3, <5>1 DEF Unrowed
      <4>5. Undoing(v) => Undoing(v)'
        BY <3>1, <4>1, <4>2, <4>3 DEF Undoing
      <4> QED BY <3>1, <3>3, <4>2, <4>4, <4>5 DEF UploadOK, InFlight
    <3> QED BY <3>2, <3>3
  <2> QED BY <2>1, <2>2
<1>7. \A v, w \in Uploaders : InFlight(v)' /\ InFlight(w)' /\ upload'[v].prefix = upload'[w].prefix => v = w
  BY <1>1, <1>3, <1>4 DEF StorageInv, InFlight
<1>8. ASSUME NEW z \in UploadIds PROVE RowOf(z)' /\ ReasonFor(z)'
  <2>1. CASE z = x
    BY <2>1
  <2>2. CASE z # x
    <3>1. RowOf(z) /\ ReasonFor(z)
      BY PerPrefix DEF StorageInv
    <3>2. /\ attachments'[z] = attachments[z] /\ (z \in strayed' <=> z \in strayed)
          /\ (z \in doubted' <=> z \in doubted) /\ purged' = purged
          /\ \A k \in UploadIds \X FileVersions : k[1] = z => (k \in objects' <=> k \in objects)
      BY <2>2 DEF Touches
    <3>3. \A k \in objects' : k \in UploadIds \X FileVersions
      BY DEF StorageTypeOK
    <3>4. RowOf(z)'
      <4>1. \A w \in Served(attachments[z]) : <<z, w>> \in UploadIds \X FileVersions
        BY DEF Served
      <4> QED BY <3>1, <3>2, <4>1 DEF RowOf
    <3>5. ReasonFor(z)'
      <4>1. ASSUME NEW v \in Uploaders, upload[v] # Waiting, upload[v].prefix = z
            PROVE  upload'[v] # Waiting /\ upload'[v].prefix = z
        BY <1>1, <2>2, <4>1
      <4> QED BY <3>1, <3>2, <3>3, <4>1 DEF ReasonFor
    <3> QED BY <3>4, <3>5
  <2> QED BY <2>1, <2>2
<1>9. (RowsHaveObjects /\ NoStrayObjects)'
  <2>1. \A k \in objects' : k[1] \in UploadIds
    BY DEF StorageTypeOK
  <2> QED BY <1>8, <2>1 DEF RowOf, ReasonFor, RowsHaveObjects, NoStrayObjects
<1> QED BY <1>1, <1>5, <1>6, <1>7, <1>9 DEF StorageInv, Touches

\* What an upload in flight is.
LEMMA Flying ==
    ASSUME StorageInv, NEW u \in Uploaders, InFlight(u)
    PROVE  /\ upload[u] \in UploadRow /\ upload[u].todo \in Todos(upload[u].kind)
           /\ upload[u].prefix \in UploadIds /\ upload[u].prefix <= uploads
           /\ upload[u].kind \in Kinds \ {NoFile}
           /\ upload[u].pc = "cleanup" => Undoing(u)
           /\ upload[u].pc # "cleanup" => Unrowed(u)
           /\ RowOf(upload[u].prefix) /\ ReasonFor(upload[u].prefix)
<1>1. UploadOK(u) /\ upload[u] \in UploadRow
  BY DEF StorageInv, UploadOK
<1>2. upload[u].prefix \in UploadIds
  BY <1>1 DEF UploadRow
<1>3. RowOf(upload[u].prefix) /\ ReasonFor(upload[u].prefix)
  BY <1>2, PerPrefix DEF StorageInv
<1> QED BY <1>1, <1>2, <1>3 DEF UploadOK, UploadRow

\* An upload past its first statement is in flight.
LEMMA InFlightPc ==
    ASSUME NEW u, upload[u].pc \in {"put", "prepared", "cleanup"}
    PROVE  InFlight(u)
BY DEF InFlight, Waiting

\* An object is put.
LEMMA StoragePut ==
    ASSUME StorageInv, NEW u \in Uploaders, PutObject(u)
    PROVE  StorageInv'
<1>1. InFlight(u) /\ upload[u].pc = "put"
  BY InFlightPc DEF PutObject
<1>2. PICK x \in UploadIds : x = upload[u].prefix /\ x <= uploads
  BY <1>1, Flying
<1>3. PICK kind \in Kinds \ {NoFile} : kind = upload[u].kind
  BY <1>1, Flying
<1>4. PICK todo \in Todos(kind) : todo = upload[u].todo
  BY <1>1, <1>3, Flying
<1>5. PICK k : k = <<x, Head(todo)>>
  OBVIOUS
<1>6. /\ k \in UploadIds \X FileVersions /\ k[1] = x /\ k[2] = Head(todo) /\ Head(todo) \in Served(kind)
      /\ objects' = objects \cup {k}
  BY <1>2, <1>4, <1>5, TodoHead DEF PutObject, Served
<1>7. Touches(x)
  BY <1>6 DEF Touches, PutObject
<1>8. PICK r : r = IF Len(todo) = 1 THEN [upload[u] EXCEPT !.pc = "prepared"]
                   ELSE [upload[u] EXCEPT !.todo = Tail(@)]
  OBVIOUS
<1>9. UploadGoto(u, r) /\ upload'[u] = r
  BY <1>4, <1>8 DEF PutObject, UploadGoto, StorageInv
<1>10. /\ r \in UploadRow /\ r.prefix = x /\ r.kind = kind /\ r.todo \in Todos(kind) /\ r # Waiting
       /\ \/ r.pc = "prepared" /\ Range(todo) = {Head(todo)}
          \/ r.pc = "put" /\ Range(todo) = {Head(todo)} \cup Range(r.todo)
  <2>1. upload[u] \in UploadRow
    BY <1>1, Flying
  <2>2. CASE Len(todo) = 1
    BY <1>2, <1>3, <1>4, <1>8, <2>1, <2>2, TodoHead, TodoKind DEF UploadRow, Waiting
  <2>3. CASE Len(todo) # 1
    BY <1>1, <1>2, <1>3, <1>4, <1>8, <2>1, <2>3, TodoHead, TodoKind DEF UploadRow, Waiting
  <2> QED BY <2>2, <2>3
<1>11. StorageTypeOK'
  BY <1>6 DEF StorageInv, StorageTypeOK, PutObject
<1>12. Unrowed(u)'
  <2>1. Unrowed(u)
    BY <1>1, Flying
  <2>2. attachments'[x] = NoFile /\ x \notin doubted'
    BY <1>2, <2>1 DEF Unrowed, PutObject
  <2>3. \A j \in objects' : j[1] = x => j[2] \in Served(kind)
    BY <1>2, <1>3, <1>6, <2>1 DEF Unrowed
  <2>4. ASSUME x \notin purged', NEW v \in Served(kind)
        PROVE  <<x, v>> \in objects' \/ (r.pc = "put" /\ v \in Range(r.todo))
    <3>1. <<x, v>> \in objects \/ v \in Range(todo)
      BY <1>2, <1>3, <1>4, <2>1, <2>4 DEF Unrowed, PutObject
    <3> QED BY <1>5, <1>6, <1>10, <3>1
  <2> QED BY <1>9, <1>10, <2>2, <2>3, <2>4 DEF Unrowed
<1>13. UploadOK(u)'
  BY <1>2, <1>9, <1>10, <1>12 DEF UploadOK, PutObject
<1>14. RowOf(x)'
  BY <1>9, <1>10, <1>12 DEF RowOf, Unrowed
<1>15. ReasonFor(x)'
  BY <1>9, <1>10 DEF ReasonFor
<1> QED BY <1>1, <1>2, <1>7, <1>9, <1>10, <1>11, <1>13, <1>14, <1>15, OwnPrefix

\* The upload ends: the row is there with its objects, or the failure is recorded.
LEMMA UploadEnds ==
    ASSUME StorageInv, NEW u \in Uploaders, InFlight(u), NEW x \in UploadIds, x = upload[u].prefix,
           Touches(x), UploadGoto(u, Waiting), StorageTypeOK', RowOf(x)',
           \A k \in objects' : k[1] = x => attachments'[x] # NoFile \/ x \in strayed'
    PROVE  StorageInv'
<1>1. upload'[u] = Waiting
  BY DEF UploadGoto, StorageInv
<1>2. UploadOK(u)'
  BY <1>1 DEF UploadOK, InFlight
<1>3. ReasonFor(x)'
  BY DEF ReasonFor
<1> QED BY <1>2, <1>3, OwnPrefix

\* A put fails.
LEMMA StoragePutFails ==
    ASSUME StorageInv, NEW u \in Uploaders, PutFails(u)
    PROVE  StorageInv'
<1>1. InFlight(u) /\ upload[u].pc = "put"
  BY InFlightPc DEF PutFails
<1>2. PICK x \in UploadIds : x = upload[u].prefix /\ x <= uploads
  BY <1>1, Flying
<1>3. PICK kind \in Kinds \ {NoFile} : kind = upload[u].kind
  BY <1>1, Flying
<1>4. PICK todo \in Todos(kind) : todo = upload[u].todo
  BY <1>1, <1>3, Flying
<1>5. PICK k : k = <<x, Head(todo)>>
  OBVIOUS
<1>6. /\ k \in UploadIds \X FileVersions /\ k[1] = x
      /\ objects' = objects \cup {k} \/ objects' = objects
  BY <1>2, <1>4, <1>5, TodoHead DEF PutFails, Served
<1>7. Touches(x)
  BY <1>2, <1>6 DEF Touches, PutFails
<1>8. StorageTypeOK'
  BY <1>2, <1>6 DEF StorageInv, StorageTypeOK, PutFails
<1>9. RowOf(x)'
  <2>1. Unrowed(u)
    BY <1>1, Flying
  <2> QED BY <1>2, <2>1 DEF Unrowed, RowOf, PutFails
<1>10. UploadGoto(u, Waiting) /\ x \in strayed'
  BY <1>2 DEF PutFails, AfterFailedPut
<1> QED BY <1>1, <1>2, <1>7, <1>8, <1>9, <1>10, UploadEnds

\* The commit: the row appears with its objects.
LEMMA StorageCommit ==
    ASSUME StorageInv, NEW u \in Uploaders, CommitAttachment(u)
    PROVE  StorageInv'
<1>1. InFlight(u) /\ upload[u].pc = "prepared"
  BY InFlightPc DEF CommitAttachment
<1>2. PICK x \in UploadIds : x = upload[u].prefix /\ x <= uploads
  BY <1>1, Flying
<1>3. PICK kind \in Kinds \ {NoFile} : kind = upload[u].kind
  BY <1>1, Flying
<1>4. attachments' = [attachments EXCEPT ![x] = kind]
  BY <1>2, <1>3 DEF CommitAttachment
<1>5. StorageTypeOK' /\ attachments'[x] = kind
  BY <1>2, <1>4 DEF StorageInv, StorageTypeOK, CommitAttachment
<1>6. Touches(x)
  BY <1>2, <1>4 DEF StorageInv, StorageTypeOK, Touches, CommitAttachment
<1>7. RowOf(x)'
  <2>1. Unrowed(u)
    BY <1>1, Flying
  <2> QED BY <1>1, <1>2, <1>3, <1>5, <2>1 DEF Unrowed, RowOf, CommitAttachment
<1>8. UploadGoto(u, Waiting)
  BY DEF CommitAttachment
<1> QED BY <1>1, <1>2, <1>5, <1>6, <1>7, <1>8, UploadEnds

\* From now on the uploader deletes what it put.
LEMMA CleansUp ==
    ASSUME StorageInv, NEW u \in Uploaders, InFlight(u), upload[u].pc = "prepared",
           NEW x \in UploadIds, x = upload[u].prefix, UploadGoto(u, AfterFailure(u)),
           Touches(x), StorageTypeOK', objects' = objects,
           attachments'[x] = NoFile \/ x \in doubted'
    PROVE  StorageInv'
<1>1. PICK kind \in Kinds \ {NoFile} : kind = upload[u].kind
  BY Flying
<1>2. PICK r : r = [upload[u] EXCEPT !.pc = "cleanup", !.todo = Versions(kind)]
  OBVIOUS
<1>3. UploadGoto(u, r) /\ upload'[u] = r
  BY <1>1, <1>2 DEF AfterFailure, UploadGoto, StorageInv
<1>4. /\ r \in UploadRow /\ r.prefix = x /\ r.kind = kind /\ r.todo \in Todos(kind)
      /\ r.pc = "cleanup" /\ Range(r.todo) = Served(kind) /\ r # Waiting
  <2>1. upload[u] \in UploadRow
    BY Flying
  <2>2. Versions(kind) \in Todos(kind) /\ Range(Versions(kind)) = Served(kind)
    BY VersionsTodo
  <2> QED BY <1>1, <1>2, <2>1, <2>2, TodoKind DEF UploadRow, Waiting
<1>5. \A k \in objects' : k[1] = x => k[2] \in Range(r.todo)
  <2>1. Unrowed(u)
    BY Flying
  <2> QED BY <1>1, <1>4, <2>1 DEF Unrowed
<1>6. Undoing(u)'
  BY <1>3, <1>4, <1>5 DEF Undoing
<1>7. UploadOK(u)'
  <2>1. x <= uploads'
    BY Flying DEF Touches
  <2> QED BY <1>3, <1>4, <1>6, <2>1 DEF UploadOK
<1>8. RowOf(x)'
  BY DEF RowOf
<1>9. ReasonFor(x)'
  BY <1>3, <1>4 DEF ReasonFor
<1> QED BY <1>3, <1>4, <1>7, <1>8, <1>9, OwnPrefix

\* A failed transaction leaves no row, and the upload turns to its clean-up.
LEMMA StorageTransactionFails ==
    ASSUME StorageInv, NEW u \in Uploaders, TransactionFails(u)
    PROVE  StorageInv'
<1>1. InFlight(u) /\ upload[u].pc = "prepared"
  BY InFlightPc DEF TransactionFails
<1>2. PICK x \in UploadIds : x = upload[u].prefix /\ x <= uploads
  BY <1>1, Flying
<1>3. Touches(x) /\ StorageTypeOK'
  BY DEF Touches, TransactionFails, StorageTypeOK, StorageInv
<1>4. attachments'[x] = NoFile
  BY <1>1, <1>2, Flying DEF Unrowed, TransactionFails
<1> QED BY <1>1, <1>2, <1>3, <1>4, CleansUp DEF TransactionFails

\* A commit whose answer is lost leaves a row under doubt.
LEMMA StorageAnswerLost ==
    ASSUME StorageInv, NEW u \in Uploaders, AnswerLost(u)
    PROVE  StorageInv'
<1>1. InFlight(u) /\ upload[u].pc = "prepared"
  BY InFlightPc DEF AnswerLost
<1>2. PICK x \in UploadIds : x = upload[u].prefix /\ x <= uploads
  BY <1>1, Flying
<1>3. PICK kind \in Kinds \ {NoFile} : kind = upload[u].kind
  BY <1>1, Flying
<1>4. attachments' = [attachments EXCEPT ![x] = kind] /\ doubted' = doubted \cup {x}
  BY <1>2, <1>3 DEF AnswerLost
<1>5. StorageTypeOK'
  BY <1>4 DEF StorageInv, StorageTypeOK, AnswerLost
<1>6. Touches(x)
  BY <1>4 DEF StorageInv, StorageTypeOK, Touches, AnswerLost
<1> QED BY <1>1, <1>2, <1>4, <1>5, <1>6, CleansUp DEF AnswerLost

\* One key is deleted, or its delete fails and is logged.
LEMMA StorageCleanup ==
    ASSUME StorageInv, NEW u \in Uploaders, Cleanup(u)
    PROVE  StorageInv'
<1>1. InFlight(u) /\ upload[u].pc = "cleanup"
  BY InFlightPc DEF Cleanup
<1>2. PICK x \in UploadIds : x = upload[u].prefix /\ x <= uploads
  BY <1>1, Flying
<1>3. PICK kind \in Kinds \ {NoFile} : kind = upload[u].kind
  BY <1>1, Flying
<1>4. PICK todo \in Todos(kind) : todo = upload[u].todo
  BY <1>1, <1>3, Flying
<1>5. PICK k : k = <<x, Head(todo)>>
  OBVIOUS
<1>6. /\ k[1] = x /\ k[2] = Head(todo)
      /\ \/ objects' = objects \ {k} /\ strayed' = strayed
         \/ objects' = objects /\ strayed' = strayed \cup {x}
  BY <1>2, <1>4, <1>5 DEF Cleanup
<1>7. Touches(x)
  BY <1>6 DEF Touches, Cleanup
<1>8. StorageTypeOK'
  BY <1>2, <1>6 DEF StorageInv, StorageTypeOK, Cleanup
<1>9. /\ attachments[x] = NoFile \/ x \in doubted
      /\ \A j \in objects : j[1] = x => j[2] \in Range(todo) \/ x \in strayed \/ attachments[x] # NoFile
  BY <1>1, <1>2, <1>4, Flying DEF Undoing
<1>10. RowOf(x)'
  BY <1>9 DEF RowOf, Cleanup
<1>11. \A j \in objects' : /\ j[1] = x
                          /\ x \notin strayed' /\ attachments'[x] = NoFile
                          => j[2] \in Range(todo) /\ j[2] # Head(todo)
  <2> SUFFICES ASSUME NEW j \in objects', j[1] = x, x \notin strayed', attachments'[x] = NoFile
               PROVE  j[2] \in Range(todo) /\ j[2] # Head(todo)
    OBVIOUS
  <2>1. objects' = objects \ {k} /\ strayed' = strayed /\ attachments' = attachments
    BY <1>6 DEF Cleanup
  <2>2. j \in objects /\ j # k /\ j \in UploadIds \X FileVersions
    BY <2>1 DEF StorageInv, StorageTypeOK
  <2>3. j = <<x, j[2]>>
    BY <2>2
  <2> QED BY <1>5, <1>9, <2>1, <2>2, <2>3
<1>12. CASE Len(todo) = 1
  <2>1. UploadGoto(u, Waiting)
    BY <1>4, <1>12 DEF Cleanup
  <2>2. Range(todo) = {Head(todo)}
    BY <1>12, TodoHead
  <2> QED BY <1>1, <1>2, <1>7, <1>8, <1>10, <1>11, <2>1, <2>2, UploadEnds
<1>13. CASE Len(todo) # 1
  <2>1. PICK r : r = [upload[u] EXCEPT !.todo = Tail(@)]
    OBVIOUS
  <2>2. UploadGoto(u, r) /\ upload'[u] = r
    BY <1>4, <1>13, <2>1 DEF Cleanup, UploadGoto, StorageInv
  <2>3. /\ r \in UploadRow /\ r.prefix = x /\ r.kind = kind /\ r.todo \in Todos(kind)
        /\ r.pc = "cleanup" /\ r # Waiting /\ Range(todo) = {Head(todo)} \cup Range(r.todo)
    <3>1. upload[u] \in UploadRow
      BY <1>1, Flying
    <3> QED BY <1>1, <1>2, <1>3, <1>4, <1>13, <2>1, <3>1, TodoHead, TodoKind DEF UploadRow, Waiting
  <2>4. \A j \in objects' : j[1] = x => j[2] \in Range(r.todo) \/ x \in strayed' \/ attachments'[x] # NoFile
    BY <1>11, <2>3
  <2>5. attachments'[x] = NoFile \/ x \in doubted'
    BY <1>9 DEF Cleanup
  <2>6. Undoing(u)'
    BY <2>2, <2>3, <2>4, <2>5 DEF Undoing
  <2>7. UploadOK(u)'
    BY <1>2, <2>2, <2>3, <2>6 DEF UploadOK, Cleanup
  <2>8. ReasonFor(x)'
    BY <2>2, <2>3 DEF ReasonFor
  <2> QED BY <1>1, <1>2, <1>7, <1>8, <1>10, <2>2, <2>3, <2>7, <2>8, OwnPrefix
<1> QED BY <1>12, <1>13

\* Every step of an upload keeps rows and objects together.
LEMMA StorageUploadStep ==
    ASSUME StorageInv, NEW u \in Uploaders, UploadStep(u)
    PROVE  StorageInv'
BY StoragePut, StoragePutFails, StorageCommit, StorageTransactionFails, StorageAnswerLost,
   StorageCleanup DEF UploadStep

\* So does a step that leaves the storage alone.
LEMMA StorageUnchanged ==
    ASSUME StorageInv, UNCHANGED storageVars
    PROVE  StorageInv'
BY DEF storageVars, StorageInv, StorageTypeOK, Fresh, UploadOK, InFlight, Unrowed, Undoing,
       RowsHaveObjects, NoStrayObjects

\* The process stops in the middle of an upload.
LEMMA StorageStops ==
    ASSUME StorageInv, NEW u \in Uploaders, UploaderStops(u)
    PROVE  StorageInv'
<1>1. UploadGoto(u, Waiting)
  BY DEF UploaderStops, UploadGoto
<1>2. CASE ~ InFlight(u)
  <2>1. upload' = upload
    BY <1>2 DEF UploaderStops, InFlight, StorageInv
  <2>2. UNCHANGED storageVars
    BY <1>2, <2>1 DEF UploaderStops, InFlight, storageVars
  <2> QED BY <2>2, StorageUnchanged
<1>3. CASE InFlight(u)
  <2>1. PICK x \in UploadIds : x = upload[u].prefix /\ x <= uploads
    BY <1>3, Flying
  <2>2. strayed' = strayed \cup {x}
    BY <1>3, <2>1 DEF UploaderStops, InFlight
  <2>3. Touches(x)
    BY <2>2 DEF Touches, UploaderStops
  <2>4. StorageTypeOK'
    BY <2>2 DEF StorageInv, StorageTypeOK, UploaderStops
  <2>5. RowOf(x)'
    <3>1. RowOf(x)
      BY <1>3, <2>1, Flying
    <3> QED BY <3>1 DEF RowOf, UploaderStops
  <2> QED BY <1>1, <1>3, <2>1, <2>2, <2>3, <2>4, <2>5, UploadEnds
<1> QED BY <1>2, <1>3

\* An upload starts, under a prefix nothing knows.
LEMMA StorageStart ==
    ASSUME StorageInv, NEW u \in Uploaders, NEW f, f.kind \in Kinds \cup {NoFile}, StartUpload(u, f)
    PROVE  StorageInv'
<1>1. PICK x : x = uploads + 1
  OBVIOUS
<1>2. x \in UploadIds /\ x > uploads /\ uploads' = x /\ uploads \in Nat
  BY <1>1, StorageConstants DEF StorageInv, StorageTypeOK, StartUpload, UploadIds
<1>3. PICK r : r = [pc |-> "put", prefix |-> x, kind |-> f.kind, todo |-> Versions(f.kind)]
  OBVIOUS
<1>4. /\ upload' = [v \in Uploaders |-> upload'[v]] /\ upload'[u] = r
      /\ \A v \in Uploaders \ {u} : upload'[v] = upload[v]
  BY <1>1, <1>3 DEF StorageInv, UploadGoto, StartUpload
<1>5. /\ r \in UploadRow /\ r.todo \in Todos(r.kind) /\ Range(r.todo) = Served(r.kind)
      /\ r.prefix = x /\ r.pc = "put"
  BY <1>2, <1>3, VersionsTodo, TodoKind DEF UploadRow, StartUpload, Acceptable
<1>6. /\ attachments[x] = NoFile /\ x \notin strayed \cup doubted \cup purged
      /\ \A k \in objects \cup purge : k[1] # x
  BY <1>2 DEF StorageInv, Fresh
<1>7. StorageTypeOK'
  BY <1>2, StorageConstants DEF StorageInv, StorageTypeOK, StartUpload, UploadIds
<1>8. Fresh'
  BY <1>2, StorageConstants DEF StorageInv, Fresh, StartUpload, UploadIds
<1>9. UploadOK(u)'
  <2>1. Unrowed(u)'
    BY <1>4, <1>5, <1>6 DEF Unrowed, StartUpload
  <2> QED BY <1>2, <1>4, <1>5, <2>1 DEF UploadOK, UploadRow, UploadIds
<1>10. ASSUME NEW v \in Uploaders \ {u} PROVE UploadOK(v)' /\ (InFlight(v)' => upload'[v].prefix # x)
  <2>1. UploadOK(v) /\ upload'[v] = upload[v]
    BY <1>4 DEF StorageInv
  <2>2. InFlight(v) => upload[v].prefix \in UploadIds /\ upload[v].prefix < x
    BY <1>2, <2>1, StorageConstants DEF UploadOK, UploadRow, UploadIds
  <2>3. InFlight(v) => upload[v].prefix <= uploads'
    BY <1>2, <2>2, StorageConstants DEF UploadIds
  <2>4. (Unrowed(v) => Unrowed(v)') /\ (Undoing(v) => Undoing(v)')
    BY <2>1 DEF Unrowed, Undoing, StartUpload
  <2>5. InFlight(v) => upload[v].prefix # x
    BY <1>2, <2>2, StorageConstants DEF UploadIds
  <2> QED BY <2>1, <2>3, <2>4, <2>5 DEF UploadOK, InFlight
<1>11. \A v, w \in Uploaders : InFlight(v)' /\ InFlight(w)' /\ upload'[v].prefix = upload'[w].prefix => v = w
  BY <1>4, <1>5, <1>10 DEF StorageInv, InFlight
<1>12. RowsHaveObjects'
  BY DEF StorageInv, RowsHaveObjects, StartUpload
<1>13. NoStrayObjects'
  <2>1. \A v \in Uploaders : upload[v] # Waiting => v # u /\ upload'[v] = upload[v]
    BY <1>4 DEF StartUpload
  <2> QED BY <2>1 DEF StorageInv, NoStrayObjects, StartUpload
<1> QED BY <1>4, <1>7, <1>8, <1>9, <1>10, <1>11, <1>12, <1>13 DEF StorageInv, StartUpload

\* The purge lists the bucket, and what it listed is remembered.
LEMMA StoragePurgeLists ==
    ASSUME StorageInv, PurgeLists
    PROVE  StorageInv'
<1>1. StorageTypeOK'
  BY DEF StorageInv, StorageTypeOK, PurgeLists
<1>2. purge' = objects /\ purged' = purged \cup {k[1] : k \in objects}
  BY DEF PurgeLists
<1>3. Fresh' /\ \A k \in purge' : k[1] \in purged'
  BY <1>2 DEF StorageInv, Fresh, PurgeLists
<1>4. ASSUME NEW u \in Uploaders PROVE UploadOK(u)'
  <2>1. (Unrowed(u) => Unrowed(u)') /\ (Undoing(u) => Undoing(u)')
    BY <1>2 DEF Unrowed, Undoing, PurgeLists
  <2> QED BY <2>1 DEF StorageInv, UploadOK, InFlight, PurgeLists
<1>5. RowsHaveObjects' /\ NoStrayObjects'
  BY <1>2 DEF StorageInv, RowsHaveObjects, NoStrayObjects, PurgeLists
<1> QED BY <1>1, <1>3, <1>4, <1>5 DEF StorageInv, InFlight, PurgeLists

\* The purge deletes, only under prefixes it has listed.
LEMMA StoragePurgeDeletes ==
    ASSUME StorageInv, PurgeDeletes
    PROVE  StorageInv'
<1>1. StorageTypeOK'
  BY DEF StorageInv, StorageTypeOK, PurgeDeletes
<1>2. /\ objects' = objects \ purge /\ purge' = {}
      /\ \A x, v : x \notin purged => <<x, v>> \notin purge
  BY DEF StorageInv, PurgeDeletes
<1>3. Fresh' /\ \A k \in purge' : k[1] \in purged'
  BY <1>2 DEF StorageInv, Fresh, PurgeDeletes
<1>4. ASSUME NEW u \in Uploaders PROVE UploadOK(u)'
  <2>1. (Unrowed(u) => Unrowed(u)') /\ (Undoing(u) => Undoing(u)')
    BY <1>2 DEF Unrowed, Undoing, PurgeDeletes
  <2> QED BY <2>1 DEF StorageInv, UploadOK, InFlight, PurgeDeletes
<1>5. RowsHaveObjects' /\ NoStrayObjects'
  BY <1>2 DEF StorageInv, RowsHaveObjects, NoStrayObjects, PurgeDeletes
<1> QED BY <1>1, <1>3, <1>4, <1>5 DEF StorageInv, InFlight, PurgeDeletes

\* What a step of the whole system does to the storage.
LEMMA StorageSteps ==
    ASSUME [Next]_vars
    PROVE  \/ UNCHANGED storageVars
           \/ \E u \in Uploaders :
                \/ UploadStep(u) \/ UploaderStops(u)
                \/ \E f \in Files \cup {Placeholder} : StartUpload(u, f)
           \/ PurgeLists \/ PurgeDeletes
<1>1. CASE UNCHANGED vars
  BY <1>1 DEF vars
<1>2. CASE StartRun
  BY <1>2 DEF StartRun
<1>3. CASE RunStep
  <2>1. Runner \in Uploaders
    BY SeedConstants
  <2>2. CASE OpenEmployee
    BY <2>1, <2>2 DEF OpenEmployee
  <2>3. CASE UploadPlaceholder
    BY <2>1, <2>3 DEF UploadPlaceholder
  <2>4. CASE RunStops
    BY <2>1, <2>4 DEF RunStops
  <2>5. CASE NextSeeder \/ SeedPermission \/ FindRole \/ SaveRole \/ FindUser \/ InsertUser
    BY <2>5 DEF NextSeeder, SeedPermission, FindRole, SaveRole, FindUser, InsertUser
  <2>6. CASE FindDefault \/ InsertDefault \/ SeedRow \/ Uploaded \/ InsertLeave \/ SeedCorrection
    BY <2>6 DEF FindDefault, InsertDefault, SeedRow, Uploaded, InsertLeave, SeedCorrection
  <2> QED BY <1>3, <2>2, <2>3, <2>4, <2>5, <2>6 DEF RunStep
<1>4. CASE ApiStep
  <2>1. Procs \subseteq Uploaders
    BY SeedConstants
  <2>2. CASE RoleRequest
    BY <2>2 DEF RoleRequest
  <2>3. CASE OtherRequest
    BY <2>1, <2>3 DEF OtherRequest
  <2> QED BY <1>4, <2>1, <2>2, <2>3 DEF ApiStep
<1> QED BY <1>1, <1>2, <1>3, <1>4 DEF Next

\* A stored row has its objects, and an object a row or a reason, however uploads, failing
\* transactions, lost answers, clean-ups and purges interleave.
THEOREM StorageInvariant == Spec => []StorageInv
<1>1. Init => StorageInv
  <2> SUFFICES ASSUME Init PROVE StorageInv
    OBVIOUS
  <2>1. StorageInit /\ \A u \in Uploaders : ~ InFlight(u)
    BY DEF Init, StorageInit, InFlight
  <2>2. StorageTypeOK
    BY <2>1, StorageConstants DEF StorageInit, StorageTypeOK
  <2>3. Fresh
    BY <2>1 DEF StorageInit, Fresh
  <2> QED BY <2>1, <2>2, <2>3 DEF StorageInit, StorageInv, UploadOK, RowsHaveObjects, NoStrayObjects
<1>2. StorageInv /\ [Next]_vars => StorageInv'
  <2> SUFFICES ASSUME StorageInv, [Next]_vars PROVE StorageInv'
    OBVIOUS
  <2>1. \A f \in Files \cup {Placeholder} : f.kind \in Kinds \cup {NoFile}
    BY StorageConstants, SeedConstants
  <2>2. ASSUME NEW u \in Uploaders, NEW f \in Files \cup {Placeholder}, StartUpload(u, f)
        PROVE  StorageInv'
    BY <2>1, <2>2, StorageStart
  <2> QED BY <2>2, StorageSteps, StorageUnchanged, StorageUploadStep, StorageStops,
             StoragePurgeLists, StoragePurgeDeletes
<1> QED BY <1>1, <1>2, PTL DEF Spec

\* getAttachmentDownload finds what it streams: every version of a stored row is in the bucket.
THEOREM RowsKeepObjects == Spec => []RowsHaveObjects
BY StorageInvariant, PTL DEF StorageInv

\* A failed transaction leaves nothing behind that is not recorded as left.
THEOREM NothingStrays == Spec => []NoStrayObjects
BY StorageInvariant, PTL DEF StorageInv
-----------------------------------------------------------------------------
(***************************************************************************)
(* Accounts and roles.  The rows of the tables are typed and stand in the  *)
(* unique indexes, a row once written stays in its table, and what a call  *)
(* or the seed program is about to write is typed.                         *)
(***************************************************************************)
UserPatch(patch) ==
    /\ DOMAIN patch \subseteq {"role", "admin", "active", "deleted", "pw"}
    /\ "role" \in DOMAIN patch => patch.role \in RoleIds
    /\ "admin" \in DOMAIN patch => patch.admin \in BOOLEAN
    /\ "active" \in DOMAIN patch => patch.active \in BOOLEAN
    /\ "deleted" \in DOMAIN patch => patch.deleted \in BOOLEAN
    /\ "pw" \in DOMAIN patch => patch.pw \in Passwords
RolePatch(patch) ==
    /\ DOMAIN patch \subseteq {"name", "perms", "deleted"}
    /\ "name" \in DOMAIN patch => patch.name \in RoleNames
    /\ "perms" \in DOMAIN patch => patch.perms \in SUBSET Codes
    /\ "deleted" \in DOMAIN patch => patch.deleted \in BOOLEAN

\* The row a statement is about to change stands in its table.
Target(c) ==
    \/ c.table = "users" /\ c.id \in AccountIds /\ accounts[c.id] # None /\ UserPatch(c.patch)
    \/ c.table = "roles" /\ c.id \in RoleIds /\ roles[c.id] # None /\ RolePatch(c.patch)

Saving(c) ==
    /\ c.pc \in {"load", "diff", "write"}
    /\ DOMAIN c = {"pc", "for", "table", "id", "patch"}
    /\ c.for = "update" \/ (c.for = "delete" /\ c.table = "roles")
    /\ Target(c)
Updating(c) ==
    c.pc = "update" /\ Target(c) /\ (c.table = "roles" => c.patch = [deleted |-> TRUE])
Allocating(c) ==
    /\ c.pc = "allocate" /\ DOMAIN c = {"pc", "id", "todo"}
    /\ c.id \in AccountIds /\ accounts[c.id] # None
    /\ c.todo \in Seq(Types) /\ c.todo # <<>>
Granting(c) == c.pc = "grant" /\ c.id \in AccountIds /\ c.type \in Types

CallOK(p) ==
    \/ call[p] = Idle
    \/ call[p].pc = "insert_account" /\ call[p].row \in AccountRow
    \/ call[p].pc = "insert_role" /\ call[p].row \in RoleRow /\ ~ call[p].row.deleted
    \/ Allocating(call[p]) \/ Granting(call[p]) \/ Saving(call[p]) \/ Updating(call[p])

\* The seed program, between two rows of a seeder and inside one.
TodoOK(s, todo) ==
    /\ s = 1 => todo \in Seq(Codes)
    /\ s = 2 => todo \in Seq([name : RoleNames, perms : SUBSET Codes])
    /\ s = 3 => todo \in Seq([email : Emails, admin : BOOLEAN, role : SUBSET RoleIds])
Between(b) ==
    /\ b.pc = "row" /\ DOMAIN b = {"pc", "seeder", "todo", "seen"}
    /\ b.seeder \in 1..9 /\ b.seen \subseteq AccountIds /\ TodoOK(b.seeder, b.todo)
Inside(s) == Between(run.back) /\ run.back.seeder = s /\ run.back.todo # <<>>

RunOK ==
    \/ run = Stopped
    \/ Between(run)
    \/ /\ run.pc = "save_role" /\ Inside(2) /\ run.found \subseteq RoleIds
       /\ \A r \in run.found : roles[r] # None
    \/ run.pc = "insert_user" /\ Inside(3)
    \/ /\ run.pc \in {"find_default", "insert_default"} /\ Inside(3)
       /\ DOMAIN run = {"pc", "id", "types", "back"}
       /\ run.id \in AccountIds /\ accounts[run.id] # None
       /\ run.types \in Seq(Types) /\ run.types # <<>>
    \/ /\ run.pc \in {"upload", "insert_leaves"} /\ Inside(8)
       /\ DOMAIN run = {"pc", "missing", "file", "back"}

Tables ==
    /\ accounts \in [AccountIds -> AccountRow \cup {None}] /\ AccountsStorable(accounts)
    /\ roles \in [RoleIds -> RoleRow \cup {None}] /\ RolesStorable(roles)
    /\ codes \subseteq Codes
    /\ allowances \in [AccountIds -> [Types -> [default : Nat, granted : Nat]]]

TypeInv ==
    /\ Tables
    /\ call = [p \in Procs |-> call[p]]
    /\ \A p \in Procs : CallOK(p)
    /\ RunOK
    /\ raced \subseteq AccountIds /\ contested \subseteq RoleIds

\* No row leaves its table.
Grown ==
    /\ \A id \in AccountIds : accounts[id] # None => accounts'[id] # None
    /\ \A r \in RoleIds : roles[r] # None => roles'[r] # None

\* A call that waits still holds what it held when tables only grow.
LEMMA GrownCall ==
    ASSUME Grown, NEW p, CallOK(p), call'[p] = call[p]
    PROVE  CallOK(p)'
<1>1. Target(call[p]) => Target(call[p])'
  BY DEF Target, Grown
<1>2. /\ Allocating(call[p]) => Allocating(call[p])'
      /\ Saving(call[p]) => Saving(call[p])'
      /\ Updating(call[p]) => Updating(call[p])'
  BY <1>1 DEF Allocating, Saving, Updating, Grown
<1> QED BY <1>2 DEF CallOK, Granting

\* So does the seed.
LEMMA GrownRun ==
    ASSUME Grown, RunOK, run' = run
    PROVE  RunOK'
<1>1. \A s : Inside(s) => Inside(s)'
  BY DEF Inside
<1> QED BY <1>1 DEF RunOK, Grown

\* A step of a call: the others and the seed program do not notice.
LEMMA CallMoves ==
    ASSUME TypeInv, NEW p \in Procs, NEW r, CallGoto(p, r), Tables', Grown,
           call'[p] = r => CallOK(p)', run' = run, raced' = raced, contested' \subseteq RoleIds
    PROVE  TypeInv' /\ Grown
<1>1. /\ call' = [q \in Procs |-> call'[q]] /\ call'[p] = r
      /\ \A q \in Procs \ {p} : call'[q] = call[q]
  BY DEF TypeInv, CallGoto
<1>2. \A q \in Procs : CallOK(q)'
  BY <1>1, GrownCall DEF TypeInv
<1>3. RunOK'
  BY GrownRun DEF TypeInv
<1> QED BY <1>1, <1>2, <1>3 DEF TypeInv

\* A step of the seed program: the calls do not notice.
LEMMA RunMoves ==
    ASSUME TypeInv, Tables', Grown, call' = call, RunOK', raced' \subseteq AccountIds,
           contested' \subseteq RoleIds
    PROVE  TypeInv' /\ Grown
BY GrownCall DEF TypeInv

\* The tables stay as they are.
LEMMA TablesKept ==
    ASSUME Tables, UNCHANGED <<accounts, roles, codes, allowances>>
    PROVE  Tables' /\ Grown
BY DEF Tables, Grown, AccountsStorable, RolesStorable

\* The lowest free id has no row, and every lower id has one.
LEMMA NextIdFree ==
    ASSUME NEW table, NEW id \in NextId(table, None)
    PROVE  id \in DOMAIN table /\ table[id] = None
BY DEF NextId

\* What a call asks for.
LEMMA RequestType ==
    ASSUME TypeInv, NEW p \in Procs,
           AdminUsers(p) \/ AdminRoles(p) \/ RenameOrDelete(p),
           run' = run, raced' = raced, contested' \subseteq RoleIds
    PROVE  TypeInv' /\ Grown
<1>1. UNCHANGED <<accounts, roles, codes, allowances>>
  BY DEF AdminUsers, AdminRoles, RenameOrDelete, CreateUser, UpdateUser, SetPassword, DeleteUser,
         GrantDays, CreateRole, AssignPermissions, RenameRole, DeleteRole
<1>2. Tables' /\ Grown
  BY <1>1, TablesKept DEF TypeInv
<1>3. PICK r : CallGoto(p, r) /\ (call'[p] = r => CallOK(p)')
  <2>1. ASSUME NEW e \in NewEmails, NEW r \in RoleIds, NEW pw \in Passwords, CreateUser(p, e, r, pw)
        PROVE  \E q : CallGoto(p, q) /\ (call'[p] = q => CallOK(p)')
    <3>1. PICK new \in AccountRow : new = NewAccount(e, r, pw, FALSE)
      BY SeedInputs DEF NewAccount, AccountRow
    <3> DEFINE q == [pc |-> "insert_account", row |-> new]
    <3>2. call'[p] = q => CallOK(p)'
      <4> SUFFICES ASSUME call'[p] = q PROVE CallOK(p)'
        OBVIOUS
      <4>0. call'[p].pc = "insert_account" /\ call'[p].row = new
        OBVIOUS
      <4>1. call'[p].pc = "insert_account" /\ call'[p].row \in AccountRow
        BY <4>0, <3>1
      <4> QED BY <4>1 DEF CallOK, AccountRow, RoleIds
    <3>3. CallGoto(p, q)
      BY <2>1, <3>1 DEF CreateUser
    <3> QED BY <3>2, <3>3
  <2>2. ASSUME NEW id \in AccountIds, NEW patch \in AccountPatches, UpdateUser(p, id, patch)
        PROVE  \E q : CallGoto(p, q) /\ (call'[p] = q => CallOK(p)')
    <3> DEFINE q == [pc |-> "load", for |-> "update", table |-> "users", id |-> id, patch |-> patch]
    <3>1. UserPatch(patch) /\ accounts'[id] # None
      BY <1>1, <2>2, SeedInputs DEF UserPatch, UpdateUser, Account
    <3>2. Target(q)' /\ Saving(q)'
      BY <3>1 DEF Target, Saving
    <3>3. CallGoto(p, q) /\ (call'[p] = q => CallOK(p)')
      BY <2>2, <3>2 DEF UpdateUser, CallOK
    <3> QED BY <3>3
  <2>3. ASSUME NEW id \in AccountIds, NEW pw \in Passwords, SetPassword(p, id, pw)
        PROVE  \E q : CallGoto(p, q) /\ (call'[p] = q => CallOK(p)')
    <3> DEFINE q == [pc |-> "update", table |-> "users", id |-> id, patch |-> [pw |-> pw]]
    <3>1. UserPatch([pw |-> pw]) /\ accounts'[id] # None
      BY <1>1, <2>3 DEF UserPatch, SetPassword, Signed, Account
    <3>2. Target(q)' /\ Updating(q)'
      BY <3>1 DEF Target, Updating
    <3>3. CallGoto(p, q) /\ (call'[p] = q => CallOK(p)')
      BY <2>3, <3>2 DEF SetPassword, CallOK
    <3> QED BY <3>3
  <2>4. ASSUME NEW id \in AccountIds, DeleteUser(p, id)
        PROVE  \E q : CallGoto(p, q) /\ (call'[p] = q => CallOK(p)')
    <3> DEFINE q == [pc |-> "update", table |-> "users", id |-> id, patch |-> [deleted |-> TRUE]]
    <3>1. UserPatch([deleted |-> TRUE]) /\ accounts'[id] # None
      BY <1>1, <2>4 DEF UserPatch, DeleteUser, Account
    <3>2. Target(q)' /\ Updating(q)'
      BY <3>1 DEF Target, Updating
    <3>3. CallGoto(p, q) /\ (call'[p] = q => CallOK(p)')
      BY <2>4, <3>2 DEF DeleteUser, CallOK
    <3> QED BY <3>3
  <2>5. ASSUME NEW id \in AccountIds, NEW t \in Types, GrantDays(p, id, t)
        PROVE  \E q : CallGoto(p, q) /\ (call'[p] = q => CallOK(p)')
    <3> DEFINE q == [pc |-> "grant", id |-> id, type |-> t]
    <3>1. CallGoto(p, q) /\ (call'[p] = q => CallOK(p)')
      BY <2>5 DEF GrantDays, CallOK, Granting
    <3> QED BY <3>1
  <2>6. ASSUME NEW n \in NewRoleNames, NEW perms \in PermissionSets, CreateRole(p, n, perms)
        PROVE  \E q : CallGoto(p, q) /\ (call'[p] = q => CallOK(p)')
    <3> DEFINE q == [pc |-> "insert_role", row |-> [name |-> n, perms |-> perms, deleted |-> FALSE]]
    <3>1. q.row \in RoleRow
      BY <2>6, SeedInputs DEF RoleRow, CreateRole, TypeInv, Tables
    <3>2. call'[p] = q => CallOK(p)'
      <4> SUFFICES ASSUME call'[p] = q PROVE CallOK(p)'
        OBVIOUS
      <4>1. call'[p].pc = "insert_role" /\ call'[p].row \in RoleRow /\ ~ call'[p].row.deleted
        BY <3>1
      <4> QED BY <4>1 DEF CallOK, RoleRow
    <3>3. CallGoto(p, q)
      BY <2>6 DEF CreateRole
    <3> QED BY <3>2, <3>3
  <2>7. ASSUME NEW id \in RoleIds, NEW perms \in PermissionSets, AssignPermissions(p, id, perms)
        PROVE  \E q : CallGoto(p, q) /\ (call'[p] = q => CallOK(p)')
    <3> DEFINE q == [pc |-> "load", for |-> "update", table |-> "roles", id |-> id,
                     patch |-> [perms |-> perms]]
    <3>1. RolePatch([perms |-> perms]) /\ roles'[id] # None
      BY <1>1, <2>7 DEF RolePatch, AssignPermissions, Role, TypeInv, Tables
    <3>2. Target(q)' /\ Saving(q)'
      BY <3>1 DEF Target, Saving
    <3>3. CallGoto(p, q) /\ (call'[p] = q => CallOK(p)')
      BY <2>7, <3>2 DEF AssignPermissions, CallOK
    <3> QED BY <3>3
  <2>8. ASSUME NEW id \in RoleIds, NEW n \in NewRoleNames, RenameRole(p, id, n)
        PROVE  \E q : CallGoto(p, q) /\ (call'[p] = q => CallOK(p)')
    <3> DEFINE q == [pc |-> "load", for |-> "update", table |-> "roles", id |-> id, patch |-> [name |-> n]]
    <3>1. RolePatch([name |-> n]) /\ roles'[id] # None
      BY <1>1, <2>8, SeedInputs DEF RolePatch, RenameRole, Role
    <3>2. Target(q)' /\ Saving(q)'
      BY <3>1 DEF Target, Saving
    <3>3. CallGoto(p, q) /\ (call'[p] = q => CallOK(p)')
      BY <2>8, <3>2 DEF RenameRole, CallOK
    <3> QED BY <3>3
  <2>9. ASSUME NEW id \in RoleIds, DeleteRole(p, id)
        PROVE  \E q : CallGoto(p, q) /\ (call'[p] = q => CallOK(p)')
    <3> DEFINE q == [pc |-> "load", for |-> "delete", table |-> "roles", id |-> id,
                     patch |-> [deleted |-> FALSE]]
    <3>1. RolePatch([deleted |-> FALSE]) /\ roles'[id] # None
      BY <1>1, <2>9 DEF RolePatch, DeleteRole, Role
    <3>2. Target(q)' /\ Saving(q)'
      BY <3>1 DEF Target, Saving
    <3>3. CallGoto(p, q) /\ (call'[p] = q => CallOK(p)')
      BY <2>9, <3>2 DEF DeleteRole, CallOK
    <3> QED BY <3>3
  <2> QED BY <2>1, <2>2, <2>3, <2>4, <2>5, <2>6, <2>7, <2>8, <2>9
             DEF AdminUsers, AdminRoles, RenameOrDelete
<1> QED BY <1>2, <1>3, CallMoves

\* A call ends.
LEMMA CallEndsType ==
    ASSUME TypeInv, NEW p \in Procs, CallEnds(p), Tables', Grown,
           run' = run, raced' = raced, contested' \subseteq RoleIds
    PROVE  TypeInv' /\ Grown
<1>1. call'[p] = Idle => CallOK(p)'
  BY DEF CallOK
<1> QED BY <1>1, CallMoves DEF CallEnds

\* A new row takes the lowest free id, if the indexes allow it.
LEMMA InsertAccountType ==
    ASSUME TypeInv, NEW p \in Procs, InsertAccount(p), run' = run, raced' = raced, contested' = contested
    PROVE  TypeInv' /\ Grown
<1>1. call[p].pc = "insert_account" /\ call[p].row \in AccountRow
  BY DEF InsertAccount, TypeInv, CallOK, Idle, Allocating, Granting, Saving, Updating
<1>2. PICK id \in NextId(accounts, None) :
        LET table == [accounts EXCEPT ![id] = call[p].row] IN
        IF AccountsStorable(table)
        THEN /\ accounts' = table
             /\ CallGoto(p, [pc |-> "allocate", id |-> id, todo |-> DefaultTypes])
        ELSE CallEnds(p) /\ UNCHANGED accounts
  BY DEF InsertAccount
<1>3. id \in AccountIds
  BY <1>2, NextIdFree DEF TypeInv, Tables
<1>4. PICK table : table = [accounts EXCEPT ![id] = call[p].row]
  OBVIOUS
<1>5. CASE AccountsStorable(table)
  <2>1. accounts' = table /\ CallGoto(p, [pc |-> "allocate", id |-> id, todo |-> DefaultTypes])
    BY <1>2, <1>4, <1>5
  <2>2. Tables' /\ Grown /\ accounts'[id] # None
    BY <1>1, <1>3, <1>4, <1>5, <2>1, AccountRecords DEF TypeInv, Tables, Grown, InsertAccount
  <2> DEFINE r == [pc |-> "allocate", id |-> id, todo |-> DefaultTypes]
  <2>3. ASSUME call'[p] = r PROVE CallOK(p)'
    <3>1. Allocating(r)'
      BY <1>3, <2>2, AccountConstants DEF Allocating
    <3> QED BY <2>3, <3>1 DEF CallOK
  <2> QED BY <2>1, <2>2, <2>3, CallMoves DEF TypeInv
<1>6. CASE ~ AccountsStorable(table)
  <2>1. CallEnds(p) /\ UNCHANGED accounts
    BY <1>2, <1>4, <1>6
  <2>2. Tables' /\ Grown
    BY <2>1, TablesKept DEF TypeInv, InsertAccount
  <2> QED BY <2>1, <2>2, CallEndsType DEF TypeInv
<1> QED BY <1>5, <1>6

\* An allowance is added.
LEMMA AllottedType ==
    ASSUME Tables, NEW id \in AccountIds, NEW t \in Types, NEW source \in {"default", "granted"},
           allowances' = Allotted(id, t, source), UNCHANGED <<accounts, roles, codes>>
    PROVE  Tables' /\ Grown
BY DEF Tables, Allotted, Grown, AccountsStorable, RolesStorable

\* The rest of a sequence that has more than one element.
LEMMA MoreToDo ==
    ASSUME NEW S, NEW s \in Seq(S), s # <<>>
    PROVE  /\ Head(s) \in S /\ Tail(s) \in Seq(S)
           /\ Len(s) # 1 => Tail(s) # <<>>
           /\ Len(s) = 1 => Range(s) = {Head(s)}
           /\ Range(s) = {Head(s)} \cup Range(Tail(s))
           /\ \A i \in DOMAIN Tail(s) : i + 1 \in DOMAIN s /\ Tail(s)[i] = s[i + 1]
<1>1. Len(s) \in Nat /\ Len(s) >= 1 /\ DOMAIN s = 1..Len(s) /\ \A i \in 1..Len(s) : s[i] \in S
  OBVIOUS
<1>2. /\ Tail(s) \in Seq(S) /\ Len(Tail(s)) = Len(s) - 1 /\ DOMAIN Tail(s) = 1..(Len(s) - 1)
      /\ \A i \in 1..(Len(s) - 1) : Tail(s)[i] = s[i + 1]
  BY <1>1
<1>3. Head(s) = s[1] /\ Head(s) \in S
  BY <1>1
<1>4. Len(s) # 1 => Tail(s) # <<>>
  <2>1. Len(s) # 1 => Len(Tail(s)) # 0
    BY <1>1, <1>2
  <2> QED BY <2>1
<1>5. Range(s) = {Head(s)} \cup Range(Tail(s))
  <2>1. ASSUME NEW i \in 1..Len(s) PROVE s[i] \in {Head(s)} \cup Range(Tail(s))
    <3>1. CASE i = 1
      BY <1>3, <3>1
    <3>2. CASE i # 1
      <4>1. i - 1 \in 1..(Len(s) - 1) /\ (i - 1) + 1 = i
        BY <1>1, <3>2
      <4>2. Tail(s)[i - 1] = s[i]
        BY <1>2, <4>1
      <4> QED BY <1>2, <4>1, <4>2 DEF Range
    <3> QED BY <3>1, <3>2
  <2>2. ASSUME NEW i \in 1..(Len(s) - 1) PROVE Tail(s)[i] \in Range(s)
    BY <1>1, <1>2 DEF Range
  <2>3. Head(s) \in Range(s)
    BY <1>1, <1>3 DEF Range
  <2> QED BY <1>1, <1>2, <2>1, <2>2, <2>3 DEF Range
<1>6. Len(s) = 1 => Range(s) = {Head(s)}
  BY <1>1, <1>3 DEF Range
<1>7. \A i \in DOMAIN Tail(s) : i + 1 \in DOMAIN s /\ Tail(s)[i] = s[i + 1]
  BY <1>1, <1>2
<1> QED BY <1>2, <1>3, <1>4, <1>5, <1>6, <1>7

\* Types, as a creation looks for the next default allowance.
LEMMA AllocateType ==
    ASSUME TypeInv, NEW p \in Procs, Allocate(p), run' = run, raced' = raced, contested' = contested
    PROVE  TypeInv' /\ Grown
<1>1. Allocating(call[p])
  BY DEF Allocate, TypeInv, CallOK, Idle, Granting, Saving, Updating
<1>2. PICK todo \in Seq(Types) : todo = call[p].todo /\ todo # <<>>
  BY <1>1 DEF Allocating
<1>3. Head(todo) \in Types /\ (Len(todo) # 1 => Tail(todo) \in Seq(Types) /\ Tail(todo) # <<>>)
  BY <1>2, MoreToDo
<1>4. Tables' /\ Grown
  BY <1>1, <1>2, <1>3, AllottedType DEF Allocate, Allocating, TypeInv
<1>5. CASE Len(todo) = 1
  BY <1>2, <1>4, <1>5, CallEndsType DEF Allocate, TypeInv
<1>6. CASE Len(todo) # 1
  <2>0. PICK r : r = [call[p] EXCEPT !.todo = Tail(todo)]
    OBVIOUS
  <2>1. CallGoto(p, r)
    BY <1>2, <1>6, <2>0 DEF Allocate
  <2>2. ASSUME call'[p] = r PROVE CallOK(p)'
    <3>1. /\ DOMAIN r = {"pc", "id", "todo"} /\ r.pc = "allocate" /\ r.id = call[p].id
          /\ r.todo = Tail(todo) /\ r.id \in AccountIds /\ accounts[r.id] # None
      BY <1>1, <2>0 DEF Allocating
    <3>2. accounts'[r.id] # None
      BY <1>4, <3>1 DEF Grown
    <3>3. Allocating(r)'
      BY <1>3, <1>6, <3>1, <3>2 DEF Allocating
    <3> QED BY <2>2, <3>3 DEF CallOK
  <2> QED BY <1>4, <2>1, <2>2, CallMoves DEF TypeInv
<1> QED BY <1>5, <1>6

\* Types, as an allowance is inserted.
LEMMA InsertGrantType ==
    ASSUME TypeInv, NEW p \in Procs, InsertGrant(p), run' = run, raced' = raced, contested' = contested
    PROVE  TypeInv' /\ Grown
<1>1. Granting(call[p])
  BY DEF InsertGrant, TypeInv, CallOK, Idle, Allocating, Saving, Updating
<1>2. Tables' /\ Grown
  BY <1>1, AllottedType DEF InsertGrant, Granting, TypeInv
<1> QED BY <1>2, CallEndsType DEF InsertGrant, TypeInv

\* Types, as a role is inserted.
LEMMA InsertRoleType ==
    ASSUME TypeInv, NEW p \in Procs, InsertRole(p), run' = run, raced' = raced, contested' = contested
    PROVE  TypeInv' /\ Grown
<1>1. call[p].row \in RoleRow
  BY DEF InsertRole, TypeInv, CallOK, Idle, Allocating, Granting, Saving, Updating
<1>2. PICK r \in NextId(roles, None) :
        LET table == [roles EXCEPT ![r] = call[p].row] IN
        roles' = IF RolesStorable(table) THEN table ELSE roles
  BY DEF InsertRole
<1>3. r \in RoleIds
  BY <1>2, NextIdFree DEF TypeInv, Tables
<1>4. Tables' /\ Grown
  BY <1>1, <1>2, <1>3, AccountRecords DEF TypeInv, Tables, Grown, InsertRole
<1> QED BY <1>4, CallEndsType DEF InsertRole, TypeInv

\* The columns of a row that takes a patch.
LEMMA PatchedUser ==
    ASSUME NEW row \in AccountRow, NEW patch, UserPatch(patch)
    PROVE  Patched(row, patch) \in AccountRow
BY DEF Patched, AccountRow, UserPatch
\* A patch of typed columns leaves a role, with the patched name and deletion.
LEMMA PatchedRole ==
    ASSUME NEW row \in RoleRow, NEW patch, RolePatch(patch)
    PROVE  /\ Patched(row, patch) \in RoleRow
           /\ Patched(row, patch).name = IF "name" \in DOMAIN patch THEN patch.name ELSE row.name
           /\ Patched(row, patch).deleted = IF "deleted" \in DOMAIN patch THEN patch.deleted ELSE row.deleted
BY DEF Patched, RoleRow, RolePatch

\* The row a statement works on.
LEMMA StoredRow ==
    ASSUME TypeInv, NEW p \in Procs, Target(call[p])
    PROVE  \/ /\ call[p].table = "users" /\ call[p].id \in AccountIds /\ Stored(p) \in AccountRow
              /\ Stored(p) = accounts[call[p].id] /\ UserPatch(call[p].patch)
           \/ /\ call[p].table = "roles" /\ call[p].id \in RoleIds /\ Stored(p) \in RoleRow
              /\ Stored(p) = roles[call[p].id] /\ RolePatch(call[p].patch)
BY DEF Target, TypeInv, Tables, Stored

\* From one statement of a save to the next.
LEMMA NextStatement ==
    ASSUME TypeInv, NEW p \in Procs, Saving(call[p]), NEW pc \in {"diff", "write"}, NEW patch,
           call[p].table = "users" => UserPatch(patch), call[p].table = "roles" => RolePatch(patch),
           CallGoto(p, [call[p] EXCEPT !.pc = pc, !.patch = patch]),
           UNCHANGED <<accounts, roles, codes, allowances>>,
           run' = run, raced' = raced, contested' = contested
    PROVE  TypeInv' /\ Grown
<1>1. Tables' /\ Grown
  BY TablesKept DEF TypeInv
<1>0. PICK r : r = [call[p] EXCEPT !.pc = pc, !.patch = patch]
  OBVIOUS
<1>2. ASSUME call'[p] = r PROVE CallOK(p)'
  <2>1. /\ DOMAIN r = {"pc", "for", "table", "id", "patch"} /\ r.pc = pc /\ r.patch = patch
        /\ r.for = call[p].for /\ r.table = call[p].table /\ r.id = call[p].id
    BY <1>0 DEF Saving
  <2>2. Target(r)'
    BY <2>1 DEF Saving, Target
  <2>3. Saving(r)'
    BY <2>1, <2>2 DEF Saving
  <2> QED BY <1>2, <2>3 DEF CallOK
<1> QED BY <1>0, <1>1, <1>2, CallMoves DEF TypeInv

\* Types, as a call loads its row.
LEMMA LoadRowType ==
    ASSUME TypeInv, NEW p \in Procs, LoadRow(p), run' = run, raced' = raced, contested' = contested
    PROVE  TypeInv' /\ Grown
<1>1. Saving(call[p])
  BY DEF LoadRow, TypeInv, CallOK, Idle, Allocating, Granting, Updating
<1>2. Tables' /\ Grown
  BY TablesKept DEF TypeInv, LoadRow
<1>3. CASE Stored(p).deleted
  BY <1>2, <1>3, CallEndsType DEF LoadRow, TypeInv
<1>4. CASE ~ Stored(p).deleted
  <2>1. PICK row : row = Patched(Stored(p), call[p].patch)
    OBVIOUS
  <2>2. PICK patch : patch = [c \in Loaded(p) |-> row[c]]
    OBVIOUS
  <2>3. CallGoto(p, [call[p] EXCEPT !.pc = "diff", !.patch = patch])
    BY <1>4, <2>1, <2>2 DEF LoadRow
  <2>4. /\ call[p].table = "users" => row \in AccountRow
        /\ call[p].table = "roles" => row \in RoleRow
    BY <1>1, <2>1, StoredRow, PatchedUser, PatchedRole DEF Saving
  <2>5. call[p].table = "users" => UserPatch(patch)
    BY <2>2, <2>4 DEF Loaded, UserPatch, AccountRow
  <2>6. call[p].table = "roles" => RolePatch(patch)
    BY <2>2, <2>4 DEF Loaded, RolePatch, RoleRow
  <2> QED BY <1>1, <2>3, <2>5, <2>6, NextStatement DEF LoadRow
<1> QED BY <1>3, <1>4

\* Types, as a call compares its row with the stored one.
LEMMA DiffRowType ==
    ASSUME TypeInv, NEW p \in Procs, DiffRow(p), run' = run, raced' = raced, contested' = contested
    PROVE  TypeInv' /\ Grown
<1>1. Saving(call[p])
  BY DEF DiffRow, TypeInv, CallOK, Idle, Allocating, Granting, Updating
<1>2. PICK patch : patch = Delta(call[p].patch, Stored(p))
  OBVIOUS
<1>3. CallGoto(p, [call[p] EXCEPT !.pc = "write", !.patch = patch])
  BY <1>1, <1>2 DEF DiffRow, Saving
<1>4. call[p].table = "users" => UserPatch(patch)
  BY <1>1, <1>2 DEF Saving, Target, UserPatch, Delta
<1>5. call[p].table = "roles" => RolePatch(patch)
  BY <1>1, <1>2 DEF Saving, Target, RolePatch, Delta
<1> QED BY <1>1, <1>3, <1>4, <1>5, NextStatement DEF DiffRow

\* The UPDATE: the row takes the patch, if the indexes allow it.
LEMMA WriteColumnsTables ==
    ASSUME TypeInv, NEW p \in Procs, Target(call[p]), WriteColumns(p), UNCHANGED <<codes, allowances>>
    PROVE  Tables' /\ Grown
<1>1. PICK row : row = Patched(Stored(p), call[p].patch)
  OBVIOUS
<1>2. CASE call[p].table = "users"
  <2>1. row \in AccountRow /\ row # None /\ call[p].id \in AccountIds
    BY <1>1, <1>2, StoredRow, PatchedUser, AccountRecords
  <2>2. PICK users : users = [accounts EXCEPT ![call[p].id] = row]
    OBVIOUS
  <2>3. roles' = roles /\ accounts' = IF AccountsStorable(users) THEN users ELSE accounts
    BY <1>1, <1>2, <2>2 DEF WriteColumns
  <2> QED BY <2>1, <2>2, <2>3 DEF TypeInv, Tables, Grown, RolesStorable
<1>3. CASE call[p].table = "roles"
  <2>1. row \in RoleRow /\ row # None /\ call[p].id \in RoleIds
    BY <1>1, <1>3, StoredRow, PatchedRole, AccountRecords
  <2>2. PICK named : named = [roles EXCEPT ![call[p].id] = row]
    OBVIOUS
  <2>3. accounts' = accounts /\ roles' = IF RolesStorable(named) THEN named ELSE roles
    BY <1>1, <1>3, <2>2 DEF WriteColumns
  <2> QED BY <2>1, <2>2, <2>3 DEF TypeInv, Tables, Grown, AccountsStorable
<1> QED BY <1>2, <1>3 DEF Target

\* Types, as a call writes the columns that differ.
LEMMA WriteColumnsType ==
    ASSUME TypeInv, NEW p \in Procs, Saving(call[p]) \/ Updating(call[p]), WriteColumns(p),
           call[p].pc \in {"write", "update"},
           UNCHANGED <<codes, allowances>>, run' = run, raced' = raced, contested' = contested
    PROVE  TypeInv' /\ Grown
<1>1. Target(call[p])
  BY DEF Saving, Updating
<1>2. Tables' /\ Grown
  BY <1>1, WriteColumnsTables
<1>3. CASE CallEnds(p)
  BY <1>2, <1>3, CallEndsType DEF TypeInv
<1>0. PICK r : r = [pc |-> "update", table |-> "roles", id |-> call[p].id, patch |-> [deleted |-> TRUE]]
  OBVIOUS
<1>4. CASE call[p].pc = "write" /\ call[p].for = "delete" /\ CallGoto(p, r)
  <2>1. call[p].table = "roles" /\ call[p].id \in RoleIds /\ roles'[call[p].id] # None
    BY <1>1, <1>2, <1>4 DEF Saving, Updating, Target, Grown
  <2>2. ASSUME call'[p] = r PROVE CallOK(p)'
    <3>1. RolePatch([deleted |-> TRUE])
      BY DEF RolePatch
    <3>2. /\ r.pc = "update" /\ r.table = "roles" /\ r.patch = [deleted |-> TRUE]
          /\ r.id \in RoleIds /\ roles'[r.id] # None
      BY <1>0, <2>1
    <3>3. Updating(r)'
      BY <3>1, <3>2 DEF Updating, Target
    <3> QED BY <2>2, <3>3 DEF CallOK
  <2> QED BY <1>2, <1>4, <2>2, CallMoves DEF TypeInv
<1> QED BY <1>0, <1>3, <1>4 DEF WriteColumns

\* Every step of an API call keeps the types, and tables only grow.
LEMMA CallStepType ==
    ASSUME TypeInv, NEW p \in Procs, CallStep(p), run' = run, raced' = raced, contested' = contested
    PROVE  TypeInv' /\ Grown
<1>1. ASSUME WriteRow(p) PROVE TypeInv' /\ Grown
  <2>1. Saving(call[p])
    BY <1>1 DEF WriteRow, TypeInv, CallOK, Idle, Allocating, Granting, Updating
  <2> QED BY <1>1, <2>1, WriteColumnsType DEF WriteRow
<1>2. ASSUME UpdateColumns(p) PROVE TypeInv' /\ Grown
  <2>1. Updating(call[p])
    BY <1>2 DEF UpdateColumns, TypeInv, CallOK, Idle, Allocating, Granting, Saving
  <2> QED BY <1>2, <2>1, WriteColumnsType DEF UpdateColumns
<1>3. ASSUME CallFails(p) PROVE TypeInv' /\ Grown
  <2>1. Tables' /\ Grown
    BY <1>3, TablesKept DEF CallFails, TypeInv
  <2> QED BY <1>3, <2>1, CallEndsType DEF CallFails, TypeInv
<1> QED BY <1>1, <1>2, <1>3, InsertAccountType, AllocateType, InsertGrantType, InsertRoleType,
           LoadRowType, DiffRowType DEF CallStep

\* The seed program goes on with the next row.
LEMMA NextRow ==
    ASSUME NEW b, Between(b), b.todo # <<>>
    PROVE  /\ Between([b EXCEPT !.todo = Tail(@)])
           /\ b.seeder = 1 => Head(b.todo) \in Codes
           /\ b.seeder = 2 => Head(b.todo) \in [name : RoleNames, perms : SUBSET Codes]
           /\ b.seeder = 3 => Head(b.todo) \in [email : Emails, admin : BOOLEAN, role : SUBSET RoleIds]
           /\ [b EXCEPT !.todo = Tail(@)].seen = b.seen /\ [b EXCEPT !.todo = Tail(@)].pc = "row"
           /\ [b EXCEPT !.todo = Tail(@)].seeder = b.seeder
           /\ [b EXCEPT !.todo = Tail(@)].todo = Tail(b.todo)
<1>1. PICK n : n = [b EXCEPT !.todo = Tail(@)]
  OBVIOUS
<1>2. /\ DOMAIN n = {"pc", "seeder", "todo", "seen"} /\ n.pc = "row" /\ n.seeder = b.seeder
      /\ n.seen = b.seen /\ n.todo = Tail(b.todo)
  BY <1>1 DEF Between
<1>3. /\ b.seeder = 1 => Head(b.todo) \in Codes /\ Tail(b.todo) \in Seq(Codes)
      /\ b.seeder = 2 => /\ Head(b.todo) \in [name : RoleNames, perms : SUBSET Codes]
                         /\ Tail(b.todo) \in Seq([name : RoleNames, perms : SUBSET Codes])
      /\ b.seeder = 3 =>
            /\ Head(b.todo) \in [email : Emails, admin : BOOLEAN, role : SUBSET RoleIds]
            /\ Tail(b.todo) \in Seq([email : Emails, admin : BOOLEAN, role : SUBSET RoleIds])
  BY MoreToDo DEF Between, TodoOK
<1>4. Between(n)
  BY <1>2, <1>3 DEF Between, TodoOK
<1> QED BY <1>1, <1>2, <1>3, <1>4

\* The seeders in their order.
LEMMA SeederOrder ==
    /\ Len(Seeders) = 9 /\ Seeders[1] = "permissions" /\ Seeders[2] = "roles" /\ Seeders[3] = "users"
    /\ Seeders[4] = "entries" /\ Seeders[5] = "schedules" /\ Seeders[6] = "pay"
    /\ Seeders[7] = "chains" /\ Seeders[8] = "leaves" /\ Seeders[9] = "corrections"
BY DEF Seeders

\* A sequence is a function on its positions.
LEMMA SeqFacts ==
    ASSUME NEW S, NEW s \in Seq(S)
    PROVE  Len(s) \in Nat /\ DOMAIN s = 1..Len(s) /\ \A n \in 1..Len(s) : s[n] \in S
OBVIOUS

\* The rows the first three seeders work through.
LEMMA FirstRows ==
    ASSUME Tables, NEW s \in 1..9
    PROVE  TodoOK(s, RowsOf(Seeders[s]))
<1>1. CASE s = 1
  BY <1>1, SeederOrder, SeedInputs DEF RowsOf, TodoOK
<1>2. CASE s = 2
  <2>1. RowsOf(Seeders[s]) = RoleRows
    BY <1>2, SeederOrder DEF RowsOf
  <2>2. RoleRows \in Seq([name : RoleNames, perms : SUBSET Codes])
    <3>1. /\ DOMAIN RoleData = 1..Len(RoleData) /\ Len(RoleData) \in Nat
          /\ \A n \in 1..Len(RoleData) : RoleData[n] \in [name : RoleNames, perms : SUBSET Codes]
      BY SeedInputs, SeqFacts
    <3>2. PICK m \in Nat : m = Len(RoleData)
      BY <3>1
    <3> DEFINE S == [name : RoleNames, perms : SUBSET Codes]
    <3>3. ASSUME NEW n \in 1..m
          PROVE  [name |-> RoleData[n].name, perms |-> RoleData[n].perms \cap codes] \in S
      BY <3>1, <3>2
    <3> HIDE DEF S
    <3>4. RoleRows \in [1..m -> S]
      BY <3>1, <3>2, <3>3 DEF RoleRows
    <3>5. RoleRows \in Seq(S)
      BY <3>4
    <3> QED BY <3>5 DEF S
  <2> QED BY <1>2, <2>1, <2>2 DEF TodoOK
<1>3. CASE s = 3
  <2>1. RowsOf(Seeders[s]) = UserRows
    BY <1>3, SeederOrder DEF RowsOf
  <2>2. UserRows \in Seq([email : Emails, admin : BOOLEAN, role : SUBSET RoleIds])
    <3>1. /\ DOMAIN UserData = 1..Len(UserData) /\ Len(UserData) \in Nat
          /\ \A n \in 1..Len(UserData) : UserData[n] \in [email : Emails, role : RoleNames, admin : BOOLEAN]
      BY SeedInputs, SeqFacts
    <3>2. PICK m \in Nat : m = Len(UserData)
      BY <3>1
    <3> DEFINE S == [email : Emails, admin : BOOLEAN, role : SUBSET RoleIds]
    <3>3. ASSUME NEW n \in 1..m
          PROVE  [email |-> UserData[n].email, admin |-> UserData[n].admin,
                  role |-> FindRoleByName(UserData[n].role)] \in S
      <4>1. FindRoleByName(UserData[n].role) \in SUBSET RoleIds
        BY DEF FindRoleByName
      <4> QED BY <3>1, <3>2, <4>1
    <3> HIDE DEF S
    <3>4. UserRows \in [1..m -> S]
      BY <3>1, <3>2, <3>3 DEF UserRows
    <3>5. UserRows \in Seq(S)
      BY <3>4
    <3> QED BY <3>5 DEF S
  <2> QED BY <1>3, <2>1, <2>2 DEF TodoOK
<1>4. CASE s > 3
  BY <1>4 DEF TodoOK
<1> QED BY <1>1, <1>2, <1>3, <1>4

\* A seeder starts.
LEMMA SeederStarts ==
    ASSUME Tables, NEW s \in 1..9, s = 1 \/ Between(run)
    PROVE  /\ Between(At(s, RowsOf(Seeders[s])))
           /\ At(s, RowsOf(Seeders[s])).seen = IF s = 1 THEN {} ELSE run.seen
           /\ At(s, RowsOf(Seeders[s])).pc = "row" /\ At(s, RowsOf(Seeders[s])).seeder = s
           /\ At(s, RowsOf(Seeders[s])).todo = RowsOf(Seeders[s])
<1>1. PICK todo : todo = RowsOf(Seeders[s])
  OBVIOUS
<1>2. TodoOK(s, todo)
  BY <1>1, FirstRows
<1>3. (IF s = 1 THEN {} ELSE run.seen) \subseteq AccountIds
  BY DEF Between
<1> QED BY <1>1, <1>2, <1>3 DEF At, Between

\* Types, as the seed starts.
LEMMA StartRunType ==
    ASSUME TypeInv, StartRun
    PROVE  TypeInv' /\ Grown
<1>1. Tables' /\ Grown
  BY TablesKept DEF StartRun, accountVars, TypeInv
<1>2. run' = At(1, RowsOf(Seeders[1])) /\ Between(At(1, RowsOf(Seeders[1])))
  BY SeederStarts DEF StartRun, TypeInv
<1>3. RunOK'
  BY <1>2 DEF RunOK, Between
<1> QED BY <1>1, <1>3, RunMoves DEF StartRun, accountVars, TypeInv

\* Types, as the seed turns to its next seeder.
LEMMA NextSeederType ==
    ASSUME TypeInv, NextSeeder
    PROVE  TypeInv' /\ Grown
<1>1. Tables' /\ Grown
  BY TablesKept DEF NextSeeder, accountVars, TypeInv
<1>2. Between(run)
  BY DEF NextSeeder, TypeInv, RunOK, Stopped
<1>3. CASE run' = Stopped
  BY <1>1, <1>3, RunMoves DEF NextSeeder, accountVars, TypeInv, RunOK
<1>4. CASE run' # Stopped
  <2>1. PICK s : s = run.seeder + 1
    OBVIOUS
  <2>2. s \in 1..9
    BY <1>2, <1>4, <2>1, SeederOrder DEF NextSeeder, Between
  <2>3. run' = At(s, RowsOf(Seeders[s]))
    BY <1>4, <2>1 DEF NextSeeder
  <2>4. PICK n : n = At(s, RowsOf(Seeders[s]))
    OBVIOUS
  <2>5. Between(n)
    BY <1>2, <2>2, <2>4, SeederStarts DEF TypeInv
  <2>6. RunOK'
    BY <2>3, <2>4, <2>5 DEF RunOK, Between
  <2> QED BY <1>1, <2>6, RunMoves DEF NextSeeder, accountVars, TypeInv
<1> QED BY <1>3, <1>4

\* Types, as the seed is stopped.
LEMMA RunStopsType ==
    ASSUME TypeInv, run' = Stopped, UNCHANGED accountVars, raced' = raced, contested' = contested
    PROVE  TypeInv' /\ Grown
<1>1. Tables' /\ Grown
  BY TablesKept DEF accountVars, TypeInv
<1>2. RunOK'
  BY DEF RunOK
<1> QED BY <1>1, <1>2, RunMoves DEF accountVars, TypeInv

\* Only the seed program moves, and it is between two rows again.
LEMMA BackBetween ==
    ASSUME TypeInv, Tables', Grown, call' = call, NEW n, Between(n), run' = n,
           raced' \subseteq AccountIds, contested' \subseteq RoleIds
    PROVE  TypeInv' /\ Grown
<1>1. RunOK'
  BY DEF RunOK, Between
<1> QED BY <1>1, RunMoves DEF TypeInv

\* A row of the seeder at work is done.
LEMMA RowDoneType ==
    ASSUME TypeInv, NEW s, Seeding(s), RowDone, Tables', Grown, call' = call,
           raced' = raced, contested' = contested
    PROVE  TypeInv' /\ Grown
<1>1. Between(run)
  BY DEF Seeding, TypeInv, RunOK, Stopped
<1>2. PICK n : n = [run EXCEPT !.todo = Tail(@)]
  OBVIOUS
<1>3. Between(n) /\ run' = n
  BY <1>1, <1>2, NextRow DEF Seeding, RowDone
<1> QED BY <1>3, BackBetween DEF TypeInv

\* What the seed program is at when it seeds permissions, roles and users.
LEMMA SeedingRow ==
    ASSUME TypeInv, NEW s \in 1..9, Seeding(Seeders[s])
    PROVE  Between(run) /\ run.seeder = s /\ run.todo # <<>> /\ run.pc = "row"
<1>1. Between(run)
  BY DEF Seeding, TypeInv, RunOK, Stopped
<1>2. \A m, n \in 1..9 : Seeders[m] = Seeders[n] => m = n
  BY SeederOrder
<1> QED BY <1>1, <1>2 DEF Seeding, Between

\* Types, as a permission is seeded.
LEMMA SeedPermissionType ==
    ASSUME TypeInv, SeedPermission
    PROVE  TypeInv' /\ Grown
<1>1. Between(run) /\ run.seeder = 1 /\ run.todo # <<>>
  BY SeederOrder, SeedingRow DEF SeedPermission
<1>2. Row \in Codes
  BY <1>1, NextRow DEF Row
<1>3. Tables' /\ Grown
  BY <1>2 DEF SeedPermission, TypeInv, Tables, Grown, AccountsStorable, RolesStorable
<1> QED BY <1>3, RowDoneType DEF SeedPermission

\* Types, as the role of a name is looked up.
LEMMA FindRoleType ==
    ASSUME TypeInv, FindRole
    PROVE  TypeInv' /\ Grown
<1>1. Between(run) /\ run.seeder = 2 /\ run.todo # <<>>
  BY SeederOrder, SeedingRow DEF FindRole
<1>2. Tables' /\ Grown
  BY TablesKept DEF FindRole, accountVars, TypeInv
<1>3. PICK b, found : b = run /\ found = FindRoleByName(Row.name)
  OBVIOUS
<1>4. run' = [pc |-> "save_role", found |-> found, back |-> b] /\ call' = call /\ raced' = raced
  BY <1>3 DEF FindRole, accountVars
<1>5. found \subseteq RoleIds /\ \A r \in found : roles[r] # None
  BY <1>3 DEF FindRoleByName, Role
<1>6. Inside(2)'
  BY <1>1, <1>3, <1>4 DEF Inside
<1>7. RunOK'
  BY <1>2, <1>4, <1>5, <1>6 DEF RunOK, Grown
<1>8. contested' \subseteq RoleIds
  BY <1>3, <1>5 DEF FindRole, TypeInv
<1> QED BY <1>2, <1>4, <1>7, <1>8, RunMoves DEF TypeInv

\* Types, as a role is seeded or brought up to date.
LEMMA SaveRoleType ==
    ASSUME TypeInv, SaveRole
    PROVE  TypeInv' /\ Grown
<1>1. Inside(2) /\ run.found \subseteq RoleIds
  BY DEF SaveRole, TypeInv, RunOK, Stopped, Between
<1>2. PICK b : b = run.back
  OBVIOUS
<1>3. Between(b) /\ b.seeder = 2 /\ b.todo # <<>>
  BY <1>1, <1>2 DEF Inside
<1>4. PICK row \in [name : RoleNames, perms : SUBSET Codes] : row = Head(b.todo)
  BY <1>3, NextRow
<1>5. PICK n : n = [b EXCEPT !.todo = Tail(@)]
  OBVIOUS
<1>6. Between(n)
  BY <1>3, <1>5, NextRow
<1>7. PICK r \in IF run.found # {} THEN run.found ELSE NextId(roles, None) :
        LET table == SavedRole(r, Head(run.back.todo)) IN
        IF RolesStorable(table)
        THEN roles' = table /\ run' = [run.back EXCEPT !.todo = Tail(@)]
        ELSE run' = Stopped /\ UNCHANGED roles
  BY DEF SaveRole
<1>8. r \in RoleIds
  BY <1>1, <1>7, NextIdFree DEF TypeInv, Tables
<1>9. PICK table : table = SavedRole(r, row)
  OBVIOUS
<1>10. CASE RolesStorable(table)
  <2>1. roles' = table /\ run' = n
    BY <1>2, <1>4, <1>5, <1>7, <1>9, <1>10
  <2>2. Tables' /\ Grown
    <3>1. PICK new \in RoleRow : new = [name |-> row.name, perms |-> row.perms, deleted |-> FALSE]
      BY <1>4 DEF RoleRow
    <3>2. roles' = [roles EXCEPT ![r] = new] /\ new # None
      BY <1>9, <2>1, <3>1, AccountRecords DEF SavedRole
    <3> QED BY <1>8, <1>10, <2>1, <3>2 DEF SaveRole, TypeInv, Tables, Grown, AccountsStorable
  <2> QED BY <1>6, <2>1, <2>2, BackBetween DEF SaveRole, TypeInv
<1>11. CASE ~ RolesStorable(table)
  <2>1. run' = Stopped /\ UNCHANGED accountVars
    BY <1>2, <1>4, <1>7, <1>9, <1>11 DEF SaveRole, accountVars
  <2> QED BY <2>1, RunStopsType DEF SaveRole
<1> QED BY <1>10, <1>11

\* The seed program turns to the allowances of an account.
LEMMA DefaultsType ==
    ASSUME NEW b, Between(b), b.seeder = 3, b.todo # <<>>, NEW id \in AccountIds
    PROVE  /\ Between([b EXCEPT !.seen = @ \cup {id}])
           /\ [b EXCEPT !.seen = @ \cup {id}].seeder = 3
           /\ [b EXCEPT !.seen = @ \cup {id}].todo = b.todo
           /\ [b EXCEPT !.seen = @ \cup {id}].seen = b.seen \cup {id}
BY DEF Between

\* Types, as the user seeder turns to the allowances of an account.
LEMMA TurnsToDefaults ==
    ASSUME TypeInv, Tables', Grown, call' = call, raced' = raced, contested' = contested,
           NEW b, Between(b), b.seeder = 3, b.todo # <<>>,
           NEW id \in AccountIds, accounts'[id] # None, run' = Defaults(id, b)
    PROVE  TypeInv' /\ Grown
<1>1. PICK n : n = [b EXCEPT !.seen = @ \cup {id}]
  OBVIOUS
<1>2. Between(n) /\ n.seeder = 3 /\ n.todo # <<>>
  BY <1>1, DefaultsType
<1>3. run' = [pc |-> "find_default", id |-> id, types |-> DefaultTypes, back |-> n]
  BY <1>1 DEF Defaults
<1>4. Inside(3)'
  BY <1>2, <1>3 DEF Inside
<1>5. RunOK'
  BY <1>3, <1>4, AccountConstants DEF RunOK
<1> QED BY <1>5, RunMoves DEF TypeInv

\* Types, as the account of an email is looked up.
LEMMA FindUserType ==
    ASSUME TypeInv, FindUser
    PROVE  TypeInv' /\ Grown
<1>1. Between(run) /\ run.seeder = 3 /\ run.todo # <<>>
  BY SeederOrder, SeedingRow DEF FindUser
<1>2. Tables' /\ Grown
  BY TablesKept DEF FindUser, accountVars, TypeInv
<1>3. CASE RowDone
  BY <1>2, <1>3, RowDoneType DEF FindUser, accountVars
<1>4. CASE run' = [pc |-> "insert_user", back |-> run]
  <2>1. PICK b : b = run
    OBVIOUS
  <2>2. Inside(3)'
    BY <1>1, <1>4, <2>1 DEF Inside
  <2>3. RunOK'
    BY <1>4, <2>2 DEF RunOK
  <2> QED BY <1>2, <2>3, RunMoves DEF FindUser, accountVars, TypeInv
<1>5. ASSUME NEW id \in HavingEmail(Row.email), run' = AfterFound(id) PROVE TypeInv' /\ Grown
  <2>1. id \in AccountIds /\ accounts'[id] # None
    BY DEF HavingEmail, Present, TypeInv, Tables, FindUser, accountVars
  <2>2. PICK b : b = run
    OBVIOUS
  <2>3. run' = Defaults(id, b)
    BY <1>5, <2>2 DEF AfterFound
  <2> QED BY <1>1, <1>2, <2>1, <2>2, <2>3, TurnsToDefaults DEF FindUser, accountVars
<1> QED BY <1>3, <1>4, <1>5 DEF FindUser

\* Types, as an account is seeded.
LEMMA InsertUserType ==
    ASSUME TypeInv, InsertUser
    PROVE  TypeInv' /\ Grown
<1>1. Inside(3)
  BY DEF InsertUser, TypeInv, RunOK, Stopped, Between
<1>2. PICK b : b = run.back
  OBVIOUS
<1>3. Between(b) /\ b.seeder = 3 /\ b.todo # <<>>
  BY <1>1, <1>2 DEF Inside
<1>4. PICK row \in [email : Emails, admin : BOOLEAN, role : SUBSET RoleIds] : row = Head(b.todo)
  BY <1>3, NextRow
<1>5. PICK id \in NextId(accounts, None), r \in Head(run.back.todo).role :
        LET w     == Head(run.back.todo)
            table == [accounts EXCEPT ![id] = NewAccount(w.email, r, DefaultPassword, w.admin)]
        IN IF AccountsStorable(table)
           THEN /\ accounts' = table
                /\ run' = Defaults(id, run.back)
           ELSE run' = Stopped /\ UNCHANGED accounts
  BY DEF InsertUser
<1>6. id \in AccountIds /\ r \in RoleIds
  BY <1>2, <1>4, <1>5, NextIdFree DEF TypeInv, Tables
<1>7. PICK new : new = NewAccount(row.email, r, DefaultPassword, row.admin)
  OBVIOUS
<1>8. new \in AccountRow /\ new # None
  <2>1. row.email \in Emails /\ row.admin \in BOOLEAN /\ DefaultPassword \in Passwords
    BY <1>4, SeedInputs
  <2>2. \A admin \in BOOLEAN, e \in Emails : NewAccount(e, r, DefaultPassword, admin) \in AccountRow
    BY <1>6, <2>1 DEF NewAccount, AccountRow
  <2> QED BY <1>7, <2>1, <2>2, AccountRecords
<1>9. PICK table : table = [accounts EXCEPT ![id] = new]
  OBVIOUS
<1>10. CASE AccountsStorable(table)
  <2>1. accounts' = table /\ run' = Defaults(id, b)
    BY <1>2, <1>4, <1>5, <1>7, <1>9, <1>10
  <2>2. Tables' /\ Grown /\ accounts'[id] # None
    BY <1>6, <1>8, <1>9, <1>10, <2>1 DEF InsertUser, TypeInv, Tables, Grown, RolesStorable
  <2> QED BY <1>3, <1>6, <2>1, <2>2, TurnsToDefaults DEF InsertUser
<1>11. CASE ~ AccountsStorable(table)
  <2>1. run' = Stopped /\ UNCHANGED accountVars
    BY <1>2, <1>4, <1>5, <1>7, <1>9, <1>11 DEF InsertUser, accountVars
  <2> QED BY <2>1, RunStopsType DEF InsertUser
<1> QED BY <1>10, <1>11

\* What the seed program holds while it fills an account.
LEMMA Filling ==
    ASSUME RunOK, run.pc \in {"find_default", "insert_default"}
    PROVE  /\ Inside(3) /\ DOMAIN run = {"pc", "id", "types", "back"}
           /\ run.id \in AccountIds /\ accounts[run.id] # None
           /\ run.types \in Seq(Types) /\ run.types # <<>> /\ Head(run.types) \in Types
<1>1. /\ Inside(3) /\ DOMAIN run = {"pc", "id", "types", "back"}
      /\ run.id \in AccountIds /\ accounts[run.id] # None
      /\ run.types \in Seq(Types) /\ run.types # <<>>
  BY DEF RunOK, Stopped, Between
<1>2. Head(run.types) \in Types
  BY <1>1, MoreToDo
<1> QED BY <1>1, <1>2

\* Types, as the user seeder is done with one leave type.
LEMMA TypeDoneType ==
    ASSUME TypeInv, run.pc \in {"find_default", "insert_default"}, TypeDone, Tables', Grown,
           call' = call, raced' \subseteq AccountIds, contested' = contested
    PROVE  TypeInv' /\ Grown
<1>1. PICK b, types, id : b = run.back /\ types = run.types /\ id = run.id
  OBVIOUS
<1>2. /\ Between(b) /\ b.seeder = 3 /\ b.todo # <<>> /\ DOMAIN run = {"pc", "id", "types", "back"}
      /\ id \in AccountIds /\ accounts[id] # None /\ types \in Seq(Types) /\ types # <<>>
  BY <1>1, Filling DEF TypeInv, Inside
<1>3. CASE Len(types) = 1
  <2>1. PICK n : n = [b EXCEPT !.todo = Tail(@)]
    OBVIOUS
  <2>2. Between(n)
    BY <1>2, <2>1, NextRow
  <2>3. run' = n
    BY <1>1, <1>3, <2>1 DEF TypeDone
  <2> QED BY <2>2, <2>3, BackBetween DEF TypeInv
<1>4. CASE Len(types) # 1
  <2>1. PICK n : n = [run EXCEPT !.pc = "find_default", !.types = Tail(@)]
    OBVIOUS
  <2>2. /\ run' = n /\ n.pc = "find_default" /\ n.types = Tail(types) /\ n.id = id /\ n.back = b
        /\ DOMAIN n = {"pc", "id", "types", "back"}
    BY <1>1, <1>2, <1>4, <2>1 DEF TypeDone
  <2>3. Tail(types) \in Seq(Types) /\ Tail(types) # <<>>
    BY <1>2, <1>4, MoreToDo
  <2>4. Inside(3)'
    BY <1>2, <2>2 DEF Inside
  <2>5. RunOK'
    BY <1>2, <2>2, <2>3, <2>4 DEF RunOK, Grown
  <2> QED BY <2>5, RunMoves DEF TypeInv
<1> QED BY <1>3, <1>4

\* Types, as the allowance of a leave type is looked up.
LEMMA FindDefaultType ==
    ASSUME TypeInv, FindDefault
    PROVE  TypeInv' /\ Grown
<1>1. Tables' /\ Grown
  BY TablesKept DEF FindDefault, accountVars, TypeInv
<1>2. run.id \in AccountIds /\ raced' \subseteq AccountIds
  BY Filling DEF FindDefault, TypeInv
<1>3. CASE TypeDone
  BY <1>1, <1>2, <1>3, TypeDoneType DEF FindDefault, accountVars
<1>4. CASE run' = [run EXCEPT !.pc = "insert_default"]
  <2>1. PICK n : n = [run EXCEPT !.pc = "insert_default"]
    OBVIOUS
  <2>2. PICK b, types, id : b = run.back /\ types = run.types /\ id = run.id
    OBVIOUS
  <2>3. /\ Between(b) /\ b.seeder = 3 /\ b.todo # <<>> /\ DOMAIN run = {"pc", "id", "types", "back"}
        /\ id \in AccountIds /\ accounts[id] # None /\ types \in Seq(Types) /\ types # <<>>
    BY <2>2, Filling DEF TypeInv, Inside, FindDefault
  <2>4. /\ run' = n /\ n.pc = "insert_default" /\ n.types = types /\ n.id = id /\ n.back = b
        /\ DOMAIN n = {"pc", "id", "types", "back"}
    BY <1>4, <2>1, <2>2, <2>3
  <2>5. Inside(3)'
    BY <2>3, <2>4 DEF Inside
  <2>6. RunOK'
    BY <1>1, <2>3, <2>4, <2>5 DEF RunOK, Grown
  <2> QED BY <1>1, <1>2, <2>6, RunMoves DEF FindDefault, accountVars, TypeInv
<1> QED BY <1>3, <1>4 DEF FindDefault

\* Types, as a missing allowance is seeded.
LEMMA InsertDefaultType ==
    ASSUME TypeInv, InsertDefault
    PROVE  TypeInv' /\ Grown
<1>1. run.id \in AccountIds /\ Head(run.types) \in Types
  BY Filling DEF InsertDefault, TypeInv
<1>2. Tables' /\ Grown
  BY <1>1, AllottedType DEF InsertDefault, TypeInv
<1> QED BY <1>2, TypeDoneType DEF InsertDefault, TypeInv

\* The other steps of the seed program leave accounts, roles and calls alone.
LEMMA SeedRowType ==
    ASSUME TypeInv, SeedRow
    PROVE  TypeInv' /\ Grown
<1>1. Tables' /\ Grown /\ call' = call
  BY TablesKept DEF SeedRow, accountVars, TypeInv
<1>2. PICK s : Seeding(s)
  BY DEF SeedRow, SeedEntry, SeedSchedule, SeedPay, SeedChain
<1> QED BY <1>1, <1>2, RowDoneType DEF SeedRow

\* Types, as a correction request is seeded.
LEMMA SeedCorrectionType ==
    ASSUME TypeInv, SeedCorrection
    PROVE  TypeInv' /\ Grown
<1>1. Tables' /\ Grown /\ call' = call
  BY TablesKept DEF SeedCorrection, accountVars, TypeInv
<1> QED BY <1>1, RowDoneType DEF SeedCorrection

\* An employee misses requests.
LEMMA OpensEmployee ==
    ASSUME OpenEmployee, ~ RowDone
    PROVE  /\ DOMAIN run' = {"pc", "missing", "file", "back"} /\ run'.back = run
           /\ run'.pc \in {"upload", "insert_leaves"}
           /\ run'.missing = {n \in DOMAIN Wanted(Row) : ~ LeaveSeeded(Wanted(Row)[n])}
           /\ run'.pc = "insert_leaves" => run'.file = 0
<1>1. PICK b, missing, file : /\ b = run /\ file = uploads + 1
                              /\ missing = {n \in DOMAIN Wanted(Row) : ~ LeaveSeeded(Wanted(Row)[n])}
  OBVIOUS
<1>2. \/ run' = [pc |-> "insert_leaves", missing |-> missing, file |-> 0, back |-> b]
      \/ run' = [pc |-> "upload", missing |-> missing, file |-> file, back |-> b]
  BY <1>1 DEF OpenEmployee
<1> QED BY <1>1, <1>2

\* Types, as the leave of an employee is looked up.
LEMMA OpenEmployeeType ==
    ASSUME TypeInv, OpenEmployee
    PROVE  TypeInv' /\ Grown
<1>1. Between(run) /\ run.seeder = 8 /\ run.todo # <<>>
  BY SeederOrder, SeedingRow DEF OpenEmployee
<1>2. Tables' /\ Grown /\ call' = call
  BY TablesKept DEF OpenEmployee, accountVars, TypeInv
<1>3. CASE RowDone
  BY <1>2, <1>3, RowDoneType DEF OpenEmployee
<1>4. CASE ~ RowDone
  <2>1. /\ DOMAIN run' = {"pc", "missing", "file", "back"} /\ run'.back = run
        /\ run'.pc \in {"upload", "insert_leaves"}
    BY <1>4, OpensEmployee
  <2>2. Inside(8)'
    BY <1>1, <2>1 DEF Inside
  <2>3. RunOK'
    BY <2>1, <2>2 DEF RunOK
  <2> QED BY <1>2, <2>3, RunMoves DEF OpenEmployee, TypeInv
<1> QED BY <1>3, <1>4

\* The seed program is at the requests of one employee.
LEMMA Opened ==
    ASSUME RunOK, run.pc \in {"upload", "insert_leaves"}
    PROVE  Inside(8) /\ DOMAIN run = {"pc", "missing", "file", "back"}
BY DEF RunOK, Stopped, Between

\* Types, as the placeholder is uploaded.
LEMMA UploadedType ==
    ASSUME TypeInv, Uploaded
    PROVE  TypeInv' /\ Grown
<1>1. Inside(8) /\ DOMAIN run = {"pc", "missing", "file", "back"}
  BY Opened DEF Uploaded, TypeInv
<1>2. Tables' /\ Grown
  BY TablesKept DEF Uploaded, accountVars, TypeInv
<1>3. DOMAIN run' = {"pc", "missing", "file", "back"} /\ run'.back = run.back /\ run'.pc = "insert_leaves"
  BY <1>1 DEF Uploaded
<1>4. RunOK'
  BY <1>1, <1>3 DEF RunOK, Inside
<1> QED BY <1>2, <1>4, RunMoves DEF Uploaded, accountVars, TypeInv

\* Types, as a leave request is seeded.
LEMMA InsertLeaveType ==
    ASSUME TypeInv, InsertLeave
    PROVE  TypeInv' /\ Grown
<1>1. Inside(8) /\ DOMAIN run = {"pc", "missing", "file", "back"} /\ run.pc = "insert_leaves"
  BY Opened DEF InsertLeave, TypeInv
<1>2. Tables' /\ Grown /\ call' = call
  BY TablesKept DEF InsertLeave, accountVars, TypeInv
<1>3. CASE run' = [run.back EXCEPT !.todo = Tail(@)]
  <2>1. PICK n : n = [run.back EXCEPT !.todo = Tail(@)]
    OBVIOUS
  <2>2. Between(n)
    BY <1>1, <2>1, NextRow DEF Inside
  <2> QED BY <1>2, <1>3, <2>1, <2>2, BackBetween DEF InsertLeave, TypeInv
<1>4. ASSUME NEW n, run' = [run EXCEPT !.missing = @ \ {n}] PROVE TypeInv' /\ Grown
  <2>1. DOMAIN run' = {"pc", "missing", "file", "back"} /\ run'.back = run.back /\ run'.pc = "insert_leaves"
    BY <1>1, <1>4
  <2>2. RunOK'
    BY <1>1, <2>1 DEF RunOK, Inside
  <2> QED BY <1>2, <2>2, RunMoves DEF InsertLeave, TypeInv
<1> QED BY <1>3, <1>4 DEF InsertLeave

\* A step outside accounts and the seed program.
LEMMA ElsewhereType ==
    ASSUME TypeInv, UNCHANGED <<accountVars, run, raced, contested>>
    PROVE  TypeInv' /\ Grown
<1>1. Tables' /\ Grown
  BY TablesKept DEF accountVars, TypeInv
<1>2. RunOK'
  BY <1>1, GrownRun DEF TypeInv
<1> QED BY <1>1, <1>2, RunMoves DEF accountVars, TypeInv

\* Every step of the seed keeps the types, and tables only grow.
LEMMA RunStepType ==
    ASSUME TypeInv, RunStep
    PROVE  TypeInv' /\ Grown
<1>1. ASSUME RunStops PROVE TypeInv' /\ Grown
  BY <1>1, RunStopsType DEF RunStops
<1>2. ASSUME UploadPlaceholder PROVE TypeInv' /\ Grown
  BY <1>2, ElsewhereType DEF UploadPlaceholder
<1> QED BY <1>1, <1>2, NextSeederType, SeedPermissionType, FindRoleType, SaveRoleType, FindUserType,
           InsertUserType, FindDefaultType, InsertDefaultType, SeedRowType, OpenEmployeeType,
           UploadedType, InsertLeaveType, SeedCorrectionType DEF RunStep

\* What a step of the API does to accounts, roles and calls.
LEMMA ApiSteps ==
    ASSUME ApiStep
    PROVE  \/ UNCHANGED <<accountVars, contested>>
           \/ \E p \in Procs : CallStep(p) /\ UNCHANGED <<seedTables, contested>>
           \/ \E p \in Procs : RenameOrDelete(p) /\ UNCHANGED seedTables
           \/ \E p \in Procs : (AdminRoles(p) \/ AdminUsers(p)) /\ UNCHANGED <<seedTables, contested>>
<1>1. CASE RoleRequest
  BY <1>1 DEF RoleRequest
<1>2. CASE OtherRequest
  BY <1>2 DEF OtherRequest
<1> QED BY <1>1, <1>2 DEF ApiStep

\* Every step of the API keeps the types, and tables only grow.
LEMMA ApiStepType ==
    ASSUME TypeInv, ApiStep, UNCHANGED <<run, raced>>
    PROVE  TypeInv' /\ Grown
<1>1. ASSUME NEW p \in Procs, RenameOrDelete(p) PROVE TypeInv' /\ Grown
  <2>1. contested' \subseteq RoleIds
    BY <1>1 DEF RenameOrDelete, TypeInv
  <2> QED BY <1>1, <2>1, RequestType
<1>2. ASSUME NEW p \in Procs, AdminRoles(p) \/ AdminUsers(p), contested' = contested PROVE TypeInv' /\ Grown
  BY <1>2, RequestType DEF TypeInv
<1> QED BY <1>1, <1>2, ApiSteps, CallStepType, ElsewhereType

\* Every step keeps the types, and tables only grow.
LEMMA TypeStep ==
    ASSUME TypeInv, [Next]_vars
    PROVE  TypeInv' /\ Grown
BY StartRunType, RunStepType, ApiStepType, ElsewhereType DEF Next, vars

\* The tables are empty at first.
LEMMA TypeInitial == Init => TypeInv
<1> SUFFICES ASSUME Init PROVE TypeInv
  OBVIOUS
<1>1. AccountsInit
  BY DEF Init
<1>2. Tables
  BY <1>1 DEF AccountsInit, Tables, AccountsStorable, RolesStorable, Present
<1>3. \A p \in Procs : CallOK(p)
  BY <1>1 DEF AccountsInit, CallOK
<1> QED BY <1>1, <1>2, <1>3 DEF Init, AccountsInit, TypeInv, RunOK

\* Accounts and roles are typed and within their unique indexes, and so is what is about
\* to be written.
THEOREM TablesInvariant == Spec => []TypeInv
<1>1. Init => TypeInv
  BY TypeInitial
<1>2. TypeInv /\ [Next]_vars => TypeInv'
  BY TypeStep
<1> QED BY <1>1, <1>2, PTL DEF Spec

\* A set of ids that are all one has at most one member.
LEMMA AtMostOne ==
    ASSUME NEW S, \A i, j \in S : i = j
    PROVE  Cardinality(S) <= 1
<1>1. CASE S = {}
  BY <1>1, FS_EmptySet
<1>2. CASE S # {}
  <2>1. PICK x : x \in S
    BY <1>2
  <2>2. S = {x}
    BY <2>1
  <2> QED BY <2>2, FS_Singleton
<1> QED BY <1>1, <1>2

\* Whoever creates, revives or seeds accounts, an email has one account in use: the seeder's
\* and the administrators' look-ups race, the unique index decides.
THEOREM EmailsUnique == Spec => []OneAccountPerEmail
<1>1. TypeInv => OneAccountPerEmail
  <2> SUFFICES ASSUME TypeInv, NEW e \in Emails
               PROVE  Cardinality({id \in AccountIds : Account(id) /\ accounts[id].email = e}) <= 1
    BY DEF OneAccountPerEmail
  <2>1. \A i, j \in {id \in AccountIds : Account(id) /\ accounts[id].email = e} : i = j
    BY DEF TypeInv, Tables, AccountsStorable, Present, Account
  <2> QED BY <2>1, AtMostOne
<1> QED BY <1>1, TablesInvariant, PTL
-----------------------------------------------------------------------------
(***************************************************************************)
(* Default days.  A call that fills an account works off types that have   *)
(* none yet, each once, and no two calls fill one account: ids are new.    *)
(* The seed program only fills an account beside a call if that is         *)
(* recorded, and what it has not filled is still in its types.             *)
(***************************************************************************)
Zero(id, t) == allowances[id][t].default = 0

FreshTodo(c) ==
    /\ \A i, j \in DOMAIN c.todo : c.todo[i] = c.todo[j] => i = j
    /\ c.id \notin raced => \A i \in DOMAIN c.todo : Zero(c.id, c.todo[i])
TodosFresh == \A p \in Procs : call[p].pc = "allocate" => FreshTodo(call[p])
OneFiller ==
    \A p, q \in Procs :
        call[p].pc = "allocate" /\ call[q].pc = "allocate" /\ call[p].id = call[q].id => p = q
NewIdsZero == \A id \in AccountIds : accounts[id] = None => \A t \in Types : Zero(id, t)
SeedFillsAlone ==
    run.pc = "insert_default" /\ run.id \notin raced =>
        ~ BeingFilled(run.id) /\ Zero(run.id, Head(run.types))

FillInv == TodosFresh /\ OneFiller /\ NewIdsZero /\ SeedFillsAlone /\ DefaultsOnce

\* What adding an allowance does.
LEMMA AllottedFacts ==
    ASSUME Tables, NEW id \in AccountIds, NEW t \in Types, NEW source \in {"default", "granted"},
           allowances' = Allotted(id, t, source)
    PROVE  /\ source = "default" => allowances'[id][t].default = allowances[id][t].default + 1
           /\ \A i \in AccountIds, u \in Types :
                i # id \/ u # t \/ source = "granted" => allowances'[i][u].default = allowances[i][u].default
           /\ \A i \in AccountIds, u \in Types :
                /\ allowances[i][u].default \in Nat
                /\ allowances'[i][u].default >= allowances[i][u].default
BY DEF Tables, Allotted

\* The default days stay, and no call begins to fill an account.
FillsOn ==
    /\ \A i \in AccountIds, u \in Types : allowances'[i][u].default = allowances[i][u].default
    /\ Grown /\ raced \subseteq raced'
    /\ \A p \in Procs : call'[p].pc = "allocate" => call'[p] = call[p]

\* Allowances stay as they are in a step that only lets calls go on filling their own.
LEMMA FillKept ==
    ASSUME TypeInv, FillInv, FillsOn, run' = run \/ run'.pc # "insert_default"
    PROVE  FillInv'
<1>1. \A i \in AccountIds, u \in Types : Zero(i, u) => Zero(i, u)'
  BY DEF Zero, FillsOn
<1>2. \A p \in Procs : call[p].pc = "allocate" => Allocating(call[p])
  BY DEF TypeInv, CallOK, Idle, Granting, Saving, Updating
<1>3. TodosFresh'
  <2> SUFFICES ASSUME NEW p \in Procs, call'[p].pc = "allocate" PROVE FreshTodo(call[p])'
    BY DEF TodosFresh
  <2>1. PICK c : c = call[p]
    OBVIOUS
  <2>2. call'[p] = c /\ Allocating(c) /\ FreshTodo(c)
    BY <1>2, <2>1 DEF FillsOn, FillInv, TodosFresh
  <2>3. \A i \in DOMAIN c.todo : c.todo[i] \in Types
    <3>1. PICK todo \in Seq(Types) : todo = c.todo
      BY <2>2 DEF Allocating
    <3>2. \A i \in DOMAIN todo : todo[i] \in Types
      BY SeqFacts
    <3> QED BY <3>1, <3>2
  <2>4. FreshTodo(c)'
    BY <1>1, <2>2, <2>3 DEF FreshTodo, FillsOn, Allocating
  <2> QED BY <2>2, <2>4 DEF FreshTodo, Zero
<1>4. NewIdsZero'
  BY <1>1 DEF FillInv, NewIdsZero, FillsOn, Grown
<1>5. SeedFillsAlone'
  <2> SUFFICES ASSUME run'.pc = "insert_default", run'.id \notin raced'
               PROVE  (~ BeingFilled(run.id) /\ Zero(run.id, Head(run.types)))'
    BY DEF SeedFillsAlone
  <2>1. run' = run /\ run.pc = "insert_default" /\ run.id \notin raced
    BY DEF FillsOn
  <2>2. PICK id, t : id = run.id /\ t = Head(run.types)
    OBVIOUS
  <2>3. id \in AccountIds /\ t \in Types
    BY <2>1, <2>2, Filling DEF TypeInv
  <2>4. ~ BeingFilled(id) /\ Zero(id, t)
    BY <2>1, <2>2 DEF FillInv, SeedFillsAlone
  <2>5. ~ BeingFilled(id)'
    BY <2>4 DEF BeingFilled, FillsOn
  <2>6. Zero(id, t)'
    BY <1>1, <2>3, <2>4
  <2> QED BY <2>1, <2>2, <2>5, <2>6 DEF Zero, BeingFilled
<1>6. DefaultsOnce'
  BY DEF FillInv, DefaultsOnce, FillsOn
<1>7. OneFiller'
  BY DEF FillInv, OneFiller, FillsOn
<1> QED BY <1>3, <1>4, <1>5, <1>6, <1>7 DEF FillInv

\* A call that goes elsewhere fills no account.
LEMMA NoFilling ==
    ASSUME TypeInv, NEW p \in Procs, NEW r, CallGoto(p, r), r.pc # "allocate"
    PROVE  \A q \in Procs : call'[q].pc = "allocate" => call'[q] = call[q]
BY DEF TypeInv, CallGoto

\* A call that ends lets no other call start to fill allowances.
LEMMA NoFillingEnds ==
    ASSUME TypeInv, NEW p \in Procs, CallEnds(p)
    PROVE  \A q \in Procs : call'[q].pc = "allocate" => call'[q] = call[q]
BY NoFilling DEF CallEnds, Idle

\* The row of a new account: nothing was added for it yet.
LEMMA InsertAccountFill ==
    ASSUME TypeInv, FillInv, NEW p \in Procs, InsertAccount(p), Grown, run' = run, raced' = raced
    PROVE  FillInv'
<1>1. PICK id \in NextId(accounts, None) :
        LET table == [accounts EXCEPT ![id] = call[p].row] IN
        IF AccountsStorable(table)
        THEN /\ accounts' = table
             /\ CallGoto(p, [pc |-> "allocate", id |-> id, todo |-> DefaultTypes])
        ELSE CallEnds(p) /\ UNCHANGED accounts
  BY DEF InsertAccount
<1>2. id \in AccountIds /\ accounts[id] = None /\ allowances' = allowances
  BY <1>1, NextIdFree DEF TypeInv, Tables, InsertAccount
<1>3. CASE CallEnds(p)
  BY <1>2, <1>3, NoFillingEnds, FillKept DEF FillsOn
<1>4. CASE CallGoto(p, [pc |-> "allocate", id |-> id, todo |-> DefaultTypes])
  <2>1. PICK c : c = [pc |-> "allocate", id |-> id, todo |-> DefaultTypes]
    OBVIOUS
  <2>2. /\ call'[p] = c /\ c.id = id /\ c.todo = DefaultTypes /\ c.pc = "allocate"
        /\ \A q \in Procs \ {p} : call'[q] = call[q]
    BY <1>4, <2>1 DEF TypeInv, CallGoto
  <2>3. \A i \in DOMAIN DefaultTypes : DefaultTypes[i] \in Types
    BY DEF Types
  <2>4. FreshTodo(c)'
    BY <1>2, <2>2, <2>3, AccountConstants DEF FreshTodo, FillInv, NewIdsZero, Zero
  <2>5. \A q \in Procs : call[q].pc = "allocate" => call[q].id # id /\ call[q].id \in AccountIds
    BY <1>2 DEF TypeInv, CallOK, Idle, Granting, Saving, Updating, Allocating
  <2>6. TodosFresh'
    <3> SUFFICES ASSUME NEW q \in Procs, call'[q].pc = "allocate" PROVE FreshTodo(call[q])'
      BY DEF TodosFresh
    <3>1. CASE q = p
      BY <2>2, <2>4, <3>1 DEF FreshTodo, Zero
    <3>2. CASE q # p
      BY <1>2, <2>2, <3>2 DEF FillInv, TodosFresh, FreshTodo, Zero
    <3> QED BY <3>1, <3>2
  <2>7. OneFiller'
    BY <2>2, <2>5 DEF FillInv, OneFiller
  <2>8. NewIdsZero'
    BY <1>2 DEF FillInv, NewIdsZero, Grown, Zero
  <2>9. SeedFillsAlone'
    <3>1. run.pc = "insert_default" => run.id # id
      BY <1>2, Filling DEF TypeInv
    <3> QED BY <1>2, <2>2, <3>1 DEF FillInv, SeedFillsAlone, BeingFilled, Zero
  <2>10. DefaultsOnce'
    BY <1>2 DEF FillInv, DefaultsOnce
  <2> QED BY <2>6, <2>7, <2>8, <2>9, <2>10 DEF FillInv
<1> QED BY <1>1, <1>3, <1>4

\* A type of the loop: it has no days yet, and the later types are others.
LEMMA AllocateFill ==
    ASSUME TypeInv, FillInv, NEW p \in Procs, Allocate(p), Grown, run' = run, raced' = raced
    PROVE  FillInv'
<1>1. PICK c : c = call[p]
  OBVIOUS
<1>2. Allocating(c) /\ FreshTodo(c)
  BY <1>1 DEF Allocate, TypeInv, CallOK, Idle, Granting, Saving, Updating, FillInv, TodosFresh
<1>3. PICK id \in AccountIds, todo \in Seq(Types) : id = c.id /\ todo = c.todo /\ todo # <<>> /\ accounts[id] # None
  BY <1>2 DEF Allocating
<1>4. PICK t \in Types : t = Head(todo)
  BY <1>3, MoreToDo
<1>5. /\ \A i \in AccountIds, u \in Types : i # id \/ u # t => allowances'[i][u].default = allowances[i][u].default
      /\ allowances'[id][t].default = allowances[id][t].default + 1
      /\ accounts' = accounts
  BY <1>1, <1>3, <1>4, AllottedFacts DEF Allocate, TypeInv
<1>6. Len(todo) \in Nat /\ DOMAIN todo = 1..Len(todo) /\ Len(todo) >= 1 /\ t = todo[1]
      /\ \A i \in 1..Len(todo) : todo[i] \in Types
  BY <1>3, <1>4, SeqFacts
<1>7. id \notin raced => Zero(id, t)
  BY <1>2, <1>3, <1>6 DEF FreshTodo
<1>8. \A q \in Procs : q # p => call'[q] = call[q]
  BY DEF Allocate, CallEnds, CallGoto, TypeInv
<1>16. ASSUME NEW q \in Procs, q # p, call[q].pc = "allocate"
       PROVE  call[q].id # id /\ Allocating(call[q])
  <2>1. call[p].pc = "allocate" /\ call[p].id = id
    BY <1>1, <1>3 DEF Allocate
  <2>2. call[q].id # id
    BY <1>16, <2>1 DEF FillInv, OneFiller
  <2>3. Allocating(call[q])
    BY <1>16 DEF TypeInv, CallOK, Idle, Granting, Saving, Updating
  <2> QED BY <2>2, <2>3
<1>9. call'[p].pc = "allocate" => /\ call'[p].id = id /\ call'[p].todo = Tail(todo)
                                 /\ \A i \in DOMAIN Tail(todo) : i + 1 \in DOMAIN todo /\ Tail(todo)[i] = todo[i + 1]
  <2>1. CASE Len(todo) = 1
    BY <1>1, <1>3, <2>1 DEF Allocate, CallEnds, CallGoto, Idle, TypeInv
  <2>2. CASE Len(todo) # 1
    <3>1. PICK r : r = [c EXCEPT !.todo = Tail(todo)]
      OBVIOUS
    <3>2. call'[p] = r
      BY <1>1, <1>3, <2>2, <3>1 DEF Allocate, CallGoto, TypeInv
    <3>3. r.id = id /\ r.todo = Tail(todo)
      BY <1>2, <1>3, <3>1 DEF Allocating
    <3> QED BY <1>3, <3>2, <3>3, MoreToDo
  <2> QED BY <2>1, <2>2
<1>10. \A i \in AccountIds, u \in Types : (i # id \/ u # t) => (Zero(i, u) => Zero(i, u)')
  BY <1>5 DEF Zero
<1>11. TodosFresh'
  <2> SUFFICES ASSUME NEW q \in Procs, call'[q].pc = "allocate" PROVE FreshTodo(call[q])'
    BY DEF TodosFresh
  <2>1. CASE q = p
    <3>1. PICK n, rest : n = call'[p] /\ rest = Tail(todo)
      OBVIOUS
    <3>2. n.id = id /\ n.todo = rest
          /\ \A i \in DOMAIN rest : i + 1 \in DOMAIN todo /\ rest[i] = todo[i + 1]
      BY <1>9, <2>1, <3>1
    <3>3. DOMAIN rest \subseteq Nat \ {0}
      BY <1>3, <3>1, MoreToDo, SeqFacts
    <3>4. \A i, j \in DOMAIN rest : rest[i] = rest[j] => i = j
      BY <1>2, <1>3, <3>2, <3>3 DEF FreshTodo
    <3>5. \A i \in DOMAIN rest : rest[i] # t /\ rest[i] \in Types
      BY <1>2, <1>3, <1>6, <3>2, <3>3 DEF FreshTodo
    <3>6. id \notin raced => \A i \in DOMAIN rest : Zero(id, rest[i])
      BY <1>2, <1>3, <3>2 DEF FreshTodo
    <3>7. FreshTodo(n)'
      BY <1>10, <3>2, <3>4, <3>5, <3>6 DEF FreshTodo
    <3> QED BY <2>1, <3>1, <3>7 DEF FreshTodo, Zero
  <2>2. CASE q # p
    <3>1. PICK n : n = call[q]
      OBVIOUS
    <3>2. call'[q] = n /\ n.id # id /\ Allocating(n) /\ FreshTodo(n)
      <4>1. call'[q] = call[q]
        BY <1>8, <2>2
      <4>2. call[q].pc = "allocate"
        BY <4>1
      <4>3. call[q].id # id /\ Allocating(call[q])
        BY <1>16, <2>2, <4>2
      <4>4. FreshTodo(call[q])
        BY <4>2 DEF FillInv, TodosFresh
      <4> QED BY <3>1, <4>1, <4>3, <4>4
    <3>3. \A i \in DOMAIN n.todo : n.todo[i] \in Types
      <4>1. PICK rest \in Seq(Types) : rest = n.todo
        BY <3>2 DEF Allocating
      <4>2. \A i \in DOMAIN rest : rest[i] \in Types
        BY SeqFacts
      <4> QED BY <4>1, <4>2
    <3>4. FreshTodo(n)'
      BY <1>10, <3>2, <3>3 DEF FreshTodo, Allocating
    <3> QED BY <3>2, <3>4 DEF FreshTodo, Zero
  <2> QED BY <2>1, <2>2
<1>12. OneFiller'
  <2> SUFFICES ASSUME NEW q \in Procs, NEW s \in Procs, call'[q].pc = "allocate",
                      call'[s].pc = "allocate", call'[q].id = call'[s].id
               PROVE  q = s
    BY DEF OneFiller
  <2>1. CASE q # p /\ s # p
    <3>1. call'[q] = call[q] /\ call'[s] = call[s]
      BY <1>8, <2>1
    <3> QED BY <3>1 DEF FillInv, OneFiller
  <2>2. CASE q = p /\ s # p
    <3>1. call'[s] = call[s]
      BY <1>8, <2>2
    <3>2. call[s].id # id
      BY <1>16, <2>2, <3>1
    <3> QED BY <1>9, <2>2, <3>1, <3>2
  <2>3. CASE s = p /\ q # p
    <3>1. call'[q] = call[q]
      BY <1>8, <2>3
    <3>2. call[q].id # id
      BY <1>16, <2>3, <3>1
    <3> QED BY <1>9, <2>3, <3>1, <3>2
  <2> QED BY <2>1, <2>2, <2>3
<1>13. NewIdsZero'
  BY <1>3, <1>5, <1>10 DEF FillInv, NewIdsZero
<1>14. SeedFillsAlone'
  <2> SUFFICES ASSUME run.pc = "insert_default", run.id \notin raced
               PROVE  (~ BeingFilled(run.id) /\ Zero(run.id, Head(run.types)))'
    BY DEF SeedFillsAlone
  <2>1. PICK k, u : k = run.id /\ u = Head(run.types)
    OBVIOUS
  <2>2. k \in AccountIds /\ u \in Types
    BY <2>1, Filling DEF TypeInv
  <2>3. ~ BeingFilled(k) /\ Zero(k, u)
    BY <2>1 DEF FillInv, SeedFillsAlone
  <2>4. k # id
    <3>1. call[p].pc = "allocate" /\ call[p].id = id
      BY <1>1, <1>3 DEF Allocate
    <3> QED BY <2>3, <3>1 DEF BeingFilled
  <2>5. ASSUME NEW q \in Procs, call'[q].pc = "allocate" PROVE call'[q].id # k
    <3>1. CASE q = p
      BY <1>9, <2>4, <2>5, <3>1
    <3>2. CASE q # p
      <4>1. call'[q] = call[q]
        BY <1>8, <3>2
      <4> QED BY <2>3, <2>5, <4>1 DEF BeingFilled
    <3> QED BY <3>1, <3>2
  <2>6. Zero(k, u)'
    BY <1>10, <2>2, <2>3, <2>4
  <2>7. ~ BeingFilled(k)'
    BY <2>5 DEF BeingFilled
  <2> QED BY <2>1, <2>6, <2>7 DEF Zero, BeingFilled
<1>15. DefaultsOnce'
  <2> SUFFICES ASSUME NEW i \in AccountIds \ raced, NEW u \in Types
               PROVE  allowances'[i][u].default <= 1
    BY DEF DefaultsOnce
  <2>1. allowances[i][u].default <= 1
    BY DEF FillInv, DefaultsOnce
  <2>2. CASE i = id /\ u = t
    BY <1>5, <1>7, <2>2 DEF Zero
  <2> QED BY <1>5, <2>1, <2>2
<1> QED BY <1>11, <1>12, <1>13, <1>14, <1>15 DEF FillInv

\* A step of the seed program, by where it leaves the program and what it has seen.
Seen == IF run.pc = "row" THEN run.seen ELSE run.back.seen

\* A row done, the seeder goes on with what it has seen.
LEMMA RowDoneSeen ==
    ASSUME TypeInv, NEW s, Seeding(s), RowDone
    PROVE  run'.pc = "row" /\ run'.seen = Seen /\ run.pc = "row" /\ run'.seeder = run.seeder
<1>1. Between(run) /\ run.todo # <<>> /\ run.pc = "row"
  BY DEF Seeding, TypeInv, RunOK, Stopped
<1> QED BY <1>1, NextRow DEF RowDone, Seen

\* Back from a row, the seeder goes on with what it has seen.
LEMMA BackSeen ==
    ASSUME NEW s, Inside(s), run.pc # "row", run' = [run.back EXCEPT !.todo = Tail(@)]
    PROVE  run'.pc = "row" /\ run'.seen = Seen /\ run'.seeder = s
BY NextRow DEF Inside, Seen

\* What a step of the seed may do to allowances and to the accounts it has seen.
LEMMA RunSteps ==
    ASSUME TypeInv, RunStep
    PROVE  \/ run' = Stopped /\ allowances' = allowances
           \/ run' = run /\ allowances' = allowances
           \/ /\ run.pc \in {"row", "save_role", "insert_user", "upload", "insert_leaves"}
              /\ run'.pc = "row" /\ run'.seen = Seen /\ allowances' = allowances
           \/ /\ run.pc \in {"row", "upload"}
              /\ run'.pc \in {"save_role", "insert_user", "upload", "insert_leaves"}
              /\ run'.pc = "save_role" => FindRole
              /\ run'.back.seen = Seen /\ allowances' = allowances
           \/ /\ run.pc \in {"row", "insert_user"} /\ allowances' = allowances
              /\ \E id \in AccountIds :
                    /\ run'.pc = "find_default" /\ run'.id = id /\ run'.types = DefaultTypes
                    /\ run'.back.seen = Seen \cup {id}
           \/ run.pc = "insert_leaves" /\ run'.pc = "insert_leaves"
              /\ run'.back.seen = Seen /\ allowances' = allowances
           \/ FindDefault \/ InsertDefault
<1>1. CASE NextSeeder
  <2>1. Between(run)
    BY <1>1 DEF NextSeeder, TypeInv, RunOK, Stopped
  <2>2. ASSUME run' # Stopped PROVE run'.pc = "row" /\ run'.seen = Seen /\ run.pc = "row"
    <3>1. PICK s : s = run.seeder + 1
      OBVIOUS
    <3>2. s \in 1..9 /\ s # 1
      BY <1>1, <2>1, <2>2, <3>1, SeederOrder DEF NextSeeder, Between
    <3>3. run' = At(s, RowsOf(Seeders[s]))
      BY <1>1, <2>2, <3>1 DEF NextSeeder
    <3> QED BY <1>1, <2>1, <3>2, <3>3, SeederStarts DEF TypeInv, NextSeeder, Seen
  <2> QED BY <1>1, <2>2 DEF NextSeeder, accountVars
<1>2. CASE RunStops
  BY <1>2 DEF RunStops, accountVars
<1>3. CASE SeedPermission
  BY <1>3, RowDoneSeen DEF SeedPermission
<1>4. CASE FindRole
  <2>1. run.pc = "row"
    BY <1>4 DEF FindRole, Seeding
  <2>2. run'.pc = "save_role" /\ run'.back = run
    BY <1>4 DEF FindRole
  <2> QED BY <1>4, <2>1, <2>2 DEF FindRole, Seen, accountVars
<1>5. CASE SaveRole
  <2>1. Inside(2) /\ run.pc = "save_role"
    BY <1>5 DEF SaveRole, TypeInv, RunOK, Stopped, Between
  <2>2. run' = [run.back EXCEPT !.todo = Tail(@)] \/ run' = Stopped
    BY <1>5 DEF SaveRole
  <2> QED BY <1>5, <2>1, <2>2, BackSeen DEF SaveRole
<1>6. CASE FindUser
  <2>1. Between(run) /\ run.seeder = 3 /\ run.todo # <<>> /\ run.pc = "row"
    BY <1>6, SeederOrder, SeedingRow DEF FindUser
  <2>2. CASE RowDone
    BY <1>6, <2>2, RowDoneSeen DEF FindUser, accountVars
  <2>3. CASE run' = [pc |-> "insert_user", back |-> run]
    <3>1. run'.pc = "insert_user" /\ run'.back = run
      BY <2>3
    <3> QED BY <1>6, <2>1, <3>1 DEF FindUser, Seen, accountVars
  <2>4. ASSUME NEW id \in HavingEmail(Row.email), run' = AfterFound(id)
        PROVE  /\ run'.pc = "find_default" /\ run'.id = id /\ run'.types = DefaultTypes
               /\ run'.back.seen = Seen \cup {id} /\ id \in AccountIds
    <3>1. id \in AccountIds
      BY DEF HavingEmail, Present, TypeInv, Tables
    <3>2. PICK b : b = run
      OBVIOUS
    <3>3. PICK n : n = [b EXCEPT !.seen = @ \cup {id}]
      OBVIOUS
    <3>4. n.seen = Seen \cup {id}
      BY <2>1, <3>1, <3>2, <3>3, DefaultsType DEF Seen
    <3>5. run' = [pc |-> "find_default", id |-> id, types |-> DefaultTypes, back |-> n]
      BY <2>4, <3>2, <3>3 DEF AfterFound, Defaults
    <3> QED BY <3>1, <3>4, <3>5
  <2> QED BY <1>6, <2>1, <2>2, <2>3, <2>4 DEF FindUser, accountVars
<1>7. CASE InsertUser
  <2>1. Inside(3) /\ run.pc = "insert_user"
    BY <1>7 DEF InsertUser, TypeInv, RunOK, Stopped, Between
  <2>2. CASE run' = Stopped
    BY <1>7, <2>2 DEF InsertUser
  <2>3. ASSUME NEW id \in NextId(accounts, None), run' = Defaults(id, run.back)
        PROVE  /\ run'.pc = "find_default" /\ run'.id = id /\ run'.types = DefaultTypes
               /\ run'.back.seen = Seen \cup {id} /\ id \in AccountIds
    <3>1. id \in AccountIds
      BY NextIdFree DEF TypeInv, Tables
    <3>2. PICK b : b = run.back
      OBVIOUS
    <3>3. PICK n : n = [b EXCEPT !.seen = @ \cup {id}]
      OBVIOUS
    <3>4. n.seen = Seen \cup {id}
      BY <2>1, <3>1, <3>2, <3>3, DefaultsType DEF Seen, Inside
    <3>5. run' = [pc |-> "find_default", id |-> id, types |-> DefaultTypes, back |-> n]
      BY <2>3, <3>2, <3>3 DEF Defaults
    <3> QED BY <3>1, <3>4, <3>5
  <2>4. \/ run' = Stopped
        \/ \E id \in NextId(accounts, None) : run' = Defaults(id, run.back)
    BY <1>7 DEF InsertUser
  <2>5. allowances' = allowances
    BY <1>7 DEF InsertUser
  <2> QED BY <2>1, <2>3, <2>4, <2>5
<1>8. CASE SeedRow
  <2>1. PICK s : Seeding(s)
    BY <1>8 DEF SeedRow, SeedEntry, SeedSchedule, SeedPay, SeedChain
  <2> QED BY <1>8, <2>1, RowDoneSeen DEF SeedRow, accountVars
<1>9. CASE SeedCorrection
  BY <1>9, RowDoneSeen DEF SeedCorrection, accountVars
<1>10. CASE OpenEmployee
  <2>1. Between(run) /\ run.pc = "row"
    BY <1>10, SeederOrder, SeedingRow DEF OpenEmployee
  <2>2. CASE RowDone
    BY <1>10, <2>2, RowDoneSeen DEF OpenEmployee, accountVars
  <2>3. CASE ~ RowDone
    <3>1. run'.pc \in {"upload", "insert_leaves"} /\ run'.back = run
      BY <1>10, <2>3, OpensEmployee
    <3> QED BY <1>10, <2>1, <3>1 DEF OpenEmployee, Seen, accountVars
  <2> QED BY <2>2, <2>3
<1>11. CASE UploadPlaceholder
  BY <1>11 DEF UploadPlaceholder, accountVars
<1>12. CASE Uploaded
  <2>1. DOMAIN run = {"pc", "missing", "file", "back"} /\ run.pc = "upload"
    BY <1>12, Opened DEF Uploaded, TypeInv
  <2>2. run'.back = run.back /\ run'.pc = "insert_leaves"
    BY <1>12, <2>1 DEF Uploaded
  <2> QED BY <1>12, <2>1, <2>2 DEF Uploaded, Seen, accountVars
<1>13. CASE InsertLeave
  <2>1. DOMAIN run = {"pc", "missing", "file", "back"} /\ run.pc = "insert_leaves" /\ Inside(8)
    BY <1>13, Opened DEF InsertLeave, TypeInv
  <2>2. CASE run' = [run.back EXCEPT !.todo = Tail(@)]
    BY <1>13, <2>1, <2>2, BackSeen DEF InsertLeave, accountVars
  <2>3. CASE \E n : run' = [run EXCEPT !.missing = @ \ {n}]
    <3>1. run'.back = run.back /\ run'.pc = "insert_leaves"
      BY <2>1, <2>3
    <3> QED BY <1>13, <2>1, <3>1 DEF InsertLeave, Seen, accountVars
  <2> QED BY <1>13, <2>2, <2>3 DEF InsertLeave
<1> QED BY <1>1, <1>2, <1>3, <1>4, <1>5, <1>6, <1>7, <1>8, <1>9, <1>10, <1>11, <1>12, <1>13 DEF RunStep

\* The seed program is done with a type.
LEMMA TypeDoneFacts ==
    ASSUME RunOK, run.pc \in {"find_default", "insert_default"}, TypeDone
    PROVE  \/ /\ Len(run.types) = 1 /\ run'.pc = "row" /\ run'.seen = run.back.seen
              /\ Range(run.types) = {Head(run.types)}
           \/ /\ run'.pc = "find_default" /\ run'.id = run.id /\ run'.back = run.back
              /\ run'.types = Tail(run.types)
              /\ Range(run.types) = {Head(run.types)} \cup Range(Tail(run.types))
<1>1. /\ Inside(3) /\ DOMAIN run = {"pc", "id", "types", "back"}
      /\ run.types \in Seq(Types) /\ run.types # <<>>
  BY Filling
<1>2. CASE Len(run.types) = 1
  <2>1. run' = [run.back EXCEPT !.todo = Tail(@)]
    BY <1>2 DEF TypeDone
  <2>2. run'.pc = "row" /\ run'.seen = run.back.seen
    BY <1>1, <2>1, BackSeen DEF Seen
  <2> QED BY <1>1, <1>2, <2>2, MoreToDo
<1>3. CASE Len(run.types) # 1
  <2>1. run' = [run EXCEPT !.pc = "find_default", !.types = Tail(@)]
    BY <1>3 DEF TypeDone
  <2>2. run'.pc = "find_default" /\ run'.id = run.id /\ run'.back = run.back /\ run'.types = Tail(run.types)
    BY <1>1, <2>1
  <2> QED BY <1>1, <2>2, MoreToDo
<1> QED BY <1>2, <1>3

\* The look-up: nothing there, and a call that is filling the account is recorded.
LEMMA FindDefaultFill ==
    ASSUME TypeInv, FillInv, FindDefault, Grown
    PROVE  FillInv'
<1>1. FillsOn
  BY DEF FillsOn, FindDefault, accountVars
<1>2. CASE TypeDone
  <2>1. run'.pc # "insert_default"
    BY <1>2, TypeDoneFacts DEF FindDefault, TypeInv
  <2> QED BY <1>1, <2>1, FillKept
<1>3. CASE ~ TypeDone
  <2>1. /\ run' = [run EXCEPT !.pc = "insert_default"] /\ ~ HasDefault(run.id, Head(run.types))
        /\ DOMAIN run = {"pc", "id", "types", "back"} /\ run.id \in AccountIds /\ Head(run.types) \in Types
    BY <1>3, Filling DEF FindDefault, TypeInv
  <2>2. PICK id \in AccountIds, t \in Types : id = run.id /\ t = Head(run.types)
    BY <2>1
  <2>3. run'.id = id /\ Head(run'.types) = t
    BY <2>1, <2>2
  <2>4. Zero(id, t)'
    BY <2>1, <2>2 DEF HasDefault, Zero, FindDefault, accountVars, TypeInv, Tables
  <2>5. id \notin raced' => ~ BeingFilled(id)'
    BY <2>2 DEF FindDefault, accountVars, BeingFilled
  <2>6. SeedFillsAlone'
    BY <2>3, <2>4, <2>5 DEF SeedFillsAlone, Zero, BeingFilled
  <2>7. (TodosFresh /\ OneFiller /\ NewIdsZero /\ DefaultsOnce)'
    BY <1>1 DEF FillInv, FillsOn, FindDefault, accountVars, TodosFresh, OneFiller, NewIdsZero,
                DefaultsOnce, FreshTodo, Zero
  <2> QED BY <2>6, <2>7 DEF FillInv
<1> QED BY <1>2, <1>3

\* The insert: unless it is recorded as raced, the account is filled by nobody else.
LEMMA InsertDefaultFill ==
    ASSUME TypeInv, FillInv, InsertDefault, Grown
    PROVE  FillInv'
<1>1. /\ run.id \in AccountIds /\ Head(run.types) \in Types /\ accounts[run.id] # None
      /\ run.pc = "insert_default" /\ call' = call /\ raced' = raced /\ accounts' = accounts
  BY Filling DEF InsertDefault, TypeInv
<1>2. PICK id \in AccountIds, t \in Types : id = run.id /\ t = Head(run.types)
  BY <1>1
<1>3. /\ \A i \in AccountIds, u \in Types : i # id \/ u # t => allowances'[i][u].default = allowances[i][u].default
      /\ allowances'[id][t].default = allowances[id][t].default + 1
  BY <1>2, AllottedFacts DEF InsertDefault, TypeInv
<1>4. id \notin raced => ~ BeingFilled(id) /\ Zero(id, t)
  BY <1>1, <1>2 DEF FillInv, SeedFillsAlone
<1>5. \A i \in AccountIds, u \in Types : i # id => (Zero(i, u) => Zero(i, u)')
  BY <1>3 DEF Zero
<1>6. run'.pc # "insert_default"
  BY TypeDoneFacts DEF InsertDefault, TypeInv
<1>7. TodosFresh'
  <2> SUFFICES ASSUME NEW q \in Procs, call[q].pc = "allocate" PROVE FreshTodo(call[q])'
    BY <1>1 DEF TodosFresh
  <2>1. PICK n : n = call[q]
    OBVIOUS
  <2>2. call'[q] = n /\ Allocating(n) /\ FreshTodo(n) /\ n.id \in AccountIds
    BY <1>1, <2>1 DEF FillInv, TodosFresh, TypeInv, CallOK, Idle, Granting, Saving, Updating, Allocating
  <2>3. \A i \in DOMAIN n.todo : n.todo[i] \in Types
    <3>1. PICK todo \in Seq(Types) : todo = n.todo
      BY <2>2 DEF Allocating
    <3>2. \A i \in DOMAIN todo : todo[i] \in Types
      BY SeqFacts
    <3> QED BY <3>1, <3>2
  <2>4. n.id # id \/ n.id \in raced'
    BY <1>1, <1>4, <2>1 DEF BeingFilled
  <2>5. FreshTodo(n)'
    BY <1>1, <1>5, <2>2, <2>3, <2>4 DEF FreshTodo
  <2> QED BY <2>2, <2>5 DEF FreshTodo, Zero
<1>8. NewIdsZero'
  BY <1>1, <1>2, <1>5 DEF FillInv, NewIdsZero
<1>9. OneFiller' /\ SeedFillsAlone'
  BY <1>1, <1>6 DEF FillInv, OneFiller, SeedFillsAlone
<1>10. DefaultsOnce'
  <2> SUFFICES ASSUME NEW i \in AccountIds \ raced, NEW u \in Types
               PROVE  allowances'[i][u].default <= 1
    BY <1>1 DEF DefaultsOnce
  <2>1. allowances[i][u].default <= 1
    BY DEF FillInv, DefaultsOnce
  <2>2. CASE i = id /\ u = t
    BY <1>3, <1>4, <2>2 DEF Zero
  <2> QED BY <1>3, <2>1, <2>2
<1> QED BY <1>7, <1>8, <1>9, <1>10 DEF FillInv

\* The other steps of the seed program.
LEMMA RunStepFill ==
    ASSUME TypeInv, FillInv, RunStep, Grown
    PROVE  FillInv'
<1>1. CASE FindDefault
  BY <1>1, FindDefaultFill
<1>2. CASE InsertDefault
  BY <1>2, InsertDefaultFill
<1>3. CASE ~ FindDefault /\ ~ InsertDefault
  <2>1. allowances' = allowances /\ (run' = run \/ run'.pc # "insert_default")
    BY <1>3, RunSteps DEF Stopped
  <2>2. call' = call /\ raced' = raced
    BY <1>3 DEF RunStep, NextSeeder, RunStops, SeedPermission, FindRole, SaveRole, FindUser, InsertUser,
                SeedRow, OpenEmployee, UploadPlaceholder, Uploaded, InsertLeave, SeedCorrection, accountVars
  <2>3. FillsOn
    BY <2>1, <2>2 DEF FillsOn
  <2> QED BY <2>1, <2>3, FillKept
<1> QED BY <1>1, <1>2, <1>3

\* The calls: all but two leave the default days alone and begin no filling.
LEMMA CallStepFill ==
    ASSUME TypeInv, FillInv, NEW p \in Procs, CallStep(p), Grown, run' = run, raced' = raced
    PROVE  FillInv'
<1>1. CASE InsertAccount(p)
  BY <1>1, InsertAccountFill
<1>2. CASE Allocate(p)
  BY <1>2, AllocateFill
<1>3. CASE InsertGrant(p)
  <2>1. Granting(call[p])
    BY <1>3 DEF InsertGrant, TypeInv, CallOK, Idle, Allocating, Saving, Updating
  <2>2. \A i \in AccountIds, u \in Types : allowances'[i][u].default = allowances[i][u].default
    BY <1>3, <2>1, AllottedFacts DEF InsertGrant, Granting, TypeInv
  <2> QED BY <1>3, <2>2, NoFillingEnds, FillKept DEF FillsOn, InsertGrant
<1>4. CASE InsertRole(p) \/ CallFails(p)
  BY <1>4, NoFillingEnds, FillKept DEF FillsOn, InsertRole, CallFails
<1>5. CASE LoadRow(p) \/ DiffRow(p)
  <2>1. Saving(call[p])
    BY <1>5 DEF LoadRow, DiffRow, TypeInv, CallOK, Idle, Allocating, Granting, Updating
  <2>2. ASSUME NEW pc \in {"diff", "write"}, NEW patch, CallGoto(p, [call[p] EXCEPT !.pc = pc, !.patch = patch])
        PROVE  \A q \in Procs : call'[q].pc = "allocate" => call'[q] = call[q]
    <3>1. PICK r : r = [call[p] EXCEPT !.pc = pc, !.patch = patch]
      OBVIOUS
    <3>2. r.pc # "allocate"
      BY <2>1, <3>1 DEF Saving
    <3> QED BY <2>2, <3>1, <3>2, NoFilling
  <2>3. \A q \in Procs : call'[q].pc = "allocate" => call'[q] = call[q]
    BY <1>5, <2>1, <2>2, NoFillingEnds DEF LoadRow, DiffRow, Saving
  <2> QED BY <1>5, <2>3, FillKept DEF FillsOn, LoadRow, DiffRow
<1>6. CASE WriteRow(p) \/ UpdateColumns(p)
  <2>1. \E r : CallGoto(p, r) /\ r.pc # "allocate"
    <3>1. CASE CallEnds(p)
      BY <3>1 DEF CallEnds, Idle
    <3>2. CASE CallGoto(p, [pc |-> "update", table |-> "roles", id |-> call[p].id, patch |-> [deleted |-> TRUE]])
      BY <3>2
    <3> QED BY <1>6, <3>1, <3>2 DEF WriteRow, UpdateColumns, WriteColumns
  <2>2. \A q \in Procs : call'[q].pc = "allocate" => call'[q] = call[q]
    BY <2>1, NoFilling
  <2>3. allowances' = allowances
    BY <1>6 DEF WriteRow, UpdateColumns
  <2> QED BY <2>2, <2>3, FillKept DEF FillsOn
<1> QED BY <1>1, <1>2, <1>3, <1>4, <1>5, <1>6 DEF CallStep

\* A call that begins.
LEMMA RequestPc ==
    ASSUME NEW p \in Procs, AdminUsers(p) \/ AdminRoles(p) \/ RenameOrDelete(p)
    PROVE  /\ UNCHANGED <<accounts, roles, codes, allowances>> /\ call[p] = Idle
           /\ \E r : CallGoto(p, r) /\ r.pc \in {"insert_account", "load", "update", "grant", "insert_role"}
<1>1. ASSUME AdminUsers(p)
      PROVE  \E r : CallGoto(p, r) /\ r.pc \in {"insert_account", "load", "update", "grant"}
  <2>1. ASSUME NEW e, NEW r, NEW pw, CreateUser(p, e, r, pw)
        PROVE  \E q : CallGoto(p, q) /\ q.pc = "insert_account"
    BY <2>1 DEF CreateUser
  <2>2. ASSUME NEW id, NEW patch, UpdateUser(p, id, patch)
        PROVE  \E q : CallGoto(p, q) /\ q.pc = "load"
    BY <2>2 DEF UpdateUser
  <2>3. ASSUME NEW id, NEW pw, SetPassword(p, id, pw)
        PROVE  \E q : CallGoto(p, q) /\ q.pc = "update"
    BY <2>3 DEF SetPassword
  <2>4. ASSUME NEW id, DeleteUser(p, id)
        PROVE  \E q : CallGoto(p, q) /\ q.pc = "update"
    BY <2>4 DEF DeleteUser
  <2>5. ASSUME NEW id, NEW t, GrantDays(p, id, t)
        PROVE  \E q : CallGoto(p, q) /\ q.pc = "grant"
    BY <2>5 DEF GrantDays
  <2> QED BY <1>1, <2>1, <2>2, <2>3, <2>4, <2>5 DEF AdminUsers
<1>2. ASSUME AdminRoles(p) \/ RenameOrDelete(p)
      PROVE  \E r : CallGoto(p, r) /\ r.pc \in {"load", "insert_role"}
  <2>1. ASSUME NEW n, NEW perms, CreateRole(p, n, perms)
        PROVE  \E q : CallGoto(p, q) /\ q.pc = "insert_role"
    BY <2>1 DEF CreateRole
  <2>2. ASSUME NEW r, NEW perms, AssignPermissions(p, r, perms)
        PROVE  \E q : CallGoto(p, q) /\ q.pc = "load"
    BY <2>2 DEF AssignPermissions
  <2>3. ASSUME NEW r, NEW n, RenameRole(p, r, n)
        PROVE  \E q : CallGoto(p, q) /\ q.pc = "load"
    BY <2>3 DEF RenameRole
  <2>4. ASSUME NEW r, DeleteRole(p, r)
        PROVE  \E q : CallGoto(p, q) /\ q.pc = "load"
    BY <2>4 DEF DeleteRole
  <2> QED BY <1>2, <2>1, <2>2, <2>3, <2>4 DEF AdminRoles, RenameOrDelete
<1>3. UNCHANGED <<accounts, roles, codes, allowances>> /\ call[p] = Idle
  BY DEF AdminUsers, AdminRoles, RenameOrDelete, CreateUser, UpdateUser, SetPassword, DeleteUser,
         GrantDays, CreateRole, AssignPermissions, RenameRole, DeleteRole
<1> QED BY <1>1, <1>2, <1>3

\* Every step keeps an allowance from being added twice.
LEMMA FillStep ==
    ASSUME TypeInv, FillInv, [Next]_vars
    PROVE  FillInv'
<1>1. Grown
  BY TypeStep
<1>2. CASE StartRun
  <2>1. run'.pc # "insert_default" /\ UNCHANGED accountVars /\ raced' = raced
    BY <1>2 DEF StartRun, At
  <2> QED BY <1>1, <2>1, FillKept DEF FillsOn, accountVars
<1>3. CASE RunStep
  BY <1>1, <1>3, RunStepFill
<1>4. CASE ApiStep /\ UNCHANGED <<run, raced>>
  <2>1. ASSUME NEW p \in Procs, AdminUsers(p) \/ AdminRoles(p) \/ RenameOrDelete(p) PROVE FillInv'
    <3>1. allowances' = allowances
      BY <2>1, RequestPc
    <3>2. \A q \in Procs : call'[q].pc = "allocate" => call'[q] = call[q]
      <4>1. PICK r : CallGoto(p, r) /\ r.pc # "allocate"
        BY <2>1, RequestPc
      <4> QED BY <4>1, NoFilling
    <3> QED BY <1>1, <1>4, <3>1, <3>2, FillKept DEF FillsOn
  <2>2. ASSUME UNCHANGED <<accountVars, contested>> PROVE FillInv'
    BY <1>1, <1>4, <2>2, FillKept DEF FillsOn, accountVars
  <2> QED BY <1>1, <1>4, <2>1, <2>2, ApiSteps, CallStepFill
<1>5. CASE UNCHANGED vars
  BY <1>1, <1>5, FillKept DEF FillsOn, vars, accountVars
<1> QED BY <1>2, <1>3, <1>4, <1>5 DEF Next

\* What the user seeder has passed has its days; what it is filling lacks at most the types
\* still to do.
Healed(id) == \A t \in Types : allowances[id][t].default >= 1
HealInv ==
    /\ run.pc = "row" => \A id \in run.seen : Healed(id)
    /\ run.pc \in {"save_role", "insert_user", "upload", "insert_leaves"} =>
        \A id \in run.back.seen : Healed(id)
    /\ run.pc \in {"find_default", "insert_default"} =>
        /\ \A id \in run.back.seen \ {run.id} : Healed(id)
        /\ \A t \in Types : allowances[run.id][t].default >= 1 \/ t \in Range(run.types)

\* Default days are never taken away.
LEMMA DaysGrow ==
    ASSUME TypeInv, [Next]_vars
    PROVE  \A i \in AccountIds, u \in Types : /\ allowances[i][u].default \in Nat
                                             /\ allowances'[i][u].default >= allowances[i][u].default
<1>1. CASE allowances' = allowances
  BY <1>1 DEF TypeInv, Tables
<1>2. ASSUME NEW p \in Procs, CallStep(p), allowances' # allowances
      PROVE  \A i \in AccountIds, u \in Types : /\ allowances[i][u].default \in Nat
                                               /\ allowances'[i][u].default >= allowances[i][u].default
  <2>1. CASE Allocate(p)
    <3>1. Allocating(call[p])
      BY <2>1 DEF Allocate, TypeInv, CallOK, Idle, Granting, Saving, Updating
    <3>2. call[p].id \in AccountIds /\ Head(call[p].todo) \in Types
      BY <3>1, MoreToDo DEF Allocating
    <3> QED BY <2>1, <3>2, AllottedFacts DEF Allocate, TypeInv
  <2>2. CASE InsertGrant(p)
    <3>1. Granting(call[p])
      BY <2>2 DEF InsertGrant, TypeInv, CallOK, Idle, Allocating, Saving, Updating
    <3> QED BY <2>2, <3>1, AllottedFacts DEF InsertGrant, Granting, TypeInv
  <2> QED BY <1>2, <2>1, <2>2 DEF CallStep, InsertAccount, UpdateColumns, InsertRole, LoadRow, DiffRow,
                                  WriteRow, CallFails
<1>3. CASE RunStep
  <2>1. CASE InsertDefault
    <3>1. run.id \in AccountIds /\ Head(run.types) \in Types
      BY <2>1, Filling DEF InsertDefault, TypeInv
    <3> QED BY <2>1, <3>1, AllottedFacts DEF InsertDefault, TypeInv
  <2>2. CASE FindDefault
    BY <1>1, <2>2 DEF FindDefault, accountVars
  <2> QED BY <1>1, <1>3, <2>1, <2>2, RunSteps
<1>4. CASE ApiStep
  <2>1. ASSUME NEW p \in Procs, AdminUsers(p) \/ AdminRoles(p) \/ RenameOrDelete(p) PROVE allowances' = allowances
    BY <2>1, RequestPc
  <2> QED BY <1>1, <1>2, <1>4, <2>1, ApiSteps DEF accountVars
<1>5. CASE StartRun \/ UNCHANGED vars
  BY <1>1, <1>5 DEF StartRun, vars, accountVars
<1> QED BY <1>3, <1>4, <1>5 DEF Next

\* A type that has its default days keeps them.
LEMMA DaysStay ==
    ASSUME TypeInv, [Next]_vars, NEW i \in AccountIds, NEW t \in Types, allowances[i][t].default >= 1
    PROVE  allowances'[i][t].default >= 1
<1>1. TypeInv'
  BY TypeStep
<1>2. PICK m, n : m = allowances[i][t].default /\ n = allowances'[i][t].default
  OBVIOUS
<1>3. m \in Nat /\ n \in Nat
  BY <1>1, <1>2 DEF TypeInv, Tables
<1>4. n >= m
  BY <1>2, DaysGrow
<1> QED BY <1>2, <1>3, <1>4

\* What the seed program has seen are accounts.
LEMMA SeenAccounts ==
    ASSUME RunOK
    PROVE  /\ run.pc = "row" => run.seen \subseteq AccountIds
           /\ run.pc \in {"save_role", "insert_user", "upload", "insert_leaves"} =>
                run.back.seen \subseteq AccountIds
           /\ run.pc \in {"find_default", "insert_default"} => run.back.seen \subseteq AccountIds
BY DEF RunOK, Stopped, Between, Inside

\* Every step keeps the promise of the backfill.
LEMMA HealStep ==
    ASSUME TypeInv, HealInv, [Next]_vars
    PROVE  HealInv'
<1>1. \A i \in AccountIds : Healed(i) => Healed(i)'
  BY DaysStay DEF Healed
<1>2. CASE run' = run
  <2>1. PICK b, id, types : b = run.back /\ id = run.id /\ types = run.types
    OBVIOUS
  <2>2. run.pc \in {"find_default", "insert_default"} => id \in AccountIds
    BY <2>1, Filling DEF TypeInv
  <2>3. run.pc \in {"find_default", "insert_default"} =>
            \A t \in Types : allowances'[id][t].default >= 1 \/ t \in Range(types)
    BY <2>1, <2>2, DaysStay DEF HealInv
  <2> QED BY <1>1, <1>2, <2>1, <2>3, SeenAccounts DEF HealInv, TypeInv, Healed
<1>3. CASE StartRun
  <2>1. run'.pc = "row" /\ run'.seen = {}
    BY <1>3 DEF StartRun, At
  <2> QED BY <2>1 DEF HealInv
<1>4. CASE RunStep
  <2>1. CASE run' = Stopped
    BY <2>1 DEF HealInv, Stopped
  <2>2. CASE run.pc \in {"row", "save_role", "insert_user", "upload", "insert_leaves"}
    <3>1. \A id \in Seen : id \in AccountIds /\ Healed(id)
      BY <2>2, SeenAccounts DEF Seen, HealInv, TypeInv
    <3>2. \A id \in Seen : Healed(id)'
      BY <1>1, <3>1
    <3>3. CASE run'.pc = "row" /\ run'.seen = Seen
      BY <3>2, <3>3 DEF HealInv, Healed
    <3>4. CASE run'.pc \in {"save_role", "insert_user", "upload", "insert_leaves"} /\ run'.back.seen = Seen
      BY <3>2, <3>4 DEF HealInv, Healed
    <3>5. ASSUME NEW id \in AccountIds, run'.pc = "find_default", run'.id = id, run'.types = DefaultTypes,
                 run'.back.seen = Seen \cup {id}
          PROVE  HealInv'
      <4>1. \A t \in Types : t \in Range(DefaultTypes)
        BY DEF Types, Range
      <4> QED BY <3>2, <3>5, <4>1 DEF HealInv, Healed
    <3>6. ~ FindDefault /\ ~ InsertDefault
      BY <2>2 DEF FindDefault, InsertDefault
    <3> QED BY <1>2, <1>4, <2>1, <3>3, <3>4, <3>5, <3>6, RunSteps
  <2>3. CASE run.pc \in {"find_default", "insert_default"}
    <3>1. PICK b, id, types, t : b = run.back /\ id = run.id /\ types = run.types /\ t = Head(run.types)
      OBVIOUS
    <3>2. /\ id \in AccountIds /\ t \in Types /\ b.seen \subseteq AccountIds
          /\ \A i \in b.seen \ {id} : Healed(i)
          /\ \A u \in Types : allowances[id][u].default >= 1 \/ u \in Range(types)
      BY <2>3, <3>1, Filling, SeenAccounts DEF HealInv, TypeInv
    <3>3. \A u \in Types : allowances'[id][u].default >= 1 \/ u \in Range(types)
      BY <3>2, DaysStay
    <3>4. ASSUME TypeDone, allowances'[id][t].default >= 1 PROVE HealInv'
      <4>1. CASE /\ Len(run.types) = 1 /\ run'.pc = "row" /\ run'.seen = b.seen
                 /\ Range(types) = {t}
        <5>1. Healed(id)'
          BY <3>3, <3>4, <4>1 DEF Healed
        <5> QED BY <1>1, <3>2, <4>1, <5>1 DEF HealInv, Healed
      <4>2. CASE /\ run'.pc = "find_default" /\ run'.id = id /\ run'.back = b
                 /\ run'.types = Tail(types) /\ Range(types) = {t} \cup Range(Tail(types))
        <5>1. \A u \in Types : allowances'[id][u].default >= 1 \/ u \in Range(Tail(types))
          BY <3>3, <3>4, <4>2
        <5> QED BY <1>1, <3>2, <4>2, <5>1 DEF HealInv, Healed
      <4> QED BY <2>3, <3>1, <3>4, <4>1, <4>2, TypeDoneFacts DEF TypeInv
    <3>5. CASE InsertDefault
      <4>1. allowances'[id][t].default >= 1
        BY <3>1, <3>2, <3>5, AllottedFacts DEF InsertDefault, TypeInv
      <4> QED BY <3>4, <3>5, <4>1 DEF InsertDefault
    <3>6. CASE FindDefault /\ TypeDone /\ HasDefault(id, t)
      <4>1. allowances[id][t].default >= 1
        BY <3>2, <3>6 DEF HasDefault, TypeInv, Tables
      <4>2. allowances'[id][t].default >= 1
        BY <3>2, <4>1, DaysStay
      <4> QED BY <3>4, <3>6, <4>2
    <3>7. CASE FindDefault /\ run' = [run EXCEPT !.pc = "insert_default"]
      <4>1. run'.pc = "insert_default" /\ run'.id = id /\ run'.back = b /\ run'.types = types
        BY <2>3, <3>1, <3>7, Filling DEF TypeInv
      <4> QED BY <1>1, <3>2, <3>3, <4>1 DEF HealInv, Healed
    <3>8. FindDefault => \/ TypeDone /\ HasDefault(id, t)
                         \/ run' = [run EXCEPT !.pc = "insert_default"]
      BY <3>1 DEF FindDefault
    <3>9. run.pc \notin {"row", "save_role", "insert_user", "upload", "insert_leaves"}
      BY <2>3
    <3> QED BY <1>2, <1>4, <2>1, <3>5, <3>6, <3>7, <3>8, <3>9, RunSteps
  <2>4. CASE run.pc \notin {"row", "save_role", "insert_user", "upload", "insert_leaves", "find_default", "insert_default"}
    <3>1. ~ FindDefault /\ ~ InsertDefault
      BY <2>4 DEF FindDefault, InsertDefault
    <3> QED BY <1>2, <1>4, <2>1, <2>4, <3>1, RunSteps
  <2> QED BY <2>2, <2>3, <2>4
<1>5. CASE ApiStep /\ UNCHANGED <<run, runs, raced>>
  BY <1>2, <1>5
<1>6. CASE UNCHANGED vars
  BY <1>2, <1>6 DEF vars
<1> QED BY <1>3, <1>4, <1>5, <1>6 DEF Next

\* Default days are added once and nothing is missing of what the seeder has passed, in
\* every reachable state.
THEOREM DaysInvariant == Spec => [](TypeInv /\ FillInv /\ HealInv)
<1>1. Init => TypeInv /\ FillInv /\ HealInv
  <2> SUFFICES ASSUME Init PROVE FillInv /\ HealInv
    BY TypeInitial
  <2>1. AccountsInit /\ run = Stopped
    BY DEF Init
  <2>2. \A id \in AccountIds, t \in Types : allowances[id][t].default = 0
    BY <2>1 DEF AccountsInit
  <2>3. \A p \in Procs : call[p].pc = "idle"
    BY <2>1 DEF AccountsInit, Idle
  <2> QED BY <2>1, <2>2, <2>3 DEF FillInv, TodosFresh, OneFiller, NewIdsZero, SeedFillsAlone,
                                  DefaultsOnce, HealInv, Stopped, Zero
<1>2. TypeInv /\ FillInv /\ HealInv /\ [Next]_vars => (TypeInv /\ FillInv /\ HealInv)'
  BY TypeStep, FillStep, HealStep
<1> QED BY <1>1, <1>2, PTL DEF Spec

\* An account starts with its default days once, through failed runs and failed calls, unless
\* it was seeded while the call that created it was still filling it.
THEOREM DaysAddedOnce == Spec => []DefaultsOnce
BY DaysInvariant, PTL DEF FillInv

\* An account the user seeder met in use has its default days when the seeder is done.
THEOREM SeederRepairs == Spec => []BackfillHeals
<1>1. TypeInv /\ HealInv => BackfillHeals
  BY DEF HealInv, Healed, BackfillHeals
<1> QED BY <1>1, DaysInvariant, PTL
-----------------------------------------------------------------------------
(***************************************************************************)
(* Built-in roles.  What a role that is deleted, or about to be, is called *)
(* is no built-in name, and nobody is about to write such a name over it:  *)
(* neither the seed program, which holds the roles it found, nor a save in *)
(* flight, which writes back the name it loaded.                           *)
(***************************************************************************)
SavesRole(c) == c.pc \in {"load", "diff", "write"} /\ c.table = "roles"
Deletes(c, r) ==
    \/ SavesRole(c) /\ c.for = "delete" /\ c.id = r
    \/ c.pc = "update" /\ c.table = "roles" /\ c.id = r
Protects(c, r) == SavesRole(c) /\ c.id = r /\ "name" \in DOMAIN c.patch /\ c.patch.name \in Protected
Marks(c) == SavesRole(c) /\ "deleted" \in DOMAIN c.patch /\ c.patch.deleted
Leaving(r) == Dying(r) \/ (roles[r] # None /\ roles[r].deleted)
NotBuiltIn(r) ==
    /\ roles[r] # None /\ roles[r].name \notin Protected
    /\ ~ (run.pc = "save_role" /\ r \in run.found)
    /\ \A p \in Procs : ~ Protects(call[p], r)
RolesInv ==
    /\ \A p \in Procs : ~ Marks(call[p])
    /\ \A r \in RoleIds \ contested : Leaving(r) => NotBuiltIn(r)

\* A role is being deleted if a call deletes it.
LEMMA DyingMeans ==
    ASSUME NEW r
    PROVE  Dying(r) <=> \E p \in Procs : Deletes(call[p], r)
BY DEF Dying, Deletes, SavesRole

\* A call goes on, or another begins: no new role is doomed, and no doomed one gets a
\* built-in name.
LEMMA CallMovesRoles ==
    ASSUME TypeInv, RolesInv, NEW p \in Procs, NEW c, CallGoto(p, c), ~ Marks(c),
           run' = run, contested' = contested,
           \A r \in RoleIds \ contested : Deletes(c, r) => Deletes(call[p], r),
           \A r \in RoleIds \ contested : Leaving(r) => ~ Protects(c, r),
           \A r \in RoleIds \ contested : roles'[r] # None /\ roles'[r].deleted => Leaving(r),
           \A r \in RoleIds \ contested :
                Leaving(r) => roles'[r] # None /\ roles'[r].name \notin Protected
    PROVE  RolesInv'
<1>1. /\ call'[p] = c
      /\ \A q \in Procs : q # p => call'[q] = call[q]
  BY DEF TypeInv, CallGoto
<1>2. ASSUME NEW q \in Procs PROVE ~ Marks(call[q])'
  BY <1>1 DEF RolesInv, Marks, SavesRole
<1>3. ASSUME NEW r \in RoleIds \ contested, Leaving(r)' PROVE NotBuiltIn(r)'
  <2>1. ASSUME Dying(r)' PROVE Leaving(r)
    <3>1. PICK q \in Procs : Deletes(call'[q], r)
      BY <2>1 DEF Dying, Deletes, SavesRole
    <3>2. Deletes(call[q], r)
      BY <1>1, <3>1
    <3> QED BY <3>2, DyingMeans DEF Leaving
  <2>2. Leaving(r)
    BY <1>3, <2>1 DEF Leaving
  <2>3. NotBuiltIn(r)
    BY <2>2 DEF RolesInv
  <2>4. \A q \in Procs : ~ Protects(call[q], r)'
    BY <1>1, <2>2, <2>3 DEF NotBuiltIn, Protects, SavesRole
  <2> QED BY <2>2, <2>3, <2>4 DEF NotBuiltIn
<1> QED BY <1>2, <1>3 DEF RolesInv

\* What calls on accounts and permissions are about to do is nothing to a role's name.
Harmless(c) == ~ Marks(c) /\ \A r : ~ Deletes(c, r) /\ ~ Protects(c, r)

\* Creations, edits of accounts and new permissions start as such calls.
LEMMA HarmlessRequest ==
    ASSUME NEW p \in Procs, AdminUsers(p) \/ AdminRoles(p)
    PROVE  \E c : CallGoto(p, c) /\ Harmless(c)
<1>1. ASSUME AdminUsers(p)
      PROVE  \E c : CallGoto(p, c) /\ Harmless(c)
  <2>1. ASSUME NEW e, NEW r, NEW pw, CreateUser(p, e, r, pw)
        PROVE  \E c : CallGoto(p, c) /\ c.pc = "insert_account"
    BY <2>1 DEF CreateUser
  <2>2. ASSUME NEW id, NEW patch, UpdateUser(p, id, patch)
        PROVE  \E c : CallGoto(p, c) /\ c.pc = "load" /\ c.table = "users"
    BY <2>2 DEF UpdateUser
  <2>3. ASSUME NEW id, NEW pw, SetPassword(p, id, pw)
        PROVE  \E c : CallGoto(p, c) /\ c.pc = "update" /\ c.table = "users"
    BY <2>3 DEF SetPassword
  <2>4. ASSUME NEW id, DeleteUser(p, id)
        PROVE  \E c : CallGoto(p, c) /\ c.pc = "update" /\ c.table = "users"
    BY <2>4 DEF DeleteUser
  <2>5. ASSUME NEW id, NEW t, GrantDays(p, id, t)
        PROVE  \E c : CallGoto(p, c) /\ c.pc = "grant"
    BY <2>5 DEF GrantDays
  <2>6. \A c : \/ c.pc \in {"insert_account", "grant"}
               \/ c.pc \in {"load", "update"} /\ c.table = "users"
               => Harmless(c)
    BY DEF Harmless, Marks, Deletes, Protects, SavesRole
  <2> QED BY <1>1, <2>1, <2>2, <2>3, <2>4, <2>5, <2>6 DEF AdminUsers
<1>2. ASSUME NEW n, NEW perms, CreateRole(p, n, perms)
      PROVE  \E c : CallGoto(p, c) /\ Harmless(c)
  <2>1. PICK c : CallGoto(p, c) /\ c.pc = "insert_role"
    BY <1>2 DEF CreateRole
  <2> QED BY <2>1 DEF Harmless, Marks, Deletes, Protects, SavesRole
<1>3. ASSUME NEW r, NEW perms, AssignPermissions(p, r, perms)
      PROVE  \E c : CallGoto(p, c) /\ Harmless(c)
  <2>1. PICK c : CallGoto(p, c) /\ c.pc = "load" /\ c.for = "update" /\ c.patch = [perms |-> perms]
    BY <1>3 DEF AssignPermissions
  <2>2. c.pc # "update" /\ c.for # "delete" /\ DOMAIN c.patch = {"perms"}
    BY <2>1
  <2> QED BY <2>1, <2>2 DEF Harmless, Marks, Deletes, Protects
<1> QED BY <1>1, <1>2, <1>3 DEF AdminRoles

\* The roles and the set of contested ones stay as they are.
LEMMA HarmlessMove ==
    ASSUME TypeInv, RolesInv, NEW p \in Procs, NEW c, CallGoto(p, c), Harmless(c),
           run' = run, contested' = contested, roles' = roles
    PROVE  RolesInv'
<1>1. \A r \in RoleIds \ contested : Leaving(r) => roles'[r] # None /\ roles'[r].name \notin Protected
  BY DEF RolesInv, NotBuiltIn
<1>2. \A r \in RoleIds \ contested : roles'[r] # None /\ roles'[r].deleted => Leaving(r)
  BY DEF Leaving
<1> QED BY <1>1, <1>2, CallMovesRoles DEF Harmless

\* A rename: the role it names is contested if a deletion of it is under way.
LEMMA RenameRoleKeeps ==
    ASSUME TypeInv, RolesInv, NEW p \in Procs, NEW r \in RoleIds, NEW n, RenameRole(p, r, n),
           contested' = contested \cup {s \in {r} : Dying(s)}, run' = run
    PROVE  RolesInv'
<1>1. PICK c : /\ CallGoto(p, c) /\ c.pc = "load" /\ c.for = "update" /\ c.id = r
               /\ c.patch = [name |-> n]
  BY DEF RenameRole
<1>2. c.pc # "update" /\ c.for # "delete" /\ DOMAIN c.patch = {"name"}
  BY <1>1
<1>3. /\ call'[p] = c
      /\ \A q \in Procs : q # p => call'[q] = call[q]
  BY <1>1 DEF TypeInv, CallGoto
<1>4. roles' = roles
  BY DEF RenameRole
<1>5. \A q \in Procs : ~ Marks(call'[q])
  <2>1. ~ Marks(c)
    BY <1>2 DEF Marks
  <2> QED BY <1>3, <2>1 DEF RolesInv
<1>6. ASSUME NEW s \in RoleIds \ contested', Leaving(s)' PROVE NotBuiltIn(s)'
  <2>1. \A q \in Procs : Deletes(call'[q], s) => Deletes(call[q], s)
    <3>1. ~ Deletes(c, s)
      BY <1>2 DEF Deletes
    <3> QED BY <1>3, <3>1
  <2>2. Dying(s)' => Dying(s)
    <3>1. Dying(s)' => \E q \in Procs : Deletes(call'[q], s)
      BY DEF Dying, Deletes, SavesRole
    <3> QED BY <2>1, <3>1, DyingMeans
  <2>3. Leaving(s)
    BY <1>4, <1>6, <2>2 DEF Leaving
  <2>4. NotBuiltIn(s)
    BY <2>3 DEF RolesInv
  <2>5. s # r
    <3>1. ~ Dying(s) \/ s # r
      OBVIOUS
    <3>2. Role(r)
      BY DEF RenameRole
    <3> QED BY <2>3, <3>1, <3>2 DEF Leaving, Role
  <2>6. ~ Protects(c, s)
    BY <1>1, <2>5 DEF Protects
  <2>7. \A q \in Procs : ~ Protects(call'[q], s)
    BY <1>3, <2>4, <2>6 DEF NotBuiltIn
  <2> QED BY <1>4, <2>4, <2>7 DEF NotBuiltIn
<1> QED BY <1>5, <1>6 DEF RolesInv

\* A deletion: the role it deletes is contested if its name is being written.
LEMMA DeleteRoleKeeps ==
    ASSUME TypeInv, RolesInv, NEW p \in Procs, NEW r \in RoleIds, DeleteRole(p, r),
           contested' = contested \cup {s \in {r} : Renamed(s)}, run' = run
    PROVE  RolesInv'
<1>1. PICK c : /\ CallGoto(p, c) /\ c.pc = "load" /\ c.for = "delete" /\ c.id = r
               /\ c.table = "roles" /\ DOMAIN c.patch = {"deleted"} /\ ~ c.patch.deleted
  <2>1. PICK patch : patch = [deleted |-> FALSE]
    OBVIOUS
  <2>2. DOMAIN patch = {"deleted"} /\ ~ patch.deleted
    BY <2>1
  <2>3. PICK c : c = [pc |-> "load", for |-> "delete", table |-> "roles", id |-> r, patch |-> patch]
    OBVIOUS
  <2>4. CallGoto(p, c)
    BY <2>1, <2>3 DEF DeleteRole
  <2> QED BY <2>2, <2>3, <2>4
<1>2. c.pc # "update" /\ DOMAIN c.patch = {"deleted"} /\ ~ c.patch.deleted
  BY <1>1
<1>3. /\ call'[p] = c
      /\ \A q \in Procs : q # p => call'[q] = call[q]
  BY <1>1 DEF TypeInv, CallGoto
<1>4. roles' = roles
  BY DEF DeleteRole
<1>5. \A q \in Procs : ~ Marks(call'[q])
  <2>1. ~ Marks(c)
    BY <1>2 DEF Marks
  <2> QED BY <1>3, <2>1 DEF RolesInv
<1>6. ASSUME NEW s \in RoleIds \ contested', Leaving(s)' PROVE NotBuiltIn(s)'
  <2>1. ~ Protects(c, s)
    BY <1>2 DEF Protects
  <2>2. CASE Leaving(s)
    <3>1. NotBuiltIn(s)
      BY <2>2 DEF RolesInv
    <3>2. \A q \in Procs : ~ Protects(call'[q], s)
      BY <1>3, <2>1, <3>1 DEF NotBuiltIn
    <3> QED BY <1>4, <3>1, <3>2 DEF NotBuiltIn
  <2>3. CASE ~ Leaving(s)
    <3>1. s = r
      <4>1. ASSUME s # r PROVE FALSE
        <5>1. ~ Deletes(c, s)
          BY <1>1, <1>2, <4>1 DEF Deletes
        <5>2. \A q \in Procs : Deletes(call'[q], s) => Deletes(call[q], s)
          BY <1>3, <5>1
        <5>3. Dying(s)' => \E q \in Procs : Deletes(call'[q], s)
          BY DEF Dying, Deletes, SavesRole
        <5> QED BY <1>4, <1>6, <2>3, <5>2, <5>3, DyingMeans DEF Leaving
      <4> QED BY <4>1
    <3>2. ~ Renamed(s)
      BY <1>6, <3>1
    <3>3. \A q \in Procs : ~ Protects(call[q], s)
      <4>1. ASSUME NEW q \in Procs, Protects(call[q], s) PROVE FALSE
        <5>1. SavesRole(call[q]) /\ call[q].id = s
          BY <4>1 DEF Protects
        <5>2. call[q].for # "update"
          BY <3>2, <5>1 DEF Renamed, SavesRole
        <5>3. Saving(call[q])
          BY <5>1 DEF SavesRole, TypeInv, CallOK, Idle, Allocating, Granting, Updating
        <5>4. Deletes(call[q], s)
          BY <5>1, <5>2, <5>3 DEF Saving, Deletes
        <5> QED BY <2>3, <5>4, DyingMeans DEF Leaving
      <4> QED BY <4>1
    <3>4. \A q \in Procs : ~ Protects(call'[q], s)
      BY <1>3, <2>1, <3>3
    <3>5. roles[s] # None /\ roles[s].name \notin Protected
      BY <3>1 DEF DeleteRole, Role, Deletable
    <3> QED BY <1>4, <3>2, <3>4, <3>5 DEF NotBuiltIn, Renamed
  <2> QED BY <2>2, <2>3
<1> QED BY <1>5, <1>6 DEF RolesInv

\* The routes that write no role.
LEMMA OtherCallsKeepRoles ==
    ASSUME TypeInv, RolesInv, NEW p \in Procs, run' = run, contested' = contested,
           InsertAccount(p) \/ Allocate(p) \/ InsertGrant(p) \/ CallFails(p)
    PROVE  RolesInv'
<1>1. ASSUME NEW c, c.pc \in {"idle", "allocate"} PROVE Harmless(c)
  BY <1>1 DEF Harmless, Marks, Deletes, Protects, SavesRole
<1>2. CASE CallEnds(p)
  <2>1. Idle.pc = "idle"
    BY DEF Idle
  <2>2. roles' = roles
    BY DEF InsertAccount, Allocate, InsertGrant, CallFails
  <2> QED BY <1>1, <1>2, <2>1, <2>2, HarmlessMove DEF CallEnds
<1>3. CASE InsertAccount(p) /\ ~ CallEnds(p)
  <2>1. PICK c : CallGoto(p, c) /\ c.pc = "allocate"
    BY <1>3 DEF InsertAccount
  <2> QED BY <1>1, <1>3, <2>1, HarmlessMove DEF InsertAccount
<1>4. CASE Allocate(p) /\ ~ CallEnds(p)
  <2>1. PICK c : c = [call[p] EXCEPT !.todo = Tail(@)]
    OBVIOUS
  <2>2. Allocating(call[p])
    BY <1>4 DEF Allocate, TypeInv, CallOK, Idle, Granting, Saving, Updating
  <2>3. CallGoto(p, c) /\ c.pc = "allocate"
    BY <1>4, <2>1, <2>2 DEF Allocate, Allocating
  <2> QED BY <1>1, <1>4, <2>3, HarmlessMove DEF Allocate
<1> QED BY <1>2, <1>3, <1>4 DEF InsertGrant, CallFails

\* A new role stands, and nobody was deleting it.
LEMMA InsertRoleKeeps ==
    ASSUME TypeInv, RolesInv, NEW p \in Procs, InsertRole(p), run' = run, contested' = contested
    PROVE  RolesInv'
<1>1. call[p].row \in RoleRow /\ ~ call[p].row.deleted
  BY DEF InsertRole, TypeInv, CallOK, Idle, Allocating, Granting, Saving, Updating
<1>2. PICK r \in NextId(roles, None) :
        LET table == [roles EXCEPT ![r] = call[p].row] IN
        roles' = IF RolesStorable(table) THEN table ELSE roles
  BY DEF InsertRole
<1>3. r \in RoleIds /\ roles[r] = None
  BY <1>2, NextIdFree DEF TypeInv, Tables
<1>4. \A s \in RoleIds : \/ roles'[s] = roles[s]
                         \/ roles[s] = None /\ roles'[s] = call[p].row
  BY <1>2, <1>3 DEF TypeInv, Tables
<1>5. \A s \in RoleIds \ contested : roles'[s] # None /\ roles'[s].deleted => Leaving(s)
  BY <1>1, <1>4 DEF Leaving
<1>6. \A s \in RoleIds \ contested : Leaving(s) => roles'[s] # None /\ roles'[s].name \notin Protected
  BY <1>4 DEF RolesInv, NotBuiltIn
<1>7. Harmless(Idle)
  BY DEF Idle, Harmless, Marks, Deletes, Protects, SavesRole
<1> QED BY <1>5, <1>6, <1>7, CallMovesRoles DEF InsertRole, CallEnds, Harmless

\* From one statement of a save to the next: the columns of a role it is about to write.
LEMMA NextStatementKeeps ==
    ASSUME TypeInv, RolesInv, NEW p \in Procs, Saving(call[p]), NEW pc \in {"diff", "write"}, NEW patch,
           CallGoto(p, [call[p] EXCEPT !.pc = pc, !.patch = patch]),
           call[p].table = "roles" /\ "deleted" \in DOMAIN patch => ~ patch.deleted,
           call[p].table = "roles" /\ "name" \in DOMAIN patch /\ Leaving(call[p].id)
               /\ call[p].id \notin contested => patch.name \notin Protected,
           run' = run, contested' = contested, roles' = roles
    PROVE  RolesInv'
<1>1. PICK c : c = [call[p] EXCEPT !.pc = pc, !.patch = patch]
  OBVIOUS
<1>2. /\ c.pc = pc /\ c.patch = patch
      /\ c.for = call[p].for /\ c.table = call[p].table /\ c.id = call[p].id
  BY <1>1 DEF Saving
<1>3. ~ Marks(c)
  BY <1>2 DEF Marks, SavesRole
<1>4. \A r : Deletes(c, r) => Deletes(call[p], r)
  BY <1>2 DEF Saving, Deletes, SavesRole
<1>5. \A r \in RoleIds \ contested : Leaving(r) => ~ Protects(c, r)
  BY <1>2 DEF Protects, SavesRole
<1>6. \A r \in RoleIds \ contested : Leaving(r) => roles'[r] # None /\ roles'[r].name \notin Protected
  BY DEF RolesInv, NotBuiltIn
<1>7. \A r \in RoleIds \ contested : roles'[r] # None /\ roles'[r].deleted => Leaving(r)
  BY DEF Leaving
<1>8. CallGoto(p, c)
  BY <1>1
<1> QED BY <1>3, <1>4, <1>5, <1>6, <1>7, <1>8, CallMovesRoles

\* The name a save holds of a role that is leaving is no built-in one.
LEMMA LeavingName ==
    ASSUME RolesInv, NEW p \in Procs, SavesRole(call[p]), call[p].id \in RoleIds \ contested,
           Leaving(call[p].id)
    PROVE  /\ "name" \in DOMAIN call[p].patch => call[p].patch.name \notin Protected
           /\ roles[call[p].id].name \notin Protected
BY DEF RolesInv, NotBuiltIn, Protects

\* A call that loads its row threatens no built-in role it did not threaten.
LEMMA LoadRowKeeps ==
    ASSUME TypeInv, RolesInv, NEW p \in Procs, LoadRow(p), run' = run, contested' = contested
    PROVE  RolesInv'
<1>1. Saving(call[p])
  BY DEF LoadRow, TypeInv, CallOK, Idle, Allocating, Granting, Updating
<1>2. roles' = roles
  BY DEF LoadRow
<1>3. CASE Stored(p).deleted
  <2>1. Harmless(Idle)
    BY DEF Idle, Harmless, Marks, Deletes, Protects, SavesRole
  <2> QED BY <1>2, <1>3, <2>1, HarmlessMove DEF LoadRow, CallEnds
<1>4. CASE ~ Stored(p).deleted
  <2>1. PICK row : row = Patched(Stored(p), call[p].patch)
    OBVIOUS
  <2>2. PICK patch : patch = [c \in Loaded(p) |-> row[c]]
    OBVIOUS
  <2>3. CallGoto(p, [call[p] EXCEPT !.pc = "diff", !.patch = patch])
    BY <1>4, <2>1, <2>2 DEF LoadRow
  <2>4. ASSUME call[p].table = "roles"
        PROVE  /\ ~ row.deleted /\ call[p].id \in RoleIds
               /\ row.name = IF "name" \in DOMAIN call[p].patch THEN call[p].patch.name
                             ELSE roles[call[p].id].name
    <3>1. Stored(p) \in RoleRow /\ Stored(p) = roles[call[p].id] /\ RolePatch(call[p].patch)
          /\ call[p].id \in RoleIds
      BY <1>1, <2>4, StoredRow DEF Saving
    <3>2. "deleted" \in DOMAIN call[p].patch => ~ call[p].patch.deleted
      BY <1>1, <2>4 DEF RolesInv, Marks, SavesRole, Saving
    <3> QED BY <1>4, <2>1, <3>1, <3>2, PatchedRole
  <2>5. /\ "name" \in DOMAIN patch => patch.name = row.name
        /\ "deleted" \in DOMAIN patch => patch.deleted = row.deleted
    BY <2>2
  <2>6. call[p].table = "roles" => SavesRole(call[p])
    BY <1>1 DEF SavesRole, Saving
  <2>7. call[p].table = "roles" /\ "name" \in DOMAIN patch /\ Leaving(call[p].id)
            /\ call[p].id \notin contested => patch.name \notin Protected
    BY <2>4, <2>5, <2>6, LeavingName
  <2>8. call[p].table = "roles" /\ "deleted" \in DOMAIN patch => ~ patch.deleted
    BY <2>4, <2>5
  <2> QED BY <1>1, <1>2, <2>3, <2>7, <2>8, NextStatementKeeps
<1> QED BY <1>3, <1>4

\* Nor does one that compares its row with the stored one.
LEMMA DiffRowKeeps ==
    ASSUME TypeInv, RolesInv, NEW p \in Procs, DiffRow(p), run' = run, contested' = contested
    PROVE  RolesInv'
<1>1. Saving(call[p])
  BY DEF DiffRow, TypeInv, CallOK, Idle, Allocating, Granting, Updating
<1>2. PICK patch : patch = Delta(call[p].patch, Stored(p))
  OBVIOUS
<1>3. CallGoto(p, [call[p] EXCEPT !.pc = "write", !.patch = patch])
  BY <1>1, <1>2 DEF DiffRow, Saving
<1>4. /\ "name" \in DOMAIN patch => "name" \in DOMAIN call[p].patch /\ patch.name = call[p].patch.name
      /\ "deleted" \in DOMAIN patch =>
            "deleted" \in DOMAIN call[p].patch /\ patch.deleted = call[p].patch.deleted
  BY <1>2 DEF Delta
<1>5. call[p].table = "roles" => SavesRole(call[p]) /\ call[p].id \in RoleIds
  <2>1. SavesRole(call[p]) \/ call[p].table # "roles"
    BY <1>1 DEF SavesRole, Saving
  <2>2. call[p].id \in RoleIds \/ call[p].table # "roles"
    BY <1>1, StoredRow DEF Saving
  <2> QED BY <2>1, <2>2
<1>6. call[p].table = "roles" /\ "deleted" \in DOMAIN patch => ~ patch.deleted
  BY <1>4, <1>5 DEF RolesInv, Marks
<1>7. call[p].table = "roles" /\ "name" \in DOMAIN patch /\ Leaving(call[p].id)
        /\ call[p].id \notin contested => patch.name \notin Protected
  BY <1>4, <1>5, LeavingName
<1>8. roles' = roles
  BY DEF DiffRow
<1> QED BY <1>1, <1>3, <1>6, <1>7, <1>8, NextStatementKeeps

\* The UPDATE of a role: it stays deleted or not, or goes on to be deleted, and a role
\* that is leaving keeps a name that is not built in.
LEMMA WriteColumnsKeeps ==
    ASSUME TypeInv, RolesInv, NEW p \in Procs, WriteColumns(p), run' = run, contested' = contested,
           \/ call[p].pc = "write" /\ Saving(call[p])
           \/ call[p].pc = "update" /\ Updating(call[p])
    PROVE  RolesInv'
<1>1. Target(call[p])
  BY DEF Saving, Updating
<1>2. PICK row, id : row = Patched(Stored(p), call[p].patch) /\ id = call[p].id
  OBVIOUS
<1>3. \A s \in RoleIds : \/ roles'[s] = roles[s]
                         \/ call[p].table = "roles" /\ s = id /\ roles'[s] = row
  BY <1>2 DEF WriteColumns, TypeInv, Tables
<1>4. ASSUME call[p].table = "roles"
      PROVE  /\ id \in RoleIds /\ row \in RoleRow /\ roles[id] # None
             /\ row.name = IF "name" \in DOMAIN call[p].patch THEN call[p].patch.name ELSE roles[id].name
             /\ row.deleted = IF "deleted" \in DOMAIN call[p].patch THEN call[p].patch.deleted
                              ELSE roles[id].deleted
  BY <1>1, <1>2, <1>4, StoredRow, PatchedRole DEF Target
<1>5. ASSUME call[p].table = "roles", row.deleted PROVE Leaving(id)
  <2>1. CASE call[p].pc = "update"
    BY <1>2, <1>5, <2>1, DyingMeans DEF Leaving, Deletes
  <2>2. CASE call[p].pc = "write"
    <3>1. "deleted" \in DOMAIN call[p].patch => ~ call[p].patch.deleted
      BY <1>5, <2>2 DEF RolesInv, Marks, SavesRole
    <3> QED BY <1>4, <1>5, <3>1 DEF Leaving
  <2> QED BY <2>1, <2>2
<1>6. ASSUME call[p].table = "roles", id \notin contested, Leaving(id) PROVE row.name \notin Protected
  <2>1. roles[id].name \notin Protected
    BY <1>4, <1>6 DEF RolesInv, NotBuiltIn
  <2>2. CASE call[p].pc = "update"
    <3>1. "name" \notin DOMAIN call[p].patch
      BY <1>6, <2>2 DEF Updating, Saving
    <3> QED BY <1>4, <1>6, <2>1, <3>1
  <2>3. CASE call[p].pc = "write"
    <3>1. SavesRole(call[p])
      BY <1>6, <2>3 DEF SavesRole
    <3> QED BY <1>2, <1>4, <1>6, <2>1, <3>1, LeavingName
  <2> QED BY <2>2, <2>3
<1>7. \A s \in RoleIds \ contested : roles'[s] # None /\ roles'[s].deleted => Leaving(s)
  BY <1>3, <1>5 DEF Leaving
<1>8. \A s \in RoleIds \ contested : Leaving(s) => roles'[s] # None /\ roles'[s].name \notin Protected
  BY <1>3, <1>4, <1>6, AccountRecords DEF RolesInv, NotBuiltIn
<1>9. CASE CallEnds(p)
  <2>1. Harmless(Idle)
    BY DEF Idle, Harmless, Marks, Deletes, Protects, SavesRole
  <2> QED BY <1>7, <1>8, <1>9, <2>1, CallMovesRoles DEF CallEnds, Harmless
<1>10. CASE ~ CallEnds(p)
  <2>1. PICK c : /\ CallGoto(p, c) /\ c.pc = "update" /\ c.id = call[p].id
                 /\ call[p].pc = "write" /\ call[p].for = "delete"
    BY <1>10 DEF WriteColumns
  <2>2. Deletes(call[p], c.id)
    BY <2>1 DEF Deletes, SavesRole, Saving, Updating
  <2>3. \A r \in RoleIds \ contested : Deletes(c, r) => Deletes(call[p], r)
    BY <2>1, <2>2 DEF Deletes, SavesRole
  <2>4. ~ Marks(c) /\ \A r : ~ Protects(c, r)
    BY <2>1 DEF Marks, Protects, SavesRole
  <2> QED BY <1>7, <1>8, <2>1, <2>3, <2>4, CallMovesRoles
<1> QED BY <1>9, <1>10

\* Every step of an API call keeps the built-in roles.
LEMMA CallStepKeepsRoles ==
    ASSUME TypeInv, RolesInv, NEW p \in Procs, CallStep(p), run' = run, contested' = contested
    PROVE  RolesInv'
<1>1. CASE WriteRow(p)
  <2>1. Saving(call[p])
    BY <1>1 DEF WriteRow, TypeInv, CallOK, Idle, Allocating, Granting, Updating
  <2> QED BY <1>1, <2>1, WriteColumnsKeeps DEF WriteRow
<1>2. CASE UpdateColumns(p)
  <2>1. Updating(call[p])
    BY <1>2 DEF UpdateColumns, TypeInv, CallOK, Idle, Allocating, Granting, Saving
  <2> QED BY <1>2, <2>1, WriteColumnsKeeps DEF UpdateColumns
<1> QED BY <1>1, <1>2, OtherCallsKeepRoles, InsertRoleKeeps, LoadRowKeeps, DiffRowKeeps DEF CallStep

\* The roles the seed program looks up stand; one that is being deleted is contested.
LEMMA FindRoleKeeps ==
    ASSUME TypeInv, RolesInv, FindRole
    PROVE  RolesInv'
<1>1. UNCHANGED <<roles, call>>
  BY DEF FindRole, accountVars
<1>2. PICK b, found : b = run /\ found = FindRoleByName(Row.name)
  OBVIOUS
<1>3. run' = [pc |-> "save_role", found |-> found, back |-> b]
  BY <1>2 DEF FindRole
<1>4. \A p \in Procs : ~ Marks(call'[p])
  BY <1>1 DEF RolesInv
<1>5. ASSUME NEW r \in RoleIds \ contested', Leaving(r)' PROVE NotBuiltIn(r)'
  <2>1. Leaving(r)
    BY <1>1, <1>5 DEF Leaving, Dying
  <2>2. r \notin found
    <3>1. r \in found => ~ Dying(r)
      BY <1>2, <1>5 DEF FindRole
    <3>2. r \in found => Role(r)
      BY <1>2 DEF FindRoleByName
    <3> QED BY <2>1, <3>1, <3>2 DEF Leaving, Role
  <2>3. NotBuiltIn(r)
    BY <1>5, <2>1 DEF RolesInv, FindRole
  <2> QED BY <1>1, <1>3, <2>2, <2>3 DEF NotBuiltIn
<1> QED BY <1>4, <1>5 DEF RolesInv

\* The role it saves is a new one, or one that is not leaving.
LEMMA SaveRoleKeeps ==
    ASSUME TypeInv, RolesInv, SaveRole
    PROVE  RolesInv'
<1>1. call' = call /\ contested' = contested
  BY DEF SaveRole
<1>2. run'.pc # "save_role"
  <2>1. Inside(2) /\ run.pc = "save_role"
    BY DEF SaveRole, TypeInv, RunOK, Stopped, Between
  <2>2. CASE run' = [run.back EXCEPT !.todo = Tail(@)]
    BY <2>1, <2>2, BackSeen
  <2>3. CASE run' = Stopped
    BY <2>3 DEF Stopped
  <2> QED BY <2>2, <2>3 DEF SaveRole
<1>3. PICK r \in IF run.found # {} THEN run.found ELSE NextId(roles, None) :
        LET table == SavedRole(r, Head(run.back.todo)) IN
        \/ roles' = table
        \/ UNCHANGED roles
  BY DEF SaveRole
<1>4. r \in RoleIds /\ (roles[r] = None \/ (run.pc = "save_role" /\ r \in run.found))
  BY <1>3, NextIdFree DEF SaveRole, TypeInv, Tables, RunOK, Stopped, Between
<1>5. PICK new : new = [name |-> Head(run.back.todo).name, perms |-> Head(run.back.todo).perms,
                        deleted |-> FALSE]
  OBVIOUS
<1>6. ~ new.deleted
  BY <1>5
<1>7. \A s \in RoleIds : roles'[s] = roles[s] \/ (s = r /\ roles'[s] = new)
  BY <1>3, <1>5 DEF SavedRole, TypeInv, Tables
<1>8. \A p \in Procs : ~ Marks(call'[p])
  BY <1>1 DEF RolesInv
<1>9. ASSUME NEW s \in RoleIds \ contested, Leaving(s)' PROVE NotBuiltIn(s)'
  <2>1. Dying(s)' => Dying(s)
    BY <1>1 DEF Dying
  <2>2. Leaving(s)
    BY <1>6, <1>7, <1>9, <2>1 DEF Leaving
  <2>3. NotBuiltIn(s)
    BY <2>2 DEF RolesInv
  <2>4. s # r
    BY <1>4, <2>3 DEF NotBuiltIn
  <2> QED BY <1>1, <1>2, <1>7, <2>3, <2>4 DEF NotBuiltIn
<1> QED BY <1>1, <1>8, <1>9 DEF RolesInv

\* Roles, calls and the set of contested roles stay as they are, and the seed program does
\* not look up a role.
LEMMA RolesAlone ==
    ASSUME RolesInv, UNCHANGED <<roles, call, contested>>, run' = run \/ run'.pc # "save_role"
    PROVE  RolesInv'
<1>1. \A p \in Procs : ~ Marks(call'[p])
  BY DEF RolesInv
<1>2. ASSUME NEW r \in RoleIds \ contested, Leaving(r)' PROVE NotBuiltIn(r)'
  <2>1. Leaving(r)
    BY <1>2 DEF Leaving, Dying
  <2>2. NotBuiltIn(r)
    BY <2>1 DEF RolesInv
  <2> QED BY <2>2 DEF NotBuiltIn
<1> QED BY <1>1, <1>2 DEF RolesInv

\* The other steps of the seed program leave the roles alone.
LEMMA RunStepKeepsRoles ==
    ASSUME TypeInv, RolesInv, RunStep
    PROVE  RolesInv'
<1>2. ASSUME ~ FindRole, ~ SaveRole PROVE UNCHANGED <<roles, call, contested>>
  BY <1>2 DEF RunStep, NextSeeder, RunStops, SeedPermission, FindUser, InsertUser, FindDefault, InsertDefault,
              SeedRow, OpenEmployee, UploadPlaceholder, Uploaded, InsertLeave, SeedCorrection, accountVars
<1>3. ASSUME ~ FindRole PROVE run' = run \/ run'.pc # "save_role"
  <2>1. ASSUME FindDefault \/ InsertDefault PROVE run' = run \/ run'.pc # "save_role"
    <3>1. CASE run' = [run EXCEPT !.pc = "insert_default"]
      BY <2>1, <3>1, Filling DEF FindDefault, InsertDefault, TypeInv
    <3>2. CASE TypeDone
      BY <2>1, <3>2, TypeDoneFacts DEF FindDefault, InsertDefault, TypeInv
    <3> QED BY <2>1, <3>1, <3>2 DEF FindDefault, InsertDefault
  <2> QED BY <1>3, <2>1, RunSteps DEF Stopped
<1> QED BY <1>2, <1>3, RolesAlone, FindRoleKeeps, SaveRoleKeeps

\* Every step keeps the built-in roles.
LEMMA RolesStep ==
    ASSUME TypeInv, RolesInv, [Next]_vars
    PROVE  RolesInv'
<1>2. CASE StartRun
  <2>1. run'.pc # "save_role"
    BY <1>2 DEF StartRun, At
  <2> QED BY <1>2, <2>1, RolesAlone DEF StartRun, accountVars
<1>3. CASE ApiStep /\ run' = run
  <2>1. ASSUME NEW p \in Procs, RenameOrDelete(p) PROVE RolesInv'
    BY <1>3, <2>1, RenameRoleKeeps, DeleteRoleKeeps DEF RenameOrDelete
  <2>2. ASSUME NEW p \in Procs, AdminRoles(p) \/ AdminUsers(p), contested' = contested PROVE RolesInv'
    <3>1. PICK c : CallGoto(p, c) /\ Harmless(c)
      BY <2>2, HarmlessRequest
    <3>2. roles' = roles
      BY <2>2, RequestPc
    <3> QED BY <1>3, <2>2, <3>1, <3>2, HarmlessMove
  <2>3. CASE UNCHANGED <<accountVars, contested>>
    BY <1>3, <2>3, RolesAlone DEF accountVars
  <2>4. ASSUME NEW p \in Procs, CallStep(p), contested' = contested PROVE RolesInv'
    BY <1>3, <2>4, CallStepKeepsRoles
  <2> QED BY <1>3, <2>1, <2>2, <2>3, <2>4, ApiSteps
<1>4. CASE UNCHANGED vars
  BY <1>4, RolesAlone DEF vars, accountVars
<1> QED BY <1>2, <1>3, <1>4, RunStepKeepsRoles DEF Next

\* No role that is deleted, or about to be, has a built-in name, now or after what is under
\* way, unless it is contested.
THEOREM RolesInvariant == Spec => [](TypeInv /\ RolesInv)
<1>1. Init => TypeInv /\ RolesInv
  <2> SUFFICES ASSUME Init PROVE RolesInv
    BY TypeInitial
  <2>1. \A p \in Procs : call[p].pc = "idle"
    BY DEF Init, AccountsInit, Idle
  <2>2. \A r \in RoleIds : roles[r] = None /\ ~ Dying(r)
    BY <2>1 DEF Init, AccountsInit, Dying
  <2> QED BY <2>1, <2>2 DEF RolesInv, Marks, SavesRole, Leaving
<1>2. TypeInv /\ RolesInv /\ [Next]_vars => (TypeInv /\ RolesInv)'
  BY TypeStep, RolesStep
<1> QED BY <1>1, <1>2, PTL DEF Spec

\* A built-in role is never deleted, unless its name was being written while a deletion of it
\* was under way.
THEOREM BuiltInStands == Spec => []BuiltInRolesStand
<1>1. TypeInv /\ RolesInv => BuiltInRolesStand
  BY DEF RolesInv, BuiltInRolesStand, Leaving, NotBuiltIn
<1> QED BY <1>1, RolesInvariant, PTL
-----------------------------------------------------------------------------
(***************************************************************************)
(* What the library's operators return: the least of a set of numbers, the *)
(* numbers of a set in order, sequences put one after the other.           *)
(***************************************************************************)
\* Induction: a set that holds 0 and is closed under successor holds every natural.
LEMMA NatSetInduction ==
    ASSUME NEW S, 0 \in S, \A n \in Nat : n \in S => n + 1 \in S
    PROVE  Nat \subseteq S
<1> DEFINE R == {ss \in Nat \X Nat : ss[1] < ss[2]}
           T == Nat \ S
<1>1. IsWellFoundedOn(R, Nat)
  BY NatLessThanWellFounded, Zenon DEF OpToRel
<1>2. \A x, y \in Nat : x < y => <<x, y>> \in R
  OBVIOUS
<1>3. SUFFICES ASSUME T # {} PROVE FALSE
  OBVIOUS
<1>4. T \subseteq Nat
  OBVIOUS
<1>5. PICK x \in T : \A y \in T : ~ (<<y, x>> \in R)
  <2> HIDE DEF R, T
  <2> QED BY <1>1, <1>3, <1>4, WFMin
<1>6. x # 0 /\ x \in Nat
  OBVIOUS
<1>7. x - 1 \in Nat /\ x - 1 < x
  BY <1>6
<1>8. x - 1 \notin T
  BY <1>5, <1>7, <1>2, <1>6
<1> QED BY <1>8, <1>7, <1>6

\* A set of numbers that is not empty has a least one.
LEMMA MinMember ==
    ASSUME NEW S \in SUBSET Nat, S # {}
    PROVE  Min(S) \in S
<1> DEFINE R == {ss \in Nat \X Nat : ss[1] < ss[2]}
<1>1. IsWellFoundedOn(R, Nat)
  BY NatLessThanWellFounded, Zenon DEF OpToRel
<1>2. \A x, y \in Nat : x < y => <<x, y>> \in R
  OBVIOUS
<1>3. PICK x \in S : \A y \in S : ~ (<<y, x>> \in R)
  <2> HIDE DEF R
  <2> QED BY <1>1, WFMin
<1>4. ASSUME NEW y \in S PROVE x =< y
  <2> HIDE DEF R
  <2>1. x \in Nat /\ y \in Nat /\ ~ (y < x)
    BY <1>2, <1>3
  <2> QED BY <2>1
<1> QED BY <1>4 DEF Min

\* The elements of a finite set of numbers, from the lowest up.
Ascending(s, S) == s \in [1..Cardinality(S) -> S] /\ \A m, n \in DOMAIN s : m < n => s[m] < s[n]

\* A set of positions can be put in order.
LEMMA AscendingExists ==
    ASSUME NEW k \in Nat, NEW S \in SUBSET (1..k)
    PROVE  IsFiniteSet(S) /\ \E s : Ascending(s, S)
<1> DEFINE Sorted(T) == IsFiniteSet(T) /\ \E s : Ascending(s, T)
           Ks == {n \in Nat : \A T \in SUBSET (1..n) : Sorted(T)}
<1>1. 0 \in Ks
  <2>1. ASSUME NEW T \in SUBSET (1..0) PROVE Sorted(T)
    <3>1. T = {}
      OBVIOUS
    <3>2. IsFiniteSet(T) /\ Cardinality(T) = 0
      BY <3>1, FS_EmptySet
    <3>3. Ascending([i \in 1..0 |-> i], T)
      BY <3>1, <3>2 DEF Ascending
    <3> QED BY <3>2, <3>3
  <2> QED BY <2>1
<1>2. ASSUME NEW n \in Nat, n \in Ks PROVE n + 1 \in Ks
  <2>1. ASSUME NEW T \in SUBSET (1..(n + 1)) PROVE Sorted(T)
    <3>1. PICK U : U = T \ {n + 1}
      OBVIOUS
    <3>2. U \in SUBSET (1..n)
      BY <3>1
    <3>3. IsFiniteSet(U) /\ \E s : Ascending(s, U)
      BY <1>2, <3>2
    <3>4. CASE n + 1 \notin T
      BY <3>1, <3>3, <3>4
    <3>5. CASE n + 1 \in T
      <4>1. T = U \cup {n + 1} /\ n + 1 \notin U
        BY <3>1, <3>5
      <4>2. PICK c \in Nat : c = Cardinality(U)
        BY <3>3, FS_CardinalityType
      <4>3. IsFiniteSet(T) /\ Cardinality(T) = c + 1
        BY <3>3, <4>1, <4>2, FS_AddElement
      <4>4. PICK s : Ascending(s, U)
        BY <3>3
      <4>5. s \in [1..c -> U] /\ \A i, j \in 1..c : i < j => s[i] < s[j]
        BY <4>2, <4>4 DEF Ascending
      <4>6. PICK t : t = [i \in 1..(c + 1) |-> IF i = c + 1 THEN n + 1 ELSE s[i]]
        OBVIOUS
      <4>7. t \in [1..(c + 1) -> T]
        BY <4>1, <4>2, <4>5, <4>6
      <4>8. ASSUME NEW i \in 1..(c + 1), NEW j \in 1..(c + 1), i < j PROVE t[i] < t[j]
        <5>0. i \in 1..c /\ i # c + 1
          BY <4>2, <4>8
        <5>1. i \in 1..c /\ t[i] = s[i] /\ s[i] \in U /\ s[i] \in 1..n
          <6>1. s[i] \in U
            BY <4>5, <5>0
          <6>2. s[i] \in 1..n
            BY <3>2, <6>1
          <6> QED BY <4>6, <5>0, <6>1, <6>2
        <5>2. CASE j = c + 1
          BY <4>6, <5>1, <5>2
        <5>3. CASE j # c + 1
          <6>1. j \in 1..c /\ t[j] = s[j]
            BY <4>2, <4>6, <5>3
          <6> QED BY <4>5, <4>8, <5>1, <6>1
        <5> QED BY <5>2, <5>3
      <4>9. Ascending(t, T)
        BY <4>3, <4>7, <4>8 DEF Ascending
      <4> QED BY <4>3, <4>9
    <3> QED BY <3>4, <3>5
  <2> QED BY <2>1
<1> HIDE DEF Ks
<1>3. Nat \subseteq Ks
  BY <1>1, <1>2, NatSetInduction
<1> QED BY <1>3 DEF Ks

\* InOrder lists the elements of a set of ids, from the lowest up.
LEMMA InOrderFacts ==
    ASSUME NEW k \in Nat, NEW S \in SUBSET (1..k)
    PROVE  /\ InOrder(S) \in Seq(S) /\ IsFiniteSet(S) /\ Len(InOrder(S)) = Cardinality(S)
           /\ \A m, n \in DOMAIN InOrder(S) : m < n => InOrder(S)[m] < InOrder(S)[n]
<1>1. PICK s : Ascending(s, S)
  BY AscendingExists
<1>2. Ascending(InOrder(S), S)
  BY <1>1 DEF InOrder, Ascending
<1>3. IsFiniteSet(S) /\ Cardinality(S) \in Nat
  BY AscendingExists, FS_CardinalityType
<1> QED BY <1>2, <1>3 DEF Ascending

\* The partial results of FlattenSeq.
Flattened(f, ss, n) == f = [i \in 1..n |-> IF i = 1 THEN ss[i] ELSE f[i - 1] \o ss[i]]

\* A sequence of sequences can be flattened.
LEMMA FlattenedExists ==
    ASSUME NEW n \in Nat, NEW ss
    PROVE  \E f : Flattened(f, ss, n)
<1> DEFINE S == {m \in Nat : \E f : Flattened(f, ss, m)}
<1>1. 0 \in S
  <2>1. PICK f : f = [i \in 1..0 |-> i]
    OBVIOUS
  <2>2. Flattened(f, ss, 0)
    BY <2>1 DEF Flattened
  <2> QED BY <2>2
<1>2. ASSUME NEW m \in Nat, m \in S PROVE m + 1 \in S
  <2>1. PICK f : Flattened(f, ss, m)
    BY <1>2
  <2>2. PICK g : g = [i \in 1..(m + 1) |-> IF i = 1 THEN ss[1] ELSE IF i = m + 1 THEN f[m] \o ss[i] ELSE f[i]]
    OBVIOUS
  <2>3. \A i \in 1..m : f[i] = IF i = 1 THEN ss[i] ELSE f[i - 1] \o ss[i]
    BY <2>1 DEF Flattened
  <2>4. \A i \in 1..m : g[i] = f[i]
    BY <2>2, <2>3
  <2>5. \A i \in 1..(m + 1) : g[i] = IF i = 1 THEN ss[i] ELSE g[i - 1] \o ss[i]
    <3> TAKE i \in 1..(m + 1)
    <3>1. CASE i = 1
      BY <2>2, <3>1
    <3>2. CASE i # 1 /\ i = m + 1
      <4>1. i - 1 = m /\ m \in 1..m
        BY <3>2
      <4>2. g[i] = f[m] \o ss[i]
        BY <2>2, <3>2
      <4>3. g[i - 1] = f[m]
        BY <2>4, <4>1
      <4> QED BY <3>2, <4>2, <4>3
    <3>3. CASE i # 1 /\ i # m + 1
      <4>1. i \in 1..m /\ i - 1 \in 1..m
        BY <3>3
      <4> QED BY <2>3, <2>4, <3>3, <4>1
    <3> QED BY <3>1, <3>2, <3>3
  <2>6. g = [i \in 1..(m + 1) |-> IF i = 1 THEN ss[i] ELSE g[i - 1] \o ss[i]]
    BY <2>2, <2>5
  <2>7. Flattened(g, ss, m + 1)
    BY <2>6 DEF Flattened
  <2> QED BY <2>7
<1> HIDE DEF S
<1>3. Nat \subseteq S
  BY <1>1, <1>2, NatSetInduction
<1> QED BY <1>3 DEF S

\* A sequence of length nought is empty.
LEMMA EmptySeq ==
    ASSUME NEW S, NEW s \in Seq(S), Len(s) = 0
    PROVE  s = <<>>
OBVIOUS

\* Sequences over a set, put one after the other, are a sequence over it.
LEMMA FlattenMembers ==
    ASSUME NEW T, NEW ss \in Seq(Seq(T))
    PROVE  FlattenSeq(ss) \in Seq(T)
<1>1. PICK n \in Nat : n = Len(ss) /\ \A i \in 1..n : ss[i] \in Seq(T)
  BY SeqFacts
<1>2. CASE n = 0
  <2>0. Len(ss) = 0
    BY <1>1, <1>2
  <2>1. ss = <<>>
    BY <2>0, EmptySeq
  <2>2. FlattenSeq(ss) = ss
    BY <2>0 DEF FlattenSeq
  <2>3. <<>> \in Seq(T)
    OBVIOUS
  <2> QED BY <2>1, <2>2, <2>3
<1>3. CASE n # 0
  <2>1. PICK f : f = CHOOSE g : Flattened(g, ss, n)
    OBVIOUS
  <2>2. Flattened(f, ss, n)
    BY <2>1, FlattenedExists
  <2>3. FlattenSeq(ss) = f[n]
    BY <1>1, <1>3, <2>1 DEF FlattenSeq, Flattened
  <2> DEFINE S == {m \in Nat : m \in 1..n => f[m] \in Seq(T)}
  <2>4. 0 \in S
    OBVIOUS
  <2>5. ASSUME NEW m \in Nat, m \in S PROVE m + 1 \in S
    <3>1. ASSUME m + 1 \in 1..n PROVE f[m + 1] \in Seq(T)
      <4>1. f[m + 1] = IF m + 1 = 1 THEN ss[m + 1] ELSE f[(m + 1) - 1] \o ss[m + 1]
        BY <2>2, <3>1 DEF Flattened
      <4>2. (m + 1) - 1 = m
        OBVIOUS
      <4>3. ss[m + 1] \in Seq(T)
        BY <1>1, <3>1
      <4>4. CASE m = 0
        BY <4>1, <4>3, <4>4
      <4>5. CASE m # 0
        <5>1. m \in 1..n
          BY <3>1, <4>5
        <5>2. f[m] \in Seq(T)
          BY <2>5, <5>1
        <5>0. m + 1 # 1
          BY <4>5
        <5>3. f[m + 1] = f[(m + 1) - 1] \o ss[m + 1]
          BY <4>1, <5>0
        <5>4. f[m + 1] = f[m] \o ss[m + 1]
          BY <4>2, <5>3
        <5> HIDE DEF S
        <5> QED BY <4>3, <5>2, <5>4
      <4> QED BY <4>4, <4>5
    <3> QED BY <3>1
  <2> HIDE DEF S
  <2>6. Nat \subseteq S
    BY <2>4, <2>5, NatSetInduction
  <2>7. n \in S
    BY <2>6
  <2> QED BY <1>3, <2>3, <2>7 DEF S
<1> QED BY <1>2, <1>3

\* A sequence over a set that takes one more element.
LEMMA AppendFacts ==
    ASSUME NEW S, NEW s \in Seq(S), NEW e
    PROVE  /\ Append(s, e) \in Seq(S \cup {e}) /\ DOMAIN Append(s, e) = 1..(Len(s) + 1)
           /\ DOMAIN s = 1..Len(s) /\ Len(s) \in Nat
           /\ \A i \in DOMAIN s : Append(s, e)[i] = s[i]
           /\ Append(s, e)[Len(s) + 1] = e
OBVIOUS
-----------------------------------------------------------------------------
(***************************************************************************)
(* Who approves whom.                                                      *)
(***************************************************************************)
LEMMA RotatedMembers ==
    ASSUME NEW S, NEW pool \in Seq(S), NEW i \in Nat
    PROVE  Rotated(pool, i) \in Seq(S)
<1>1. PICK n \in Nat : n = Len(pool) /\ DOMAIN pool = 1..n /\ \A k \in 1..n : pool[k] \in S
  BY SeqFacts
<1>2. ASSUME NEW k \in 1..n PROVE pool[((i + k - 1) % n) + 1] \in S
  <2>1. PICK m : m = (i + k - 1) % n
    OBVIOUS
  <2>2. i + k - 1 \in Nat /\ n \in Nat \ {0}
    BY <1>2
  <2>3. m \in 0..(n - 1)
    BY <2>1, <2>2
  <2> QED BY <1>1, <2>1, <2>3
<1>3. Rotated(pool, i) = [k \in 1..n |-> pool[((i + k - 1) % n) + 1]]
  BY <1>1 DEF Rotated
<1> QED BY <1>2, <1>3

\* pick gives one of the pools, not the employee, or nobody.
LEMMA PickMember ==
    ASSUME NEW S, NEW pools \in Seq(Seq(S)), NEW i \in Nat, NEW self, NEW avoid
    PROVE  \/ Pick(self, i, pools, avoid) = Nobody
           \/ Pick(self, i, pools, avoid) \in S /\ Pick(self, i, pools, avoid) # self
<1>1. PICK m \in Nat : m = Len(pools) /\ DOMAIN pools = 1..m /\ \A k \in 1..m : pools[k] \in Seq(S)
  BY SeqFacts
<1>2. PICK turns : turns = [k \in DOMAIN pools |-> Rotated(pools[k], i)]
  OBVIOUS
<1>3. turns \in Seq(Seq(S))
  BY <1>1, <1>2, RotatedMembers
<1>4. PICK turned \in Seq(S) : turned = FlattenSeq(turns)
  BY <1>3, FlattenMembers
<1>5. PICK n \in Nat : n = Len(turned) /\ DOMAIN turned = 1..n /\ \A k \in 1..n : turned[k] \in S
  BY <1>4, SeqFacts
<1>6. PICK eligible : eligible = {k \in DOMAIN turned : Eligible(self, turned[k])}
  OBVIOUS
<1>7. PICK preferred : preferred = {k \in eligible : turned[k] # avoid}
  OBVIOUS
<1>8. \A k \in eligible : turned[k] \in S /\ turned[k] # self
  BY <1>5, <1>6 DEF Eligible
<1>9. /\ preferred # {} => Min(preferred) \in eligible
      /\ eligible # {} => Min(eligible) \in eligible
  <2>1. eligible \in SUBSET Nat /\ preferred \in SUBSET eligible
    BY <1>5, <1>6, <1>7
  <2>2. preferred \in SUBSET Nat
    BY <2>1
  <2> QED BY <2>1, <2>2, MinMember
<1>10. Pick(self, i, pools, avoid) =
         CASE preferred # {}                  -> turned[Min(preferred)]
           [] preferred = {} /\ eligible # {} -> turned[Min(eligible)]
           [] OTHER                           -> Nobody
  BY <1>2, <1>4, <1>6, <1>7 DEF Pick
<1> QED BY <1>8, <1>9, <1>10

\* The ids of the employees of a role are ids of accounts.
LEMMA IdsOfMembers ==
    ASSUME NEW es, \A e \in es : e.id \in AccountIds, NEW role
    PROVE  IdsOf(es, role) \in Seq(AccountIds)
<1>1. PICK ids : ids = {e.id : e \in {f \in Staff(es) : f.role = role}}
  OBVIOUS
<1>2. ids \in SUBSET AccountIds
  BY <1>1 DEF Staff
<1>3. InOrder(ids) \in Seq(ids)
  BY <1>2, InOrderFacts, AccountConstants DEF AccountIds
<1> QED BY <1>1, <1>2, <1>3 DEF IdsOf

\* The steps of an employee's chain: an approver of the pools, or nobody.
StepRow == {r \in [emp : AccountIds, step : {1, 2}, approver : AccountIds \cup {None}] : r.approver # r.emp}

\* The approvers assigned to an employee are rows of its chain.
LEMMA AssignedMembers ==
    ASSUME NEW es, IsFiniteSet(es), \A e \in es : e.id \in AccountIds, NEW e \in es
    PROVE  AssignedTo(es, e) \in Seq(StepRow)
<1>1. PICK i \in Nat : i = IndexInRole(es, e)
  <2>1. IsFiniteSet({f \in Staff(es) : f.role = e.role /\ f.id < e.id})
    BY FS_Subset DEF Staff
  <2> QED BY <2>1, FS_CardinalityType DEF IndexInRole
<1>2. PICK PM \in Seq(AccountIds), TD \in Seq(AccountIds), HR \in Seq(AccountIds) :
        PM = IdsOf(es, "PROJECT_MANAGER") /\ TD = IdsOf(es, "TECHNICAL_DIRECTOR") /\ HR = IdsOf(es, "HR_ADMIN")
  BY IdsOfMembers
<1>3. PICK S : S = Seq(AccountIds)
  OBVIOUS
<1>4. \A a, b, c \in S : <<a, b, c>> \in Seq(S) /\ <<a, b>> \in Seq(S)
  OBVIOUS
<1>5. PICK pools : pools = CASE e.role = "PROJECT_MANAGER" -> <<TD, HR, PM>>
                             [] e.role \in {"TECHNICAL_DIRECTOR", "OPERATIONS_MANAGER", "HR_ADMIN"}
                                                           -> <<HR, TD, PM>>
                             [] OTHER                      -> <<PM, TD, HR>>
  OBVIOUS
<1>6. pools \in Seq(Seq(AccountIds))
  BY <1>2, <1>3, <1>4, <1>5
<1>7. PICK l1 : l1 = Pick(e.id, i, pools, Nobody)
  OBVIOUS
<1>8. ASSUME NEW p \in Seq(Seq(AccountIds)), NEW avoid, NEW step \in {1, 2}
      PROVE  [emp |-> e.id, step |-> step, approver |-> Pick(e.id, i, p, avoid)] \in StepRow
  <2>1. PICK a : a = Pick(e.id, i, p, avoid)
    OBVIOUS
  <2>2. a \in AccountIds \cup {None} /\ a # e.id
    BY <1>1, <2>1, PickMember, AccountRecords, SeedConstants
  <2> QED BY <2>1, <2>2 DEF StepRow
<1>9. PICK first \in StepRow : first = [emp |-> e.id, step |-> 1, approver |-> l1]
  BY <1>6, <1>7, <1>8
<1>10. PICK s1 : s1 = [emp |-> e.id, step |-> 2, approver |-> Pick(e.id, i, <<TD, PM, HR>>, l1)]
  OBVIOUS
<1>11. PICK s2 : s2 = [emp |-> e.id, step |-> 2, approver |-> Pick(e.id, i, <<HR, TD>>, l1)]
  OBVIOUS
<1>12. <<TD, PM, HR>> \in Seq(Seq(AccountIds)) /\ <<HR, TD>> \in Seq(Seq(AccountIds))
  BY <1>2, <1>3, <1>4
<1>13. s1 \in StepRow /\ s2 \in StepRow
  BY <1>8, <1>10, <1>11, <1>12
<1>14. AssignedTo(es, e) = <<first>> \o (CASE e.role = "EMPLOYEE"        -> <<s1>>
                                           [] e.role = "PROJECT_MANAGER" -> <<s2>>
                                           [] OTHER                      -> <<>>)
  BY <1>1, <1>2, <1>5, <1>7, <1>9, <1>10, <1>11 DEF AssignedTo
<1>15. PICK R : R = StepRow
  OBVIOUS
<1>16. PICK rest : rest = CASE e.role = "EMPLOYEE"        -> <<s1>>
                            [] e.role = "PROJECT_MANAGER" -> <<s2>>
                            [] OTHER                      -> <<>>
  OBVIOUS
<1>17. rest \in Seq(R)
  BY <1>13, <1>15, <1>16
<1>18. <<first>> \in Seq(R)
  BY <1>9, <1>15
<1>19. <<first>> \o rest \in Seq(R)
  BY <1>17, <1>18
<1> QED BY <1>14, <1>15, <1>16, <1>19

\* The chain seeder's rows.
LEMMA AssignsMembers ==
    ASSUME NEW es, IsFiniteSet(es), \A e \in es : e.id \in AccountIds
    PROVE  AssignApprovers(es) \in Seq(StepRow)
<1>1. PICK ids : ids = {e.id : e \in Staff(es)}
  OBVIOUS
<1>2. ids \in SUBSET AccountIds
  BY <1>1 DEF Staff
<1>3. InOrder(ids) \in Seq(ids)
  BY <1>2, InOrderFacts, AccountConstants DEF AccountIds
<1>4. PICK s \in Seq(ids) : s = InOrder(ids)
  BY <1>3
<1>5. PICK n \in Nat : n = Len(s) /\ DOMAIN s = 1..n /\ \A k \in 1..n : s[k] \in ids
  BY <1>4, SeqFacts
<1>6. PICK rows : rows = [k \in DOMAIN s |-> AssignedTo(es, CHOOSE e \in Staff(es) : e.id = s[k])]
  OBVIOUS
<1>7. ASSUME NEW k \in 1..n PROVE rows[k] \in Seq(StepRow)
  <2>1. PICK e : e = CHOOSE f \in Staff(es) : f.id = s[k]
    OBVIOUS
  <2>2. e \in Staff(es)
    BY <1>1, <1>5, <2>1
  <2>3. e \in es
    BY <2>2 DEF Staff
  <2> QED BY <1>5, <1>6, <2>1, <2>3, AssignedMembers
<1>8. rows \in Seq(Seq(StepRow))
  <2>1. PICK R : R = Seq(StepRow)
    OBVIOUS
  <2>2. rows = [k \in 1..n |-> rows[k]]
    BY <1>5, <1>6
  <2>3. \A k \in 1..n : rows[k] \in R
    BY <1>7, <2>1
  <2>4. rows \in Seq(R)
    BY <2>2, <2>3
  <2> QED BY <2>1, <2>4
<1>9. FlattenSeq(rows) \in Seq(StepRow)
  BY <1>8, FlattenMembers
<1>10. AssignApprovers(es) = FlattenSeq(rows)
  BY <1>1, <1>4, <1>6 DEF AssignApprovers
<1> QED BY <1>9, <1>10

\* The employees the chain seeder reads.
LEMMA SeedEmployeesFacts ==
    ASSUME Tables
    PROVE  IsFiniteSet(SeedEmployees) /\ \A e \in SeedEmployees : e.id \in AccountIds
<1>1. PICK L : L = LiveAccounts
  OBVIOUS
<1>2. L \subseteq AccountIds
  BY <1>1 DEF LiveAccounts
<1>3. IsFiniteSet(L)
  <2>1. IsFiniteSet(AccountIds)
    BY FS_Interval, AccountConstants DEF AccountIds
  <2> QED BY <1>2, <2>1, FS_Subset
<1>4. PICK f : f = [id \in L |-> [id |-> id, admin |-> accounts[id].admin,
                                  role |-> IF Role(accounts[id].role) THEN roles[accounts[id].role].name ELSE None]]
  OBVIOUS
<1>5. SeedEmployees = {f[id] : id \in L}
  BY <1>1, <1>4 DEF SeedEmployees
<1>6. f \in Surjection(L, SeedEmployees)
  BY <1>4, <1>5 DEF Surjection
<1>7. IsFiniteSet(SeedEmployees)
  BY <1>3, <1>6, FS_Surjection
<1>8. \A id \in L : f[id].id = id
  BY <1>4
<1> QED BY <1>2, <1>5, <1>7, <1>8
-----------------------------------------------------------------------------
(***************************************************************************)
(* The plans.  What the last three seeders are about to write: a chain     *)
(* step with an approver who is somebody else, the requests of an account  *)
(* at its place, a correction nobody decides who asked for it.             *)
(***************************************************************************)
PlanRow(s, r) ==
    /\ s = 7 => r \in StepRow /\ r.approver # None
    /\ s = 8 => r.emp \in AccountIds /\ r.index \in Nat
    /\ s = 9 => r.emp \notin {r.l1, r.l2}
PlanOK(s, todo) == s \in 7..9 => \E S : todo \in Seq(S) /\ \A r \in S : PlanRow(s, r)
PlanInv ==
    /\ run.pc = "row" => PlanOK(run.seeder, run.todo)
    /\ run.pc \in {"upload", "insert_leaves"} => PlanOK(8, run.back.todo)

ChainsOK == chains \in [ChainKeys -> AccountIds \cup {None}] /\ \A k \in ChainKeys : chains[k] # k[1]

\* What is left of a plan is a plan.
LEMMA PlanHead ==
    ASSUME NEW s \in 1..9, NEW todo, PlanOK(s, todo), todo # <<>>
    PROVE  PlanOK(s, Tail(todo)) /\ PlanRow(s, Head(todo))
<1>1. CASE s \in 7..9
  <2>1. PICK S : todo \in Seq(S) /\ \A r \in S : PlanRow(s, r)
    BY <1>1 DEF PlanOK
  <2>2. Tail(todo) \in Seq(S) /\ Head(todo) \in S
    BY <2>1
  <2> QED BY <2>1, <2>2 DEF PlanOK
<1>2. CASE s \notin 7..9
  BY <1>2 DEF PlanOK, PlanRow
<1> QED BY <1>1, <1>2

\* A sequence of positive numbers is bounded.
LEMMA Bounded ==
    ASSUME NEW s \in Seq(Nat \ {0})
    PROVE  \E k \in Nat : Range(s) \subseteq 1..k
<1>1. PICK n \in Nat : n = Len(s) /\ DOMAIN s = 1..n /\ \A i \in 1..n : s[i] \in Nat \ {0}
  BY SeqFacts
<1> DEFINE S == {m \in Nat : m <= n => \E k \in Nat : \A i \in 1..m : s[i] <= k}
<1>2. 0 \in S
  OBVIOUS
<1>3. ASSUME NEW m \in Nat, m \in S PROVE m + 1 \in S
  <2>1. CASE m + 1 <= n
    <3>1. m <= n
      BY <2>1
    <3>2. PICK k \in Nat : \A i \in 1..m : s[i] <= k
      BY <1>3, <3>1
    <3>3. m + 1 \in 1..n
      BY <2>1
    <3>4. PICK a \in Nat : a = s[m + 1]
      BY <1>1, <3>3
    <3>5. PICK l \in Nat : l >= k /\ l >= a
      <4>1. k + a \in Nat /\ k + a >= k /\ k + a >= a
        OBVIOUS
      <4> QED BY <4>1
    <3>6. ASSUME NEW i \in 1..(m + 1) PROVE s[i] <= l
      <4>1. CASE i = m + 1
        BY <3>4, <3>5, <4>1
      <4>2. CASE i # m + 1
        <5>1. i \in 1..m /\ i \in 1..n
          BY <3>1, <4>2
        <5>2. s[i] <= k /\ s[i] \in Nat
          BY <1>1, <3>2, <5>1
        <5> HIDE DEF S
        <5> QED BY <3>5, <5>2
      <4> QED BY <4>1, <4>2
    <3> QED BY <3>6
  <2>2. CASE ~ (m + 1 <= n)
    BY <2>2
  <2> QED BY <2>1, <2>2
<1> HIDE DEF S
<1>4. n \in S
  BY <1>2, <1>3, NatSetInduction
<1>5. PICK k \in Nat : \A i \in 1..n : s[i] <= k
  BY <1>4 DEF S
<1>6. \A i \in 1..n : s[i] \in 1..k
  BY <1>1, <1>5
<1> QED BY <1>1, <1>6 DEF Range

\* The employees with a chain, in order.
LEMMA ChainedFacts ==
    /\ Chained \in Seq(AccountIds) /\ Len(Chained) \in Nat /\ DOMAIN Chained = 1..Len(Chained)
    /\ \A n \in DOMAIN Chained : Chained[n] \in AccountIds /\ chains[<<Chained[n], 1>>] # None
<1>1. PICK S : S = {id \in LiveAccounts : chains[<<id, 1>>] # None}
  OBVIOUS
<1>2. S \in SUBSET AccountIds
  BY <1>1 DEF LiveAccounts
<1>3. InOrder(S) \in Seq(S)
  BY <1>2, InOrderFacts, AccountConstants DEF AccountIds
<1>4. PICK c \in Seq(S) : c = Chained
  BY <1>1, <1>3 DEF Chained
<1>5. Len(c) \in Nat /\ DOMAIN c = 1..Len(c) /\ \A n \in DOMAIN c : c[n] \in S
  BY <1>4, SeqFacts
<1>6. c \in Seq(AccountIds)
  <2>1. c = [n \in 1..Len(c) |-> c[n]]
    BY <1>4
  <2>2. \A n \in 1..Len(c) : c[n] \in AccountIds
    BY <1>2, <1>5
  <2> QED BY <1>5, <2>1, <2>2
<1>7. \A n \in DOMAIN c : chains[<<c[n], 1>>] # None
  BY <1>1, <1>5
<1> QED BY <1>2, <1>4, <1>5, <1>6, <1>7

\* The chain seeder's rows, unless it throws.
LEMMA ChainPlan ==
    ASSUME Tables, ~ Throws(AssignApprovers(SeedEmployees))
    PROVE  PlanOK(7, AssignApprovers(SeedEmployees))
<1>1. PICK todo \in Seq(StepRow) : todo = AssignApprovers(SeedEmployees)
  BY SeedEmployeesFacts, AssignsMembers
<1>2. PICK S : S = {r \in StepRow : r.approver # None}
  OBVIOUS
<1>3. PICK n \in Nat : n = Len(todo) /\ DOMAIN todo = 1..n /\ \A i \in 1..n : todo[i] \in StepRow
  BY <1>1, SeqFacts
<1>4. ASSUME NEW i \in 1..n PROVE todo[i] \in S
  <2>1. todo[i] \in StepRow /\ "approver" \in DOMAIN todo[i]
    BY <1>3 DEF StepRow
  <2>2. todo[i].approver # Nobody
    BY <1>1, <1>3, <2>1 DEF Throws
  <2> QED BY <1>2, <2>1, <2>2, SeedConstants
<1>5. todo \in Seq(S)
  <2>1. todo = [i \in 1..n |-> todo[i]]
    BY <1>3
  <2> QED BY <1>4, <2>1
<1>6. \A r \in S : PlanRow(7, r)
  BY <1>2 DEF PlanRow
<1> QED BY <1>1, <1>5, <1>6 DEF PlanOK

\* The leave seeder's rows.
LEMMA LeavePlan ==
    PlanOK(8, LeaveRows)
<1>1. PICK n \in Nat : n = Len(Chained) /\ DOMAIN Chained = 1..n /\ \A i \in 1..n : Chained[i] \in AccountIds
  BY ChainedFacts
<1>2. PICK S : S = {LeaveRows[i] : i \in 1..n}
  OBVIOUS
<1>3. ASSUME NEW i \in 1..n
      PROVE  LeaveRows[i].emp = Chained[i] /\ LeaveRows[i].index = i - 1
  BY <1>1 DEF LeaveRows
<1>4. \A r \in S : PlanRow(8, r)
  BY <1>1, <1>2, <1>3 DEF PlanRow
<1>5. LeaveRows \in Seq(S)
  <2>1. LeaveRows = [i \in 1..n |-> LeaveRows[i]]
    BY <1>1 DEF LeaveRows
  <2>2. \A i \in 1..n : LeaveRows[i] \in S
    BY <1>2
  <2> QED BY <2>1, <2>2
<1> QED BY <1>4, <1>5 DEF PlanOK

\* The requests of an employee for corrections carry the approvers of the chain.
LEMMA CorrectionsOf ==
    ASSUME NEW e, NEW l1, NEW l2, NEW n \in Nat, NEW es, Len(es) = n
    PROVE  \E S : BuildCorrectionRows(e, l1, l2, es) \in Seq(S)
                  /\ \A r \in S : r.emp = e /\ r.l1 = l1 /\ r.l2 = l2
<1>1. PICK k \in Nat : k = (IF n < 3 THEN n ELSE 3) /\ k <= 3
  OBVIOUS
<1>2. PICK rows : rows = BuildCorrectionRows(e, l1, l2, es)
  OBVIOUS
<1>3. DOMAIN rows = 1..k /\ rows = [i \in 1..k |-> rows[i]]
  BY <1>1, <1>2 DEF BuildCorrectionRows
<1>4. ASSUME NEW i \in 1..k PROVE rows[i].emp = e /\ rows[i].l1 = l1 /\ rows[i].l2 = l2
  <2>1. i \in 1..(IF Len(es) < 3 THEN Len(es) ELSE 3)
    BY <1>1
  <2>2. i = 1 \/ i = 2 \/ i = 3
    BY <1>1
  <2>3. CASE i = 1
    BY <1>2, <2>1, <2>3 DEF BuildCorrectionRows
  <2>4. CASE i = 2
    BY <1>2, <2>1, <2>4 DEF BuildCorrectionRows
  <2>5. CASE i = 3
    BY <1>2, <2>1, <2>5 DEF BuildCorrectionRows
  <2> QED BY <2>2, <2>3, <2>4, <2>5
<1>5. PICK S : S = {rows[i] : i \in 1..k}
  OBVIOUS
<1>6. rows \in Seq(S)
  BY <1>3, <1>5
<1> QED BY <1>2, <1>4, <1>5, <1>6

\* The plan of the correction seeder names nobody as the approver of his own request.
LEMMA CorrectionPlan ==
    ASSUME ChainsOK
    PROVE  PlanOK(9, CorrectionRows)
<1>1. PICK n \in Nat : n = Len(Chained) /\ DOMAIN Chained = 1..n /\ \A i \in 1..n : Chained[i] \in AccountIds
  BY ChainedFacts
<1>2. PICK rows : rows = [i \in DOMAIN Chained |->
        BuildCorrectionRows(Chained[i], chains[<<Chained[i], 1>>], chains[<<Chained[i], 2>>],
            [m \in DOMAIN EntriesOf(Chained[i]) |->
                [date |-> EntriesOf(Chained[i])[m], in |-> 540, out |-> 1080]])]
  OBVIOUS
<1>3. ASSUME NEW i \in 1..n
      PROVE  \E S : rows[i] \in Seq(S) /\ \A r \in S : r.emp \notin {r.l1, r.l2}
  <2>0. PICK e \in AccountIds : e = Chained[i]
    BY <1>1
  <2>1. PICK l1, l2 : e = Chained[i] /\ l1 = chains[<<e, 1>>] /\ l2 = chains[<<e, 2>>]
    BY <2>0
  <2>2. <<e, 1>> \in ChainKeys /\ <<e, 2>> \in ChainKeys
    BY DEF ChainKeys
  <2>3. l1 # e /\ l2 # e
    BY <2>1, <2>2 DEF ChainsOK
  <2>4. PICK s : s = EntriesOf(e)
    OBVIOUS
  <2>5. PICK m \in Nat : DOMAIN s = 1..m
    <3>1. PICK k \in Nat : Range(WorkDates) \subseteq 1..k
      BY Bounded, SeedInputs
    <3>2. PICK D : D = {d \in Range(WorkDates) : entries[<<e, d>>].live > 0}
      OBVIOUS
    <3>3. D \in SUBSET (1..k)
      BY <3>1, <3>2
    <3>4. InOrder(D) \in Seq(D)
      BY <3>3, InOrderFacts
    <3> QED BY <2>4, <3>2, <3>4, SeqFacts DEF EntriesOf
  <2>6. PICK es : es = [j \in 1..m |-> [date |-> s[j], in |-> 540, out |-> 1080]]
    OBVIOUS
  <2>7. Len(es) = m
    BY <2>6
  <2>8. rows[i] = BuildCorrectionRows(e, l1, l2, es)
    BY <1>1, <1>2, <2>1, <2>4, <2>5, <2>6
  <2>9. PICK S : rows[i] \in Seq(S) /\ \A r \in S : r.emp = e /\ r.l1 = l1 /\ r.l2 = l2
    BY <2>7, <2>8, CorrectionsOf
  <2> QED BY <2>3, <2>9
<1>4. PICK f : f = [i \in 1..n |-> CHOOSE S : rows[i] \in Seq(S) /\ \A r \in S : r.emp \notin {r.l1, r.l2}]
  OBVIOUS
<1>5. \A i \in 1..n : rows[i] \in Seq(f[i]) /\ \A r \in f[i] : r.emp \notin {r.l1, r.l2}
  BY <1>3, <1>4
<1>6. PICK T : T = UNION {f[i] : i \in 1..n}
  OBVIOUS
<1>7. \A r \in T : PlanRow(9, r)
  BY <1>5, <1>6 DEF PlanRow
<1>8. PICK R : R = Seq(T)
  OBVIOUS
<1>9. ASSUME NEW i \in 1..n PROVE rows[i] \in R
  <2>1. PICK A : A = f[i]
    OBVIOUS
  <2>2. A \subseteq T
    BY <1>6, <2>1
  <2>3. rows[i] \in Seq(A)
    BY <1>5, <2>1
  <2>4. rows[i] \in Seq(T)
    BY <2>2, <2>3
  <2> QED BY <1>8, <2>4
<1>10. rows \in Seq(R)
  <2>1. rows = [i \in 1..n |-> rows[i]]
    BY <1>1, <1>2
  <2> QED BY <1>9, <2>1
<1>11. FlattenSeq(rows) \in Seq(T)
  BY <1>8, <1>10, FlattenMembers
<1>12. CorrectionRows = FlattenSeq(rows)
  BY <1>2 DEF CorrectionRows
<1> QED BY <1>7, <1>11, <1>12 DEF PlanOK

\* A seeder that starts plans from the tables as they are.
LEMMA PlanStarts ==
    ASSUME Tables, ChainsOK, NEW s \in 1..9,
           ~ (Seeders[s] = "chains" /\ Throws(RowsOf(Seeders[s])))
    PROVE  PlanOK(s, RowsOf(Seeders[s]))
<1>1. CASE s = 7
  <2>1. RowsOf(Seeders[s]) = AssignApprovers(SeedEmployees) /\ Seeders[s] = "chains"
    BY <1>1, SeederOrder DEF RowsOf
  <2> QED BY <1>1, <2>1, ChainPlan
<1>2. CASE s = 8
  <2>1. RowsOf(Seeders[s]) = LeaveRows
    BY <1>2, SeederOrder DEF RowsOf
  <2> QED BY <1>2, <2>1, LeavePlan
<1>3. CASE s = 9
  <2>1. RowsOf(Seeders[s]) = CorrectionRows
    BY <1>3, SeederOrder DEF RowsOf
  <2> QED BY <1>3, <2>1, CorrectionPlan
<1>4. CASE s \notin 7..9
  BY <1>4 DEF PlanOK
<1> QED BY <1>1, <1>2, <1>3, <1>4

\* What is left of a seeder's rows when one is done.
LEMMA RowDonePlan ==
    ASSUME TypeInv, PlanInv, NEW s, Seeding(s), RowDone
    PROVE  PlanInv'
<1>1. Between(run) /\ run.todo # <<>> /\ run.pc = "row"
  BY DEF Seeding, TypeInv, RunOK, Stopped
<1>2. run'.pc = "row" /\ run'.seeder = run.seeder /\ run'.todo = Tail(run.todo)
  BY <1>1, NextRow DEF RowDone
<1>3. PlanOK(run.seeder, Tail(run.todo))
  BY <1>1, PlanHead DEF PlanInv, Between
<1>4. PICK a, b : a = run.seeder /\ b = Tail(run.todo)
  OBVIOUS
<1>5. PlanOK(a, b)
  BY <1>3, <1>4
<1> QED BY <1>2, <1>4, <1>5 DEF PlanInv

\* A step of the seed program that is inside a row, or back at the first three seeders.
LEMMA EarlyPlan ==
    ASSUME run'.pc \notin {"row", "upload", "insert_leaves"} \/ (run'.pc = "row" /\ run'.seeder \in 1..3)
    PROVE  PlanInv'
BY DEF PlanInv, PlanOK

\* Every step of the seed keeps its plan.
LEMMA RunStepPlan ==
    ASSUME TypeInv, ChainsOK, PlanInv, RunStep
    PROVE  PlanInv'
<1>1. CASE NextSeeder
  <2>1. Between(run)
    BY <1>1 DEF NextSeeder, TypeInv, RunOK, Stopped
  <2>2. CASE run' = Stopped
    BY <2>2, EarlyPlan DEF Stopped
  <2>3. CASE run' # Stopped
    <3>1. PICK s : s = run.seeder + 1
      OBVIOUS
    <3>2. s \in 1..9 /\ s # 1
      BY <1>1, <2>1, <2>3, <3>1, SeederOrder DEF NextSeeder, Between
    <3>3. /\ run' = At(s, RowsOf(Seeders[s]))
          /\ ~ (Seeders[s] = "chains" /\ Throws(RowsOf(Seeders[s])))
      BY <1>1, <2>3, <3>1 DEF NextSeeder
    <3>4. PICK todo : todo = RowsOf(Seeders[s])
      OBVIOUS
    <3>5. run'.pc = "row" /\ run'.seeder = s /\ run'.todo = todo
      BY <2>1, <3>2, <3>3, <3>4, SeederStarts DEF TypeInv
    <3>6. PlanOK(s, todo)
      BY <3>2, <3>3, <3>4, PlanStarts DEF TypeInv
    <3> QED BY <3>5, <3>6 DEF PlanInv
  <2> QED BY <2>2, <2>3
<1>2. CASE RunStops
  BY <1>2, EarlyPlan DEF RunStops, Stopped
<1>3. CASE SeedPermission
  BY <1>3, RowDonePlan DEF SeedPermission
<1>4. CASE FindRole
  <2>1. run'.pc = "save_role"
    BY <1>4 DEF FindRole
  <2> QED BY <2>1, EarlyPlan
<1>5. CASE SaveRole
  <2>1. Inside(2) /\ run.pc = "save_role"
    BY <1>5 DEF SaveRole, TypeInv, RunOK, Stopped, Between
  <2>2. run' = [run.back EXCEPT !.todo = Tail(@)] \/ run' = Stopped
    BY <1>5 DEF SaveRole
  <2> QED BY <2>1, <2>2, BackSeen, EarlyPlan DEF Stopped
<1>6. CASE FindUser
  <2>1. Between(run) /\ run.seeder = 3 /\ run.todo # <<>> /\ run.pc = "row"
    BY <1>6, SeederOrder, SeedingRow DEF FindUser
  <2>2. CASE RowDone
    BY <1>6, <2>2, RowDonePlan DEF FindUser
  <2>3. CASE ~ RowDone
    <3>1. run'.pc \in {"insert_user", "find_default"}
      BY <1>6, <2>3 DEF FindUser, AfterFound, Defaults
    <3> QED BY <3>1, EarlyPlan
  <2> QED BY <2>2, <2>3
<1>7. CASE InsertUser
  <2>1. run' = Stopped \/ run'.pc = "find_default"
    BY <1>7 DEF InsertUser, Defaults
  <2> QED BY <2>1, EarlyPlan DEF Stopped
<1>8. CASE FindDefault \/ InsertDefault
  <2>0. run.pc \in {"find_default", "insert_default"}
    BY <1>8 DEF FindDefault, InsertDefault
  <2>1. CASE TypeDone
    <3>1. Inside(3)
      BY <2>0, Filling DEF TypeInv
    <3>2. CASE Len(run.types) = 1
      <4>1. run' = [run.back EXCEPT !.todo = Tail(@)]
        BY <2>1, <3>2 DEF TypeDone
      <4> QED BY <2>0, <3>1, <4>1, BackSeen, EarlyPlan
    <3>3. CASE Len(run.types) # 1
      <4>1. run' = [run EXCEPT !.pc = "find_default", !.types = Tail(@)]
        BY <2>1, <3>3 DEF TypeDone
      <4>2. run'.pc = "find_default"
        BY <2>0, <4>1, Filling DEF TypeInv
      <4> QED BY <4>2, EarlyPlan
    <3> QED BY <3>2, <3>3
  <2>2. CASE ~ TypeDone
    <3>1. run' = [run EXCEPT !.pc = "insert_default"]
      BY <1>8, <2>2 DEF FindDefault, InsertDefault
    <3>2. run'.pc = "insert_default"
      BY <2>0, <3>1, Filling DEF TypeInv
    <3> QED BY <3>2, EarlyPlan
  <2> QED BY <2>1, <2>2
<1>9. CASE SeedRow
  <2>1. PICK s : Seeding(s)
    BY <1>9 DEF SeedRow, SeedEntry, SeedSchedule, SeedPay, SeedChain
  <2> QED BY <1>9, <2>1, RowDonePlan DEF SeedRow
<1>10. CASE SeedCorrection
  BY <1>10, RowDonePlan DEF SeedCorrection
<1>11. CASE OpenEmployee
  <2>1. Between(run) /\ run.seeder = 8 /\ run.todo # <<>> /\ run.pc = "row"
    BY <1>11, SeederOrder, SeedingRow DEF OpenEmployee
  <2>2. CASE RowDone
    BY <1>11, <2>2, RowDonePlan DEF OpenEmployee
  <2>3. CASE ~ RowDone
    <3>1. run'.pc \in {"upload", "insert_leaves"} /\ run'.back = run
      BY <1>11, <2>3, OpensEmployee
    <3>2. PICK todo : todo = run.todo
      OBVIOUS
    <3>3. PlanOK(8, todo) /\ run'.back.todo = todo
      BY <2>1, <3>1, <3>2 DEF PlanInv
    <3> QED BY <3>1, <3>3 DEF PlanInv
  <2> QED BY <2>2, <2>3
<1>12. CASE UploadPlaceholder
  <2>1. PICK r : r = run
    OBVIOUS
  <2>2. run' = r
    BY <1>12, <2>1 DEF UploadPlaceholder
  <2> QED BY <2>1, <2>2 DEF PlanInv
<1>13. CASE Uploaded
  <2>1. DOMAIN run = {"pc", "missing", "file", "back"} /\ run.pc = "upload"
    BY <1>13, Opened DEF Uploaded, TypeInv
  <2>2. PICK b : b = run.back
    OBVIOUS
  <2>3. run'.back = b /\ run'.pc = "insert_leaves"
    BY <1>13, <2>1, <2>2 DEF Uploaded
  <2>4. PlanOK(8, b.todo)
    BY <2>1, <2>2 DEF PlanInv
  <2> QED BY <2>3, <2>4 DEF PlanInv
<1>14. CASE InsertLeave
  <2>1. DOMAIN run = {"pc", "missing", "file", "back"} /\ run.pc = "insert_leaves" /\ Inside(8)
    BY <1>14, Opened DEF InsertLeave, TypeInv
  <2>2. PICK b : b = run.back
    OBVIOUS
  <2>3. PlanOK(8, b.todo) /\ b.todo # <<>> /\ b.seeder = 8 /\ Between(b)
    BY <2>1, <2>2 DEF PlanInv, Inside
  <2>4. CASE run' = [run.back EXCEPT !.todo = Tail(@)]
    <3>1. run'.pc = "row" /\ run'.seeder = 8 /\ run'.todo = Tail(b.todo)
      BY <2>2, <2>3, <2>4, NextRow
    <3>2. PlanOK(8, Tail(b.todo))
      BY <2>3, PlanHead
    <3> QED BY <3>1, <3>2 DEF PlanInv
  <2>5. CASE \E n : run' = [run EXCEPT !.missing = @ \ {n}]
    <3>1. run'.back = b /\ run'.pc = "insert_leaves"
      BY <2>1, <2>2, <2>5
    <3> QED BY <2>3, <3>1 DEF PlanInv
  <2> QED BY <1>14, <2>4, <2>5 DEF InsertLeave
<1> QED BY <1>1, <1>2, <1>3, <1>4, <1>5, <1>6, <1>7, <1>8, <1>9, <1>10, <1>11, <1>12, <1>13, <1>14 DEF RunStep

\* Every step keeps the plan of the seed.
LEMMA PlanStep ==
    ASSUME TypeInv, ChainsOK, PlanInv, [Next]_vars
    PROVE  PlanInv'
<1>1. CASE StartRun
  <2>1. run' = At(1, RowsOf(Seeders[1]))
    BY <1>1 DEF StartRun
  <2>2. run'.pc = "row" /\ run'.seeder = 1
    BY <2>1, SeederStarts DEF TypeInv
  <2> QED BY <2>2, EarlyPlan
<1>2. CASE run' = run
  <2>1. PICK r : r = run
    OBVIOUS
  <2>2. run' = r
    BY <1>2, <2>1
  <2> QED BY <2>1, <2>2 DEF PlanInv
<1> QED BY <1>1, <1>2, RunStepPlan DEF Next, vars
-----------------------------------------------------------------------------
(***************************************************************************)
(* The rows of the later seeders: an insert follows its look-up in one     *)
(* step, so a key that stands, or a rate that was deleted, is not inserted *)
(* again, and HR only ends and deletes.                                    *)
(***************************************************************************)
Count == [live : Nat, gone : Nat]
RowsInv ==
    /\ entries \in [EntryKeys -> Count] /\ \A k \in EntryKeys : entries[k].live <= 1
    /\ schedules \in [ScheduleKeys -> Count] /\ \A k \in ScheduleKeys : schedules[k].live <= 1
    /\ pay \in [PayKeys -> Count] /\ \A k \in PayKeys : pay[k].live + pay[k].gone <= 1

\* One more row of a key that had none.
LEMMA OneMoreCount ==
    ASSUME NEW K, NEW table \in [K -> Count], NEW k
    PROVE  /\ OneMore(table, k) \in [K -> Count]
           /\ \A j \in K : j # k => OneMore(table, k)[j] = table[j]
           /\ k \in K => /\ OneMore(table, k)[k].live = table[k].live + 1
                         /\ OneMore(table, k)[k].gone = table[k].gone
<1>1. CASE k \in K
  <2>1. PICK r \in Count : r = table[k]
    BY <1>1
  <2>2. PICK n : n = [r EXCEPT !.live = @ + 1]
    OBVIOUS
  <2>3. n \in Count /\ n.live = r.live + 1 /\ n.gone = r.gone
    BY <2>2 DEF Count
  <2>4. OneMore(table, k) = [table EXCEPT ![k] = n]
    BY <1>1, <2>1, <2>2 DEF OneMore
  <2> QED BY <1>1, <2>1, <2>3, <2>4
<1>2. CASE k \notin K
  <2>1. OneMore(table, k) = table
    BY <1>2 DEF OneMore
  <2> QED BY <1>2, <2>1
<1> QED BY <1>1, <1>2

\* A row that HR deletes moves from the live ones to those gone.
LEMMA RetiredCount ==
    ASSUME NEW K, NEW table \in [K -> Count], NEW k \in K, table[k].live > 0
    PROVE  /\ Retired(table, k) \in [K -> Count]
           /\ \A j \in K : j # k => Retired(table, k)[j] = table[j]
           /\ Retired(table, k)[k].live = table[k].live - 1
           /\ Retired(table, k)[k].gone = table[k].gone + 1
<1>1. PICK r \in Count : r = table[k]
  OBVIOUS
<1>2. PICK n : n = [live |-> r.live - 1, gone |-> r.gone + 1]
  OBVIOUS
<1>3. n \in Count /\ n.live = r.live - 1 /\ n.gone = r.gone + 1
  BY <1>1, <1>2 DEF Count
<1>4. Retired(table, k) = [table EXCEPT ![k] = n]
  <2>1. PICK m : m = [table EXCEPT ![k].live = @ - 1, ![k].gone = @ + 1]
    OBVIOUS
  <2>2. m[k] = [r EXCEPT !.live = @ - 1, !.gone = @ + 1]
    BY <1>1, <2>1
  <2>3. m[k] = n
    BY <1>1, <1>2, <2>2 DEF Count
  <2>4. \A j \in K : j # k => m[j] = table[j]
    BY <2>1
  <2>5. m = [j \in K |-> m[j]]
    BY <2>1
  <2>6. m = [table EXCEPT ![k] = n]
    BY <2>3, <2>4, <2>5
  <2> QED BY <2>1, <2>6 DEF Retired
<1> QED BY <1>1, <1>3, <1>4

\* Which tables a step writes.
LEMMA SeedTableSteps ==
    ASSUME [Next]_vars
    PROVE  \/ UNCHANGED <<entries, schedules, pay, chains>>
           \/ HrEdits
           \/ (SeedEntry \/ SeedSchedule \/ SeedPay \/ SeedChain) /\ RunStep
<1>1. ASSUME ApiStep PROVE UNCHANGED <<entries, schedules, pay, chains>> \/ HrEdits
  BY <1>1 DEF ApiStep, RoleRequest, OtherRequest, seedTables
<1>2. ASSUME RunStep, ~ SeedRow PROVE UNCHANGED <<entries, schedules, pay, chains>>
  BY <1>2 DEF RunStep, NextSeeder, RunStops, SeedPermission, FindRole, SaveRole, FindUser, InsertUser, FindDefault,
              InsertDefault, OpenEmployee, UploadPlaceholder, Uploaded, InsertLeave, SeedCorrection, seedTables
<1>3. ASSUME SeedRow PROVE SeedEntry \/ SeedSchedule \/ SeedPay \/ SeedChain
  BY <1>3 DEF SeedRow
<1>4. ASSUME StartRun \/ UNCHANGED vars PROVE UNCHANGED <<entries, schedules, pay, chains>>
  BY <1>4 DEF StartRun, vars, seedTables
<1> QED BY <1>1, <1>2, <1>3, <1>4 DEF Next

\* Every step keeps the first row of a key unique.
LEMMA RowsStep ==
    ASSUME RowsInv, [Next]_vars
    PROVE  RowsInv'
<1>1. CASE UNCHANGED <<entries, schedules, pay, chains>>
  BY <1>1 DEF RowsInv
<1>2. CASE HrEdits
  <2>1. ASSUME NEW k \in EntryKeys, entries[k].live > 0, entries' = Retired(entries, k), UNCHANGED <<schedules, pay>>
        PROVE  RowsInv'
    <3>1. entries' \in [EntryKeys -> Count] /\ \A j \in EntryKeys : j # k => entries'[j] = entries[j]
      BY <2>1, RetiredCount DEF RowsInv
    <3>2. entries'[k].live = entries[k].live - 1 /\ entries[k].live \in Nat
      BY <2>1, RetiredCount DEF RowsInv, Count
    <3>3. \A j \in EntryKeys : entries'[j].live <= 1
      BY <3>1, <3>2 DEF RowsInv
    <3> QED BY <2>1, <3>1, <3>3 DEF RowsInv
  <2>2. ASSUME NEW k \in ScheduleKeys, schedules[k].live > 0, schedules' = Retired(schedules, k),
               UNCHANGED <<entries, pay>>
        PROVE  RowsInv'
    <3>1. schedules' \in [ScheduleKeys -> Count] /\ \A j \in ScheduleKeys : j # k => schedules'[j] = schedules[j]
      BY <2>2, RetiredCount DEF RowsInv
    <3>2. schedules'[k].live = schedules[k].live - 1 /\ schedules[k].live \in Nat
      BY <2>2, RetiredCount DEF RowsInv, Count
    <3>3. \A j \in ScheduleKeys : schedules'[j].live <= 1
      BY <3>1, <3>2 DEF RowsInv
    <3> QED BY <2>2, <3>1, <3>3 DEF RowsInv
  <2>3. ASSUME NEW k \in PayKeys, pay[k].live > 0, pay' = Retired(pay, k), UNCHANGED <<entries, schedules>>
        PROVE  RowsInv'
    <3>1. pay' \in [PayKeys -> Count] /\ \A j \in PayKeys : j # k => pay'[j] = pay[j]
      BY <2>3, RetiredCount DEF RowsInv
    <3>2. /\ pay'[k].live = pay[k].live - 1 /\ pay'[k].gone = pay[k].gone + 1
          /\ pay[k].live \in Nat /\ pay[k].gone \in Nat
      BY <2>3, RetiredCount DEF RowsInv, Count
    <3>3. \A j \in PayKeys : pay'[j].live + pay'[j].gone <= 1
      BY <3>1, <3>2 DEF RowsInv
    <3> QED BY <2>3, <3>1, <3>3 DEF RowsInv
  <2>4. CASE UNCHANGED <<entries, schedules, pay>>
    BY <2>4 DEF RowsInv
  <2> QED BY <1>2, <2>1, <2>2, <2>3, <2>4 DEF HrEdits
<1>3. CASE SeedEntry
  <2>1. CASE entries' = entries
    BY <1>3, <2>1 DEF SeedEntry, RowsInv
  <2>2. CASE entries' = OneMore(entries, Row) /\ ~ (entries[Row].live > 0)
    <3>1. PICK k : k = Row
      OBVIOUS
    <3>0. entries \in [EntryKeys -> Count] /\ entries' = OneMore(entries, k)
      BY <2>2, <3>1 DEF RowsInv
    <3>2. entries' \in [EntryKeys -> Count] /\ \A j \in EntryKeys : j # k => entries'[j] = entries[j]
      BY <3>0, OneMoreCount
    <3>3. k \in EntryKeys => entries'[k].live = entries[k].live + 1 /\ entries[k].live \in Nat
      BY <3>0, OneMoreCount DEF Count
    <3>4. \A j \in EntryKeys : entries'[j].live <= 1
      BY <2>2, <3>1, <3>2, <3>3 DEF RowsInv
    <3> QED BY <1>3, <3>2, <3>4 DEF SeedEntry, RowsInv
  <2> QED BY <1>3, <2>1, <2>2 DEF SeedEntry
<1>4. CASE SeedSchedule
  <2>1. CASE schedules' = schedules
    BY <1>4, <2>1 DEF SeedSchedule, RowsInv
  <2>2. CASE schedules' = OneMore(schedules, Row) /\ ~ (schedules[Row].live > 0)
    <3>1. PICK k : k = Row
      OBVIOUS
    <3>0. schedules \in [ScheduleKeys -> Count] /\ schedules' = OneMore(schedules, k)
      BY <2>2, <3>1 DEF RowsInv
    <3>2. schedules' \in [ScheduleKeys -> Count] /\ \A j \in ScheduleKeys : j # k => schedules'[j] = schedules[j]
      BY <3>0, OneMoreCount
    <3>3. k \in ScheduleKeys => schedules'[k].live = schedules[k].live + 1 /\ schedules[k].live \in Nat
      BY <3>0, OneMoreCount DEF Count
    <3>4. \A j \in ScheduleKeys : schedules'[j].live <= 1
      BY <2>2, <3>1, <3>2, <3>3 DEF RowsInv
    <3> QED BY <1>4, <3>2, <3>4 DEF SeedSchedule, RowsInv
  <2> QED BY <1>4, <2>1, <2>2 DEF SeedSchedule
<1>5. CASE SeedPay
  <2>1. CASE pay' = pay
    BY <1>5, <2>1 DEF SeedPay, RowsInv
  <2>2. CASE pay' = OneMore(pay, Row) /\ ~ PaySeeded(Row)
    <3>1. PICK k : k = Row
      OBVIOUS
    <3>2. pay' \in [PayKeys -> Count] /\ \A j \in PayKeys : j # k => pay'[j] = pay[j]
      BY <2>2, <3>1, OneMoreCount DEF RowsInv
    <3>3. k \in PayKeys => /\ pay'[k].live = pay[k].live + 1 /\ pay'[k].gone = pay[k].gone
                           /\ pay[k].live \in Nat /\ pay[k].gone \in Nat
      BY <2>2, <3>1, OneMoreCount DEF RowsInv, Count
    <3>4. ~ (pay[k].live + pay[k].gone > 0)
      BY <2>2, <3>1 DEF PaySeeded
    <3>5. \A j \in PayKeys : pay'[j].live + pay'[j].gone <= 1
      BY <3>2, <3>3, <3>4 DEF RowsInv
    <3> QED BY <1>5, <3>2, <3>5 DEF SeedPay, RowsInv
  <2> QED BY <1>5, <2>1, <2>2 DEF SeedPay
<1>6. CASE SeedChain
  BY <1>6 DEF SeedChain, RowsInv
<1> QED BY <1>1, <1>2, <1>3, <1>4, <1>5, <1>6, SeedTableSteps

\* A chain step names somebody else: pick leaves the employee out, and so does HR.
LEMMA ChainsStep ==
    ASSUME TypeInv, ChainsOK, PlanInv, [Next]_vars
    PROVE  ChainsOK'
<1>1. ASSUME NEW k \in ChainKeys, NEW a \in AccountIds \cup {None}, a # k[1], chains' = [chains EXCEPT ![k] = a]
      PROVE  ChainsOK'
  BY <1>1 DEF ChainsOK
<1>2. CASE chains' = chains
  BY <1>2 DEF ChainsOK
<1>3. CASE HrEdits
  BY <1>1, <1>2, <1>3 DEF HrEdits, LiveAccounts
<1>4. CASE SeedChain /\ chains' # chains
  <2>1. run.seeder = 7 /\ run.todo # <<>> /\ run.pc = "row"
    BY <1>4, SeederOrder, SeedingRow DEF SeedChain
  <2>2. PICK r : r = Row
    OBVIOUS
  <2>3. r \in StepRow /\ r.approver # None
    BY <2>1, <2>2, PlanHead DEF PlanInv, PlanRow, Row
  <2>4. chains' = [chains EXCEPT ![<<r.emp, r.step>>] = r.approver]
    BY <1>4, <2>2 DEF SeedChain
  <2>5. PICK k : k = <<r.emp, r.step>>
    OBVIOUS
  <2>6. k \in ChainKeys /\ k[1] = r.emp /\ r.approver \in AccountIds \cup {None} /\ r.approver # r.emp
    BY <2>3, <2>5 DEF StepRow, ChainKeys
  <2> QED BY <1>1, <2>4, <2>5, <2>6
<1> QED BY <1>2, <1>3, <1>4, SeedTableSteps DEF SeedEntry, SeedSchedule, SeedPay

\* The corrections seeded: one per employee and day, decided by somebody else.
CorrectionsInv ==
    /\ \E S : corrections \in Seq(S) /\ \A r \in S : r.emp \notin {r.l1, r.l2}
    /\ \A m, n \in DOMAIN corrections :
        corrections[m].emp = corrections[n].emp /\ corrections[m].date = corrections[n].date => m = n

\* Every step keeps corrections from naming their requester.
LEMMA CorrectionsStep ==
    ASSUME TypeInv, PlanInv, CorrectionsInv, [Next]_vars
    PROVE  CorrectionsInv'
<1>1. CASE corrections' = corrections
  BY <1>1 DEF CorrectionsInv
<1>2. CASE SeedCorrection /\ corrections' # corrections
  <2>1. run.seeder = 9 /\ run.todo # <<>> /\ run.pc = "row"
    BY <1>2, SeederOrder, SeedingRow DEF SeedCorrection
  <2>2. PICK r : r = Row
    OBVIOUS
  <2>3. r.emp \notin {r.l1, r.l2}
    BY <2>1, <2>2, PlanHead DEF PlanInv, PlanRow, Row
  <2>4. PICK S : corrections \in Seq(S) /\ \A q \in S : q.emp \notin {q.l1, q.l2}
    BY DEF CorrectionsInv
  <2>5. /\ corrections' = Append(corrections, r)
        /\ ~ \E n \in DOMAIN corrections : corrections[n].emp = r.emp /\ corrections[n].date = r.date
    BY <1>2, <2>2 DEF SeedCorrection
  <2>6. PICK T : T = S \cup {r}
    OBVIOUS
  <2>7. corrections' \in Seq(T) /\ \A q \in T : q.emp \notin {q.l1, q.l2}
    BY <2>3, <2>4, <2>5, <2>6, AppendFacts
  <2>8. ASSUME NEW m \in DOMAIN corrections', NEW n \in DOMAIN corrections',
               corrections'[m].emp = corrections'[n].emp, corrections'[m].date = corrections'[n].date
        PROVE  m = n
    <3>1. PICK c \in Seq(S), l \in Nat : c = corrections /\ l = Len(c)
      BY <2>4
    <3>2. PICK d : d = corrections'
      OBVIOUS
    <3>3. /\ DOMAIN d = 1..(l + 1) /\ DOMAIN c = 1..l /\ d[l + 1] = r /\ \A i \in DOMAIN c : d[i] = c[i]
      BY <2>5, <3>1, <3>2, AppendFacts
    <3>4. \A i \in 1..(l + 1) : i # l + 1 => i \in 1..l
      BY <3>1
    <3>5. CASE m = l + 1 \/ n = l + 1
      BY <2>5, <2>8, <3>1, <3>2, <3>3, <3>4, <3>5
    <3>6. CASE m # l + 1 /\ n # l + 1
      BY <2>8, <3>1, <3>2, <3>3, <3>4, <3>6 DEF CorrectionsInv
    <3> QED BY <3>5, <3>6
  <2> QED BY <2>7, <2>8 DEF CorrectionsInv
<1>3. ASSUME ~ SeedCorrection PROVE corrections' = corrections
  <2>1. ASSUME ApiStep PROVE corrections' = corrections
    BY <2>1 DEF ApiStep, RoleRequest, OtherRequest, HrEdits, seedTables
  <2>2. ASSUME RunStep PROVE corrections' = corrections
    BY <1>3, <2>2 DEF RunStep, NextSeeder, RunStops, SeedPermission, FindRole, SaveRole, FindUser, InsertUser, FindDefault,
              InsertDefault, OpenEmployee, UploadPlaceholder, Uploaded, InsertLeave, SeedRow, seedTables
  <2> QED BY <2>1, <2>2 DEF Next, StartRun, vars, seedTables
<1> QED BY <1>1, <1>2, <1>3

\* The seed's plans, the chains and the corrections keep the requester out.
OthersInv == TypeInv /\ ChainsOK /\ PlanInv /\ CorrectionsInv

\* In every reachable state plans, chains and corrections keep the requester out.
THEOREM OthersInvariant == Spec => []OthersInv
<1>1. Init => OthersInv
  <2> SUFFICES ASSUME Init PROVE OthersInv
    OBVIOUS
  <2>1. ChainsOK
    BY AccountRecords DEF Init, ChainsOK, ChainKeys
  <2>2. PlanInv
    BY DEF Init, PlanInv, Stopped
  <2>3. CorrectionsInv
    <3>1. corrections = <<>> /\ <<>> \in Seq({}) /\ DOMAIN <<>> = {}
      BY DEF Init
    <3> QED BY <3>1 DEF CorrectionsInv
  <2> QED BY <2>1, <2>2, <2>3, TypeInitial DEF OthersInv
<1>2. OthersInv /\ [Next]_vars => OthersInv'
  BY TypeStep, ChainsStep, PlanStep, CorrectionsStep DEF OthersInv
<1> QED BY <1>1, <1>2, PTL DEF Spec

\* Nobody approves their own requests, on the chain or on a seeded request.
THEOREM OthersApprove == Spec => []NobodyApprovesOwn
<1>1. OthersInv => NobodyApprovesOwn
  <2> SUFFICES ASSUME OthersInv PROVE NobodyApprovesOwn
    OBVIOUS
  <2>1. PICK S : corrections \in Seq(S) /\ \A q \in S : q.emp \notin {q.l1, q.l2}
    BY DEF OthersInv, CorrectionsInv
  <2>2. \A n \in DOMAIN corrections : corrections[n] \in S
    BY <2>1, SeqFacts
  <2> QED BY <2>1, <2>2 DEF OthersInv, ChainsOK, NobodyApprovesOwn
<1> QED BY <1>1, OthersInvariant, PTL
-----------------------------------------------------------------------------
(***************************************************************************)
(* The leave requests seeded.  A row is determined by its employee, place  *)
(* and status; the rows of one employee start on different days.           *)
(***************************************************************************)
Active == {"pending_l1", "pending_l2", "approved"}

\* Where the rows of a place lie, by their status.
Lies(r, place) ==
    \/ /\ r.status = "pending_l1" /\ r.type = FirstType(Attaches(place), place)
       /\ r.start = NthWeekday(place % 8) /\ r.end \in {NthWeekday(place % 8), NthWeekday((place % 8) + 1)}
    \/ /\ r.status = "pending_l2" /\ r.type = "vacation" /\ r.l2 # None
       /\ r.start = NthWeekday((place % 8) + 2) /\ r.end = r.start
    \/ /\ r.status = "approved" /\ r.type = IF Attaches(place) THEN "sick" ELSE "vacation"
       /\ r.start = NthWeekday((place % 8) + 4) /\ r.end = r.start
    \/ /\ r.status \in {"rejected", "cancelled"}
       /\ r.start = NthWeekday((place % 8) + 6) /\ r.end = r.start

\* Later working days are later days.
LEMMA WeekdaysGrow ==
    ASSUME NEW m \in Nat, NEW n \in Nat, m < n
    PROVE  NthWeekday(m) \in Nat /\ NthWeekday(n) \in Nat /\ NthWeekday(m) < NthWeekday(n)
<1>1. PICK a \in Nat, b \in Nat : a = m \div 5 /\ b = n \div 5
  OBVIOUS
<1>2. a <= b
  BY <1>1
<1> QED BY <1>1, <1>2 DEF NthWeekday

\* A half day without a schedule becomes a full one, nothing else changes.
LEMMA SlotKeeps ==
    ASSUME NEW r, DOMAIN r = {"emp", "type", "start", "end", "halves", "portion", "status", "l1", "l2", "decidedBy"},
           NEW scheduled
    PROVE  LET s == HalfDaySlot(r, scheduled) IN
           /\ s.emp = r.emp /\ s.type = r.type /\ s.start = r.start /\ s.end = r.end
           /\ s.status = r.status /\ s.l2 = r.l2
<1>1. CASE HalfDaySlot(r, scheduled) = r
  BY <1>1
<1>2. CASE HalfDaySlot(r, scheduled) # r
  <2>1. HalfDaySlot(r, scheduled) = [r EXCEPT !.portion = "full", !.halves = 2]
    BY <1>2 DEF HalfDaySlot
  <2> QED BY <2>1
<1> QED BY <1>1, <1>2

\* The rows of an employee.
LEMMA BuiltRows ==
    ASSUME NEW e, NEW l1, NEW l2, NEW place \in Nat
    PROVE  \E k \in {3, 4} : \E rows :
              /\ rows = BuildLeaveRows(e, l1, l2, Attaches(place), place)
              /\ rows = [n \in 1..k |-> rows[n]]
              /\ \A n \in 1..k :
                    /\ DOMAIN rows[n] = {"emp", "type", "start", "end", "halves", "portion", "status",
                                         "l1", "l2", "decidedBy"}
                    /\ rows[n].emp = e /\ rows[n].l2 = l2 /\ Lies(rows[n], place)
              /\ \A m, n \in 1..k : rows[m].start = rows[n].start => m = n
<1>1. PICK attach : attach = Attaches(place)
  OBVIOUS
<1> DEFINE base == place % 8
           slot == place % 5
           type == FirstType(attach, place)
           row(t, from, to, halves, portion, status) ==
            [emp |-> e, type |-> t, start |-> NthWeekday(from), end |-> NthWeekday(to),
             halves |-> halves, portion |-> portion, status |-> status, l1 |-> l1, l2 |-> l2,
             decidedBy |-> IF status \in {"approved", "rejected"} THEN Final(l1, l2) ELSE Nobody]
<1>2. PICK first : first = CASE slot = 0 /\ type \in HalfDayOk  -> row(type, base, base, 1, "first_half", "pending_l1")
                   [] slot = 1 /\ type \in MultiDayOk -> row(type, base, base + 1, 4, "full", "pending_l1")
                   [] OTHER                           -> row(type, base, base, 2, "full", "pending_l1")
  OBVIOUS
<1>3. PICK second : second = row("vacation", base + 2, base + 2, 2, "full", "pending_l2")
  OBVIOUS
<1>4. PICK approved : approved = row(IF attach THEN "sick" ELSE "vacation", base + 4, base + 4, 2, "full", "approved")
  OBVIOUS
<1>5. PICK past : past = CASE attach        -> row("bereavement", base + 6, base + 6, 2, "full", "rejected")
                   [] ~ attach /\ e % 2 = 0 -> row("emergency", base + 6, base + 6, 2, "full", "cancelled")
                   [] OTHER                 -> row("birthday", base + 6, base + 6, 2, "full", "rejected")
  OBVIOUS
<1>6. BuildLeaveRows(e, l1, l2, attach, place) =
        IF l2 = Nobody THEN <<first, approved, past>> ELSE <<first, second, approved, past>>
  BY <1>2, <1>3, <1>4, <1>5 DEF BuildLeaveRows
<1>7. PICK b \in Nat : b = base /\ b + 1 \in Nat /\ b + 2 \in Nat /\ b + 4 \in Nat /\ b + 6 \in Nat
  OBVIOUS
<1>8. PICK F : F = {"emp", "type", "start", "end", "halves", "portion", "status", "l1", "l2", "decidedBy"}
  OBVIOUS
<1>9. /\ DOMAIN first = F /\ first.emp = e /\ first.l2 = l2 /\ Lies(first, place)
      /\ first.start = NthWeekday(b)
  BY <1>1, <1>2, <1>7, <1>8 DEF Lies
<1>10. /\ l2 # None => DOMAIN second = F /\ second.emp = e /\ second.l2 = l2 /\ Lies(second, place)
       /\ second.start = NthWeekday(b + 2)
  BY <1>1, <1>3, <1>7, <1>8 DEF Lies
<1>11. /\ DOMAIN approved = F /\ approved.emp = e /\ approved.l2 = l2 /\ Lies(approved, place)
       /\ approved.start = NthWeekday(b + 4)
  BY <1>1, <1>4, <1>7, <1>8 DEF Lies
<1>12. /\ DOMAIN past = F /\ past.emp = e /\ past.l2 = l2 /\ Lies(past, place)
       /\ past.start = NthWeekday(b + 6)
  BY <1>1, <1>5, <1>7, <1>8 DEF Lies
<1>13. PICK w0, w2, w4, w6 :
          w0 = NthWeekday(b) /\ w2 = NthWeekday(b + 2) /\ w4 = NthWeekday(b + 4) /\ w6 = NthWeekday(b + 6)
  OBVIOUS
<1> HIDE DEF base, slot, type, row
<1>14. w0 \in Nat /\ w2 \in Nat /\ w4 \in Nat /\ w6 \in Nat /\ w0 < w2 /\ w2 < w4 /\ w4 < w6
  <2>1. b < b + 2 /\ b + 2 < b + 4 /\ b + 4 < b + 6
    BY <1>7
  <2>2. w0 \in Nat /\ w2 \in Nat /\ w0 < w2
    BY <1>7, <1>13, <2>1, WeekdaysGrow
  <2>3. w4 \in Nat /\ w2 < w4
    BY <1>7, <1>13, <2>1, WeekdaysGrow
  <2>4. w6 \in Nat /\ w4 < w6
    BY <1>7, <1>13, <2>1, WeekdaysGrow
  <2> QED BY <2>2, <2>3, <2>4
<1>15. CASE l2 = Nobody
  <2>1. PICK rows : rows = <<first, approved, past>>
    OBVIOUS
  <2>2. /\ rows = [n \in 1..3 |-> rows[n]] /\ rows[1] = first /\ rows[2] = approved /\ rows[3] = past
    BY <2>1
  <2>3. \A n \in 1..3 : n = 1 \/ n = 2 \/ n = 3
    OBVIOUS
  <2>4. \A n \in 1..3 : DOMAIN rows[n] = F /\ rows[n].emp = e /\ rows[n].l2 = l2 /\ Lies(rows[n], place)
    BY <1>9, <1>11, <1>12, <2>2, <2>3
  <2>5. rows[1].start = w0 /\ rows[2].start = w4 /\ rows[3].start = w6
    BY <1>9, <1>11, <1>12, <1>13, <2>2
  <2>6. \A m, n \in 1..3 : rows[m].start = rows[n].start => m = n
    BY <1>14, <2>3, <2>5
  <2>7. rows = BuildLeaveRows(e, l1, l2, Attaches(place), place)
    BY <1>1, <1>6, <1>15, <2>1
  <2> QED BY <1>8, <2>2, <2>4, <2>6, <2>7
<1>16. CASE l2 # Nobody
  <2>1. PICK rows : rows = <<first, second, approved, past>>
    OBVIOUS
  <2>2. /\ rows = [n \in 1..4 |-> rows[n]] /\ rows[1] = first /\ rows[2] = second /\ rows[3] = approved
        /\ rows[4] = past
    BY <2>1
  <2>3. \A n \in 1..4 : n = 1 \/ n = 2 \/ n = 3 \/ n = 4
    OBVIOUS
  <2>4. \A n \in 1..4 : DOMAIN rows[n] = F /\ rows[n].emp = e /\ rows[n].l2 = l2 /\ Lies(rows[n], place)
    BY <1>9, <1>10, <1>11, <1>12, <1>16, <2>2, <2>3, SeedConstants
  <2>5. rows[1].start = w0 /\ rows[2].start = w2 /\ rows[3].start = w4 /\ rows[4].start = w6
    BY <1>9, <1>10, <1>11, <1>12, <1>13, <2>2
  <2>6. \A m, n \in 1..4 : rows[m].start = rows[n].start => m = n
    BY <1>14, <2>3, <2>5
  <2>7. rows = BuildLeaveRows(e, l1, l2, Attaches(place), place)
    BY <1>1, <1>6, <1>16, <2>1
  <2> QED BY <1>8, <2>2, <2>4, <2>6, <2>7
<1> QED BY <1>15, <1>16

\* The rows wanted for an employee.
LEMMA WantedFacts ==
    ASSUME NEW e, e.index \in Nat
    PROVE  /\ \A n \in DOMAIN Wanted(e) : Wanted(e)[n].emp = e.emp /\ Lies(Wanted(e)[n], e.index)
           /\ \A m, n \in DOMAIN Wanted(e) : Wanted(e)[m].start = Wanted(e)[n].start => m = n
           /\ DOMAIN Wanted(e) \in SUBSET Nat
<1>1. PICK place \in Nat : place = e.index
  OBVIOUS
<1>2. PICK k \in {3, 4}, rows \in {BuildLeaveRows(e.emp, e.l1, e.l2, Attaches(place), place)} :
              /\ rows = [n \in 1..k |-> rows[n]]
              /\ \A n \in 1..k :
                    /\ DOMAIN rows[n] = {"emp", "type", "start", "end", "halves", "portion", "status",
                                         "l1", "l2", "decidedBy"}
                    /\ rows[n].emp = e.emp /\ rows[n].l2 = e.l2 /\ Lies(rows[n], place)
              /\ \A m, n \in 1..k : rows[m].start = rows[n].start => m = n
  BY BuiltRows
<1>3. Wanted(e) = [n \in 1..k |-> HalfDaySlot(rows[n], e.scheduled)]
  BY <1>1, <1>2 DEF Wanted
<1>4. PICK w : w = Wanted(e)
  OBVIOUS
<1>5. DOMAIN w = 1..k
  BY <1>3, <1>4
<1>6. ASSUME NEW n \in 1..k
      PROVE  w[n].emp = e.emp /\ Lies(w[n], place) /\ w[n].start = rows[n].start
  <2>1. w[n] = HalfDaySlot(rows[n], e.scheduled)
    BY <1>3, <1>4
  <2>0. DOMAIN rows[n] = {"emp", "type", "start", "end", "halves", "portion", "status", "l1", "l2", "decidedBy"}
    BY <1>2
  <2>2. /\ w[n].emp = rows[n].emp /\ w[n].type = rows[n].type /\ w[n].start = rows[n].start
        /\ w[n].end = rows[n].end /\ w[n].status = rows[n].status /\ w[n].l2 = rows[n].l2
    BY <2>0, <2>1, SlotKeeps
  <2>3. Lies(rows[n], place) /\ rows[n].emp = e.emp
    BY <1>2
  <2>4. Lies(w[n], place)
    BY <2>2, <2>3 DEF Lies
  <2> QED BY <2>2, <2>3, <2>4
<1>7. \A m, n \in 1..k : w[m].start = w[n].start => m = n
  BY <1>2, <1>6
<1>8. 1..k \in SUBSET Nat
  OBVIOUS
<1> QED BY <1>1, <1>4, <1>5, <1>6, <1>7, <1>8

HasRow(x) == x \in UploadIds /\ attachments[x] # NoFile
LeafOK(r) ==
    /\ r.place \in Nat /\ Lies(r, r.place)
    /\ NeedsFile(r.type) => HasRow(r.file) /\ r.file # 0
SameKey(a, b) == a.emp = b.emp /\ a.type = b.type /\ a.start = b.start
LeavesOK ==
    /\ \E S : leaves \in Seq(S) /\ \A r \in S : LeafOK(r)
    /\ \A m, n \in DOMAIN leaves : SameKey(leaves[m], leaves[n]) => m = n
\* What the seed program has found missing is missing until it inserts it.
MissingOK ==
    /\ run.pc = "upload" => run.file \in UploadIds
    /\ run.pc = "insert_leaves" => run.file = 0 \/ HasRow(run.file)
    /\ run.pc \in {"upload", "insert_leaves"} =>
         /\ run.missing \subseteq DOMAIN Wanted(Head(run.back.todo))
         /\ \A n \in run.missing : ~ LeaveSeeded(Wanted(Head(run.back.todo))[n])
LeavesInv == LeavesOK /\ MissingOK

\* An attachment's row stays.
LEMMA RowsStay ==
    ASSUME StorageInv, [Next]_vars, NEW x, HasRow(x)
    PROVE  HasRow(x)'
<1>1. ASSUME NEW u \in Uploaders, UploadStep(u) PROVE attachments'[x] # NoFile
  <2>1. CASE attachments' = attachments
    BY <2>1 DEF HasRow
  <2>2. CASE /\ upload[u].pc = "prepared"
             /\ attachments' = [attachments EXCEPT ![upload[u].prefix] = upload[u].kind]
    <3>1. InFlight(u)
      BY <2>2, InFlightPc
    <3>2. upload[u].kind \in Kinds \ {NoFile}
      BY <3>1, Flying
    <3>3. PICK k : k = upload[u].kind /\ k # NoFile
      BY <3>2
    <3> QED BY <2>2, <3>3 DEF HasRow, StorageInv, StorageTypeOK
  <2> QED BY <1>1, <2>1, <2>2 DEF UploadStep, PutObject, PutFails, CommitAttachment, TransactionFails, AnswerLost, Cleanup
<1>2. ASSUME attachments' = attachments PROVE attachments'[x] # NoFile
  BY <1>2 DEF HasRow
<1>3. ASSUME NEW u \in Uploaders, UploaderStops(u) PROVE attachments' = attachments
  BY <1>3 DEF UploaderStops
<1>4. ASSUME NEW u \in Uploaders, NEW f, StartUpload(u, f) PROVE attachments' = attachments
  BY <1>4 DEF StartUpload
<1>5. ASSUME PurgeLists \/ PurgeDeletes \/ UNCHANGED storageVars PROVE attachments' = attachments
  BY <1>5 DEF PurgeLists, PurgeDeletes, storageVars
<1> QED BY <1>1, <1>2, <1>3, <1>4, <1>5, StorageSteps DEF HasRow

\* The requests do not change.
LEMMA LeavesSame ==
    ASSUME StorageInv, [Next]_vars, LeavesOK, leaves' = leaves
    PROVE  LeavesOK'
<1>1. PICK S : leaves \in Seq(S) /\ \A r \in S : LeafOK(r)
  BY DEF LeavesOK
<1>2. ASSUME NEW r \in S PROVE LeafOK(r)'
  BY <1>1, RowsStay DEF LeafOK
<1> QED BY <1>1, <1>2 DEF LeavesOK

\* A step leaves the requests alone, and the seed program outside an employee's requests.
LEMMA NothingMissing ==
    ASSUME run'.pc \notin {"upload", "insert_leaves"}
    PROVE  MissingOK'
BY DEF MissingOK

\* What is missing stays so while the requests stay.
LEMMA MissingSame ==
    ASSUME StorageInv, [Next]_vars, MissingOK, leaves' = leaves, run' = run
    PROVE  MissingOK'
<1>1. PICK r : r = run
  OBVIOUS
<1>2. PICK w, f : w = Wanted(Head(r.back.todo)) /\ f = r.file
  OBVIOUS
<1>3. HasRow(f) => HasRow(f)'
  BY RowsStay
<1>4. r.pc = "insert_leaves" => f = 0 \/ HasRow(f)'
  BY <1>1, <1>2, <1>3 DEF MissingOK
<1>5. r.pc = "upload" => f \in UploadIds
  BY <1>1, <1>2 DEF MissingOK
<1>6. r.pc \in {"upload", "insert_leaves"} =>
        r.missing \subseteq DOMAIN w /\ \A n \in r.missing : ~ LeaveSeeded(w[n])
  BY <1>1, <1>2 DEF MissingOK
<1>7. \A n : LeaveSeeded(w[n])' => LeaveSeeded(w[n])
  BY DEF LeaveSeeded
<1>8. run' = r /\ Wanted(Head(run'.back.todo)) = w
  BY <1>1, <1>2
<1> QED BY <1>2, <1>4, <1>5, <1>6, <1>7, <1>8 DEF MissingOK

\* An employee's rows are looked up.
LEMMA OpenEmployeeLeaves ==
    ASSUME TypeInv, StorageInv, PlanInv, LeavesInv, OpenEmployee, [Next]_vars
    PROVE  LeavesInv'
<1>1. Between(run) /\ run.seeder = 8 /\ run.todo # <<>> /\ run.pc = "row"
  BY SeederOrder, SeedingRow DEF OpenEmployee
<1>2. LeavesOK' /\ leaves' = leaves
  BY LeavesSame DEF LeavesInv, OpenEmployee, seedTables
<1>3. CASE RowDone
  <2>1. run'.pc = "row"
    BY <1>3, RowDoneSeen DEF OpenEmployee
  <2> QED BY <1>2, <2>1, NothingMissing DEF LeavesInv
<1>4. CASE ~ RowDone
  <2>1. /\ run'.back = run /\ run'.pc \in {"upload", "insert_leaves"}
        /\ run'.missing = {n \in DOMAIN Wanted(Row) : ~ LeaveSeeded(Wanted(Row)[n])}
        /\ run'.pc = "insert_leaves" => run'.file = 0
    BY <1>4, OpensEmployee
  <2>2. PICK e, w : e = Row /\ w = Wanted(e)
    OBVIOUS
  <2>3. Wanted(Head(run'.back.todo)) = w
    BY <2>1, <2>2 DEF Row
  <2>4. run'.missing \subseteq DOMAIN w /\ \A n \in run'.missing : ~ LeaveSeeded(w[n])
    BY <2>1, <2>2
  <2>5. \A n : LeaveSeeded(w[n])' => LeaveSeeded(w[n])
    BY <1>2 DEF LeaveSeeded
  <2>6. run'.pc = "upload" => run'.file \in UploadIds
    <3>1. PICK file, missing, b : /\ file = uploads + 1 /\ b = run
                                  /\ missing = {n \in DOMAIN Wanted(Row) : ~ LeaveSeeded(Wanted(Row)[n])}
      OBVIOUS
    <3>2. CASE run' = [pc |-> "upload", missing |-> missing, file |-> file, back |-> b] /\ StartUpload(Runner, Placeholder)
      <4>1. uploads < MaxUploads /\ uploads \in 0..MaxUploads
        BY <3>2 DEF StartUpload, StorageInv, StorageTypeOK
      <4> QED BY <3>1, <3>2, <4>1, StorageConstants DEF UploadIds
    <3>3. CASE run' = [pc |-> "insert_leaves", missing |-> missing, file |-> 0, back |-> b]
      BY <3>3
    <3> QED BY <1>4, <3>1, <3>2, <3>3 DEF OpenEmployee
  <2>7. MissingOK'
    BY <2>1, <2>3, <2>4, <2>5, <2>6 DEF MissingOK
  <2> QED BY <1>2, <2>7 DEF LeavesInv
<1> QED BY <1>3, <1>4

\* The upload is over: the file is there, or there is none.
LEMMA UploadedLeaves ==
    ASSUME TypeInv, StorageInv, LeavesInv, Uploaded, [Next]_vars
    PROVE  LeavesInv'
<1>1. DOMAIN run = {"pc", "missing", "file", "back"} /\ run.pc = "upload"
  BY Opened DEF Uploaded, TypeInv
<1>2. LeavesOK' /\ leaves' = leaves
  BY LeavesSame DEF LeavesInv, Uploaded, seedTables
<1>3. PICK w, missing, b, f : /\ w = Wanted(Head(run.back.todo)) /\ missing = run.missing /\ b = run.back
                              /\ f = Attached(run.file)
  OBVIOUS
<1>4. run'.pc = "insert_leaves" /\ run'.back = b /\ run'.missing = missing /\ run'.file = f
  BY <1>1, <1>3 DEF Uploaded
<1>5. f = 0 \/ HasRow(f)
  BY <1>1, <1>3 DEF LeavesInv, MissingOK, Attached, HasRow
<1>6. f = 0 \/ HasRow(f)'
  BY <1>5, RowsStay
<1>7. missing \subseteq DOMAIN w /\ \A n \in missing : ~ LeaveSeeded(w[n])
  BY <1>1, <1>3 DEF LeavesInv, MissingOK
<1>8. \A n : LeaveSeeded(w[n])' => LeaveSeeded(w[n])
  BY <1>2 DEF LeaveSeeded
<1>9. Wanted(Head(run'.back.todo)) = w
  BY <1>3, <1>4
<1> QED BY <1>2, <1>4, <1>6, <1>7, <1>8, <1>9 DEF LeavesInv, MissingOK

\* A missing row is inserted, or left out without its file.
LEMMA InsertLeaveLeaves ==
    ASSUME TypeInv, StorageInv, PlanInv, LeavesInv, InsertLeave, [Next]_vars
    PROVE  LeavesInv'
<1>1. DOMAIN run = {"pc", "missing", "file", "back"} /\ run.pc = "insert_leaves" /\ Inside(8)
  BY Opened DEF InsertLeave, TypeInv
<1>2. CASE run.missing = {}
  <2>1. run' = [run.back EXCEPT !.todo = Tail(@)] /\ leaves' = leaves
    BY <1>2 DEF InsertLeave
  <2>2. run'.pc = "row"
    BY <1>1, <2>1, BackSeen
  <2> QED BY <2>1, <2>2, LeavesSame, NothingMissing DEF LeavesInv
<1>3. CASE run.missing # {}
  <2>1. PICK e : e = Head(run.back.todo)
    OBVIOUS
  <2>2. e.emp \in AccountIds /\ e.index \in Nat
    BY <1>1, <2>1, PlanHead DEF PlanInv, Inside, PlanRow
  <2>3. PICK w : w = Wanted(e)
    OBVIOUS
  <2>4. PICK missing, b, f : missing = run.missing /\ b = run.back /\ f = run.file
    OBVIOUS
  <2>5. missing \in SUBSET (DOMAIN w) /\ \A n \in missing : ~ LeaveSeeded(w[n])
    BY <1>1, <2>1, <2>3, <2>4 DEF LeavesInv, MissingOK
  <2>6. DOMAIN w \in SUBSET Nat
    BY <2>2, <2>3, WantedFacts
  <2>7. missing \in SUBSET Nat /\ missing # {}
    BY <1>3, <2>4, <2>5, <2>6
  <2>8. PICK n \in missing : n = Min(missing)
    BY <2>7, MinMember
  <2>9. PICK r : r = w[n]
    OBVIOUS
  <2>10. r.emp = e.emp /\ Lies(r, e.index) /\ \A m \in missing : w[m].start = r.start => m = n
    BY <2>2, <2>3, <2>5, <2>9, WantedFacts
  <2>11. PICK leaf : leaf = Leave(r, e.index, f)
    OBVIOUS
  <2>12. /\ run' = [run EXCEPT !.missing = @ \ {n}]
         /\ \/ leaves' = leaves
            \/ leaves' = Append(leaves, leaf) /\ ~ (NeedsFile(r.type) /\ f = 0)
    BY <1>3, <2>1, <2>3, <2>4, <2>8, <2>9, <2>11 DEF InsertLeave
  <2>13. run'.pc = "insert_leaves" /\ run'.back = b /\ run'.missing = missing \ {n} /\ run'.file = f
    BY <1>1, <2>4, <2>12
  <2>14. f = 0 \/ HasRow(f)
    BY <1>1, <2>4 DEF LeavesInv, MissingOK
  <2>15. f = 0 \/ HasRow(f)'
    BY <2>14, RowsStay
  <2>16. Wanted(Head(run'.back.todo)) = w
    BY <2>1, <2>3, <2>4, <2>13
  <2>17. CASE leaves' = leaves
    <3>1. \A m : LeaveSeeded(w[m])' => LeaveSeeded(w[m])
      BY <2>17 DEF LeaveSeeded
    <3>2. MissingOK'
      BY <2>5, <2>13, <2>15, <2>16, <3>1 DEF MissingOK
    <3> QED BY <2>17, <3>2, LeavesSame DEF LeavesInv
  <2>18. CASE leaves' = Append(leaves, leaf) /\ ~ (NeedsFile(r.type) /\ f = 0)
    <3>1. /\ leaf.emp = r.emp /\ leaf.type = r.type /\ leaf.start = r.start /\ leaf.end = r.end
          /\ leaf.status = r.status /\ leaf.l2 = r.l2 /\ leaf.place = e.index
          /\ leaf.file = IF NeedsFile(r.type) THEN f ELSE 0
      BY <2>11 DEF Leave
    <3>2. LeafOK(leaf)'
      <4>1. Lies(leaf, leaf.place)
        BY <2>10, <3>1 DEF Lies
      <4>2. ASSUME NeedsFile(leaf.type) PROVE HasRow(leaf.file)' /\ leaf.file # 0
        BY <2>15, <2>18, <3>1, <4>2
      <4> QED BY <2>2, <3>1, <4>1, <4>2 DEF LeafOK
    <3>3. PICK S : leaves \in Seq(S) /\ \A q \in S : LeafOK(q)
      BY DEF LeavesInv, LeavesOK
    <3>4. PICK T : T = S \cup {leaf}
      OBVIOUS
    <3>5. \A q \in S : LeafOK(q)'
      BY <3>3, RowsStay DEF LeafOK
    <3>6. leaves' \in Seq(T) /\ \A q \in T : LeafOK(q)'
      BY <2>18, <3>2, <3>3, <3>4, <3>5, AppendFacts
    <3>7. PICK c \in Seq(S), l \in Nat : c = leaves /\ l = Len(c)
      BY <3>3
    <3>8. PICK d : d = leaves'
      OBVIOUS
    <3>9. /\ DOMAIN d = 1..(l + 1) /\ DOMAIN c = 1..l /\ d[l + 1] = leaf /\ \A i \in DOMAIN c : d[i] = c[i]
      BY <2>18, <3>7, <3>8, AppendFacts
    <3>10. \A i \in 1..(l + 1) : i # l + 1 => i \in 1..l
      BY <3>7
    <3>11. ~ LeaveSeeded(r)
      BY <2>5, <2>9
    <3>12. \A i \in DOMAIN c : ~ SameKey(c[i], leaf)
      BY <3>1, <3>7, <3>11 DEF LeaveSeeded, SameKey
    <3>13. ASSUME NEW i \in DOMAIN d, NEW j \in DOMAIN d, SameKey(d[i], d[j]) PROVE i = j
      <4>1. CASE i = l + 1 \/ j = l + 1
        BY <3>9, <3>10, <3>12, <3>13, <4>1 DEF SameKey
      <4>2. CASE i # l + 1 /\ j # l + 1
        BY <3>7, <3>9, <3>10, <3>13, <4>2 DEF LeavesInv, LeavesOK
      <4> QED BY <4>1, <4>2
    <3>14. LeavesOK'
      BY <3>6, <3>8, <3>13 DEF LeavesOK
    <3>15. ASSUME NEW m \in missing \ {n} PROVE ~ LeaveSeeded(w[m])'
      <4>1. ~ LeaveSeeded(w[m])
        BY <2>5, <3>15
      <4>2. w[m].start # leaf.start
        BY <2>10, <3>1, <3>15
      <4> QED BY <3>7, <3>8, <3>9, <3>10, <4>1, <4>2 DEF LeaveSeeded
    <3>16. MissingOK'
      BY <2>5, <2>13, <2>15, <2>16, <3>15 DEF MissingOK
    <3> QED BY <3>14, <3>16 DEF LeavesInv
  <2> QED BY <2>12, <2>17, <2>18
<1> QED BY <1>2, <1>3

\* The other steps of the seed program are not at an employee's requests.
LEMMA RunStepLeaves ==
    ASSUME TypeInv, StorageInv, PlanInv, LeavesInv, RunStep, [Next]_vars
    PROVE  LeavesInv'
<1>1. CASE UploadPlaceholder
  <2>1. run' = run /\ leaves' = leaves
    BY <1>1 DEF UploadPlaceholder, seedTables
  <2> QED BY <2>1, LeavesSame, MissingSame DEF LeavesInv
<1>2. ASSUME ~ OpenEmployee, ~ UploadPlaceholder, ~ Uploaded, ~ InsertLeave PROVE LeavesInv'
  <2>1. leaves' = leaves
    BY <1>2 DEF RunStep, NextSeeder, RunStops, SeedPermission, FindRole, SaveRole, FindUser, InsertUser, FindDefault,
                InsertDefault, SeedRow, SeedCorrection, seedTables
  <2>2. run.pc \notin {"upload", "insert_leaves"} \/ RunStops
    BY <1>2 DEF RunStep, NextSeeder, SeedPermission, FindRole, SaveRole, FindUser, InsertUser, FindDefault, InsertDefault,
                SeedRow, SeedEntry, SeedSchedule, SeedPay, SeedChain, SeedCorrection, Seeding
  <2>3. run'.pc \notin {"upload", "insert_leaves"}
    <3>1. CASE RunStops
      BY <3>1 DEF RunStops, Stopped
    <3>2. CASE NextSeeder
      <4>1. run' = Stopped \/ run'.pc = "row"
        BY <3>2 DEF NextSeeder, At
      <4> QED BY <4>1 DEF Stopped
    <3>3. CASE SeedPermission \/ SeedRow \/ SeedCorrection
      <4>1. RowDone /\ \E s : Seeding(s)
        BY <3>3 DEF SeedPermission, SeedRow, SeedCorrection, SeedEntry, SeedSchedule, SeedPay, SeedChain
      <4>2. run'.pc = "row"
        BY <4>1, RowDoneSeen
      <4> QED BY <4>2
    <3>4. CASE FindRole \/ InsertUser
      <4>1. FindRole => run'.pc = "save_role"
        BY DEF FindRole
      <4>2. InsertUser => run' = Stopped \/ run'.pc = "find_default"
        BY DEF InsertUser, Defaults
      <4> QED BY <3>4, <4>1, <4>2 DEF Stopped
    <3>5. CASE SaveRole
      <4>1. Inside(2) /\ run.pc = "save_role"
        BY <3>5 DEF SaveRole, TypeInv, RunOK, Stopped, Between
      <4>2. run' = [run.back EXCEPT !.todo = Tail(@)] \/ run' = Stopped
        BY <3>5 DEF SaveRole
      <4>3. run' = Stopped \/ run'.pc = "row"
        BY <4>1, <4>2, BackSeen
      <4> QED BY <4>3 DEF Stopped
    <3>6. CASE FindUser
      <4>1. CASE RowDone
        <5>1. run'.pc = "row"
          BY <3>6, <4>1, RowDoneSeen DEF FindUser
        <5> QED BY <5>1
      <4>2. CASE ~ RowDone
        <5>1. run'.pc \in {"insert_user", "find_default"}
          BY <3>6, <4>2 DEF FindUser, AfterFound, Defaults
        <5> QED BY <5>1
      <4> QED BY <4>1, <4>2
    <3>7. CASE FindDefault \/ InsertDefault
      <4>1. run.pc \in {"find_default", "insert_default"}
        BY <3>7 DEF FindDefault, InsertDefault
      <4>2. CASE TypeDone
        <5>1. run'.pc = "row" \/ run'.pc = "find_default"
          BY <4>1, <4>2, TypeDoneFacts DEF TypeInv
        <5> QED BY <5>1
      <4>3. CASE ~ TypeDone
        <5>1. run' = [run EXCEPT !.pc = "insert_default"]
          BY <3>7, <4>3 DEF FindDefault, InsertDefault
        <5>2. run'.pc = "insert_default"
          BY <4>1, <5>1, Filling DEF TypeInv
        <5> QED BY <5>2
      <4> QED BY <4>2, <4>3
    <3> QED BY <1>2, <3>1, <3>2, <3>3, <3>4, <3>5, <3>6, <3>7 DEF RunStep
  <2> QED BY <2>1, <2>3, LeavesSame, NothingMissing DEF LeavesInv
<1> QED BY <1>1, <1>2, OpenEmployeeLeaves, UploadedLeaves, InsertLeaveLeaves

\* Every step keeps seeded leave as the plan wanted it.
LEMMA LeavesStep ==
    ASSUME TypeInv, StorageInv, PlanInv, LeavesInv, [Next]_vars
    PROVE  LeavesInv'
<1>1. CASE StartRun
  <2>1. run'.pc = "row" /\ leaves' = leaves
    BY <1>1 DEF StartRun, At, seedTables
  <2> QED BY <2>1, LeavesSame, NothingMissing DEF LeavesInv
<1>2. CASE ApiStep /\ run' = run
  <2>1. leaves' = leaves
    BY <1>2 DEF ApiStep, RoleRequest, OtherRequest, HrEdits, seedTables
  <2> QED BY <1>2, <2>1, LeavesSame, MissingSame DEF LeavesInv
<1>3. CASE UNCHANGED vars
  <2>1. leaves' = leaves /\ run' = run
    BY <1>3 DEF vars, seedTables
  <2> QED BY <2>1, LeavesSame, MissingSame DEF LeavesInv
<1> QED BY <1>1, <1>2, <1>3, RunStepLeaves DEF Next

\* Each key is seeded once beside its first row, the rows of an employee's leave requests are
\* as wanted, and what is missing when they are looked up is missing when it is inserted.
SeededInv == OthersInv /\ RowsInv /\ LeavesInv

\* In every reachable state the seeded rows are those of the plan, each of them once.
THEOREM SeededInvariant == Spec => []SeededInv
<1>1. Init => RowsInv /\ LeavesInv
  <2> SUFFICES ASSUME Init PROVE RowsInv /\ LeavesInv
    OBVIOUS
  <2>1. NoRows \in Count /\ NoRows.live = 0 /\ NoRows.gone = 0
    BY DEF NoRows, Count
  <2>2. RowsInv
    <3>1. PICK z \in Count : z = NoRows /\ z.live = 0 /\ z.gone = 0
      BY <2>1
    <3> QED BY <3>1 DEF Init, RowsInv
  <2>3. LeavesInv
    <3>1. leaves = <<>> /\ <<>> \in Seq({}) /\ DOMAIN <<>> = {} /\ run.pc = "idle"
      BY DEF Init, Stopped
    <3> QED BY <3>1 DEF LeavesInv, LeavesOK, MissingOK
  <2> QED BY <2>2, <2>3
<1>2. RowsInv /\ LeavesInv /\ OthersInv /\ StorageInv /\ [Next]_vars => (RowsInv /\ LeavesInv)'
  BY RowsStep, LeavesStep DEF OthersInv
<1> QED BY <1>1, <1>2, OthersInvariant, StorageInvariant, PTL DEF Spec, SeededInv

\* However often the seed is stopped and run again, no key is seeded a second time beside its
\* first row, and a deleted rate does not come back.
THEOREM SeededOnce == Spec => []NothingSeededTwice
<1>1. SeededInv => NothingSeededTwice
  BY DEF SeededInv, OthersInv, RowsInv, LeavesInv, LeavesOK, SameKey, CorrectionsInv, NothingSeededTwice
<1> QED BY <1>1, SeededInvariant, PTL

\* The active requests of one employee and place do not overlap.
LEMMA ActiveApart ==
    ASSUME NEW a, NEW b, NEW place \in Nat, Lies(a, place), Lies(b, place),
           a.status \in Active, b.status \in Active, a.emp = b.emp, ~ SameKey(a, b)
    PROVE  a.end < b.start \/ b.end < a.start
<1>1. PICK base \in Nat : base = place % 8
  OBVIOUS
<1>2. PICK w0, w1, w2, w4 : /\ w0 = NthWeekday(base) /\ w1 = NthWeekday(base + 1)
                            /\ w2 = NthWeekday(base + 2) /\ w4 = NthWeekday(base + 4)
  OBVIOUS
<1>3. w0 \in Nat /\ w1 \in Nat /\ w2 \in Nat /\ w4 \in Nat /\ w0 < w1 /\ w1 < w2 /\ w2 < w4
  <2>1. base + 1 \in Nat /\ base + 2 \in Nat /\ base + 4 \in Nat /\ base < base + 1 /\ base + 1 < base + 2 /\ base + 2 < base + 4
    BY <1>1
  <2>2. w0 \in Nat /\ w1 \in Nat /\ w0 < w1
    BY <1>1, <1>2, <2>1, WeekdaysGrow
  <2>3. w2 \in Nat /\ w1 < w2
    BY <1>1, <1>2, <2>1, WeekdaysGrow
  <2>4. w4 \in Nat /\ w2 < w4
    BY <1>1, <1>2, <2>1, WeekdaysGrow
  <2> QED BY <2>2, <2>3, <2>4
<1>4. ASSUME NEW r, Lies(r, place), r.status \in Active
      PROVE  \/ r.status = "pending_l1" /\ r.start = w0 /\ r.end \in {w0, w1}
             \/ r.status = "pending_l2" /\ r.start = w2 /\ r.end = w2
             \/ r.status = "approved" /\ r.start = w4 /\ r.end = w4
  BY <1>1, <1>2, <1>4 DEF Lies, Active
<1>5. a.status # b.status
  <2>1. ASSUME a.status = b.status PROVE a.type = b.type /\ a.start = b.start
    BY <2>1 DEF Lies, Active
  <2> QED BY <2>1 DEF SameKey
<1> QED BY <1>3, <1>4, <1>5

\* The leave requests seeded: the active ones of an employee and place do not overlap, one that
\* waits for a second step has an approver for it, one that needs a file has one stored.
THEOREM LeavesSound == Spec => []SeededLeavesSound
<1>1. SeededInv => SeededLeavesSound
  <2> SUFFICES ASSUME SeededInv PROVE SeededLeavesSound
    OBVIOUS
  <2>1. PICK S : leaves \in Seq(S) /\ \A r \in S : LeafOK(r)
    BY DEF SeededInv, LeavesInv, LeavesOK
  <2>2. \A n \in DOMAIN leaves : LeafOK(leaves[n])
    BY <2>1, SeqFacts
  <2>3. ASSUME NEW m \in DOMAIN leaves, NEW n \in DOMAIN leaves, leaves[m].emp = leaves[n].emp,
               leaves[m].place = leaves[n].place, m # n,
               {leaves[m].status, leaves[n].status} \subseteq {"pending_l1", "pending_l2", "approved"}
        PROVE  leaves[m].end < leaves[n].start \/ leaves[n].end < leaves[m].start
    <3>1. PICK a, b : a = leaves[m] /\ b = leaves[n]
      OBVIOUS
    <3>2. LeafOK(a) /\ LeafOK(b)
      BY <2>2, <3>1
    <3>3. ~ SameKey(a, b)
      BY <2>3, <3>1 DEF SeededInv, LeavesInv, LeavesOK
    <3>4. a.status \in Active /\ b.status \in Active
      BY <2>3, <3>1 DEF Active
    <3>5. a.place \in Nat /\ Lies(a, a.place) /\ Lies(b, a.place) /\ a.emp = b.emp
      BY <2>3, <3>1, <3>2 DEF LeafOK
    <3> QED BY <3>1, <3>3, <3>4, <3>5, ActiveApart
  <2>4. \A n \in DOMAIN leaves : leaves[n].status = "pending_l2" => leaves[n].l2 # None
    BY <2>2 DEF LeafOK, Lies
  <2>5. \A n \in DOMAIN leaves : NeedsFile(leaves[n].type) => leaves[n].file # 0 /\ attachments[leaves[n].file] # NoFile
    BY <2>2 DEF LeafOK, HasRow
  <2> QED BY <2>3, <2>4, <2>5 DEF SeededLeavesSound
<1> QED BY <1>1, SeededInvariant, PTL

\* The bounds on runs and calls hold.
Counters == runs \in 0..MaxRuns /\ calls \in 0..MaxCalls
\* Every step keeps the counters within their bounds.
LEMMA CountersStep ==
    ASSUME Counters, [Next]_vars
    PROVE  Counters'
<1>1. CASE StartRun
  BY <1>1, SeedConstants DEF StartRun, Counters
<1>2. CASE RunStep
  <2>1. runs' = runs /\ calls' = calls
    BY <1>2 DEF RunStep, NextSeeder, RunStops, SeedPermission, FindRole, SaveRole, FindUser, InsertUser, FindDefault,
              InsertDefault, OpenEmployee, UploadPlaceholder, Uploaded, InsertLeave, SeedCorrection, SeedRow
  <2> QED BY <2>1 DEF Counters
<1>3. CASE ApiStep /\ runs' = runs
  <2>1. calls' = calls \/ \E n \in {1, 2} : Counted(n)
    BY <1>3 DEF ApiStep
  <2> QED BY <1>3, <2>1, SeedConstants DEF Counters, Counted
<1> QED BY <1>1, <1>2, <1>3 DEF Next, Counters, vars

\* Every variable has its type, and no two roles share a name.
THEOREM SeedTypes == Spec => []TypeOK
<1>1. Init => Counters
  BY SeedConstants DEF Init, Counters
<1>2. Counters /\ [Next]_vars => Counters'
  BY CountersStep
<1>3. Counters /\ OthersInv /\ StorageInv => TypeOK
  <2> SUFFICES ASSUME Counters, OthersInv, StorageInv PROVE TypeOK
    OBVIOUS
  <2>1. \A r, q \in Present(roles, None) : r # q => roles[r].name # roles[q].name
    BY DEF OthersInv, TypeInv, Tables, RolesStorable
  <2>2. AccountsTypeOK
    BY <2>1 DEF OthersInv, TypeInv, Tables, AccountsTypeOK
  <2> QED BY <2>2 DEF Counters, OthersInv, StorageInv, TypeInv, ChainsOK, TypeOK
<1> QED BY <1>1, <1>2, <1>3, OthersInvariant, StorageInvariant, PTL DEF Spec
===============================================================================
