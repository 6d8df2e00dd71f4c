------------------------------ MODULE Metadata ------------------------------
(***************************************************************************)
(* The life of a metadata document: it is put together, published under    *)
(* its hash, and read by callers of StorageService.GetMetadataByCID        *)
(* (service/default/storage.go), which keeps what it has parsed in a cache *)
(* of the process.  Documents of other programs are published too, and a   *)
(* server may answer a download with the wrong bytes, which nothing        *)
(* compares with the hash.  One hash is followed at a time: editing what   *)
(* was read and publishing it again starts over with a new one.            *)
(***************************************************************************)
EXTENDS MetadataCodec, FiniteSets

CONSTANTS
  Tasks,                  \* goroutines that call GetMetadataByCID
  CIDTypeMetadataMedia, CIDTypeMetadataWebapp, CIDTypeDirectory,
  AskedTypes,             \* CID types the hash is asked for under
  DirectoryRefs,          \* references a program adds to a directory
  FileRefs,
  Cids,                   \* CIDs a program links from a web app
  Extensions,             \* extra metadata
  ErrorCodes,             \* codes with an error page
  Foreign,                \* documents of other programs
  WrongBytes,             \* what a server may send instead of the blob
  MaxParts                \* bound: parts a program puts into a document

ASSUME MetadataAssumption ==
  /\ {CIDTypeMetadataMedia, CIDTypeMetadataWebapp, CIDTypeDirectory} \subseteq OtherTypes
  /\ CIDTypeMetadataMedia \notin {CIDTypeMetadataWebapp, CIDTypeDirectory}
  /\ CIDTypeMetadataWebapp # CIDTypeDirectory
  /\ MaxParts \in Nat

\* The documents that a program works on.
Extra == UNION {[names -> {"text", "bytes", "cid"}] : names \in SUBSET Extensions}

Directory ==
  LET Right == {None} \cup BOOLEAN
  IN  [kind : {"directory"}, details : {None} \cup [read : Right, write : Right],
       directories : References(DirectoryReference), files : References(FileReference),
       extra : Extra]

WebApp ==
  [kind : {"webapp"}, errorPages : SUBSET ErrorCodes, paths : {None} \cup Seq(PathEntry),
   extra : Extra]

ASSUME DocumentAssumption ==
  /\ IsFiniteSet(Extensions) /\ IsFiniteSet(ErrorCodes)
  /\ DirectoryRefs \subseteq DirectoryReference
  /\ FileRefs \subseteq FileReference
  /\ Cids \subseteq CIDValues
  /\ None \notin Directory \cup WebApp \cup Seq(PathEntry)

\* The items a decoder is given for a version of a file, for a file, and for the
\* documents.
VersionItems(entries) ==
  \A e \in ToSet(entries) :
    /\ e.key = 8 => IsNumber(e.item)
    /\ e.key \in {1, 2} => IsBytes(e.item)
    /\ e.key = 10 =>
         \/ e.item = Nil
         \/ IsList(e.item) /\ \A t \in ToSet(Value(e.item)) : t.key = 3 => IsBytes(t.item)

FileItems(entries) ==
  \A e \in ToSet(entries) :
    /\ e.key \in {2, 5} => IsNumber(e.item)
    /\ e.key = 4 => e.item = Nil \/ (IsList(e.item) /\ VersionItems(Value(e.item)))

ExtraItems(item) == IsList(item) /\ \A e \in ToSet(Value(item)) : e.key[2] \in Extensions

DirectoryItems(items) ==
  /\ IsList(items[2]) /\ IsList(items[3]) /\ ExtraItems(items[4])
  /\ \A e \in ToSet(Value(items[2])) :
       e.key \in Names /\ IsList(e.item) /\ \A f \in ToSet(Value(e.item)) : Decoded(f.item)
  /\ \A e \in ToSet(Value(items[3])) :
       e.key \in Names /\ IsList(e.item) /\ FileItems(Value(e.item))

WebAppItems(items) ==
  /\ IsList(items[3]) /\ \A e \in ToSet(Value(items[3])) : e.key \in ErrorCodes
  /\ \/ items[4] = Nil
     \/ /\ IsList(items[4])
        /\ \A row \in ToSet(Value(items[4])) :
             IsList(row) /\ \A x \in ToSet(Value(row)) : Decoded(x)
  /\ ExtraItems(items[5])

\* A proof says how long its section is, and its signatures, like the formats of
\* a media document, come one after the other.
Readable(wire) ==
  /\ wire.kind = "directory" => (Len(wire.items) = 4 => DirectoryItems(wire.items))
  /\ wire.kind = "webapp"    => (Len(wire.items) = 5 => WebAppItems(wire.items))
  /\ wire.kind = "proof"     => /\ wire.section \in {"short", "empty", "full"}
                                /\ DOMAIN wire.proofs \subseteq Nat
  /\ wire.kind \in {"proof", "media"} => DOMAIN wire.body.formats \subseteq Nat

ASSUME MetadataInputs == \A wire \in Foreign \cup WrongBytes : Readable(wire)

VARIABLES
  doc,            \* the document the program works on, or None
  shared,         \* doc is the object the cache holds
  stored,         \* the bytes published under the hash, or None
  origin,         \* history: the document they are of; None if foreign
  cache,          \* metadataCache: the document cached for the hash, or None
  tasks,          \* the type a task is downloading for, or None
  answer,         \* history: the last result given to a caller
  harmed,         \* history: wrong bytes were parsed for the hash
  edited          \* history: a document was edited that the cache holds too

vars == <<doc, shared, stored, origin, cache, tasks, answer, harmed, edited>>

NoExtra == [x \in {} |-> "text"]

\* What a caller was told: by which operation, about a CID of the type that the
\* bytes are of or not, and whether it comes from parsing what was published.
Result(op, own, honest, out) == [op |-> op, own |-> own, honest |-> honest, out |-> out]

TypeOf(kind) ==
  CASE kind \in {"media", "proof"} -> CIDTypeMetadataMedia
    [] kind = "webapp"             -> CIDTypeMetadataWebapp
    [] OTHER                       -> CIDTypeDirectory

Told(type, honest, out) == Result("get", type = TypeOf(stored.kind), honest, out)

-----------------------------------------------------------------------------
ParseMetadata(wire, cidType) ==
  CASE cidType \in {CIDTypeMetadataMedia, Bridge} -> DecodeMedia(wire)
    [] cidType = CIDTypeMetadataWebapp -> {DecodeWebApp(wire)}
    [] cidType = CIDTypeDirectory      -> {DecodeDirectory(wire)}
    [] OTHER                           -> {Error}

Init ==
  /\ doc = None
  /\ shared = FALSE
  /\ stored = None
  /\ origin = None
  /\ cache = None
  /\ tasks = [t \in Tasks |-> None]
  /\ answer = None
  /\ harmed = FALSE
  /\ edited = FALSE

\* A panic ends the process; what is published stays.
Crash(told) ==
  /\ doc' = None
  /\ shared' = FALSE
  /\ cache' = None
  /\ tasks' = [t \in Tasks |-> None]
  /\ answer' = told
  /\ harmed' = FALSE
  /\ edited' = FALSE
  /\ UNCHANGED <<stored, origin>>

-----------------------------------------------------------------------------
(* Putting a document together. *)

Parts(d) ==
  CASE d.kind = "directory" ->
         Len(IF d.directories = None THEN <<>> ELSE d.directories)
           + Len(IF d.files = None THEN <<>> ELSE d.files)
           + Cardinality(DOMAIN d.extra) + (IF d.details = None THEN 0 ELSE 1)
    [] d.kind = "webapp" ->
         Len(IF d.paths = None THEN <<>> ELSE d.paths)
           + Cardinality(DOMAIN d.extra) + Cardinality(d.errorPages)
    [] d.kind = "media" -> MaxParts

Fresh == doc = None /\ stored = None /\ answer = None

Work(d) ==
  /\ doc' = d
  /\ UNCHANGED <<shared, stored, origin, cache, tasks, answer, harmed, edited>>

\* The maps of an empty document are zero values unless the caller makes them.
NewDirectory ==
  /\ Fresh
  /\ \E map \in {None, <<>>} :
       Work([kind |-> "directory", details |-> None, directories |-> map,
             files |-> map, extra |-> NoExtra])

NewWebApp ==
  /\ Fresh
  /\ \E paths \in {None, <<>>} :
       Work([kind |-> "webapp", errorPages |-> {}, paths |-> paths, extra |-> NoExtra])

\* A change of the document, which the cache sees if it holds the same object.
\* Bound: such a document is changed once, and not after the cache let go of it.
Change(d) ==
  /\ stored # None => shared /\ ~edited
  /\ doc' = d
  /\ cache' = IF shared THEN d ELSE cache
  /\ edited' = (edited \/ shared)
  /\ UNCHANGED <<shared, stored, origin, tasks, answer, harmed>>

Open(kind) == doc # None /\ doc.kind = kind /\ Parts(doc) < MaxParts

\* Put on the zero value of a linked map writes to a nil map.
AddDirectory ==
  /\ Open("directory")
  /\ IF doc.directories = None
     THEN Crash(Result("use", FALSE, FALSE, Panic))
     ELSE \E name \in Names, ref \in DirectoryRefs :
            Change([doc EXCEPT !.directories = PutReference(@, name, ref)])

AddFile ==
  /\ Open("directory")
  /\ IF doc.files = None
     THEN Crash(Result("use", FALSE, FALSE, Panic))
     ELSE \E name \in Names, ref \in FileRefs :
            Change([doc EXCEPT !.files = PutReference(@, name, ref)])

ShareDirectory ==
  /\ Open("directory")
  /\ \E value, write \in BOOLEAN :
       Change([doc EXCEPT !.details = SetShared(@, value, write)])

AddExtra ==
  /\ doc # None /\ doc.kind \in {"directory", "webapp"} /\ Parts(doc) < MaxParts
  /\ \E x \in Extensions :
       Change([doc EXCEPT !.extra = [y \in DOMAIN @ \cup {x} |->
                 IF y = x THEN IF x = "updateCID" THEN "cid" ELSE "text" ELSE @[y]]])

AddPath ==
  /\ Open("webapp")
  /\ IF doc.paths = None
     THEN Crash(Result("use", FALSE, FALSE, Panic))
     ELSE \E i \in DOMAIN PathOrder, cid \in Cids :
            Change([doc EXCEPT !.paths = PutPath(@, PathOrder[i], cid)])

DropPath ==
  /\ doc # None /\ doc.kind = "webapp" /\ doc.paths # None
  /\ \E i \in DOMAIN doc.paths :
       Change([doc EXCEPT !.paths = RemovePath(@, doc.paths[i].key)])

AddErrorPage ==
  /\ Open("webapp")
  /\ \E code \in ErrorCodes : Change([doc EXCEPT !.errorPages = @ \cup {code}])

\* MarshalJSON and UnmarshalJSON of a key: its base64 form is written in base64
\* again, and one of the two is read, without padding.  (A key that is not
\* refused comes back as its base64 form, which nothing sees, since the map that
\* was loaded cannot be written any more.)
LoadsKey(key) == LET letters == IF key = None THEN 0 ELSE (4 * Len(key) + 2) \div 3
                 IN  letters % 3 = 0

\* The program keeps a directory as JSON and loads it again.  Extra metadata is
\* written under names, an updateCID not at all, and read under numbers of a
\* type it then refuses.
LoadJSON ==
  /\ doc # None /\ doc.kind = "directory" /\ stored = None
  /\ None \notin {doc.directories, doc.files}
  /\ \A i \in DOMAIN doc.files : "unset" \notin {doc.files[i].ref.ext, doc.files[i].ref.history}
  /\ doc' = IF /\ DOMAIN doc.extra \subseteq {"updateCID"}
               /\ \A i \in DOMAIN doc.directories :
                    LET r == doc.directories[i].ref
                    IN  LoadsKey(r.publicKey) /\ LoadsKey(r.writeKey)
                        /\ (r.encryptionKey # None => LoadsKey(r.encryptionKey))
            THEN [doc EXCEPT !.directories = unmarshalMapJson(@),
                             !.files = unmarshalMapJson(@), !.extra = NoExtra]
            ELSE None
  /\ UNCHANGED <<shared, stored, origin, cache, tasks, answer, harmed, edited>>

\* A caller looks a directory up, or a file and its CID; only where that panics.
Lookup ==
  /\ doc # None /\ doc.kind = "directory" /\ None \notin {doc.directories, doc.files}
  /\ \/ \E i \in DOMAIN doc.directories : Get(doc.directories, i) = Panic
     \/ \E i \in DOMAIN doc.files :
          LET file == Get(doc.files, i)
          IN  IF file = Panic THEN TRUE
              ELSE IF file.val.file = None THEN TRUE
              ELSE FileVersionCID(file.val.file) = Panic
  /\ Crash(Result("use", FALSE, FALSE, Panic))

-----------------------------------------------------------------------------
(* Publishing and reading. *)

\* The hash is that of the new bytes, for which nothing is cached yet.
Upload(wire, d) ==
  /\ stored' = wire
  /\ origin' = d
  /\ doc' = None
  /\ shared' = FALSE
  /\ cache' = None
  /\ answer' = None
  /\ harmed' = FALSE
  /\ edited' = FALSE
  /\ UNCHANGED tasks

Publish ==
  /\ doc # None
  /\ tasks = [t \in Tasks |-> None]
  /\ \E out \in Marshal(doc) :
       \/ out.is = "ok" /\ Upload(out.val, doc)
       \/ /\ out.is = "error"
          /\ doc' = None
          /\ shared' = FALSE
          /\ answer' = Result("publish", FALSE, FALSE, Error)
          /\ UNCHANGED <<stored, origin, cache, tasks, harmed, edited>>
       \/ out.is = "panic" /\ Crash(Result("use", FALSE, FALSE, Panic))

PublishForeign ==
  /\ Fresh
  /\ \E wire \in Foreign : Upload(wire, None)

\* A cached document is the answer whatever type the CID has.
StartGet(t) ==
  /\ stored # None
  /\ tasks[t] = None
  /\ \E type \in AskedTypes :
       IF cache # None
       THEN /\ answer' = Told(type, FALSE, Ok(cache))
            /\ UNCHANGED tasks
       ELSE /\ tasks' = [tasks EXCEPT ![t] = type]
            /\ UNCHANGED answer
  /\ UNCHANGED <<doc, shared, stored, origin, cache, harmed, edited>>

\* mutant: the document is cached before the error is looked at
FinishGetCachesFirst(t) ==
  /\ tasks[t] # None
  /\ \E got \in {stored} \cup WrongBytes :
       \E out \in ParseMetadata(got, tasks[t]) :
         /\ out.is # "panic"
         /\ tasks' = [tasks EXCEPT ![t] = None]
         /\ answer' = Told(tasks[t], got = stored, out)
         /\ cache' = IF out.is = "ok" THEN out.val ELSE EmptyMedia
         /\ shared' = FALSE
         /\ harmed' = (harmed \/ got # stored)
         /\ UNCHANGED <<doc, stored, origin, edited>>

\* The download ends with bytes and they are parsed, or it fails.
FinishGet(t) ==
  /\ tasks[t] # None
  /\ \/ /\ tasks' = [tasks EXCEPT ![t] = None]
        /\ answer' = Told(tasks[t], FALSE, Error)
        /\ UNCHANGED <<doc, shared, stored, origin, cache, harmed, edited>>
     \/ \E got \in {stored} \cup WrongBytes :
          \E out \in ParseMetadata(got, tasks[t]) :
            \/ /\ out.is \in {"panic", "overrun"}
               /\ Crash(Told(tasks[t], got = stored, Panic))
            \/ /\ out.is \notin {"panic", "overrun"}
               /\ tasks' = [tasks EXCEPT ![t] = None]
               /\ answer' = Told(tasks[t], got = stored, out)
               /\ cache' = IF out.is = "ok" THEN out.val ELSE cache
               /\ shared' = (shared /\ out.is # "ok")
               /\ harmed' = (harmed \/ got # stored)
               /\ edited' = (edited /\ out.is # "ok")
               /\ UNCHANGED <<doc, stored, origin>>

\* The caller goes on to work on the document it was given: the cached one.
TakeAnswer ==
  /\ doc = None
  /\ answer # None /\ answer.op = "get" /\ answer.out.is = "ok"
  /\ cache # None /\ cache = answer.out.val
  /\ doc' = cache
  /\ shared' = TRUE
  /\ answer' = None
  /\ UNCHANGED <<stored, origin, cache, tasks, harmed, edited>>

\* The program forgets the outcome of its last call, or the document.
Forget ==
  /\ answer # None \/ doc # None
  /\ answer' = None
  /\ doc' = None
  /\ shared' = FALSE
  /\ UNCHANGED <<stored, origin, cache, tasks, harmed, edited>>

Next ==
  \/ NewDirectory \/ NewWebApp
  \/ AddDirectory \/ AddFile \/ ShareDirectory \/ AddExtra
  \/ AddPath \/ DropPath \/ AddErrorPage \/ LoadJSON \/ Lookup
  \/ Publish \/ PublishForeign \/ TakeAnswer \/ Forget
  \/ \E t \in Tasks : StartGet(t) \/ FinishGet(t)

Spec == Init /\ [][Next]_vars

-----------------------------------------------------------------------------
(* Properties. *)

NoKeyTwice(entries) ==
  entries # None =>
    \A i, j \in DOMAIN entries : entries[i].key = entries[j].key => i = j

WellTyped(d) ==
  CASE d.kind = "directory" ->
         d \in Directory /\ NoKeyTwice(d.directories) /\ NoKeyTwice(d.files)
    [] d.kind = "webapp"    -> d \in WebApp /\ NoKeyTwice(d.paths)
    [] d.kind = "media"     -> d.parents = <<>>

\* The type invariant: documents have their kind's fields and their linked maps
\* no key twice, and a document the cache holds too is the cached one.
TypeOK ==
  /\ doc # None => WellTyped(doc)
  /\ cache # None => WellTyped(cache)
  /\ shared => doc = cache /\ doc # None
  /\ tasks \in [Tasks -> AskedTypes \cup {None}]
  /\ cache # None \/ tasks # [t \in Tasks |-> None] => stored # None
  /\ {harmed, edited} \subseteq BOOLEAN

\* Reference: a document as it is once written and read, and which documents
\* can be.  Fields without a place in the msgpack form are gone.
CanonicalVersion(v) ==
  [v EXCEPT !.local = FALSE, !.plaintext = IF @ = None THEN None ELSE Canonical(@)]

CanonicalReference(r) == [r EXCEPT !.local = FALSE]

CanonicalFile(f) ==
  [f EXCEPT !.local = FALSE, !.file = IF @ = None THEN None ELSE CanonicalVersion(@)]

CanonicalDoc(d) ==
  CASE d.kind = "directory" ->
         LET Each(refs, Ref(_)) == [i \in DOMAIN refs |-> [refs[i] EXCEPT !.ref = Ref(@)]]
         IN  [kind |-> "directory", details |-> d.details,
              directories |-> Each(d.directories, CanonicalReference),
              files |-> Each(d.files, CanonicalFile),
              extra |-> d.extra]
    [] d.kind = "webapp" ->
         [d EXCEPT !.paths = IF @ = None THEN None
             ELSE LET sorted == Sort(@)
                  IN  [i \in DOMAIN sorted |-> [sorted[i] EXCEPT !.cid = Canonical(@)]]]

Keeps(d) ==
  CASE d.kind = "directory" ->
         /\ d.details = None
         /\ \A x \in DOMAIN d.extra : d.extra[x] # "cid"
         /\ \A i \in DOMAIN d.directories :
              LET r == d.directories[i].ref
              IN  r.created = "uint64" /\ r.publicKey # None /\ r.writeKey # None
         /\ \A i \in DOMAIN d.files :
              LET f == d.files[i].ref.file
              IN  f # None => (f.plaintext # None => WellFormed(f.plaintext))
    [] d.kind = "webapp" ->
         /\ d.extra = NoExtra
         /\ d.paths # None => \A i \in DOMAIN d.paths : WellFormed(d.paths[i].cid)

\* A document that this program could publish is read back as it was, from the
\* bytes published and under its type, exactly if it is a directory without
\* share details or updateCID (which comes back as bytes) whose subdirectories have
\* a time of eight bytes and both keys, or a web app without extra metadata, and
\* its CIDs are well formed (metadata/directory_reference.go, directory_details.go,
\* directory.go, extra.go, web_app.go).
ReadBack ==
  (answer # None /\ origin # None) =>
    ((answer.honest /\ answer.own) =>
      (answer.out = Ok(CanonicalDoc(origin)) <=> Keeps(origin)))

\* A media document with proven keys comes, cached or not, from bytes in which
\* each of these keys signed the very body the formats were read from; and the
\* numbers of the formats are those of that body, but for 128..255 and what
\* needs eight bytes, which are read as zero like what is no number (metadata/
\* media_metadata.go decodeProof, media_format.go intParse).
SignedBodyRead ==
  (answer # None /\ answer.out.is = "ok") =>
    LET d == answer.out.val
    IN  (d.kind = "media" /\ d.proven # {}) =>
          \E wire \in {w \in {stored} \cup WrongBytes : w.kind = "proof"} :
            /\ \A key \in d.proven :
                 \E p \in ToSet(wire.proofs) : p.key = key /\ Verify(key, wire.body, p.signature)
            /\ DOMAIN d.formats = DOMAIN wire.body.formats
            /\ \A i \in DOMAIN d.formats : \A k \in DOMAIN d.formats[i] \cap FormatNumbers :
                 LET item == decodeIntMap(wire.body.formats[i]).val[k]
                 IN  d.formats[i][k] =
                       IF TypeIn(item) \in Num \ {"uint8", "uint64"} THEN Value(item) ELSE "zero"

\* As long as servers send what was published and nobody edits a document that
\* the cache holds, every document any caller gets for the hash, under whatever
\* type, is what the bytes say under the type they are of; without that the
\* cache keys by hash alone and hands out its own object (storage.go
\* GetMetadataByCID, serialize/seralizer.go InitUnmarshaller).
HonestAnswers ==
  (answer # None /\ answer.op = "get" /\ ~harmed /\ ~edited) =>
    (answer.out.is = "ok" =>
       answer.out \in ParseMetadata(stored, TypeOf(stored.kind)))

\* A web app has the same bytes, hence the same hash, in whatever order its
\* paths were put, removed and put again; its bytes are unique exactly if it has
\* at most one error page and one named piece of extra metadata, as those are
\* written in the order of a Go map (metadata/web_app.go Sort, EncodeMsgpack).
OneHash ==
  (doc # None /\ doc.kind = "webapp") =>
    /\ doc.paths # None =>
         \A paths \in SetToSeqs(ToSet(doc.paths)) :
           Marshal([doc EXCEPT !.paths = paths]) = Marshal(doc)
    /\ Cardinality(Marshal(doc)) = 1 <=>
         Cardinality(doc.errorPages) < 2 /\ Cardinality(DOMAIN doc.extra \ {"updateCID"}) < 2
=============================================================================
