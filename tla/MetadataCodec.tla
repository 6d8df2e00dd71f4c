--------------------------- MODULE MetadataCodec ----------------------------
(***************************************************************************)
(* Directory, web app and media documents and their msgpack form           *)
(* (metadata/, serialize/seralizer.go).                                    *)
(*                                                                         *)
(* A msgpack item is a pair of the Go type that Decoder.DecodeInterface    *)
(* gives it and of its value.  A number is represented by that type alone: *)
(* the library writes an integer as small as it fits, so "int8" stands for *)
(* 0..127, "uint8" for 128..255 and so on up to "uint64" for 2^32 and      *)
(* more.  Content types and other text are "text".  Identifiers are        *)
(* the byte strings of CidCodec.  The keys of a map are numbers, or for    *)
(* extra metadata a pair of how the extension is written and which it is.  *)
(*                                                                         *)
(* Encoders yield Ok(item) or Error; decoders Ok(document), Error, Panic   *)
(* (a type assertion on a value of another type, a write to a nil map, an  *)
(* index out of range) or Overrun, as in CidCodec.                         *)
(***************************************************************************)
EXTENDS CidCodec, SequencesExt

CONSTANT None

Num == {"int8", "uint8", "uint16", "uint32", "uint64"}

\* An item is a pair of its Go type and its value.
Item(type, value) == <<type, value>>
TypeIn(item)      == item[1]
Value(item)       == item[2]

Nil            == Item("nil", None)
Str(s)         == Item("string", s)
Bin(b)         == Item("bytes", b)
Number(n)      == Item(n, n)
Arr(items)     == Item("array", items)
MapOf(entries) == Item("map", entries)

Entry(key, item) == [key |-> key, item |-> item]

\* What the library makes of bytes has the type it says.
Decoded(item) ==
  /\ TypeIn(item) = "bytes" => Value(item) \in Seq(Byte)
  /\ TypeIn(item) \in Num   => Value(item) = TypeIn(item)

IsBytes(item)  == item = Nil \/ (TypeIn(item) = "bytes" /\ Decoded(item))
IsNumber(item) == TypeIn(item) \in Num /\ Decoded(item)
IsList(item)   == Value(item) \in Seq(ToSet(Value(item)))

\* The item under a key of a decoded map, and its value; the last one wins.
ItemAt(entries, key) ==
  LET hits == {i \in DOMAIN entries : entries[i].key = key}
  IN  IF hits = {} THEN Nil ELSE entries[Max(hits)].item

At(entries, key, default) ==
  IF \E e \in ToSet(entries) : e.key = key THEN Value(ItemAt(entries, key)) ELSE default

\* mutant: a key put again is entered a second time
PutAppends(entries, e) == Append(entries, e)

\* A linked map is the sequence of its entries; a key put again keeps its place.
Put(entries, e) ==
  IF \E i \in DOMAIN entries : entries[i].key = e.key
  THEN [i \in DOMAIN entries |-> IF entries[i].key = e.key THEN e ELSE entries[i]]
  ELSE Append(entries, e)

\* The map that putting one entry after the other makes.
PutAll(entries) ==
  LET put[i \in 0 .. Len(entries)] == IF i = 0 THEN <<>> ELSE Put(put[i - 1], entries[i])
  IN  put[Len(entries)]

\* The members of a sequence that are also in the set, in their order.
Kept(s, keep) ==
  LET kept[i \in 0 .. Len(s)] ==
        IF i = 0 THEN <<>>
        ELSE IF s[i] \in keep THEN Append(kept[i - 1], s[i]) ELSE kept[i - 1]
  IN  kept[Len(s)]

\* v if everything went well, else what went wrong first.
Unless(outcomes, v) ==
  LET bad == {i \in DOMAIN outcomes : outcomes[i].is # "ok"}
  IN  IF bad = {} THEN Ok(v) ELSE outcomes[Min(bad)]

-----------------------------------------------------------------------------
(* The maps of directory documents. *)

\* A value about to be encoded: its key, its Go type and its encoding.
Field(key, type, out) == [key |-> key, type |-> type, out |-> out]

marshallMapMsgpack(fields) ==
  Unless([i \in DOMAIN fields |->
            IF fields[i].type \in {"*FileReference", "*DirectoryReference", "string",
                                   "uint64", "Base64UrlBinary", "*FileVersion", "*CID"}
            THEN fields[i].out ELSE Error],
         MapOf([i \in DOMAIN fields |-> Entry(fields[i].key, fields[i].out.val)]))

\* What JSON puts into a map are values where everything else expects pointers.
unmarshalMapJson(refs) == [i \in DOMAIN refs |-> [refs[i] EXCEPT !.pointer = FALSE]]

PutReference(refs, name, ref) == Put(refs, [key |-> name, ref |-> ref, pointer |-> TRUE])

\* Get and Items assert a pointer.
Get(refs, i) == IF refs[i].pointer THEN Ok(refs[i].ref) ELSE Panic

KeyItem(key) == IF key = None THEN Nil ELSE Bin(key)

\* A reference to a directory.  local stands for URI, Key and Size, which the
\* msgpack form does not have.
DirectoryReference ==
  LET Key == {None} \cup Seq(Byte)
  IN  [created : Num, publicKey : Key, writeKey : Key, encryptionKey : Key,
       ext : BOOLEAN, local : BOOLEAN]

EncodeDirectoryReference(dr) ==
  marshallMapMsgpack(
    << Field(1, "string", Ok(Str("text"))),
       Field(2, "uint64", Ok(Number(dr.created))),
       Field(3, "Base64UrlBinary", Ok(KeyItem(dr.publicKey))),
       Field(4, "Base64UrlBinary", Ok(KeyItem(dr.writeKey))) >>
      \o (IF dr.encryptionKey = None THEN <<>>
          ELSE << Field(5, "*Base64UrlBinary", Ok(KeyItem(dr.encryptionKey))) >>)
      \o (IF dr.ext THEN << Field(6, "map[string]interface{}", Ok(MapOf(<<>>))) >> ELSE <<>>))

\* mutant: the two keys are mixed up
DecodeDirectoryReferenceSwapped(item) ==
  LET want == <<"string", "uint64", "bytes", "bytes", "*Base64UrlBinary", "map">>
  IN  IF \E e \in ToSet(Value(item)) : e.key \in DOMAIN want /\ TypeIn(e.item) # want[e.key]
      THEN Panic
      ELSE Ok([created |-> At(Value(item), 2, "int8"), publicKey |-> At(Value(item), 4, None),
               writeKey |-> At(Value(item), 3, None), encryptionKey |-> None,
               ext |-> \E e \in ToSet(Value(item)) : e.key = 6, local |-> FALSE])

\* Every value is asserted to have one Go type; no item has that of key 5, and
\* a number that of key 2 only if it needs eight bytes.
DecodeDirectoryReference(item) ==
  LET want == <<"string", "uint64", "bytes", "bytes", "*Base64UrlBinary", "map">>
  IN  IF \E e \in ToSet(Value(item)) : e.key \in DOMAIN want /\ TypeIn(e.item) # want[e.key]
      THEN Panic
      ELSE Ok([created |-> At(Value(item), 2, "int8"), publicKey |-> At(Value(item), 3, None),
               writeKey |-> At(Value(item), 4, None), encryptionKey |-> None,
               ext |-> \E e \in ToSet(Value(item)) : e.key = 6, local |-> FALSE])

\* A thumbnail has a ratio, a float64, that the map refuses.
EncodeFileVersionThumbnail(t) ==
  marshallMapMsgpack(<< Field(2, "float64", Ok(Number("float64"))),
                        Field(3, "[]byte", Ok(Bin(EncryptedToBytes(t.cid)))) >>)

\* A version of a file: its time, its CIDs, and flags for the rest.  local stands
\* for Ext, which the msgpack form does not have.
FileVersion ==
  LET Encrypted == {None} \cup EncryptedValues
  IN  [ts : Num, plaintext : {None} \cup CIDValues, encrypted : Encrypted, hashes : BOOLEAN,
       thumbnail : {None} \cup [cid : Encrypted], local : BOOLEAN]

EncodeFileVersion(fv) ==
  marshallMapMsgpack(
    << Field(8, "uint64", Ok(Number(fv.ts))) >>
      \o (IF fv.encrypted = None THEN <<>>
          ELSE << Field(1, "*EncryptedCID", Ok(Bin(EncryptedToBytes(fv.encrypted)))) >>)
      \o (IF fv.plaintext = None THEN <<>>
          ELSE << Field(2, "*CID", Ok(Bin(ToBytes(fv.plaintext)))) >>)
      \o (IF fv.hashes THEN << Field(9, "[][]byte", Ok(Arr(<<Bin(<<0>>)>>))) >> ELSE <<>>)
      \o (IF fv.thumbnail = None THEN <<>>
          ELSE << Field(10, "*FileVersionThumbnail",
                        EncodeFileVersionThumbnail(fv.thumbnail)) >>))

\* The thumbnail's image type, ratio and thumbhash decode as they are; a nil for
\* the CID has no first byte to look at.
DecodeFileVersionThumbnail(item) ==
  LET bytes == ItemAt(Value(item), 3)
      cid   == IF bytes = Nil THEN Panic ELSE EncryptedCIDFromBytes(Value(bytes))
  IN  IF \A e \in ToSet(Value(item)) : e.key # 3 THEN Ok([cid |-> None])
      ELSE IF cid.is = "ok" THEN Ok([cid |-> cid.val]) ELSE cid

\* A missing key leaves its field empty.
DecodeFileVersion(item) ==
  LET Under(key) == ItemAt(Value(item), key)
      Part(key, decoded) == IF Under(key) = Nil THEN Ok(None) ELSE decoded
      encrypted == Part(1, EncryptedCIDFromBytes(Value(Under(1))))
      plaintext == Part(2, initCID(Value(Under(2))))
      hashes    == Part(9, IF \A i \in DOMAIN Value(Under(9)) : TypeIn(Value(Under(9))[i]) = "bytes"
                           THEN Ok(None) ELSE Panic)
      thumbnail == Part(10, DecodeFileVersionThumbnail(Under(10)))
  IN  Unless(<<encrypted, plaintext, hashes, thumbnail>>,
             [ts |-> At(Value(item), 8, "int8"), encrypted |-> encrypted.val,
              plaintext |-> plaintext.val, hashes |-> Under(9) # Nil,
              thumbnail |-> thumbnail.val, local |-> FALSE])

\* A reference to a file; file may be None, local stands for URI and Key.  The
\* maps ext and history may be "unset", which Empty cannot be called on.
FileReference ==
  LET Map == {"unset", "empty", "filled"}
  IN  [created : Num, version : Num, file : {None} \cup FileVersion, ext : Map,
       history : Map, local : BOOLEAN]

EncodeFileReference(fr) ==
  IF "unset" \in {fr.ext, fr.history} THEN Panic ELSE
  marshallMapMsgpack(
    << Field(1, "string", Ok(Str("text"))),
       Field(2, "uint64", Ok(Number(fr.created))),
       Field(4, "*FileVersion", IF fr.file = None THEN Ok(Nil) ELSE EncodeFileVersion(fr.file)),
       Field(5, "uint64", Ok(Number(fr.version))) >>
      \o (IF fr.ext = "filled" THEN << Field(7, "ExtMap", Ok(MapOf(<<>>))) >> ELSE <<>>)
      \o (IF fr.history = "filled" THEN << Field(8, "FileHistoryMap", Ok(MapOf(<<>>))) >> ELSE <<>>))

\* Extension and history maps have no decoder for values, so must be empty.
DecodeFileReference(item) ==
  LET version == ItemAt(Value(item), 4)
      file    == IF version = Nil THEN Ok(None) ELSE DecodeFileVersion(version)
      Empty(key) == IF At(Value(item), key, <<>>) = <<>> THEN Ok(None) ELSE Error
  IN  Unless(<<file, Empty(7), Empty(8)>>,
             [created |-> At(Value(item), 2, "int8"), version |-> At(Value(item), 5, "int8"),
              file |-> file.val, ext |-> "empty", history |-> "empty", local |-> FALSE])

\* Whether the file reference's CID can be asked for.
FileVersionCID(fv) ==
  CASE fv.plaintext # None -> Ok(fv.plaintext)
    [] fv.plaintext = None /\ fv.encrypted # None -> Ok(fv.encrypted.cid)
    [] OTHER -> Panic

CONSTANT Names          \* names of the entries of a directory

\* A map of references to directories or files; None is the zero value of the
\* linked map, which has no list behind it.
References(Ref) == {None} \cup Seq([key : Names, ref : Ref, pointer : BOOLEAN])

EncodeReferences(refs, pointerType) ==
  IF refs = None THEN Panic ELSE
  marshallMapMsgpack([i \in DOMAIN refs |->
    Field(refs[i].key, IF refs[i].pointer THEN pointerType ELSE "value",
          IF pointerType = "*FileReference" THEN EncodeFileReference(refs[i].ref)
          ELSE EncodeDirectoryReference(refs[i].ref))])

\* Values are decoded by the type of the placeholder and put one by one.
unmarshalMapMsgpack(item, placeholder) ==
  LET entries == Value(item)
      decoded == [i \in DOMAIN entries |->
                    IF placeholder = "*FileReference" THEN DecodeFileReference(entries[i].item)
                    ELSE DecodeDirectoryReference(entries[i].item)]
      refs    == [i \in DOMAIN entries |->
                    [key |-> entries[i].key, ref |-> decoded[i].val, pointer |-> TRUE]]
  IN  Unless(decoded, PutAll(refs))

-----------------------------------------------------------------------------
(* Directories. *)

\* The magic byte, the kind of the document, and its array.
InitMarshaller(kind, items) ==
  Unless(items, [kind |-> kind, items |-> [i \in DOMAIN items |-> items[i].val]])

InitUnmarshaller(wire, kinds) == wire.kind \in kinds

\* A Go map is written in any order.
Orders(S) == SetToSeqs(S)

\* details is None or which rights a share has; read and write are what
\* SetShared sets in a slice it makes when there is none.
SetShared(details, value, write) ==
  LET shared == IF details = None THEN [read |-> None, write |-> None] ELSE details
  IN  IF write THEN [shared EXCEPT !.write = value] ELSE [shared EXCEPT !.read = value]

EncodeDetails(details) ==
  Ok(MapOf(IF details = None THEN <<>>
           ELSE <<Entry(<<"number", 3>>, Arr(<<Nil, details.read, details.write>>))>>))

\* A key must be a number, and the map to put it in is nil in a document that is
\* being read.
DecodeDetails(item) ==
  IF Value(item) = <<>> THEN Ok(None)
  ELSE IF Value(item)[1].key[1] = "number" THEN Panic ELSE Error

\* Extra metadata: a function from extensions to kinds of values.  A directory
\* writes it under its numbers, in any order, and reads it as it is.
EncodeIntMap(extra) ==
  {Ok(MapOf([i \in DOMAIN s |->
       Entry(<<"number", s[i]>>, IF extra[s[i]] = "text" THEN Str("text") ELSE Bin(<<0>>))])) :
     s \in Orders(DOMAIN extra)}

\* The last value under each number.
decodeIntMap(item) ==
  IF \E e \in ToSet(Value(item)) : e.key[1] # "number" THEN Error
  ELSE Ok([k \in {e.key[2] : e \in ToSet(Value(item))} |->
             Value(item)[Max({i \in DOMAIN Value(item) : Value(item)[i].key[2] = k})].item])

EncodeDirectory(doc) ==
  {InitMarshaller("directory",
     << EncodeDetails(doc.details),
        EncodeReferences(doc.directories, "*DirectoryReference"),
        EncodeReferences(doc.files, "*FileReference"),
        extra >>) : extra \in EncodeIntMap(doc.extra)}

KindsOf(extra) == [x \in DOMAIN extra |-> IF TypeIn(extra[x]) = "bytes" THEN "bytes" ELSE "text"]

DecodeDirectory(wire) ==
  LET details     == DecodeDetails(wire.items[1])
      directories == unmarshalMapMsgpack(wire.items[2], "*DirectoryReference")
      files       == unmarshalMapMsgpack(wire.items[3], "*FileReference")
      extra       == decodeIntMap(wire.items[4])
  IN  IF ~InitUnmarshaller(wire, {"directory"}) \/ Len(wire.items) # 4
      THEN Error
      ELSE Unless(<<details, directories, files, extra>>,
                  [kind |-> "directory", details |-> details.val,
                   directories |-> directories.val, files |-> files.val,
                   extra |-> KindsOf(extra.val)])

-----------------------------------------------------------------------------
(* Web apps.  Paths are a sequence without repetition, the order in which   *)
(* the linked map holds them; PathOrder is that of their names.             *)

CONSTANT PathOrder      \* every path, sorted

ASSUME PathAssumption ==
  /\ PathOrder \in Seq(ToSet(PathOrder))
  /\ \A i, j \in DOMAIN PathOrder : PathOrder[i] = PathOrder[j] => i = j

PathEntry == [key : ToSet(PathOrder), cid : CIDValues]

\* mutant: the order of insertion is kept
SortNot(paths) == paths

Sort(paths) ==
  LET present == {p.key : p \in ToSet(paths)}
      keys    == Kept(PathOrder, present)
  IN  [i \in DOMAIN keys |-> CHOOSE p \in ToSet(paths) : p.key = keys[i]]

PutPath(paths, path, cid) == Put(paths, [key |-> path, cid |-> cid])

RemovePath(paths, path) == Kept(paths, {p \in ToSet(paths) : p.key # path})

\* A web app without a map of paths is written with a nil.
EncodePaths(paths) ==
  LET sorted == Sort(paths)
  IN  IF paths = None THEN Ok(Nil) ELSE
      Ok(Arr([i \in DOMAIN sorted |->
                Arr(<<Str(sorted[i].key), Bin(ToBytes(sorted[i].cid)), Str("text")>>)]))

\* A row that is too short is indexed beyond its end, a longer one is cut.
DecodePath(row) ==
  LET want == <<"string", "bytes", "string">>
      bad  == {i \in DOMAIN want : i > Len(row) \/ (i <= Len(row) /\ TypeIn(row[i]) # want[i])}
  IN  IF bad = {} THEN initCID(Value(row[2]))
      ELSE IF Min(bad) > Len(row) THEN Panic ELSE Error

DecodePaths(item) ==
  LET cids == [i \in DOMAIN Value(item) |-> DecodePath(Value(Value(item)[i]))]
      rows == [i \in DOMAIN cids |-> [key |-> Value(Value(Value(item)[i])[1]), cid |-> cids[i].val]]
  IN  IF item = Nil THEN Ok(None) ELSE Unless(cids, Sort(PutAll(rows)))

\* Everywhere else extra metadata goes by its names; updateCID has none and is
\* left out.
EncodeExtra(extra) ==
  {Ok(MapOf([i \in DOMAIN s |-> Entry(<<"name", s[i]>>, Str("text"))])) :
     s \in Orders(DOMAIN extra \ {"updateCID"})}

\* Keys must be numbers; an updateCID is the bytes of a CID.
DecodeExtra(item) ==
  LET Outcome(e) == CASE e.key[1] = "name" -> Error
                    [] e.key = <<"number", "updateCID">> -> initCID(Value(e.item))
                    [] OTHER -> Ok(None)
  IN  Unless([i \in DOMAIN Value(item) |-> Outcome(Value(item)[i])],
             [x \in {e.key[2] : e \in ToSet(Value(item))} |->
                IF x = "updateCID" THEN "cid" ELSE "text"])

EncodeErrorPages(pages) ==
  {Ok(MapOf([i \in DOMAIN s |-> Entry(s[i], Str("text"))])) : s \in Orders(pages)}

MarshalWebApp(paths, pages, extra) ==
  InitMarshaller("webapp", <<Ok(Str("text")), Ok(Arr(<<>>)), pages, paths, extra>>)

\* Every outcome: the order of the error pages and of the extra metadata is
\* that of a Go map.
EncodeWebApp(doc) ==
  {MarshalWebApp(EncodePaths(doc.paths), pages, extra) :
     pages \in EncodeErrorPages(doc.errorPages), extra \in EncodeExtra(doc.extra)}

DecodeWebApp(wire) ==
  LET paths == DecodePaths(wire.items[4])
      extra == DecodeExtra(wire.items[5])
  IN  IF ~InitUnmarshaller(wire, {"webapp"}) \/ Len(wire.items) # 5
      THEN Error
      ELSE Unless(<<paths, extra>>,
                  [kind |-> "webapp", errorPages |-> {e.key : e \in ToSet(Value(wire.items[3]))},
                   paths |-> paths.val, extra |-> extra.val])

-----------------------------------------------------------------------------
(* Media documents are only read.  The body is a record of its items; a     *)
(* proof puts in front of it the length of a section of signatures.         *)

\* Of the types an item of a number can have, intParse knows three; anything
\* else is a zero.
intParse(item) == IF TypeIn(item) \in {"int8", "uint16", "uint32"} THEN Value(item) ELSE "zero"

FormatStrings == {2, 3, 4} \cup 19 .. 23 \cup 29 .. 31
FormatNumbers == {10, 11, 13, 14, 15, 18} \cup 25 .. 28

FormatField(key, item) ==
  CASE key \in FormatStrings -> IF TypeIn(item) = "string" THEN Ok(Value(item)) ELSE Panic
    [] key \in FormatNumbers -> Ok(intParse(item))
    [] key = 1  -> IF TypeIn(item) = "bytes" THEN initCID(Value(item)) ELSE Panic
    [] key = 12 -> IF /\ TypeIn(item) = "array"
                      /\ \A i \in DOMAIN Value(item) : TypeIn(Value(item)[i]) = "string"
                   THEN Ok(Value(item)) ELSE Panic
    [] key = 24 -> IF TypeIn(item) = "bytes" THEN Ok(Value(item)) ELSE Panic
    [] OTHER    -> Ok(None)

\* Every outcome: the fields are visited in the order of a Go map, and the
\* first that is wrong ends it.
DecodeMediaFormat(item) ==
  LET fields == decodeIntMap(item).val
      parsed == [k \in DOMAIN fields |-> FormatField(k, fields[k])]
      bad    == {k \in DOMAIN fields : parsed[k].is # "ok"}
  IN  IF decodeIntMap(item) = Error THEN {Error}
      ELSE IF bad # {} THEN {parsed[k] : k \in bad}
      ELSE {Ok([k \in DOMAIN fields |-> parsed[k].val])}

\* The formats of all media types, one after the other.
DecodeMediaTypes(formats) ==
  LET bad == {i \in DOMAIN formats : \E o \in DecodeMediaFormat(formats[i]) : o.is # "ok"}
  IN  IF bad # {} THEN DecodeMediaFormat(formats[Min(bad)])
      ELSE {Ok([i \in DOMAIN formats |-> (CHOOSE o \in DecodeMediaFormat(formats[i]) : TRUE).val])}

\* What is read goes to a copy of the links: the document keeps an empty one.
\* The count is asserted to be an int, which no item is.
DecodeLinks(item) ==
  LET links == decodeIntMap(item).val
      List(l) == IF TypeIn(l) # "array" THEN Panic
                 ELSE Unless([i \in DOMAIN Value(l) |->
                        IF TypeIn(Value(l)[i]) = "bytes" THEN initCID(Value(Value(l)[i])) ELSE Panic], None)
      Link(k) == CASE k = 1         -> Panic
                   [] k \in {2, 3, 4} -> List(links[k])
                   [] OTHER         -> Ok(None)
      bad == {k \in DOMAIN links : Link(k).is # "ok"}
  IN  IF item = Nil THEN {Ok(None)}
      ELSE IF decodeIntMap(item) = Error THEN {Error}
      ELSE IF bad # {} THEN {Link(k) : k \in bad}
      ELSE {Ok("empty")}

\* A link is signed if its CID has the hash of a proven key.
DecodeParentLink(item, proven) ==
  LET Part(e) == CASE e.key = 0 -> Panic
                   [] e.key = 1 -> IF TypeIn(e.item) = "bytes" THEN initCID(Value(e.item)) ELSE Panic
                   [] OTHER     -> Ok(None)
      cid == initCID(At(Value(item), 1, <<>>))
  IN  Unless([i \in DOMAIN Value(item) |-> Part(Value(item)[i])],
             [signed |-> cid.is = "ok" /\ cid.val.hash \in proven])

\* The parents are decoded and then forgotten; nil instead of them is a slice
\* of negative length.
DecodeParents(item, proven) ==
  IF item = Nil THEN Panic
  ELSE Unless([i \in DOMAIN Value(item) |-> DecodeParentLink(Value(item)[i], proven)], None)

MediaOutcome(body, proven, formats, links) ==
  LET extra == DecodeExtra(body.extra)
  IN  Unless(<<decodeIntMap(body.details), DecodeParents(body.parents, proven),
               formats, links, extra>>,
             [kind |-> "media", parents |-> <<>>, proven |-> proven,
              formats |-> formats.val, links |-> links.val, extra |-> extra.val])

decodeMedia(body, proven) ==
  {MediaOutcome(body, proven, formats, links) :
     formats \in DecodeMediaTypes(body.formats), links \in DecodeLinks(body.links)}

EmptyMedia ==
  [kind |-> "media", parents |-> <<>>, proven |-> {}, formats |-> <<>>,
   links |-> None, extra |-> [x \in {} |-> "text"]]

\* A signature is modelled by who made it and what it is over.
Verify(key, body, signature) == signature = [by |-> key, over |-> body]

\* mutant: the key counts as proven before its signature is looked at
CheckProofUnverified(proof, body) ==
  CASE proof.fields # 4 -> Error
    [] proof.fields = 4 /\ proof.key = <<>> -> Panic
    [] proof.fields = 4 /\ proof.key # <<>> -> Ok(proof.key)

\* The four fields are looked at in turn.  A field of another Go type panics: None
\* stands for any such field; so does a key without a first byte.
CheckProof(proof, body) ==
  LET Asserted(field, right) == IF field = None THEN Panic ELSE IF right THEN Ok(None) ELSE Error
  IN  Unless(<< IF proof.fields = 4 THEN Ok(None) ELSE Error,
                Asserted(proof.type, proof.type = "signature"),
                Asserted(proof.hashType, proof.hashType = "blake3"),
                IF proof.key = <<>> THEN Panic
                ELSE Asserted(proof.key, /\ proof.key[1] = HashTypeEd25519
                                         /\ Len(proof.key) = HashLen),
                Asserted(proof.signature, Verify(proof.key, body, proof.signature)) >>,
             proof.key)

\* A section of length zero ends the reading, with nothing read and no error.
decodeProof(wire) ==
  LET checks == [i \in DOMAIN wire.proofs |-> CheckProof(wire.proofs[i], wire.body)]
      all    == Unless(checks, {checks[i].val : i \in DOMAIN checks})
  IN  CASE wire.section = "short" -> {Panic}
        [] wire.section = "empty" -> {Ok(EmptyMedia)}
        [] wire.section = "full"  ->
             IF all.is # "ok" THEN {all}
             ELSE IF wire.body.kind # "media" THEN {Error}
             ELSE decodeMedia(wire.body, all.val)

DecodeMedia(wire) ==
  CASE ~InitUnmarshaller(wire, {"proof", "media"}) -> {Error}
    [] wire.kind = "proof" -> decodeProof(wire)
    [] wire.kind = "media" -> decodeMedia(wire.body, {})

\* What publishing a document may give: its msgpack form, or how it fails.
Marshal(doc) ==
  CASE doc.kind = "directory" -> EncodeDirectory(doc)
    [] doc.kind = "webapp"    -> EncodeWebApp(doc)
    [] doc.kind = "media"     -> {Error}
=============================================================================
