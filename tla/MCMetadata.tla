----------------------------- MODULE MCMetadata -----------------------------
(* Metadata with small documents; the CIDs are those of MCCid. *)
EXTENDS Metadata, TLC

Raw1   == NewCID(Raw, <<0, 5>>, 6)
Media1 == NewCID(CIDTypeMetadataMedia, <<5, 0>>, 5)
BridgeCID == NewCID(Bridge, <<0, 5>>, 0)
Short  == NewCID(Raw, <<0>>, 0)
Secret == NewEncryptedCID(<<0, 5>>, Raw1, <<1>>, 1, 1, 1)

DirRef(created, pub, write, enc, ext) ==
  [created |-> created, publicKey |-> pub, writeKey |-> write, encryptionKey |-> enc,
   ext |-> ext, local |-> TRUE]

MCDirectoryRefs ==
  {DirRef("uint64", <<1, 1>>, <<2, 2>>, None, FALSE), DirRef("uint32", <<1>>, <<2>>, None, FALSE),
   DirRef("uint64", None, <<2>>, None, FALSE), DirRef("uint64", <<1>>, None, None, FALSE),
   DirRef("uint64", <<1>>, <<2>>, <<3>>, FALSE), DirRef("uint64", <<1>>, <<2>>, None, TRUE)}

Version(plaintext, encrypted, hashes, thumbnail) ==
  [ts |-> "uint16", plaintext |-> plaintext, encrypted |-> encrypted, hashes |-> hashes,
   thumbnail |-> thumbnail, local |-> TRUE]

FileRef(file, ext, history) ==
  [created |-> "uint32", version |-> "int8", file |-> file, ext |-> ext,
   history |-> history, local |-> TRUE]

MCFileRefs ==
  {FileRef(None, "empty", "empty"), FileRef(None, "unset", "empty"),
   FileRef(None, "empty", "filled"), FileRef(None, "filled", "empty")}
    \cup {FileRef(v, "empty", "empty") :
            v \in {Version(Media1, None, FALSE, None), Version(BridgeCID, None, FALSE, None),
                   Version(None, None, FALSE, None), Version(None, Secret, FALSE, None),
                   Version(Raw1, None, TRUE, None), Version(Raw1, None, FALSE, [cid |-> Secret])}}

MCCids == {Raw1, Media1, BridgeCID}

-----------------------------------------------------------------------------
(* Documents of other programs. *)

Numbered(x, item) == Entry(<<"number", x>>, item)

DirectoryWire(extra, dirs, files) ==
  [kind |-> "directory", items |-> <<MapOf(<<>>), MapOf(dirs), MapOf(files), MapOf(extra)>>]

FileWire(entries) == <<Entry("a", MapOf(entries))>>

ForeignDirectories ==
  {DirectoryWire(<<>>, <<>>, FileWire(<<Entry(2, Number("uint32")), Entry(4, MapOf(v))>>)) :
     v \in {<<Entry(8, Number("int8")), Entry(1, Bin(EncryptedToBytes(Secret)))>>,
            <<Entry(9, Arr(<<Bin(<<0, 5>>)>>))>>, <<Entry(9, Arr(<<Nil>>))>>,
            <<Entry(10, MapOf(<<Entry(3, Bin(EncryptedToBytes(Secret)))>>))>>,
            <<Entry(10, MapOf(<<Entry(3, Bin(<<EncryptedStatic, 1>>))>>))>>,
            <<Entry(10, MapOf(<<Entry(3, Nil)>>))>>,
            <<Entry(1, Bin(<<Raw>>))>>}}
    \cup {DirectoryWire(<<>>, <<>>, FileWire(<<Entry(k, MapOf(<<Entry(1, Str("text"))>>))>>)) :
            k \in {7, 8}}
    \cup {[kind |-> "directory", items |-> <<>>],
          [kind |-> "directory",
           items |-> <<MapOf(<<Entry(<<"name", "x">>, Nil)>>), MapOf(<<>>), MapOf(<<>>), MapOf(<<>>)>>],
          DirectoryWire(<<Numbered("tags", Bin(<<0>>)), Numbered("updateCID", Str("text"))>>,
                        <<>>, <<>>),
          DirectoryWire(<<Entry(<<"name", "tags">>, Str("text"))>>, <<>>, <<>>),
          DirectoryWire(<<>>, <<>>, FileWire(<<>>) \o FileWire(<<Entry(2, Number("uint16"))>>))}

AppWire(paths, extra) ==
  [kind |-> "webapp", items |-> <<Str("text"), Arr(<<>>), MapOf(<<>>), paths, MapOf(extra)>>]

Row(items) == Arr(<<Arr(<<Str("a"), Bin(ToBytes(Raw1)), Str("text")>>), Arr(items)>>)

ForeignApps ==
  {AppWire(Row(r), <<>>) :
     r \in {<<Str("b")>>, <<Str("b"), Nil, Str("text")>>,
            <<Str("a"), Bin(ToBytes(Media1)), Str("text"), Nil>>,
            <<Str("b"), Bin(ToBytes(Short)), Str("text")>>,
            <<Str("b"), Bin(<<Bridge>>), Str("text")>>}}
    \cup {AppWire(Nil, <<Numbered("timestamp", Str("text"))>>),
          AppWire(Nil, <<Numbered("updateCID", Bin(ToBytes(Raw1)))>>),
          AppWire(Nil, <<Numbered("updateCID", Bin(<<>>))>>)}

Body(kind, details, parents, formats, links) ==
  [kind |-> kind, details |-> MapOf(details), parents |-> parents, formats |-> formats,
   links |-> links, extra |-> MapOf(<<>>)]

Key1 == <<HashTypeEd25519, 0>>
Key2 == <<HashTypeEd25519, 5>>

Parent(key) ==
  MapOf(<<Entry(1, Bin(ToBytes(NewCID(CIDTypeMetadataMedia, key, 0)))), Entry(2, Str("text"))>>)

Format(height) ==
  <<MapOf(<<Numbered(1, Bin(ToBytes(Raw1))), Numbered(10, height), Numbered(2, Str("text"))>>)>>

Formats ==
  {Format(h) : h \in {Number(n) : n \in Num} \cup {Nil}}
    \cup {<<MapOf(<<Numbered(12, Arr(<<Str("text")>>)), Numbered(24, Bin(<<0>>)), Numbered(99, Nil)>>)>>,
          <<MapOf(<<Numbered(1, Bin(<<0>>)), Numbered(3, Nil)>>)>>,
          <<MapOf(<<Numbered(12, Arr(<<Nil>>)), Numbered(24, Nil)>>)>>}

LinkItems ==
  {MapOf(<<>>), MapOf(<<Numbered(1, Number("int8"))>>),
   MapOf(<<Numbered(2, Arr(<<Bin(ToBytes(Raw1))>>)), Numbered(5, Nil)>>),
   MapOf(<<Numbered(3, Arr(<<Bin(<<0>>)>>)), Numbered(4, Arr(<<Nil>>)), Numbered(2, Nil)>>)}

Bodies ==
  {Body("media", <<>>, Arr(<<Parent(Key1)>>), f, Nil) : f \in Formats}
    \cup {Body("media", <<>>, Arr(<<>>), <<>>, l) : l \in LinkItems}
    \cup {Body("media", <<>>, p, <<>>, Nil) :
            p \in {Nil, Arr(<<MapOf(<<Entry(0, Number("int8"))>>)>>), Arr(<<MapOf(<<>>)>>),
                   Arr(<<MapOf(<<Entry(1, Nil)>>)>>), Arr(<<MapOf(<<Entry(1, Bin(<<0>>))>>)>>)}}
    \cup {Body("media", <<Entry(<<"name", "x">>, Nil)>>, Arr(<<>>), <<>>, Nil)}

SignedBody ==
  Body("media", <<>>, Arr(<<Parent(Key1)>>), Format(Number("uint8")) \o Format(Number("uint16")), Nil)

OtherBody == Body("directory", <<>>, Arr(<<>>), <<>>, Nil)

Proof(fields, type, hashType, key, signer, over) ==
  [fields |-> fields, type |-> type, hashType |-> hashType, key |-> key,
   signature |-> [by |-> signer, over |-> over]]

Good(key, body) == Proof(4, "signature", "blake3", key, key, body)

Proofs ==
  {<<>>, <<Good(Key1, SignedBody)>>, <<Good(Key1, SignedBody), Good(Key2, SignedBody)>>,
   <<Good(Key1, SignedBody), Proof(4, "signature", "blake3", Key2, Key1, SignedBody)>>,
   <<Proof(4, "signature", "blake3", Key2, Key2, OtherBody)>>,
   <<Proof(3, "signature", "blake3", Key1, Key1, SignedBody)>>,
   <<Proof(4, "timestamp", "blake3", Key1, Key1, SignedBody)>>,
   <<Proof(4, "signature", "other", Key1, Key1, SignedBody)>>,
   <<Proof(4, "signature", "blake3", None, Key1, SignedBody)>>,
   <<Good(<<>>, SignedBody)>>, <<Good(<<0, 0>>, SignedBody)>>,
   <<Good(<<HashTypeEd25519>>, SignedBody)>>}

ProofWire(section, proofs, body) ==
  [kind |-> "proof", section |-> section, proofs |-> proofs, body |-> body]

MCForeign ==
  ForeignDirectories \cup ForeignApps
    \cup {[kind |-> "media", body |-> b] : b \in Bodies}
    \cup {ProofWire("full", p, SignedBody) : p \in Proofs}
    \cup {ProofWire("full", <<Good(Key1, OtherBody)>>, OtherBody),
          ProofWire("short", <<>>, SignedBody), ProofWire("empty", <<>>, SignedBody)}

\* Bytes that end too soon, and a document that is well formed.
MCWrongBytes ==
  {[kind |-> "cut"], ProofWire("full", <<Good(Key2, SignedBody)>>, SignedBody)}

MCPathOrder == <<"a", "b">>

Symmetry == Permutations(Tasks)
=============================================================================
