-------------------------------- MODULE Cid ---------------------------------
(***************************************************************************)
(* The life of an identifier: it is made, copied with another type, put    *)
(* into one of the forms the code has for it, stored or sent, and read     *)
(* back, again and again.  Bytes may also come from elsewhere, or be cut   *)
(* short or grow on the way: the readers get whatever a peer, a registry   *)
(* entry or a metadata document holds.                                     *)
(***************************************************************************)
EXTENDS CidCodec

CONSTANTS
  Digests,        \* hashes without type byte that CIDs are made of
  Sizes,          \* sizes, up to the largest of SizeLen bytes
  Paddings,       \* paddings; some need more than PadLen bytes
  Foreign,        \* byte strings that come from elsewhere
  None

\* A digest of blake3 or ed25519 has the length the readers assume, and a padding
\* fits into the width of a size.
ASSUME CidInputs ==
  /\ \A d \in Digests : d \in Seq(Byte) /\ Len(d) = HashLen - 1
  /\ Sizes \subseteq 0 .. (Pow[SizeLen] - 1)
  /\ Paddings \subseteq Nat
  /\ Foreign \subseteq Seq(Byte)
  /\ PadLen <= SizeLen

VARIABLES
  held,           \* the identifier the program has, with its kind, or None
  wire,           \* its form on the way: form, kind and text or bytes
  sent,           \* history: what the wire was made from; None if unknown
  result,         \* history: outcome of the last read
  read            \* history: the wire of the last read

vars == <<held, wire, sent, result, read>>

Kinds == {"cid", "encrypted", "nodeId"}

Binary == {"bytes", "msgpack"}

Multibases == DOMAIN MultibasePrefix

FormsOf(kind) ==
  CASE kind = "cid"       -> Binary \cup Multibases \cup {"string", "json", "registry"}
    [] kind = "encrypted" -> Binary \cup Multibases \cup {"string", "json"}
    [] kind = "nodeId"    -> {"bytes", "string"}

-----------------------------------------------------------------------------
(* The forms and their readers. *)

RawBytes(kind, v) ==
  CASE kind = "cid"       -> ToBytes(v)
    [] kind = "encrypted" -> EncryptedToBytes(v)
    [] kind = "nodeId"    -> v

\* JSON is base64url for a CID and, through ToString, base58 for an encrypted one.
TextOf(kind, form, v) ==
  CASE form \in Multibases                  -> ToBase(RawBytes(kind, v), form)
    [] form = "json" /\ kind = "cid"        -> ToBase(RawBytes(kind, v), "base64url")
    [] form = "string" /\ kind = "cid"      -> CIDToString(v)
    [] OTHER                                -> ToBase(RawBytes(kind, v), "base58")

EncodeAs(kind, form, v) ==
  CASE form \in Binary     -> [prefix |-> "none", of |-> RawBytes(kind, v)]
    [] form = "registry"   -> [prefix |-> "none", of |-> ToRegistryEntry(v)]
    [] OTHER               -> TextOf(kind, form, v)

FromBytes(kind, bytes) ==
  CASE kind = "cid"       -> initCID(bytes)
    [] kind = "encrypted" -> EncryptedCIDFromBytes(bytes)
    [] kind = "nodeId"    -> Ok(bytes)

\* Text read by kind; what the multibase reader refuses is an error.
FromText(kind, decoded) ==
  IF decoded.is = "ok" THEN FromBytes(kind, decoded.val) ELSE Error

\* The outcomes of a read.  Plain text is refused unless its first character
\* happens to be one of the prefixes, when it is read as something else.
DecodeAs(kind, form, text) ==
  CASE form \in Binary    -> {FromBytes(kind, text.of)}
    [] form = "registry"  -> {CIDFromRegistry(text.of)}
    [] form = "json"      -> {FromText(kind, UnmarshalBase64UrlJSON(text))}
    [] form = "string" /\ kind = "nodeId" -> {DecodeNodeId(text)}
    [] OTHER -> {FromText(kind, MultibaseDecodeString(text))}
                  \cup (IF text.prefix = "plain" THEN {[is |-> "garbled"]} ELSE {})

-----------------------------------------------------------------------------
Init ==
  /\ held = None
  /\ wire = None
  /\ sent = None
  /\ result = None
  /\ read = None

Idle == held = None /\ wire = None /\ result = None

\* The program is done with an identifier, or with the failure to read one.
Drop ==
  /\ held # None \/ result # None
  /\ held' = None
  /\ sent' = None
  /\ result' = None
  /\ read' = None
  /\ UNCHANGED wire

Hold(kind, v) ==
  /\ held' = [kind |-> kind, val |-> v]
  /\ sent' = None
  /\ result' = None
  /\ read' = None
  /\ UNCHANGED wire

\* A caller names what it has hashed or been given.
MakeCID ==
  /\ Idle
  /\ \E d \in Digests, size \in Sizes, t \in Byte, ht \in {HashTypeBlake3, HashTypeEd25519} :
       LET made == CIDFromHash(d, size, t, ht)
       IN  made.is = "ok" /\ Hold("cid", made.val)

MakeFromPublicKey ==
  /\ Idle
  /\ \E d \in Digests :
       Hold("cid", CIDFromRegistryPublicKey(<<HashTypeEd25519>> \o d).val)

MakeNodeId ==
  /\ Idle
  /\ \E d \in Digests : Hold("nodeId", <<HashTypeEd25519>> \o d)

\* The CID of a plaintext becomes that of its encrypted blob.
Encrypt ==
  /\ held # None /\ held.kind = "cid"
  /\ \E d \in Digests, padding \in Paddings, power \in {1, Base} :
       Hold("encrypted",
            NewEncryptedCID(<<HashTypeBlake3>> \o d, held.val,
                            [i \in 1 .. KeyLen |-> i % Base], padding, power, 1))

Copy ==
  /\ held # None /\ held.kind = "cid"
  /\ \E t \in Byte, size \in Sizes :
       LET copy == CopyWith(held.val, t, size)
       IN  copy.is = "ok" /\ Hold("cid", copy.val)

PutOnWire(kind, form, text, v) ==
  /\ wire' = [kind |-> kind, form |-> form, text |-> text]
  /\ sent' = v
  /\ held' = None
  /\ result' = None
  /\ read' = None

Send ==
  /\ held # None
  /\ \E form \in FormsOf(held.kind) :
       PutOnWire(held.kind, form, EncodeAs(held.kind, form, held.val), held)

\* The pointer form: a resolver CID made from a CID of any type.
SendRegistryCID ==
  /\ held # None /\ held.kind = "cid"
  /\ PutOnWire("cid", "bytes", [prefix |-> "none", of |-> ToRegistryCID(held.val)],
               [held EXCEPT !.val.type = Resolver])

Receive ==
  /\ Idle
  /\ \E bytes \in Foreign, kind \in {"cid", "encrypted"}, form \in {"bytes", "registry"} :
       /\ form \in FormsOf(kind)
       /\ PutOnWire(kind, form, [prefix |-> "none", of |-> bytes], None)

\* A JSON null where an identifier was expected.
ReceiveNull ==
  /\ Idle
  /\ \E kind \in {"cid", "encrypted"} :
       PutOnWire(kind, "json", [prefix |-> "null", of |-> <<>>], None)

\* The bytes on the way are cut short or grow by one; once, as the harm done to
\* bytes from elsewhere is among Foreign.  A node id of any length is accepted.
Damage ==
  /\ wire # None /\ sent # None /\ wire.kind # "nodeId"
  /\ \E bytes \in {SubSeq(wire.text.of, 1, n) : n \in 0 .. (Len(wire.text.of) - 1)}
                    \cup {Append(wire.text.of, b) : b \in Byte} :
       wire' = [wire EXCEPT !.text.of = bytes]
  /\ sent' = None
  /\ UNCHANGED <<held, result, read>>

Read ==
  /\ wire # None
  /\ \E out \in DecodeAs(wire.kind, wire.form, wire.text) :
       /\ result' = out
       /\ held' = IF out.is = "ok" THEN [kind |-> wire.kind, val |-> out.val] ELSE None
  /\ read' = wire
  /\ wire' = None
  /\ UNCHANGED sent

Next ==
  \/ MakeCID \/ MakeFromPublicKey \/ MakeNodeId
  \/ Encrypt \/ Copy \/ Drop
  \/ Send \/ SendRegistryCID \/ Receive \/ ReceiveNull
  \/ Damage \/ Read

Spec == Init /\ [][Next]_vars

-----------------------------------------------------------------------------
(* Properties. *)

CIDs == [type : CIDTypeMap,
         hash : {<<ht>> \o d : ht \in {HashTypeBlake3, HashTypeEd25519}, d \in Digests},
         size : Sizes]

CanonicalOf(kind, v) ==
  CASE kind = "cid"       -> Canonical(v)
    [] kind = "encrypted" -> [v EXCEPT !.cid = Canonical(@),
                                       !.padding = @ % Pow[PadLen],
                                       !.chunkPower = @ % Base]
    [] kind = "nodeId"    -> v

Survives(kind, v) ==
  CASE kind = "cid"       -> WellFormed(v)
    [] kind = "encrypted" -> WellFormed(v.cid)
    [] kind = "nodeId"    -> TRUE

\* The type invariant of this module (encoding/cid.go, encrypted_cid.go,
\* nodeid.go): sizes stay within their width however the CID came about.
TypeOK ==
  /\ held # None => /\ held.kind \in Kinds
                    /\ held.kind = "cid" =>
                         /\ held.val.type \in CIDTypeMap
                         /\ held.val.hash \in Seq(Byte)
                         /\ held.val.size \in 0 .. (Pow[SizeLen] - 1)
                    /\ held.kind = "encrypted" =>
                         held.val.cid.size \in 0 .. (Pow[SizeLen] - 1)
  /\ wire # None => /\ wire.form \in FormsOf(wire.kind)
                    /\ wire.text.of \in Seq(Byte)
  /\ result # None => result.is \in {"ok", "error", "panic", "overrun", "garbled"}

\* An identifier that was written in any form and reached its reader unharmed is
\* read back as the same identifier, at any point of any sequence of copies,
\* conversions and reads -- exactly if it is not a bridge CID, whose type byte
\* ToBytes leaves out, and its hash has the length the readers assume, which the
\* CID of a registry public key has not (encoding/cid.go ToBytes and initCID).
RoundTrip ==
  (sent # None /\ result # None) =>
    (result = Ok(CanonicalOf(sent.kind, sent.val)) <=> Survives(sent.kind, sent.val))

\* Equals, which compares bytes, tells CIDs apart exactly by type, hash and, for
\* raw ones, size (encoding/cid.go Equals; HashCode never separates equal ones).
EqualsExact ==
  (held # None /\ held.kind = "cid" /\ WellFormed(held.val)) =>
      \A other \in {c \in CIDs : c.type # Bridge} :
        /\ Equals(held.val, other) <=> Canonical(held.val) = Canonical(other)
        /\ Equals(held.val, other) =>
             HashCode(ToBytes(held.val)) = HashCode(ToBytes(other))

\* The bytes a reader of a plain CID starts from.
CIDPart(w) ==
  CASE w.kind = "encrypted" ->
         SubSeq(w.text.of, 4 + HashLen + KeyLen + PadLen, Len(w.text.of))
    [] w.kind = "cid" /\ w.form = "registry" -> SubSeq(w.text.of, 2, Len(w.text.of))
    [] OTHER                -> w.text.of

\* Whatever bytes arrive, reading a CID ends in a value or an error: it leaves
\* the slice only for a bridge CID that is too short, and panics only for an
\* encrypted one that ends before its CID begins (encoding/cid.go initCID,
\* encoding/encrypted_cid.go EncryptedCIDFromBytes).
FailsSafely ==
  result # None =>
    /\ result.is = "overrun" =>
         LET b == CIDPart(read) IN b # <<>> /\ b[1] = Bridge /\ Len(b) < HashLen + 2
    /\ result.is = "panic" =>
         read.kind = "encrypted" /\ Len(read.text.of) < 3 + HashLen + KeyLen + PadLen
    /\ result.is = "ok" /\ read.kind = "cid" => CIDVerify(CIDPart(read))
=============================================================================
