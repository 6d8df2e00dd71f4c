------------------------------ MODULE CidCodec ------------------------------
(***************************************************************************)
(* Content identifiers, encrypted ones and multihashes as byte strings and *)
(* as text (encoding/, utils/endian.go, internal/bases).  A byte has Base  *)
(* values instead of 256 and the fields of the layouts have the widths the *)
(* constants give; the layouts and the checks are those of the code.  Text *)
(* is a record of its first character, which says how to read it, and the  *)
(* bytes the digits after it stand for: the digits themselves are the      *)
(* multibase library's.                                                    *)
(*                                                                         *)
(* A conversion yields Ok(value), Error (the code returns an error), Panic *)
(* (an index out of range) or Overrun: a slice expression that reaches     *)
(* past the length of its operand, which panics, or reads stale memory if  *)
(* the slice happens to have spare capacity.                               *)
(***************************************************************************)
EXTENDS Integers, Sequences

CONSTANTS
  Base,               \* values of a byte: 256
  HashLen,            \* bytes of a multihash with its type byte: 33
  SizeLen,            \* bytes of a size: 8
  KeyLen,             \* bytes of an encryption key: 32
  PadLen,             \* bytes of a padding: 4
  Raw, Bridge, Resolver, EncryptedStatic,   \* CID types the codec singles out
  OtherTypes,         \* the remaining values of CIDTypeMap
  RegistryTypeCID, RegistryTypeEncryptedCID,
  HashTypeBlake3, HashTypeEd25519

Byte == 0 .. (Base - 1)

CIDTypeMap == {Raw, Bridge, Resolver, EncryptedStatic} \cup OtherTypes

RegistryTypeMap == {RegistryTypeCID, RegistryTypeEncryptedCID}

ASSUME CidAssumption ==
  /\ {Base, HashLen, SizeLen, KeyLen, PadLen} \subseteq Nat \ {0}
  /\ CIDTypeMap \cup RegistryTypeMap \cup {HashTypeBlake3, HashTypeEd25519} \subseteq Byte
  /\ Raw \notin {Bridge, Resolver, EncryptedStatic} \cup OtherTypes
  /\ Bridge \notin {Resolver, EncryptedStatic} \cup OtherTypes
  /\ Resolver \notin {EncryptedStatic} \cup OtherTypes
  /\ EncryptedStatic \notin OtherTypes
  /\ Resolver # 0                \* CopyWith takes 0 for no type

Ok(v)   == [is |-> "ok", val |-> v]
Error   == [is |-> "error"]
Panic   == [is |-> "panic"]
Overrun == [is |-> "overrun"]

-----------------------------------------------------------------------------
(* Numbers: little endian, as wide as a size at most. *)

\* Base to the power n: the weight of the byte after n others.
Pow[n \in Nat] == IF n = 0 THEN 1 ELSE Base * Pow[n - 1]

EncodeEndian(value, length) ==
  [i \in 1 .. length |-> (value \div Pow[i - 1]) % Base]

\* mutant: a wider integer, in which total and multiplier do not wrap
DecodeEndianWide(bytes) ==
  LET total[i \in 0 .. Len(bytes)] ==
        IF i = 0 THEN 0 ELSE total[i - 1] + bytes[i] * Pow[i - 1]
  IN  total[Len(bytes)]

\* The total and the multiplier after each byte; both wrap, the multiplier to
\* zero, so that bytes beyond the width of a size do not count.
DecodeEndian(bytes) ==
  LET loop[i \in 0 .. Len(bytes)] ==
        IF i = 0 THEN [total |-> 0, multiplier |-> 1]
        ELSE [total |-> (loop[i - 1].total + bytes[i] * loop[i - 1].multiplier) % Pow[SizeLen],
              multiplier |-> (loop[i - 1].multiplier * Base) % Pow[SizeLen]]
  IN  loop[Len(bytes)].total

\* mutant: every zero byte is dropped, not the trailing ones only
SizeBytesNoZeros(size) ==
  LET kept == SelectSeq(EncodeEndian(size, SizeLen), LAMBDA b : b # 0)
  IN  IF kept = <<>> THEN <<0>> ELSE kept

\* The size without its trailing zero bytes, but never empty.
SizeBytes(size) ==
  LET bytes == EncodeEndian(size, SizeLen)
      kept  == CHOOSE n \in 1 .. SizeLen : /\ n = 1 \/ bytes[n] # 0
                                          /\ \A i \in (n + 1) .. SizeLen : bytes[i] = 0
  IN  SubSeq(bytes, 1, kept)

-----------------------------------------------------------------------------
(* CIDs. *)

NewCID(type, hash, size) == [type |-> type, hash |-> hash, size |-> size]

\* The CIDs of a program: the hash has the length the readers assume, or, in
\* that of a registry public key and in a bridge CID, one byte more.
CIDValues ==
  [type : CIDTypeMap,
   hash : {h \in Seq(Byte) : Len(h) \in {HashLen, HashLen + 1}},
   size : 0 .. (Pow[SizeLen] - 1)]

\* mutant: the size is written for every type
ToBytesSized(cid) == <<cid.type>> \o cid.hash \o SizeBytes(cid.size)

\* A bridge CID is written without its type byte, other types without size.
ToBytes(cid) ==
  CASE cid.type = Bridge -> cid.hash
    [] cid.type = Raw    -> <<cid.type>> \o cid.hash \o SizeBytes(cid.size)
    [] OTHER             -> <<cid.type>> \o cid.hash

\* mutant: the length test lets one byte too few through
initCIDShort(bytes) ==
  CASE bytes = <<>>     -> Error
    [] Len(bytes) < HashLen -> Error
    [] bytes[1] \notin CIDTypeMap -> Error
    [] Len(bytes) = HashLen -> Overrun
    [] OTHER -> Ok(NewCID(bytes[1], SubSeq(bytes, 2, HashLen + 1),
                          DecodeEndian(SubSeq(bytes, HashLen + 2, Len(bytes)))))

initCID(bytes) ==
  CASE bytes = <<>> -> Error
    [] bytes # <<>> /\ bytes[1] = Bridge ->
         IF Len(bytes) < HashLen + 2
         THEN Overrun
         ELSE Ok(NewCID(Bridge, SubSeq(bytes, 2, HashLen + 2), 0))
    [] bytes # <<>> /\ bytes[1] # Bridge ->
         IF Len(bytes) < HashLen + 1 \/ bytes[1] \notin CIDTypeMap
         THEN Error
         ELSE Ok(NewCID(bytes[1], SubSeq(bytes, 2, HashLen + 1),
                        DecodeEndian(SubSeq(bytes, HashLen + 2, Len(bytes)))))

CIDVerify(bytes) == initCID(bytes).is = "ok"

Equals(cid, other) == ToBytes(cid) = ToBytes(other)

\* The first four bytes as a number; an int is wide enough not to overflow.
HashCode(bytes) ==
  IF Len(bytes) < 4
  THEN 0
  ELSE bytes[1] + bytes[2] * Base + bytes[3] * Base^2 + bytes[4] * Base^3

\* A hash given as text is hex; what is not hex is refused by the caller.
CIDFromHash(bytes, size, cidType, hashType) ==
  IF cidType \in CIDTypeMap
  THEN Ok(NewCID(cidType, <<hashType>> \o bytes, size))
  ELSE Error

\* The key comes with its type byte, so that the hash has that byte twice.
CIDFromRegistryPublicKey(pk) == CIDFromHash(pk, 0, Resolver, HashTypeEd25519)

\* Type 0 stands for the type the CID has.
CopyWith(cid, newType, newSize) ==
  LET type == IF newType = 0 THEN cid.type ELSE newType
  IN  IF type \in CIDTypeMap THEN Ok(NewCID(type, cid.hash, newSize)) ELSE Error

ToRegistryEntry(cid) == <<RegistryTypeCID>> \o ToBytes(cid)

ToRegistryCID(cid) == ToBytes(CopyWith(cid, Resolver, cid.size).val)

\* Both registry types are followed by a plain CID.
CIDFromRegistry(bytes) ==
  IF bytes = <<>> \/ (bytes # <<>> /\ bytes[1] \notin RegistryTypeMap)
  THEN Error
  ELSE initCID(Tail(bytes))

\* Reference: what a CID is the same as once it has been written and read, and
\* which CIDs can be.
Canonical(cid) == [cid EXCEPT !.size = IF cid.type = Raw THEN @ ELSE 0]

WellFormed(cid) == cid.type # Bridge /\ Len(cid.hash) = HashLen

-----------------------------------------------------------------------------
(* Encrypted CIDs. *)

NewEncryptedCID(blobHash, cid, key, padding, chunkPower, algorithm) ==
  [blobHash |-> blobHash, cid |-> cid, key |-> key, padding |-> padding,
   chunkPower |-> chunkPower, algorithm |-> algorithm]

\* The encrypted CIDs of a program.
EncryptedValues ==
  [blobHash : {h \in Seq(Byte) : Len(h) = HashLen}, cid : CIDValues,
   key : {k \in Seq(Byte) : Len(k) = KeyLen}, padding : Nat, chunkPower : Nat, algorithm : Byte]

EncryptedToBytes(e) ==
  <<EncryptedStatic, e.algorithm, e.chunkPower % Base>> \o e.blobHash \o e.key
    \o EncodeEndian(e.padding, PadLen) \o ToBytes(e.cid)

EncryptedCIDFromBytes(data) ==
  LET key == 3 + HashLen          \* the offsets 36, 68 and 72 of the code
      pad == key + KeyLen
      cid == initCID(SubSeq(data, pad + PadLen + 1, Len(data)))
  IN  CASE data = <<>> -> Panic
        [] data # <<>> /\ data[1] # EncryptedStatic -> Error
        [] data # <<>> /\ data[1] = EncryptedStatic ->
             IF Len(data) < pad + PadLen THEN Panic
             ELSE IF cid.is # "ok" THEN cid
             ELSE Ok(NewEncryptedCID(SubSeq(data, 4, key), cid.val,
                       SubSeq(data, key + 1, pad),
                       DecodeEndian(SubSeq(data, pad + 1, pad + PadLen)),
                       data[3], data[2]))

-----------------------------------------------------------------------------
(* Text: a multibase prefix and the bytes behind it.  A text with the     *)
(* prefix ":" is its own bytes, ":" included; "plain" is base64url without *)
(* a prefix.                                                               *)

MultibasePrefix == [base58 |-> "z", hex |-> "f", base64url |-> "u", base32 |-> "b"]

ToBase(bytes, base) == [prefix |-> MultibasePrefix[base], of |-> bytes]

MultihashToString(hash) ==
  [prefix |-> IF hash[1] = Bridge THEN ":" ELSE "plain", of |-> hash]

CIDToString(cid) ==
  IF cid.type = Bridge THEN MultihashToString(cid.hash)
                       ELSE ToBase(ToBytes(cid), "base58")

\* Other text is refused.
MultibaseDecodeString(text) ==
  IF text.prefix \in {"z", "f", "u", "b", ":"} THEN Ok(text.of) ELSE Error

\* null is no bytes; text without a prefix is base64url.
UnmarshalBase64UrlJSON(text) ==
  IF text.prefix = "null"
  THEN Ok(<<>>)
  ELSE LET decoded == MultibaseDecodeString(text)
       IN  IF decoded.is = "ok" THEN decoded ELSE Ok(text.of)

\* A node id is text in base 58 only.
DecodeNodeId(text) == IF text.prefix = "z" THEN Ok(text.of) ELSE Error
=============================================================================
