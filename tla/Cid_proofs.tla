----------------------------- MODULE Cid_proofs -----------------------------
(***************************************************************************)
(* What holds of identifiers however often they are copied, written, sent, *)
(* harmed and read, for any digests, sizes, paddings and foreign bytes.    *)
(***************************************************************************)
EXTENDS Cid, CidCodec_proofs

-----------------------------------------------------------------------------
(* What is held and what is on the way *)

\* The first characters of a text.
Prefixes == {"none", "null", "plain", ":", "z", "f", "u", "b"}

Forms == UNION {FormsOf(kind) : kind \in Kinds}

\* An identifier with its kind.
Holdings ==
  [kind : {"cid"}, val : CIDValues]
    \cup [kind : {"encrypted"}, val : EncryptedValues]
    \cup [kind : {"nodeId"}, val : Seq(Byte)]

\* What may be on the way.
Wires ==
  {w \in [kind : Kinds, form : Forms, text : [prefix : Prefixes, of : Seq(Byte)]] :
     /\ w.form \in FormsOf(w.kind)
     /\ w.text.prefix = "null" => w.text.of = <<>>}

Garbled == [is |-> "garbled"]

-----------------------------------------------------------------------------
\* What a read yields comes from the bytes behind the prefix, or is no value.
LEMMA DecodeForms ==
    ASSUME NEW w \in Wires, NEW out \in DecodeAs(w.kind, w.form, w.text)
    PROVE  \/ out = Error
           \/ out = Garbled
           \/ w.form # "registry" /\ out = FromBytes(w.kind, w.text.of)
           \/ w.form = "registry" /\ w.kind = "cid" /\ w.text.of # <<>> /\ out = initCID(Tail(w.text.of))
<1>1. w.kind \in Kinds /\ w.form \in FormsOf(w.kind) /\ w.text.prefix \in Prefixes
      /\ w.text.of \in Seq(Byte) /\ (w.text.prefix = "null" => w.text.of = <<>>)
  BY DEF Wires
<1>2. CASE w.form \in Binary
  <2>1. w.form # "registry"
    BY <1>2 DEF Binary
  <2>2. out = FromBytes(w.kind, w.text.of)
    BY <1>2, <2>1 DEF DecodeAs, Binary
  <2> QED
    BY <2>1, <2>2
<1>3. CASE w.form = "registry"
  <2>1. w.kind = "cid"
    BY <1>1, <1>3 DEF FormsOf, Kinds, Binary, Multibases, MultibasePrefix
  <2>2. out = CIDFromRegistry(w.text.of)
    BY <1>3 DEF DecodeAs, Binary
  <2> QED
    BY <1>3, <2>1, <2>2 DEF CIDFromRegistry
<1>4. CASE w.form = "json"
  <2>1. w.kind \in {"cid", "encrypted"}
    BY <1>1, <1>4 DEF FormsOf, Kinds
  <2>2. out = FromText(w.kind, UnmarshalBase64UrlJSON(w.text))
    BY <1>4 DEF DecodeAs, Binary
  <2>3. UnmarshalBase64UrlJSON(w.text) = Ok(w.text.of)
    BY <1>1 DEF UnmarshalBase64UrlJSON, MultibaseDecodeString, Ok, Error
  <2>4. out = FromBytes(w.kind, w.text.of)
    BY <2>2, <2>3 DEF FromText, Ok
  <2> QED
    BY <1>4, <2>4
<1>5. CASE w.form \notin Binary \cup {"registry", "json"} /\ w.kind = "nodeId"
  <2>1. w.form = "string"
    BY <1>1, <1>5 DEF FormsOf, Binary
  <2>2. out = DecodeNodeId(w.text)
    BY <1>5, <2>1 DEF DecodeAs, Binary
  <2> QED
    BY <1>5, <2>2 DEF DecodeNodeId, FromBytes
<1>6. CASE w.form \notin Binary \cup {"registry", "json"} /\ w.kind # "nodeId"
  <2>1. out = FromText(w.kind, MultibaseDecodeString(w.text)) \/ out = Garbled
    BY <1>6 DEF DecodeAs, Binary, Garbled
  <2>2. MultibaseDecodeString(w.text) \in {Ok(w.text.of), Error}
    BY DEF MultibaseDecodeString
  <2>3. FromText(w.kind, Ok(w.text.of)) = FromBytes(w.kind, w.text.of) /\ FromText(w.kind, Error) = Error
    BY DEF FromText, Ok, Error
  <2> QED
    BY <1>6, <2>1, <2>2, <2>3
<1> QED
  BY <1>2, <1>3, <1>4, <1>5, <1>6

\* What a read makes of whatever is on the way.
ReadSafely(w, out) ==
  /\ out.is \in {"ok", "error", "panic", "overrun", "garbled"}
  /\ out.is = "ok" => [kind |-> w.kind, val |-> out.val] \in Holdings
  /\ out.is = "overrun" =>
       LET b == CIDPart(w) IN b # <<>> /\ b[1] = Bridge /\ Len(b) < HashLen + 2
  /\ out.is = "panic" =>
       w.kind = "encrypted" /\ Len(w.text.of) < 3 + HashLen + KeyLen + PadLen
  /\ out.is = "ok" /\ w.kind = "cid" => CIDVerify(CIDPart(w))

\* It does so whatever that is: ReadAny and ReadAnyEncrypted for each form.
LEMMA ReadIsSafe ==
    ASSUME NEW w \in Wires, NEW out \in DecodeAs(w.kind, w.form, w.text)
    PROVE  ReadSafely(w, out)
<1>1. w.kind \in Kinds /\ w.form \in FormsOf(w.kind) /\ w.text.of \in Seq(Byte)
  BY DEF Wires
<1>2. CASE out = Error \/ out = Garbled
  BY <1>2 DEF ReadSafely, Error, Garbled
<1>3. CASE w.kind = "cid" /\ out = initCID(CIDPart(w)) /\ CIDPart(w) \in Seq(Byte)
  <2>1. PICK b : b = CIDPart(w)
    OBVIOUS
  <2>2. \/ initCID(b) = Error
        \/ initCID(b) = Overrun /\ b # <<>> /\ b[1] = Bridge /\ Len(b) < HashLen + 2
        \/ \E c \in CIDValues : initCID(b) = Ok(c)
    BY <1>3, <2>1, ReadAny
  <2>3. out.is = "ok" => CIDVerify(b)
    BY <1>3, <2>1 DEF CIDVerify
  <2>4. ASSUME NEW c \in CIDValues, initCID(b) = Ok(c)
        PROVE  [kind |-> w.kind, val |-> out.val] \in Holdings
    BY <1>3, <2>1, <2>4 DEF Holdings, Ok
  <2> QED
    BY <1>3, <2>1, <2>2, <2>3, <2>4 DEF ReadSafely, Error, Overrun, Ok
<1>4. CASE w.kind = "encrypted" /\ out = EncryptedCIDFromBytes(w.text.of)
  <2>1. PICK d \in Seq(Byte) : d = w.text.of
    BY <1>1
  <2>2. PICK b : b = SubSeq(d, CIDOffset + 1, Len(d))
    OBVIOUS
  <2>3. \/ out = Error
        \/ out = Panic /\ Len(d) < CIDOffset
        \/ out = initCID(b) /\ Len(d) >= CIDOffset /\ initCID(b).is # "ok"
        \/ \E e \in EncryptedValues : out = Ok(e)
    BY <1>4, <2>1, <2>2, ReadAnyEncrypted
  <2>4. /\ CIDOffset \in Nat /\ CIDOffset + 1 = 4 + HashLen + KeyLen + PadLen
        /\ CIDOffset = 3 + HashLen + KeyLen + PadLen /\ Len(d) \in Nat
    BY Widths DEF CIDOffset
  <2>5. b = CIDPart(w)
    BY <1>4, <2>1, <2>2, <2>4 DEF CIDPart
  <2>6. CASE out = Error
    BY <2>6, <1>2
  <2>7. CASE out = Panic /\ Len(d) < CIDOffset
    BY <1>4, <2>1, <2>4, <2>7 DEF ReadSafely, Panic
  <2>8. CASE out = initCID(b) /\ Len(d) >= CIDOffset /\ initCID(b).is # "ok"
    <3>1. b \in Seq(Byte)
      <4>1. CIDOffset + 1 \in Nat \ {0} /\ CIDOffset + 1 <= Len(d) + 1 /\ Len(d) <= Len(d)
        BY <2>4, <2>8
      <4> QED
        BY <2>2, <2>4, <4>1, Between
    <3>2. out = Error \/ (out = Overrun /\ b # <<>> /\ b[1] = Bridge /\ Len(b) < HashLen + 2)
      BY <2>8, <3>1, ReadAny DEF Ok
    <3> QED
      BY <1>2, <1>4, <2>5, <3>2 DEF ReadSafely, Overrun
  <2>9. ASSUME NEW e \in EncryptedValues, out = Ok(e) PROVE ReadSafely(w, out)
    <3>1. out.is = "ok" /\ out.val = e
      BY <2>9 DEF Ok
    <3>2. [kind |-> w.kind, val |-> out.val] \in Holdings
      BY <1>4, <3>1 DEF Holdings
    <3> QED
      BY <1>4, <3>1, <3>2 DEF ReadSafely
  <2> QED
    BY <2>3, <2>6, <2>7, <2>8, <2>9
<1>5. CASE w.kind = "nodeId" /\ out = Ok(w.text.of)
  <2>1. out.is = "ok" /\ out.val = w.text.of
    BY <1>5 DEF Ok
  <2>2. [kind |-> w.kind, val |-> out.val] \in Holdings
    BY <1>1, <1>5, <2>1 DEF Holdings
  <2> QED
    BY <1>5, <2>1, <2>2 DEF ReadSafely
<1>6. CASE w.form # "registry" /\ out = FromBytes(w.kind, w.text.of)
  <2>1. CASE w.kind = "cid"
    <3>1. CIDPart(w) = w.text.of
      BY <1>6, <2>1 DEF CIDPart
    <3>2. out = initCID(w.text.of)
      BY <1>6, <2>1 DEF FromBytes
    <3> QED
      BY <1>1, <1>3, <2>1, <3>1, <3>2
  <2>2. CASE w.kind = "encrypted"
    BY <1>4, <1>6, <2>2 DEF FromBytes
  <2>3. CASE w.kind = "nodeId"
    BY <1>5, <1>6, <2>3 DEF FromBytes
  <2> QED
    BY <1>1, <2>1, <2>2, <2>3 DEF Kinds
<1>7. CASE w.form = "registry" /\ w.kind = "cid" /\ w.text.of # <<>> /\ out = initCID(Tail(w.text.of))
  <2>1. PICK d \in Seq(Byte) : d = w.text.of /\ d # <<>>
    BY <1>1, <1>7
  <2>2. Tail(d) = SubSeq(d, 2, Len(d)) /\ Tail(d) \in Seq(Byte)
    BY <2>1, TailIsSubSeq, HeadTailProperties
  <2>3. CIDPart(w) = Tail(d)
    BY <1>7, <2>1, <2>2 DEF CIDPart
  <2> QED
    BY <1>3, <1>7, <2>1, <2>2, <2>3
<1> QED
  BY <1>2, <1>6, <1>7, DecodeForms

-----------------------------------------------------------------------------
\* The kinds of what is held.
LEMMA HoldingsAre ==
    ASSUME NEW h \in Holdings
    PROVE  /\ h.kind \in Kinds
           /\ h.kind = "cid" => h.val \in CIDValues
           /\ h.kind = "encrypted" => h.val \in EncryptedValues
           /\ h.kind = "nodeId" => h.val \in Seq(Byte)
           /\ h = [kind |-> h.kind, val |-> h.val]
BY DEF Holdings, Kinds

\* What is written is read again from the same bytes, except for the text of a
\* bridge CID that has no prefix.
LEMMA TextKept ==
    ASSUME NEW h \in Holdings, NEW form \in FormsOf(h.kind)
    PROVE  /\ [kind |-> h.kind, form |-> form, text |-> EncodeAs(h.kind, form, h.val)] \in Wires
           /\ EncodeAs(h.kind, form, h.val).prefix # "null"
           /\ \A out \in DecodeAs(h.kind, form, EncodeAs(h.kind, form, h.val)) :
                \/ out = FromBytes(h.kind, RawBytes(h.kind, h.val))
                \/ h.kind = "cid" /\ h.val.type = Bridge /\ out \in {Error, Garbled}
<1> DEFINE text == EncodeAs(h.kind, form, h.val)
           raw == RawBytes(h.kind, h.val)
<1>1. h.kind \in Kinds
  BY HoldingsAre
<1>2. raw \in Seq(Byte)
  <2>1. CASE h.kind = "cid"
    BY <2>1, HoldingsAre, ReadCID DEF RawBytes
  <2>2. CASE h.kind = "encrypted"
    BY <2>2, HoldingsAre, ReadEncrypted, CidInputs DEF RawBytes
  <2>3. CASE h.kind = "nodeId"
    BY <2>3, HoldingsAre DEF RawBytes
  <2> QED
    BY <1>1, <2>1, <2>2, <2>3 DEF Kinds
<1>3. MultibasePrefix["base58"] = "z" /\ MultibasePrefix["hex"] = "f"
      /\ MultibasePrefix["base64url"] = "u" /\ MultibasePrefix["base32"] = "b"
      /\ Multibases = {"base58", "hex", "base64url", "base32"}
  BY DEF MultibasePrefix, Multibases
<1>4. form \in Forms
  BY <1>1 DEF Forms
\* A text with a multibase prefix is decoded to its bytes.
<1>5. ASSUME text = [prefix |-> text.prefix, of |-> raw], text.prefix \in {"z", "f", "u", "b"},
             form \notin Binary \cup {"registry"}, h.kind = "nodeId" => text.prefix = "z" /\ form = "string",
             NEW out \in DecodeAs(h.kind, form, text)
      PROVE  out = FromBytes(h.kind, raw)
  <2> HIDE DEF text, raw
  <2>1. text.of = raw /\ text.prefix # "plain" /\ text.prefix # "null"
    BY <1>5
  <2>2. MultibaseDecodeString(text) = Ok(raw) /\ FromText(h.kind, Ok(raw)) = FromBytes(h.kind, raw)
    BY <1>5, <2>1 DEF MultibaseDecodeString, FromText, Ok
  <2>3. UnmarshalBase64UrlJSON(text) = Ok(raw)
    BY <2>1, <2>2 DEF UnmarshalBase64UrlJSON, Ok
  <2>4. CASE form = "json"
    BY <1>5, <2>2, <2>3, <2>4 DEF DecodeAs
  <2>5. CASE h.kind = "nodeId"
    BY <1>5, <2>1, <2>5 DEF DecodeAs, DecodeNodeId, FromBytes
  <2>6. CASE form # "json" /\ h.kind # "nodeId"
    BY <1>5, <2>1, <2>2, <2>6 DEF DecodeAs
  <2> QED
    BY <2>4, <2>5, <2>6
<1>6. ASSUME text = [prefix |-> text.prefix, of |-> text.of], text.prefix \in Prefixes \ {"null"},
             text.of \in Seq(Byte)
      PROVE  [kind |-> h.kind, form |-> form, text |-> text] \in Wires /\ text.prefix # "null"
  <2> HIDE DEF text
  <2>1. text \in [prefix : Prefixes, of : Seq(Byte)]
    BY <1>6
  <2> QED
    BY <1>1, <1>4, <1>6, <2>1 DEF Wires
\* Most forms are a prefix and the bytes.
<1>7. ASSUME NEW base \in Multibases, text = ToBase(raw, base), form \notin Binary \cup {"registry"},
             h.kind = "nodeId" => base = "base58" /\ form = "string"
      PROVE  /\ [kind |-> h.kind, form |-> form, text |-> text] \in Wires
             /\ text.prefix # "null"
             /\ \A out \in DecodeAs(h.kind, form, text) : out = FromBytes(h.kind, raw)
  <2>1. text = [prefix |-> MultibasePrefix[base], of |-> raw]
    BY <1>7 DEF ToBase
  <2> HIDE DEF text, raw
  <2>2. text.prefix = MultibasePrefix[base] /\ text.of = raw
    BY <2>1
  <2>3. text.prefix \in {"z", "f", "u", "b"}
    BY <1>3, <2>2
  <2>4. text = [prefix |-> text.prefix, of |-> text.of] /\ text = [prefix |-> text.prefix, of |-> raw]
    BY <2>1, <2>2
  <2>5. text.prefix \in Prefixes \ {"null"}
    BY <2>3 DEF Prefixes
  <2> USE DEF text, raw
  <2>6. [kind |-> h.kind, form |-> form, text |-> text] \in Wires /\ text.prefix # "null"
    BY <1>2, <1>6, <2>2, <2>4, <2>5
  <2>7. h.kind = "nodeId" => text.prefix = "z" /\ form = "string"
    BY <1>3, <1>7, <2>2
  <2> QED
    BY <1>5, <1>7, <2>3, <2>4, <2>6, <2>7
<1>8. CASE form \in Binary
  <2>1. text = [prefix |-> "none", of |-> raw]
    BY <1>8 DEF EncodeAs, Binary
  <2> HIDE DEF text, raw
  <2>2. text.prefix = "none" /\ text.of = raw /\ text = [prefix |-> text.prefix, of |-> text.of]
    BY <2>1
  <2>3. DecodeAs(h.kind, form, text) = {FromBytes(h.kind, raw)}
    BY <1>8, <2>2 DEF DecodeAs, Binary
  <2>4. text.prefix \in Prefixes \ {"null"}
    BY <2>2 DEF Prefixes
  <2> QED
    BY <1>2, <1>6, <2>2, <2>3, <2>4 DEF text, raw
<1>9. CASE form = "registry"
  <2>1. h.kind = "cid"
    BY <1>1, <1>3, <1>9 DEF FormsOf, Kinds, Binary
  <2>2. raw = ToBytes(h.val)
    BY <2>1 DEF RawBytes
  <2>3. PICK a : a = <<RegistryTypeCID>> \o raw
    OBVIOUS
  <2>4. text = [prefix |-> "none", of |-> a]
    BY <1>9, <2>2, <2>3 DEF EncodeAs, Binary, ToRegistryEntry
  <2> HIDE DEF text, raw
  <2>5. text.prefix = "none" /\ text.of = a /\ text = [prefix |-> text.prefix, of |-> text.of]
    BY <2>4
  <2>6. a \in Seq(Byte) /\ a # <<>> /\ a[1] \in RegistryTypeMap /\ Tail(a) = raw
    <3>1. PICK y : y = <<RegistryTypeCID>>
      OBVIOUS
    <3>2. y \in Seq(Byte) /\ Len(y) = 1 /\ y[1] \in RegistryTypeMap
      BY <3>1, CidAssumption DEF RegistryTypeMap
    <3>3. /\ y \o raw \in Seq(Byte)
          /\ Len(y \o raw) = Len(y) + Len(raw)
          /\ \A i \in 1 .. Len(y) : (y \o raw)[i] = y[i]
      BY <1>2, <3>2, Joined
    <3>4. SubSeq(y \o raw, Len(y) + 1, Len(y) + Len(raw)) = raw
      BY <1>2, <3>2, BackSlice
    <3>5. a \in Seq(Byte) /\ Len(a) = 1 + Len(raw) /\ a[1] \in RegistryTypeMap
          /\ SubSeq(a, 2, Len(a)) = raw
      BY <2>3, <3>1, <3>2, <3>3, <3>4
    <3>6. a # <<>>
      BY <1>2, <3>5
    <3>7. Tail(a) = SubSeq(a, 2, Len(a))
      BY <3>5, <3>6, TailIsSubSeq
    <3> QED
      BY <3>5, <3>6, <3>7
  <2>7. DecodeAs(h.kind, form, text) = {CIDFromRegistry(a)}
    BY <1>9, <2>5 DEF DecodeAs, Binary
  <2>8. CIDFromRegistry(a) = FromBytes(h.kind, raw)
    BY <2>1, <2>6 DEF CIDFromRegistry, FromBytes
  <2>9. text.prefix \in Prefixes \ {"null"} /\ text.of \in Seq(Byte)
    BY <2>5, <2>6 DEF Prefixes
  <2> QED
    BY <1>6, <2>5, <2>7, <2>8, <2>9 DEF text, raw
<1>10. CASE form \in Multibases
  <2>1. text = ToBase(raw, form) /\ form \notin Binary \cup {"registry"}
    BY <1>3, <1>10 DEF EncodeAs, TextOf, Binary
  <2>2. h.kind # "nodeId"
    BY <1>3, <1>10 DEF FormsOf
  <2> QED
    BY <1>7, <1>10, <2>1, <2>2
<1>11. CASE form = "json"
  <2>1. h.kind # "nodeId"
    BY <1>11 DEF FormsOf
  <2>2. text = ToBase(raw, IF h.kind = "cid" THEN "base64url" ELSE "base58")
    BY <1>3, <1>11 DEF EncodeAs, TextOf, Binary
  <2> QED
    BY <1>3, <1>7, <1>11, <2>1, <2>2 DEF Binary
<1>12. CASE form = "string" /\ (h.kind # "cid" \/ h.val.type # Bridge)
  <2>1. text = ToBase(raw, "base58")
    BY <1>3, <1>12 DEF EncodeAs, TextOf, Binary, CIDToString, RawBytes
  <2> QED
    BY <1>3, <1>7, <1>12, <2>1 DEF Binary
<1>13. CASE form = "string" /\ h.kind = "cid" /\ h.val.type = Bridge
  <2>1. text = MultihashToString(h.val.hash)
    BY <1>3, <1>13 DEF EncodeAs, TextOf, Binary, CIDToString
  <2>2. raw = h.val.hash
    BY <1>13, TypesAreBytes DEF RawBytes, ToBytes
  <2> HIDE DEF text, raw
  <2>3. text.of = raw /\ text.prefix \in {":", "plain"} /\ text = [prefix |-> text.prefix, of |-> text.of]
    BY <2>1, <2>2 DEF MultihashToString
  <2>4. text.prefix \in Prefixes \ {"null"} /\ text.of \in Seq(Byte)
    BY <1>2, <2>3 DEF Prefixes
  <2>5. DecodeAs(h.kind, form, text) \subseteq {FromText(h.kind, MultibaseDecodeString(text)), Garbled}
    BY <1>13 DEF DecodeAs, Binary, Garbled
  <2>6. FromText(h.kind, MultibaseDecodeString(text)) \in {FromBytes(h.kind, raw), Error}
    BY <2>3 DEF FromText, MultibaseDecodeString, Ok, Error
  <2> QED
    BY <1>6, <1>13, <2>3, <2>4, <2>5, <2>6 DEF text, raw
<1> QED
  BY <1>1, <1>8, <1>9, <1>10, <1>11, <1>12, <1>13 DEF FormsOf, Kinds, Binary

\* The reference for encrypted CIDs is that of the codec's theorems.
LEMMA CanonicalEncrypted ==
    ASSUME NEW e \in EncryptedValues
    PROVE  CanonicalOf("encrypted", e) = EncryptedCanonical(e)
BY DEF CanonicalOf, EncryptedCanonical, EncryptedValues, NewEncryptedCID

\* What is written in any form and read again is the same exactly if it survives.
LEMMA ReadsBack ==
    ASSUME NEW h \in Holdings, NEW form \in FormsOf(h.kind),
           NEW out \in DecodeAs(h.kind, form, EncodeAs(h.kind, form, h.val))
    PROVE  out = Ok(CanonicalOf(h.kind, h.val)) <=> Survives(h.kind, h.val)
<1>1. \/ out = FromBytes(h.kind, RawBytes(h.kind, h.val))
      \/ h.kind = "cid" /\ h.val.type = Bridge /\ out \in {Error, Garbled}
  BY TextKept
<1>2. CASE h.kind = "cid" /\ h.val.type = Bridge /\ out \in {Error, Garbled}
  <2>1. ~ Survives(h.kind, h.val)
    BY <1>2 DEF Survives, WellFormed
  <2>2. out.is # "ok"
    BY <1>2 DEF Error, Garbled
  <2>3. out # Ok(CanonicalOf(h.kind, h.val))
    BY <2>2 DEF Ok
  <2> QED
    BY <2>1, <2>3
<1>3. CASE h.kind = "cid" /\ out = FromBytes(h.kind, RawBytes(h.kind, h.val))
  <2>1. h.val \in CIDValues
    BY <1>3, HoldingsAre
  <2>2. out = initCID(ToBytes(h.val))
    BY <1>3 DEF FromBytes, RawBytes
  <2>3. CanonicalOf(h.kind, h.val) = Canonical(h.val) /\ (Survives(h.kind, h.val) <=> WellFormed(h.val))
    BY <1>3 DEF CanonicalOf, Survives
  <2> QED
    BY <2>1, <2>2, <2>3, ReadCID
<1>4. CASE h.kind = "encrypted" /\ out = FromBytes(h.kind, RawBytes(h.kind, h.val))
  <2>1. h.val \in EncryptedValues
    BY <1>4, HoldingsAre
  <2>2. out = EncryptedCIDFromBytes(EncryptedToBytes(h.val))
    BY <1>4 DEF FromBytes, RawBytes
  <2>3. CanonicalOf(h.kind, h.val) = EncryptedCanonical(h.val)
    BY <1>4, <2>1, CanonicalEncrypted
  <2>4. Survives(h.kind, h.val) <=> WellFormed(h.val.cid)
    BY <1>4 DEF Survives
  <2>5. PadLen <= SizeLen
    BY CidInputs
  <2> QED
    BY <2>1, <2>2, <2>3, <2>4, <2>5, ReadEncrypted
<1>5. CASE h.kind = "nodeId" /\ out = FromBytes(h.kind, RawBytes(h.kind, h.val))
  BY <1>5 DEF FromBytes, RawBytes, CanonicalOf, Survives
<1> QED
  BY <1>1, <1>2, <1>3, <1>4, <1>5, HoldingsAre DEF Kinds

-----------------------------------------------------------------------------
(* The inductive invariant: what is held and what is on the way have their *)
(* types; what is known to be unharmed on the way is the form of what was  *)
(* sent; and what was read is what the last read made of it.               *)

HeldInv == held \in Holdings \cup {None}

WireInv == wire \in Wires \cup {None}

SentInv ==
  /\ sent \in Holdings \cup {None}
  /\ (sent # None /\ wire # None) =>
       /\ wire.kind = sent.kind
       /\ wire.text = EncodeAs(sent.kind, wire.form, sent.val)

ResultInv ==
  /\ result # None => ReadSafely(read, result)
  /\ RoundTrip

IInv == HeldInv /\ WireInv /\ SentInv /\ ResultInv

\* A digest with its type byte is a hash of the length the readers assume.
LEMMA HashOk ==
    ASSUME NEW t \in Byte, NEW d \in Digests
    PROVE  <<t>> \o d \in Seq(Byte) /\ Len(<<t>> \o d) = HashLen
<1>1. d \in Seq(Byte) /\ Len(d) = HashLen - 1
  BY CidInputs
<1>2. PICK y : y = <<t>>
  OBVIOUS
<1>3. y \in Seq(Byte) /\ Len(y) = 1
  BY <1>2
<1>4. y \o d \in Seq(Byte) /\ Len(y \o d) = Len(y) + Len(d)
  BY <1>1, <1>3, Joined
<1>5. HashLen \in Nat /\ 1 + (HashLen - 1) = HashLen
  BY Widths
<1> QED
  BY <1>1, <1>2, <1>3, <1>4, <1>5

\* The sizes that CIDs are made with fit their width.
LEMMA SizesOk == Sizes \subseteq 0 .. (Pow[SizeLen] - 1) /\ 0 \in 0 .. (Pow[SizeLen] - 1)
<1>1. SizeLen \in Nat
  BY Widths
<1>2. Pow[SizeLen] \in Nat /\ Pow[SizeLen] > 0
  BY <1>1, Powers
<1> QED
  BY <1>2, CidInputs

\* Holding an identifier keeps the invariant.
LEMMA HoldKeeps ==
    ASSUME IInv, NEW kind, NEW v, [kind |-> kind, val |-> v] \in Holdings, Hold(kind, v)
    PROVE  IInv'
BY DEF IInv, HeldInv, WireInv, SentInv, ResultInv, RoundTrip, Hold

\* Putting something on the way establishes it.
LEMMA PutKeeps ==
    ASSUME NEW kind, NEW form, NEW text, NEW v,
           [kind |-> kind, form |-> form, text |-> text] \in Wires,
           \/ v = None
           \/ v \in Holdings /\ kind = v.kind /\ text = EncodeAs(v.kind, form, v.val),
           PutOnWire(kind, form, text, v)
    PROVE  IInv'
BY DEF IInv, HeldInv, WireInv, SentInv, ResultInv, RoundTrip, PutOnWire

\* The invariant holds at first.
LEMMA InitInv == Init => IInv
BY DEF Init, IInv, HeldInv, WireInv, SentInv, ResultInv, RoundTrip

\* Every step keeps it.
LEMMA NextInv == IInv /\ [Next]_vars => IInv'
<1> SUFFICES ASSUME IInv, [Next]_vars PROVE IInv'
  OBVIOUS
<1>1. CASE MakeCID
  <2>1. PICK d \in Digests, size \in Sizes, t \in Byte, ht \in {HashTypeBlake3, HashTypeEd25519} :
           CIDFromHash(d, size, t, ht).is = "ok" /\ Hold("cid", CIDFromHash(d, size, t, ht).val)
    BY <1>1 DEF MakeCID
  <2>2. PICK c : c = CIDFromHash(d, size, t, ht).val
    OBVIOUS
  <2>3. t \in CIDTypeMap /\ c = NewCID(t, <<ht>> \o d, size)
    BY <2>1, <2>2 DEF CIDFromHash, Ok, Error
  <2>4. ht \in Byte
    BY CidAssumption
  <2>5. <<ht>> \o d \in Seq(Byte) /\ Len(<<ht>> \o d) = HashLen
    BY <2>4, HashOk
  <2>6. c \in CIDValues
    BY <2>3, <2>5, SizesOk DEF CIDValues, NewCID
  <2>7. [kind |-> "cid", val |-> c] \in Holdings
    BY <2>6 DEF Holdings
  <2> QED
    BY <2>1, <2>2, <2>7, HoldKeeps
<1>2. CASE MakeFromPublicKey
  <2>1. PICK d \in Digests : Hold("cid", CIDFromRegistryPublicKey(<<HashTypeEd25519>> \o d).val)
    BY <1>2 DEF MakeFromPublicKey
  <2>2. PICK pk, c : pk = <<HashTypeEd25519>> \o d /\ c = CIDFromRegistryPublicKey(pk).val
    OBVIOUS
  <2>3. HashTypeEd25519 \in Byte
    BY CidAssumption
  <2>4. pk \in Seq(Byte) /\ Len(pk) = HashLen
    BY <2>2, <2>3, HashOk
  <2>5. c = NewCID(Resolver, <<HashTypeEd25519>> \o pk, 0)
    BY <2>2, TypesAreBytes DEF CIDFromRegistryPublicKey, CIDFromHash, Ok
  <2>6. PICK h : h = <<HashTypeEd25519>> \o pk
    OBVIOUS
  <2>7. h \in Seq(Byte) /\ Len(h) = HashLen + 1
    <3>1. PICK y : y = <<HashTypeEd25519>>
      OBVIOUS
    <3>2. y \in Seq(Byte) /\ Len(y) = 1
      BY <2>3, <3>1
    <3>3. y \o pk \in Seq(Byte) /\ Len(y \o pk) = Len(y) + Len(pk)
      BY <2>4, <3>2, Joined
    <3> QED
      BY <2>4, <2>6, <3>1, <3>2, <3>3, Widths
  <2>8. c \in CIDValues
    BY <2>5, <2>6, <2>7, SizesOk, TypesAreBytes DEF CIDValues, NewCID
  <2>9. [kind |-> "cid", val |-> c] \in Holdings
    BY <2>8 DEF Holdings
  <2> QED
    BY <2>1, <2>2, <2>9, HoldKeeps
<1>3. CASE MakeNodeId
  <2>1. PICK d \in Digests : Hold("nodeId", <<HashTypeEd25519>> \o d)
    BY <1>3 DEF MakeNodeId
  <2>2. PICK v : v = <<HashTypeEd25519>> \o d
    OBVIOUS
  <2>3. v \in Seq(Byte)
    BY <2>2, HashOk, CidAssumption
  <2>4. [kind |-> "nodeId", val |-> v] \in Holdings
    BY <2>3 DEF Holdings
  <2> QED
    BY <2>1, <2>2, <2>4, HoldKeeps
<1>4. CASE Encrypt
  <2>1. held \in Holdings /\ held.kind = "cid"
    BY <1>4 DEF Encrypt, IInv, HeldInv
  <2>2. held.val \in CIDValues
    BY <2>1, HoldingsAre
  <2>3. PICK k : k = [i \in 1 .. KeyLen |-> i % Base]
    OBVIOUS
  <2>4. PICK d \in Digests, padding \in Paddings, power \in {1, Base} :
           Hold("encrypted", NewEncryptedCID(<<HashTypeBlake3>> \o d, held.val, k, padding, power, 1))
    BY <1>4, <2>3 DEF Encrypt
  <2>5. k \in Seq(Byte) /\ Len(k) = KeyLen
    <3>1. KeyLen \in Nat /\ Base \in Nat /\ Base > 0
      BY Widths
    <3>2. \A i \in 1 .. KeyLen : i % Base \in Byte
      BY <3>1 DEF Byte
    <3> QED
      BY <2>3, <3>1, <3>2
  <2>6. PICK h, e : h = <<HashTypeBlake3>> \o d /\ e = NewEncryptedCID(h, held.val, k, padding, power, 1)
    OBVIOUS
  <2>7. h \in Seq(Byte) /\ Len(h) = HashLen
    BY <2>6, HashOk, CidAssumption
  <2>8. padding \in Nat /\ power \in Nat /\ 1 \in Byte
    BY CidInputs, Widths DEF Byte
  <2>9. e \in EncryptedValues
    BY <2>2, <2>5, <2>6, <2>7, <2>8 DEF EncryptedValues, NewEncryptedCID
  <2>10. [kind |-> "encrypted", val |-> e] \in Holdings
    BY <2>9 DEF Holdings
  <2> QED
    BY <2>4, <2>6, <2>10, HoldKeeps
<1>5. CASE Copy
  <2>1. held \in Holdings /\ held.kind = "cid"
    BY <1>5 DEF Copy, IInv, HeldInv
  <2>2. held.val \in CIDValues
    BY <2>1, HoldingsAre
  <2>3. PICK t \in Byte, size \in Sizes :
           CopyWith(held.val, t, size).is = "ok" /\ Hold("cid", CopyWith(held.val, t, size).val)
    BY <1>5 DEF Copy
  <2>4. PICK c : c = CopyWith(held.val, t, size).val
    OBVIOUS
  <2>5. \E type \in CIDTypeMap : c = NewCID(type, held.val.hash, size)
    BY <2>3, <2>4 DEF CopyWith, Ok, Error
  <2>6. c \in CIDValues
    BY <2>2, <2>5, SizesOk DEF CIDValues, NewCID
  <2>7. [kind |-> "cid", val |-> c] \in Holdings
    BY <2>6 DEF Holdings
  <2> QED
    BY <2>3, <2>4, <2>7, HoldKeeps
<1>6. CASE Drop
  BY <1>6 DEF IInv, HeldInv, WireInv, SentInv, ResultInv, RoundTrip, Drop
<1>7. CASE Send
  <2>1. held \in Holdings
    BY <1>7 DEF Send, IInv, HeldInv
  <2>2. PICK form \in FormsOf(held.kind) :
           PutOnWire(held.kind, form, EncodeAs(held.kind, form, held.val), held)
    BY <1>7 DEF Send
  <2>3. PICK kind, text, v : kind = held.kind /\ text = EncodeAs(held.kind, form, held.val) /\ v = held
    OBVIOUS
  <2>4. [kind |-> kind, form |-> form, text |-> text] \in Wires
    BY <2>1, <2>3, TextKept
  <2> QED
    BY <2>1, <2>2, <2>3, <2>4, PutKeeps
<1>8. CASE SendRegistryCID
  <2>1. held \in Holdings /\ held.kind = "cid"
    BY <1>8 DEF SendRegistryCID, IInv, HeldInv
  <2>2. PICK c : c = held.val
    OBVIOUS
  <2>3. c \in CIDValues /\ held = [kind |-> "cid", val |-> c]
    BY <2>1, <2>2, HoldingsAre
  <2>4. PICK v : v = [held EXCEPT !.val.type = Resolver]
    OBVIOUS
  <2>5. PICK r : r = NewCID(Resolver, c.hash, c.size)
    OBVIOUS
  <2>6. v = [kind |-> "cid", val |-> r]
    BY <2>3, <2>4, <2>5 DEF CIDValues, NewCID
  <2>7. r \in CIDValues
    BY <2>3, <2>5, TypesAreBytes DEF CIDValues, NewCID
  <2>8. v \in Holdings /\ v.kind = "cid" /\ v.val = r
    BY <2>6, <2>7 DEF Holdings
  <2>9. ToRegistryCID(c) = ToBytes(r)
    BY <2>5, TypesAreBytes, CidAssumption DEF ToRegistryCID, CopyWith, Ok
  <2>10. PICK text : text = [prefix |-> "none", of |-> ToRegistryCID(c)]
    OBVIOUS
  <2>11. text = EncodeAs("cid", "bytes", r)
    BY <2>9, <2>10 DEF EncodeAs, Binary, RawBytes
  <2>12. "bytes" \in FormsOf("cid")
    BY DEF FormsOf, Binary
  <2>13. [kind |-> "cid", form |-> "bytes", text |-> text] \in Wires
    BY <2>8, <2>11, <2>12, TextKept
  <2>14. PutOnWire("cid", "bytes", text, v)
    BY <1>8, <2>2, <2>4, <2>10 DEF SendRegistryCID
  <2> QED
    BY <2>8, <2>11, <2>13, <2>14, PutKeeps
<1>9. CASE Receive
  <2>1. PICK bytes \in Foreign, kind \in {"cid", "encrypted"}, form \in {"bytes", "registry"} :
           form \in FormsOf(kind) /\ PutOnWire(kind, form, [prefix |-> "none", of |-> bytes], None)
    BY <1>9 DEF Receive
  <2>2. PICK text : text = [prefix |-> "none", of |-> bytes]
    OBVIOUS
  <2>3. text \in [prefix : Prefixes, of : Seq(Byte)] /\ text.prefix # "null"
    BY <2>2, CidInputs DEF Prefixes
  <2>4. kind \in Kinds /\ form \in Forms
    BY <2>1 DEF Kinds, Forms
  <2>5. [kind |-> kind, form |-> form, text |-> text] \in Wires
    BY <2>1, <2>3, <2>4 DEF Wires
  <2> QED
    BY <2>1, <2>2, <2>5, PutKeeps
<1>10. CASE ReceiveNull
  <2>1. PICK kind \in {"cid", "encrypted"} : PutOnWire(kind, "json", [prefix |-> "null", of |-> <<>>], None)
    BY <1>10 DEF ReceiveNull
  <2>2. PICK text : text = [prefix |-> "null", of |-> <<>>]
    OBVIOUS
  <2>3. text \in [prefix : Prefixes, of : Seq(Byte)] /\ text.of = <<>>
    BY <2>2 DEF Prefixes
  <2>4. kind \in Kinds /\ "json" \in FormsOf(kind)
    BY DEF Kinds, FormsOf
  <2>5. "json" \in Forms
    BY <2>4 DEF Forms
  <2>6. [kind |-> kind, form |-> "json", text |-> text] \in Wires
    BY <2>3, <2>4, <2>5 DEF Wires
  <2> QED
    BY <2>1, <2>2, <2>6, PutKeeps
<1>11. CASE Damage
  <2>1. wire \in Wires /\ sent \in Holdings /\ wire.kind = sent.kind
        /\ wire.text = EncodeAs(sent.kind, wire.form, sent.val)
    BY <1>11 DEF Damage, IInv, WireInv, SentInv
  <2>2. PICK w : w = wire
    OBVIOUS
  <2>3. PICK bytes \in {SubSeq(w.text.of, 1, n) : n \in 0 .. (Len(w.text.of) - 1)}
                          \cup {Append(w.text.of, b) : b \in Byte} :
           wire' = [w EXCEPT !.text.of = bytes]
    BY <1>11, <2>2 DEF Damage
  <2>4. w.text.of \in Seq(Byte) /\ w.form \in FormsOf(w.kind) /\ w.kind \in Kinds
        /\ w.text.prefix \in Prefixes /\ w.form \in Forms
    BY <2>1, <2>2 DEF Wires
  <2>5. w.text.prefix # "null"
    BY <2>1, <2>2, <2>4, TextKept
  <2>6. bytes \in Seq(Byte)
    <3>1. ASSUME NEW n \in 0 .. (Len(w.text.of) - 1) PROVE SubSeq(w.text.of, 1, n) \in Seq(Byte)
      <4>1. n \in Nat /\ 1 \in Nat \ {0} /\ 1 <= n + 1 /\ n <= Len(w.text.of)
        BY <2>4
      <4> QED
        BY <2>4, <4>1, Between
    <3>2. ASSUME NEW b \in Byte PROVE Append(w.text.of, b) \in Seq(Byte)
      BY <2>4
    <3> QED
      BY <2>3, <3>1, <3>2
  <2>7. [w EXCEPT !.text.of = bytes]
          = [kind |-> w.kind, form |-> w.form, text |-> [prefix |-> w.text.prefix, of |-> bytes]]
    BY <2>1, <2>2 DEF Wires
  <2>8. wire' \in Wires
    BY <2>3, <2>4, <2>5, <2>6, <2>7 DEF Wires
  <2>9. sent' = None /\ UNCHANGED <<held, result, read>>
    BY <1>11 DEF Damage
  <2> QED
    BY <2>8, <2>9 DEF IInv, HeldInv, WireInv, SentInv, ResultInv, RoundTrip
<1>12. CASE Read
  <2>1. wire \in Wires
    BY <1>12 DEF Read, IInv, WireInv
  <2>2. PICK w : w = wire
    OBVIOUS
  <2>3. PICK out \in DecodeAs(w.kind, w.form, w.text) :
           /\ result' = out
           /\ held' = IF out.is = "ok" THEN [kind |-> w.kind, val |-> out.val] ELSE None
    BY <1>12, <2>2 DEF Read
  <2>4. read' = w /\ wire' = None /\ sent' = sent
    BY <1>12, <2>2 DEF Read
  <2>5. ReadSafely(w, out)
    BY <2>1, <2>2, ReadIsSafe
  <2>6. HeldInv'
    BY <2>3, <2>5 DEF HeldInv, ReadSafely
  <2>7. WireInv' /\ SentInv'
    BY <2>4 DEF WireInv, SentInv, IInv
  <2>8. RoundTrip'
    <3>1. PICK s : s = sent
      OBVIOUS
    <3>2. ASSUME s # None PROVE out = Ok(CanonicalOf(s.kind, s.val)) <=> Survives(s.kind, s.val)
      <4>1. s \in Holdings /\ w.kind = s.kind /\ w.text = EncodeAs(s.kind, w.form, s.val)
        BY <1>12, <2>2, <3>1, <3>2 DEF IInv, SentInv, Read
      <4>2. w.form \in FormsOf(s.kind)
        BY <2>1, <2>2, <4>1 DEF Wires
      <4> QED
        BY <4>1, <4>2, ReadsBack
    <3> QED
      BY <2>3, <2>4, <3>1, <3>2 DEF RoundTrip
  <2>9. ResultInv'
    BY <2>3, <2>4, <2>5, <2>8 DEF ResultInv
  <2> QED
    BY <2>6, <2>7, <2>9 DEF IInv
<1>13. CASE UNCHANGED vars
  BY <1>13 DEF IInv, HeldInv, WireInv, SentInv, ResultInv, RoundTrip, vars
<1> QED
  BY <1>1, <1>2, <1>3, <1>4, <1>5, <1>6, <1>7, <1>8, <1>9, <1>10, <1>11, <1>12, <1>13 DEF Next

\* The inductive invariant holds of every behaviour of the identifiers.
THEOREM Invariance == Spec => []IInv
BY InitInv, NextInv, PTL DEF Spec

-----------------------------------------------------------------------------
\* Identifiers keep their types, and their sizes the width of eight bytes,
\* whatever bytes they were read from (encoding/cid.go, utils/endian.go).
THEOREM TypeCorrect == Spec => []TypeOK
<1>1. IInv => TypeOK
  <2> SUFFICES ASSUME IInv PROVE TypeOK
    OBVIOUS
  <2>1. ASSUME held # None
        PROVE  /\ held.kind \in Kinds
               /\ held.kind = "cid" =>
                    /\ held.val.type \in CIDTypeMap
                    /\ held.val.hash \in Seq(Byte)
                    /\ held.val.size \in 0 .. (Pow[SizeLen] - 1)
               /\ held.kind = "encrypted" => held.val.cid.size \in 0 .. (Pow[SizeLen] - 1)
    <3>1. held \in Holdings
      BY <2>1 DEF IInv, HeldInv
    <3> QED
      BY <3>1, HoldingsAre DEF CIDValues, EncryptedValues
  <2>2. wire # None => wire.form \in FormsOf(wire.kind) /\ wire.text.of \in Seq(Byte)
    BY DEF IInv, WireInv, Wires
  <2>3. result # None => result.is \in {"ok", "error", "panic", "overrun", "garbled"}
    BY DEF IInv, ResultInv, ReadSafely
  <2> QED
    BY <2>1, <2>2, <2>3 DEF TypeOK
<1> QED
  BY <1>1, Invariance, PTL

\* Whatever bytes arrive, a read ends in a value or an error except in the two
\* places that FailsSafely names (initCID, EncryptedCIDFromBytes).
THEOREM ReadsSafe == Spec => []FailsSafely
<1>1. IInv => FailsSafely
  BY DEF IInv, ResultInv, ReadSafely, FailsSafely
<1> QED
  BY <1>1, Invariance, PTL

\* An identifier that reached its reader unharmed is read as it was, in each form
\* and after any history, exactly if it survives (cid.go, encrypted_cid.go,
\* nodeid.go, multibase.go: the writers and readers of each form).
THEOREM RoundTrips == Spec => []RoundTrip
<1>1. IInv => RoundTrip
  BY DEF IInv, ResultInv
<1> QED
  BY <1>1, Invariance, PTL

\* Well formed CIDs have the same bytes only if they are read as the same.
LEMMA SameBytes ==
    ASSUME NEW c \in CIDValues, NEW o \in CIDValues, WellFormed(c), WellFormed(o)
    PROVE  Equals(c, o) <=> Canonical(c) = Canonical(o)
<1>1. ASSUME Equals(c, o) PROVE Canonical(c) = Canonical(o)
  <2>1. initCID(ToBytes(c)) = Ok(Canonical(c)) /\ initCID(ToBytes(o)) = Ok(Canonical(o))
    BY ReadCID
  <2>2. Ok(Canonical(c)).val = Ok(Canonical(o)).val
    BY <1>1, <2>1 DEF Equals
  <2> QED
    BY <2>2 DEF Ok
<1>2. ASSUME Canonical(c) = Canonical(o) PROVE Equals(c, o)
  <2>1. NewCID(c.type, c.hash, IF c.type = Raw THEN c.size ELSE 0)
          = NewCID(o.type, o.hash, IF o.type = Raw THEN o.size ELSE 0)
    BY <1>2, CanonicalIs
  <2>2. c.type = o.type /\ c.hash = o.hash /\ (c.type = Raw => c.size = o.size)
    BY <2>1 DEF NewCID
  <2> QED
    BY <2>2 DEF Equals, ToBytes
<1> QED
  BY <1>1, <1>2

\* Equals tells well formed CIDs apart exactly by type, hash and, for raw ones,
\* size, as their bytes are read as different ones (cid.go Equals, HashCode).
THEOREM EqualityExact == Spec => []EqualsExact
<1>1. IInv => EqualsExact
  <2> SUFFICES ASSUME IInv, held # None /\ held.kind = "cid" /\ WellFormed(held.val),
                      NEW other \in {c \in CIDs : c.type # Bridge}
               PROVE  /\ Equals(held.val, other) <=> Canonical(held.val) = Canonical(other)
                      /\ Equals(held.val, other) =>
                           HashCode(ToBytes(held.val)) = HashCode(ToBytes(other))
    BY DEF EqualsExact
  <2>1. held.val \in CIDValues
    BY HoldingsAre DEF IInv, HeldInv
  <2>2. PICK ht \in {HashTypeBlake3, HashTypeEd25519}, d \in Digests : other.hash = <<ht>> \o d
    BY DEF CIDs
  <2>3. ht \in Byte
    BY CidAssumption
  <2>4. other.hash \in Seq(Byte) /\ Len(other.hash) = HashLen
    BY <2>2, <2>3, HashOk
  <2>5. other \in CIDValues
    <3>1. other = NewCID(other.type, other.hash, other.size)
      BY DEF CIDs, NewCID
    <3>2. other.type \in CIDTypeMap /\ other.size \in 0 .. (Pow[SizeLen] - 1)
      <4>1. other.type \in CIDTypeMap /\ other.size \in Sizes
        BY DEF CIDs
      <4> QED
        BY <4>1, SizesOk
    <3>3. PICK t, h, n : t = other.type /\ h = other.hash /\ n = other.size
      OBVIOUS
    <3>4. NewCID(t, h, n) \in CIDValues
      BY <2>4, <3>2, <3>3 DEF CIDValues, NewCID
    <3> QED
      BY <3>1, <3>3, <3>4
  <2>6. WellFormed(other)
    BY <2>4 DEF WellFormed
  <2>7. Equals(held.val, other) <=> Canonical(held.val) = Canonical(other)
    BY <2>1, <2>5, <2>6, SameBytes
  <2> QED
    BY <2>7 DEF Equals
<1> QED
  BY <1>1, Invariance, PTL
=============================================================================
