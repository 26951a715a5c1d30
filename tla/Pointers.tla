------------------------------- MODULE Pointers -------------------------------
(* NIP-19 entities (core/Nip19.ts): keys and ids in bech32, and profiles,      *)
(* events and addresses as TLV entries in bech32.  bech32 is a library: a      *)
(* string stands for its prefix and bytes, and one that is too long or has a   *)
(* wrong checksum for an error.  Text is its UTF-8 bytes, hex its bytes.       *)
EXTENDS Integers, Sequences, SequencesExt

CONSTANTS ByteSize,       \* 256
          KeyLen,         \* 32
          KindLen,        \* 4
          MaxBytes,       \* what BECH32_MAX_SIZE (5000 characters) leaves for bytes
          Keys32,         \* pubkeys, secret keys and ids that callers pass, of any length
          Texts,          \* relay URLs and identifiers
          Kinds32,        \* kinds
          ReceivedTexts,       \* strings from elsewhere: [prefix, bytes]
          Missing,        \* undefined
          Failed          \* a thrown error, or a failed effect

TlvSpecial == 0
TlvRelay   == 1
TlvAuthor  == 2
TlvKind    == 3

ASSUME PointersAssumption ==
    /\ ByteSize \in Nat /\ ByteSize > TlvKind
    /\ KeyLen \in 1..(ByteSize - 1) /\ KindLen \in 1..(ByteSize - 1)
    /\ Kinds32 \subseteq 0..(ByteSize ^ KindLen - 1)

VARIABLES pointer,        \* what was encoded, or Missing
          text,           \* the string: [prefix, bytes], or Failed
          decoded         \* what was decoded from it, Failed, or Missing

pointerVars == <<pointer, text, decoded>>

-----------------------------------------------------------------------------
(* TLV *)

\* encodeTLV: the length goes into one byte, whatever it is.
EncodeTLV(entries) ==
    FlattenSeq([i \in DOMAIN entries |->
                  <<entries[i].type, Len(entries[i].value) % ByteSize>> \o entries[i].value])

\* decodeTLV, from each offset on.
DecodeTLV(data) ==
    LET from[offset \in 1..(Len(data) + 1)] ==
          IF offset > Len(data) THEN << >>
          ELSE IF offset + 1 > Len(data) THEN Failed
          ELSE LET next == offset + 2 + data[offset + 1] IN
               IF next - 1 > Len(data) THEN Failed
               ELSE IF from[next] = Failed THEN Failed
               ELSE <<[type |-> data[offset], value |-> SubSeq(data, offset + 2, next - 1)]>>
                      \o from[next]
    IN from[1]

\* setUint32 and getUint32, big-endian.
KindBytes(kind) ==
    [i \in 1..KindLen |-> (kind \div (ByteSize ^ (KindLen - i))) % ByteSize]
KindOf(value) == FoldLeft(LAMBDA n, byte : n * ByteSize + byte, 0, value)

\* bech32.encode, which refuses what is too long.
Bech32(prefix, bytes) == IF Len(bytes) > MaxBytes THEN Failed ELSE [prefix |-> prefix, bytes |-> bytes]

-----------------------------------------------------------------------------
(* Encoding *)

Entry(type, value) == <<[type |-> type, value |-> value]>>
Relays(p) == [i \in DOMAIN p.relays |-> [type |-> TlvRelay, value |-> p.relays[i]]]

\* encodeNpub, encodeNsec, encodeNote
EncodeKey(p) == IF Len(p.key) # KeyLen THEN Failed ELSE Bech32(p.type, p.key)

EncodeNprofile(p) ==
    IF Len(p.pubkey) # KeyLen THEN Failed
    ELSE Bech32("nprofile", EncodeTLV(Entry(TlvSpecial, p.pubkey) \o Relays(p)))

EncodeNevent(p) ==
    IF Len(p.id) # KeyLen \/ (p.author # Missing /\ Len(p.author) # KeyLen) THEN Failed
    ELSE Bech32("nevent", EncodeTLV(
           Entry(TlvSpecial, p.id) \o Relays(p)
             \o (IF p.author = Missing THEN << >> ELSE Entry(TlvAuthor, p.author))
             \o (IF p.kind = Missing THEN << >> ELSE Entry(TlvKind, KindBytes(p.kind)))))

EncodeNaddr(p) ==
    IF Len(p.pubkey) # KeyLen THEN Failed
    ELSE Bech32("naddr", EncodeTLV(
           Entry(TlvSpecial, p.identifier) \o Relays(p)
             \o Entry(TlvAuthor, p.pubkey) \o Entry(TlvKind, KindBytes(p.kind))))

Encode(p) ==
    CASE p.type \in {"npub", "nsec", "note"} -> EncodeKey(p)
      [] p.type = "nprofile" -> EncodeNprofile(p)
      [] p.type = "nevent"   -> EncodeNevent(p)
      [] p.type = "naddr"    -> EncodeNaddr(p)

\* The *Sync functions: relays may be absent.
EncodeSync(p) ==
    IF "relays" \in DOMAIN p /\ p.relays = Missing THEN Encode([p EXCEPT !.relays = << >>])
    ELSE Encode(p)

-----------------------------------------------------------------------------
(* Decoding: the last entry of a type counts, and other types are ignored *)

Values(entries, type) ==
    LET ofType == SelectSeq(entries, LAMBDA entry : entry.type = type) IN
    [i \in DOMAIN ofType |-> ofType[i].value]
LastValue(values) == IF values = << >> THEN Missing ELSE Last(values)
HasLength(values, n) == \A i \in DOMAIN values : Len(values[i]) = n
KindIn(entries) ==
    LET value == LastValue(Values(entries, TlvKind)) IN IF value = Missing THEN Missing ELSE KindOf(value)

DecodeKey(s) == IF Len(s.bytes) # KeyLen THEN Failed ELSE [type |-> s.prefix, key |-> s.bytes]

DecodeNprofile(entries) ==
    LET pubkeys == Values(entries, TlvSpecial) IN
    IF pubkeys = << >> \/ ~HasLength(pubkeys, KeyLen) THEN Failed
    ELSE [type |-> "nprofile", pubkey |-> Last(pubkeys), relays |-> Values(entries, TlvRelay)]

DecodeNevent(entries) ==
    LET ids == Values(entries, TlvSpecial)
        authors == Values(entries, TlvAuthor)
    IN
    IF \/ ids = << >> \/ ~HasLength(ids, KeyLen) \/ ~HasLength(authors, KeyLen)
       \/ ~HasLength(Values(entries, TlvKind), KindLen)
    THEN Failed
    ELSE [type |-> "nevent", id |-> Last(ids), relays |-> Values(entries, TlvRelay),
          author |-> LastValue(authors), kind |-> KindIn(entries)]

DecodeNaddr(entries) ==
    LET identifiers == Values(entries, TlvSpecial)
        pubkeys == Values(entries, TlvAuthor)
        kinds == Values(entries, TlvKind)
    IN
    IF \/ identifiers = << >> \/ pubkeys = << >> \/ kinds = << >>
       \/ ~HasLength(pubkeys, KeyLen) \/ ~HasLength(kinds, KindLen)
    THEN Failed
    ELSE [type |-> "naddr", identifier |-> Last(identifiers), pubkey |-> Last(pubkeys),
          kind |-> KindIn(entries), relays |-> Values(entries, TlvRelay)]

\* decode, by the prefix of the string.
Decode(s) ==
    LET entries == IF s = Failed THEN Failed ELSE DecodeTLV(s.bytes) IN
    CASE s = Failed -> Failed
      [] s.prefix \in {"npub", "nsec", "note"} -> DecodeKey(s)
      [] s.prefix \notin {"npub", "nsec", "note", "nprofile", "nevent", "naddr"} -> Failed
      [] OTHER -> IF entries = Failed THEN Failed
                  ELSE IF s.prefix = "nprofile" THEN DecodeNprofile(entries)
                  ELSE IF s.prefix = "nevent" THEN DecodeNevent(entries)
                  ELSE DecodeNaddr(entries)

-----------------------------------------------------------------------------
RelayLists == {<< >>} \union {<<r>> : r \in Texts} \union (Texts \X Texts)

PointersGiven ==
    [type : {"npub", "nsec", "note"}, key : Keys32]
      \union [type : {"nprofile"}, pubkey : Keys32, relays : RelayLists \union {Missing}]
      \union [type : {"nevent"}, id : Keys32, relays : RelayLists \union {Missing},
              author : Keys32 \union {Missing}, kind : Kinds32 \union {Missing}]
      \union [type : {"naddr"}, identifier : Texts, pubkey : Keys32, kind : Kinds32,
              relays : RelayLists]

PointersInit == pointer = Missing /\ text = Failed /\ decoded = Missing

Unused == pointer = Missing /\ text = Failed /\ decoded = Missing

EncodePointer(p) ==
    /\ pointer' = p
    /\ text' = EncodeSync(p)
    /\ UNCHANGED decoded

ReceiveText(s) ==
    /\ text' = s
    /\ UNCHANGED <<pointer, decoded>>

DecodeText ==
    /\ decoded = Missing
    /\ decoded' = Decode(text)
    /\ UNCHANGED <<pointer, text>>

PointersNext ==
    \/ Unused /\ \E p \in PointersGiven : EncodePointer(p)
    \/ Unused /\ \E s \in ReceivedTexts : ReceiveText(s)
    \/ DecodeText

PointersSpec == PointersInit /\ [][PointersNext]_pointerVars

-----------------------------------------------------------------------------
(* Properties *)

\* What is accepted has keys of the right length and a kind of its bytes.
PointersTypeOK ==
    decoded \notin {Missing, Failed} =>
        /\ \A field \in {"key", "pubkey", "id"} \intersect DOMAIN decoded :
               Len(decoded[field]) = KeyLen
        /\ "kind" \in DOMAIN decoded => decoded.kind \in {Missing} \union 0..(ByteSize ^ KindLen - 1)

\* Every text fits the byte that holds its length.
FitsByte(p) ==
    /\ "relays" \in DOMAIN p => \A i \in DOMAIN p.relays : Len(p.relays[i]) < ByteSize
    /\ "identifier" \in DOMAIN p => Len(p.identifier) < ByteSize

WithRelays(p) ==
    IF "relays" \in DOMAIN p /\ p.relays = Missing THEN [p EXCEPT !.relays = << >>] ELSE p

\* What was encoded decodes to the same pointer, to the last relay and the optional fields,
\* unless a text is longer than its length byte can say.
PointersRoundTrip ==
    (pointer # Missing /\ decoded # Missing /\ text # Failed) =>
        (FitsByte(WithRelays(pointer)) => decoded = WithRelays(pointer))

\* Whatever string is accepted, with entries repeated, unknown or in another order: what was
\* decoded, encoded again, decodes to the same.
DecodedIsNormal ==
    (decoded \notin {Missing, Failed} /\ Encode(decoded) # Failed) =>
        Decode(Encode(decoded)) = decoded
=============================================================================
