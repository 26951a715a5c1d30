------------------------------ MODULE Negentropy ------------------------------
(* Set reconciliation (wrappers/nip77.ts): two sides hold items ordered by     *)
(* timestamp and id, and send each other messages of ranges until one side has *)
(* nothing to answer.  A client may also face this repository's relay, which   *)
(* knows one message only (relay/core/negentropy/Codec.ts).                    *)
(* A fingerprint, the first 16 bytes of a SHA-256 of the sum and number of the *)
(* ids in a range, stands for the set of those ids: collisions are left out.   *)
(* The length of a message counts its parts and ids instead of bytes.          *)
EXTENDS Integers, FiniteSets, Sequences, SequencesExt

CONSTANTS Ids,
          Storages,       \* what a side may hold
          TimeOf,         \* created_at of each, which its id determines
          BytesOf,        \* the bytes of each id
          Buckets,        \* 16
          MaxFrame,       \* frameSizeLimit - 200
          VarIntBits,     \* 32: the width of the operators << and | in decodeVarInt
          MaxInitiates,   \* bound: initiate calls of one exchange
          PeerKinds       \* "object", another Negentropy object, or "relay", this repository's

Infinity == 2 ^ VarIntBits      \* Number.MAX_VALUE
Sides == {"client", "peer"}

\* One split always fits in a frame (frameSizeLimit is at least 4096), and timestamps stay
\* below the 32nd bit, which decodeVarInt reads as a sign (from 2038 on).  Ids have one length.
ASSUME NegentropyAssumption ==
    /\ Storages \subseteq SUBSET Ids /\ \A X \in Storages : IsFiniteSet(X)
    /\ Buckets \in Nat \ {0, 1}
    /\ MaxFrame \in Nat /\ MaxFrame > 2 * Buckets
    /\ 2 ^ (VarIntBits - 1) \in Nat \ {0, 1} /\ 2 ^ VarIntBits = 2 * 2 ^ (VarIntBits - 1)
    /\ TimeOf \in [Ids -> 0..(2 ^ (VarIntBits - 1) - 2)]
    /\ BytesOf \in [Ids -> Seq(Nat)]
    /\ \A i, j \in Ids : Len(BytesOf[i]) = Len(BytesOf[j]) /\ (BytesOf[i] = BytesOf[j] => i = j)
    /\ PeerKinds \subseteq {"object", "relay"}

VARIABLES peerIs,
          items,          \* the sealed storage of each side
          message,        \* the message in flight, as it is encoded
          receiver,       \* who it is for, or "nobody" when the exchange is over
          have, need,     \* what the callbacks of each side were given
          lastTimestampOut, \* of the client's object: initiate does not reset it
          initiates,      \* history
          rounds,         \* history: messages answered since the last initiate
          cuts            \* history: how many answers in a row the frame limit cut off, up to 2

negVars ==
    <<peerIs, items, message, receiver, have, need, lastTimestampOut, initiates, rounds, cuts>>

NegInit ==
    /\ peerIs \in PeerKinds
    /\ items \in [Sides -> Storages]
    /\ message = << >> /\ receiver = "nobody"
    /\ have = [s \in Sides |-> {}] /\ need = [s \in Sides |-> {}]
    /\ lastTimestampOut = 0 /\ initiates = 0 /\ rounds = 0 /\ cuts = 0

-----------------------------------------------------------------------------
(* Storage *)

\* compareUint8Array(a, b) < 0
BytesBefore(a, b) ==
    \E i \in DOMAIN b : /\ \A j \in 1..(i - 1) : j \in DOMAIN a /\ a[j] = b[j]
                        /\ i \in DOMAIN a => a[i] < b[i]

\* itemCompare(a, b) < 0, of items and bounds
Before(a, b) ==
    \/ a.timestamp < b.timestamp
    \/ a.timestamp = b.timestamp /\ BytesBefore(a.id, b.id)

Bound(timestamp, id) == [timestamp |-> timestamp, id |-> id]
ItemOf(i) == Bound(TimeOf[i], BytesOf[i])

\* seal() sorts; storage indices are counts, so a range lower..upper holds lower+1 to upper.
Sealed(side) ==
    [k \in 1..Cardinality(items[side]) |->
       CHOOSE i \in items[side] :
           Cardinality({j \in items[side] : Before(ItemOf(j), ItemOf(i))}) = k - 1]

\* findLowerBound: the binary search in a sorted storage passes all items before the bound.
FindLowerBound(storage, begin, bound) ==
    CHOOSE u \in begin..Len(storage) :
        /\ \A i \in (begin + 1)..u : Before(ItemOf(storage[i]), bound)
        /\ u < Len(storage) => ~Before(ItemOf(storage[u + 1]), bound)

IdsIn(storage, lower, upper) == {storage[i] : i \in (lower + 1)..upper}

\* Mutant: the bound has the bytes that the two items share.
SharedBound(prev, curr) ==
    IF TimeOf[curr] # TimeOf[prev] THEN Bound(TimeOf[curr], << >>)
    ELSE LET differs == {i \in DOMAIN BytesOf[curr] : BytesOf[curr][i] # BytesOf[prev][i]}
             first == CHOOSE i \in differs : \A j \in differs : i <= j
         IN Bound(TimeOf[curr], SubSeq(BytesOf[curr], 1, first - 1))

\* getMinimalBound: the timestamp, or as many bytes as tell the two items apart.
MinimalBound(prev, curr) ==
    IF TimeOf[curr] # TimeOf[prev] THEN Bound(TimeOf[curr], << >>)
    ELSE LET differs == {i \in DOMAIN BytesOf[curr] : BytesOf[curr][i] # BytesOf[prev][i]}
             first == CHOOSE i \in differs : \A j \in differs : i <= j
         IN Bound(TimeOf[curr], SubSeq(BytesOf[curr], 1, first))

Skip(bound) == [bound |-> bound, mode |-> "Skip", ids |-> {}]
Fingerprint(bound, ids) == [bound |-> bound, mode |-> "Fingerprint", ids |-> ids]
IdList(bound, ids) == [bound |-> bound, mode |-> "IdList", ids |-> ids]

\* splitRange
SplitRange(storage, lower, upper, upperBound) ==
    LET n == upper - lower
        \* where bucket i ends: the first n % Buckets of them hold one more
        End(i) == lower + i * (n \div Buckets) + (IF i < n % Buckets THEN i ELSE n % Buckets)
    IN
    IF n < 2 * Buckets THEN <<IdList(upperBound, IdsIn(storage, lower, upper))>>
    ELSE [i \in 1..Buckets |->
            Fingerprint(IF End(i) = upper THEN upperBound
                        ELSE MinimalBound(storage[End(i)], storage[End(i) + 1]),
                        IdsIn(storage, End(i - 1), End(i)))]

-----------------------------------------------------------------------------
(* Encoding: timestamps as differences, 0 for infinity *)

EncodeVarInt(n) == n % (2 ^ VarIntBits)
DecodeVarInt(n) == IF n >= 2 ^ (VarIntBits - 1) THEN n - 2 ^ VarIntBits ELSE n

\* encodeTimestampOut; after infinity the difference is beyond any integer, and its low
\* bits are 0.
EncodeTimestamp(timestamp, last) ==
    IF timestamp = Infinity \/ last = Infinity THEN 0 ELSE EncodeVarInt(timestamp - last + 1)

EncodeMessage(ranges, last) ==
    [i \in DOMAIN ranges |->
       [ranges[i] EXCEPT !.bound.timestamp =
          EncodeTimestamp(@, IF i = 1 THEN last ELSE ranges[i - 1].bound.timestamp)]]

\* decodeTimestampIn
DecodeTimestamp(code, last) ==
    LET n == DecodeVarInt(code) IN
    IF n = 0 \/ last = Infinity THEN Infinity ELSE n - 1 + last

DecodeMessage(coded) ==
    FoldLeft(LAMBDA ranges, r :
               Append(ranges, [r EXCEPT !.bound.timestamp =
                  DecodeTimestamp(@, IF ranges = << >> THEN 0 ELSE Last(ranges).bound.timestamp)]),
             << >>, coded)

-----------------------------------------------------------------------------
(* Messages *)

Length(ranges) ==
    FoldLeft(LAMBDA n, r : n + (IF r.mode = "Skip" THEN 1 ELSE IF r.mode = "Fingerprint" THEN 2
                                ELSE 1 + Cardinality(r.ids)), 0, ranges)

\* One range of reconcile's loop, on its local variables s.
ReconcileRange(storage, s, r) ==
    LET lower == s.prevIndex
        upper == FindLowerBound(storage, lower, r.bound)
        ours == IdsIn(storage, lower, upper)
        differs == r.mode = "Fingerprint" /\ r.ids # ours
        o == IF ~differs THEN << >>
             ELSE (IF s.skip THEN <<Skip(s.prevBound)>> ELSE << >>)
                    \o SplitRange(storage, lower, upper, r.bound)
        told == [s EXCEPT !.have = IF r.mode = "IdList" THEN @ \union (ours \ r.ids) ELSE @,
                          !.need = IF r.mode = "IdList" THEN @ \union (r.ids \ ours) ELSE @]
    IN
    IF s.stopped THEN s
    ELSE IF Length(s.output \o o) > MaxFrame
    THEN [told EXCEPT !.stopped = TRUE,
            !.output = Append(@, Fingerprint(Bound(Infinity, << >>),
                                             IdsIn(storage, upper, Len(storage))))]
    ELSE [told EXCEPT !.output = @ \o o, !.skip = ~differs,
                      !.prevIndex = upper, !.prevBound = r.bound]

\* reconcile(queryMsg, onhave, onneed)
Reconciled(side, ranges) ==
    FoldLeft(LAMBDA s, r : ReconcileRange(Sealed(side), s, r),
             [prevIndex |-> 0, prevBound |-> Bound(0, << >>), skip |-> FALSE, stopped |-> FALSE,
              output |-> << >>, have |-> have[side], need |-> need[side]], ranges)

Other(side) == IF side = "client" THEN "peer" ELSE "client"

LastTimestamp(ranges, last) == IF ranges = << >> THEN last ELSE Last(ranges).bound.timestamp

\* initiate: also a second time on the same object, whose timestamp of the last bound stays.
Initiate ==
    LET storage == Sealed("client")
        ranges == SplitRange(storage, 0, Len(storage), Bound(Infinity, << >>))
    IN
    /\ initiates < MaxInitiates
    /\ message' = EncodeMessage(ranges, lastTimestampOut)
    /\ lastTimestampOut' = LastTimestamp(ranges, lastTimestampOut)
    /\ receiver' = "peer"
    /\ initiates' = initiates + 1
    /\ rounds' = 0 /\ cuts' = 0
    /\ UNCHANGED <<peerIs, items, have, need>>

\* reconcile at one side, whose answer goes to the other unless it is null.
Reconcile(side) ==
    LET s == Reconciled(side, DecodeMessage(message)) IN
    /\ receiver = side /\ ~(side = "peer" /\ peerIs = "relay")
    /\ have' = [have EXCEPT ![side] = s.have]
    /\ need' = [need EXCEPT ![side] = s.need]
    /\ message' = EncodeMessage(s.output, 0)
    /\ receiver' = IF s.output = << >> THEN "nobody" ELSE Other(side)
    /\ lastTimestampOut' = IF side = "client" THEN LastTimestamp(s.output, 0) ELSE lastTimestampOut
    /\ rounds' = rounds + 1
    /\ cuts' = IF cuts = 2 THEN 2 ELSE IF s.stopped THEN cuts + 1 ELSE 0
    /\ UNCHANGED <<peerIs, items, initiates>>

\* The relay's NEG-OPEN and NEG-MSG: decodeIdListMessage reads one range and skips its bound;
\* the answer lists what the client lacks.  Any other mode is answered NEG-ERR.
RelayAnswers ==
    /\ peerIs = "relay" /\ receiver = "peer"
    /\ IF message[1].mode = "IdList"
       THEN /\ message' = EncodeMessage(<<IdList(Bound(Infinity, << >>), items["peer"] \ message[1].ids)>>, 0)
            /\ receiver' = "client"
       ELSE message' = << >> /\ receiver' = "nobody"
    /\ rounds' = rounds + 1
    /\ UNCHANGED <<peerIs, items, have, need, lastTimestampOut, initiates, cuts>>

NegNext == Initiate \/ RelayAnswers \/ \E side \in Sides : Reconcile(side)

NegSpec == NegInit /\ [][NegNext]_negVars

-----------------------------------------------------------------------------
(* Properties *)

NegTypeOK ==
    /\ peerIs \in PeerKinds
    /\ items \in [Sides -> SUBSET Ids]
    /\ \A i \in DOMAIN message :
         message[i] \in [bound : [timestamp : 0..Infinity, id : Seq(Nat)],
                         mode : {"Skip", "Fingerprint", "IdList"}, ids : SUBSET Ids]
    /\ receiver \in Sides \union {"nobody"}
    /\ have \in [Sides -> SUBSET Ids] /\ need \in [Sides -> SUBSET Ids]
    /\ lastTimestampOut \in 0..Infinity
    /\ initiates \in 0..MaxInitiates /\ rounds \in Nat /\ cuts \in 0..2

OnlyHere(side) == items[side] \ items[Other(side)]

\* "ID exists on our side, but not their side" (nip77.ts), and the reverse: a callback is
\* never given an id on which the two sides agree.
HaveIsExact == \A side \in Sides : have[side] \subseteq OnlyHere(side)
NeedIsExact == \A side \in Sides : need[side] \subseteq OnlyHere(Other(side))

\* The same of one initiate, with the exception of what a client is told after this relay's
\* answer, which lists only what the client lacks: there every id of the client counts as
\* "have".  (A second initiate of one object codes its bounds from the last bound it sent:
\* they may be read before 0, where -1 is answered as a bound at infinity, and the ids after
\* it are taken for ids that the reader lacks.)
CallbacksAreExact == initiates = 1 => NeedIsExact /\ (peerIs = "object" => HaveIsExact)

\* When an exchange of two such objects has ended, every difference is known to one of the
\* sides: the one that was sent the ids of its range.  Ranges that were cut off by the frame
\* limit, skipped or split again are not lost, unless two answers in a row were cut off: the
\* fingerprint "for the remaining range" leaves out the range that did not fit, and the
\* second of two may be that of nothing, which a side that holds nothing there agrees to.
DifferencesAreKnown ==
    /\ OnlyHere("client") = have["client"] \union need["peer"]
    /\ OnlyHere("peer") = have["peer"] \union need["client"]

DifferencesKnown ==
    (receiver = "nobody" /\ initiates = 1 /\ peerIs = "object" /\ cuts < 2) =>
        DifferencesAreKnown

\* An exchange ends: each round but the first splits at least one range further.
ExchangeEnds == rounds <= 2 * Cardinality(items["client"] \union items["peer"]) + 2
=============================================================================
