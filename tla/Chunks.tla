------------------------------- MODULE Chunks -------------------------------
(* NIP-BE (client/NipBEService.ts): a message is compressed, cut into numbered *)
(* chunks and put together again by whoever got them.  The chunks travel over  *)
(* Bluetooth: they may be lost, repeated and reordered, and those of two       *)
(* messages mixed, for a chunk does not say which message it belongs to.       *)
EXTENDS Integers, Sequences, SequencesExt, FiniteSets

CONSTANTS Messages,       \* messages of at most MAX_MESSAGE_BYTES
          Deflated,       \* the bytes the library compresses each of them to
          ByteRange,      \* 256
          MinChunk, MaxChunk,   \* 32 and 1024
          ChunkSizes,     \* what callers ask for
          MaxReceived,    \* how many chunks one receiver takes
          Fault           \* a failed effect

Head2 == 2
Tail1 == 1

\* inflate fails on what no compression returned.
Inflate(bytes) == IF \E m \in Messages : Deflated[m] = bytes
                  THEN CHOOSE m \in Messages : Deflated[m] = bytes ELSE Fault

PayloadSize(asked) ==
    LET size == IF asked > MaxChunk THEN MaxChunk ELSE IF asked < MinChunk THEN MinChunk ELSE asked IN
    IF size - Head2 - Tail1 < 1 THEN 1 ELSE size - Head2 - Tail1

\* The indices fit the two bytes they have.
ASSUME ChunksAssumption ==
    /\ ByteRange \in Nat \ {0} /\ MinChunk \in Nat /\ MaxChunk \in Nat /\ ChunkSizes \subseteq Nat
    /\ Deflated \in [Messages -> Seq(0..(ByteRange - 1))]
    /\ \A m, n \in Messages : Deflated[m] = Deflated[n] => m = n
    /\ \A m \in Messages, asked \in ChunkSizes :
         Len(Deflated[m]) <= PayloadSize(asked) * ByteRange * ByteRange

VARIABLES air,            \* the chunks that were sent
          received,       \* those one receiver got, in order
          sentMessages    \* the messages they are of

chunkVars == <<air, received, sentMessages>>

-----------------------------------------------------------------------------
\* The k-th chunk: two bytes of index, the payload, one byte that says whether it is the last.
Fragment(message, asked) ==
    LET bytes == Deflated[message]
        size == PayloadSize(asked)
        count == IF bytes = << >> THEN 1 ELSE (Len(bytes) + size - 1) \div size
        End(k) == IF k * size < Len(bytes) THEN k * size ELSE Len(bytes)
    IN [k \in 1..count |->
          <<((k - 1) \div ByteRange) % ByteRange, (k - 1) % ByteRange>>
            \o SubSeq(bytes, (k - 1) * size + 1, End(k))
            \o <<IF End(k) >= Len(bytes) THEN 1 ELSE 0>>]

IndexOf(chunk) == chunk[1] * ByteRange + chunk[2]
PayloadOf(chunk) == SubSeq(chunk, Head2 + 1, Len(chunk) - Tail1)

\* sort keeps the order of chunks that have the same index.
Precedes(chunks, i, j) ==
    \/ IndexOf(chunks[i]) < IndexOf(chunks[j])
    \/ IndexOf(chunks[i]) = IndexOf(chunks[j]) /\ i < j
Sorted(chunks) ==
    [k \in DOMAIN chunks |->
       chunks[CHOOSE i \in DOMAIN chunks :
                Cardinality({j \in DOMAIN chunks : Precedes(chunks, j, i)}) = k - 1]]

Reassemble(chunks) ==
    LET sorted == Sorted(chunks) IN
    IF chunks = << >> THEN "nothing"
    ELSE IF \E i \in DOMAIN sorted : IndexOf(sorted[i]) # i - 1 THEN Fault
    ELSE IF Last(Last(sorted)) # 1 THEN Fault
    ELSE Inflate(FlattenSeq([i \in DOMAIN sorted |-> PayloadOf(sorted[i])]))

-----------------------------------------------------------------------------
ChunksInit == air = {} /\ received = << >> /\ sentMessages = {}

\* One message is cut and sent.
SendChunks(message, asked) ==
    /\ message \notin sentMessages
    /\ air' = air \union ToSet(Fragment(message, asked))
    /\ sentMessages' = sentMessages \union {message}
    /\ UNCHANGED received

\* A chunk arrives, perhaps again, before or after any other.
ReceiveChunk(chunk) ==
    /\ Len(received) < MaxReceived
    /\ received' = Append(received, chunk)
    /\ UNCHANGED <<air, sentMessages>>

ChunksNext ==
    \/ \E message \in Messages, asked \in ChunkSizes : SendChunks(message, asked)
    \/ \E chunk \in air : ReceiveChunk(chunk)

ChunksSpec == ChunksInit /\ [][ChunksNext]_chunkVars

-----------------------------------------------------------------------------
(* Properties *)

ChunksTypeOK == \A chunk \in air : Len(chunk) >= Head2 + Tail1 /\ chunk \in Seq(0..(ByteRange - 1))

\* Whatever was lost, repeated, reordered or mixed: what is put together without an error is a
\* message that was sent.
NothingElseIsRead == received # << >> => Reassemble(received) \in sentMessages \union {Fault}

\* All chunks of one message, each once, give it in any order.
AnyOrderIsRead ==
    \A m \in sentMessages, asked \in ChunkSizes :
        LET chunks == Fragment(m, asked) IN
        (Len(received) = Len(chunks) /\ ToSet(received) = ToSet(chunks)) => Reassemble(received) = m

ReassembledIsSent == NothingElseIsRead /\ AnyOrderIsRead
=============================================================================
