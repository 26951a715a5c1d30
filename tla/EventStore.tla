----------------------------- MODULE EventStore -----------------------------
(****************************************************************************)
(* The statements both SQLite stores run on the events table                *)
(* (relay/storage/EventStore.ts; relay/backends/bun/BunSqliteStore.ts and   *)
(* relay/backends/cloudflare/DoSqliteStore.ts share them).  The table is a  *)
(* set of rows: a row is the event, since its primary key is the id and the *)
(* d_tag column is a function of the event.                                 *)
(*                                                                          *)
(* "Mutant" marks a deliberate mistake, used only to show which property    *)
(* notices it.                                                              *)
(****************************************************************************)
EXTENDS NostrEvents

\* Mutant: the SELECT of an addressable event without its d_tag condition.
IncumbentsOfKind(rows, e) ==
    {x \in rows : /\ x.pubkey = e.pubkey
                  /\ x.kind = e.kind
                  /\ IsAnyReplaceableKind(e.kind)}

\* The rows that SELECT finds when a replaceable event is stored: same
\* pubkey+kind, or same pubkey+kind+d_tag; none for any other kind.
Incumbents(rows, e) ==
    {x \in rows : /\ x.pubkey = e.pubkey
                  /\ x.kind = e.kind
                  /\ \/ IsReplaceableKind(e.kind)
                     \/ /\ IsParameterizedReplaceableKind(e.kind)
                        /\ DTagValue(x) = DTagValue(e)}

\* The row stmt.get() returns: the first of them, whichever that is.
Existing(rows, e) == CHOOSE x \in Incumbents(rows, e) : TRUE

\* Mutant: a tie goes to the event that came last.
ReplaceUnlessEarlier(e, x) == e.created_at >= x.created_at

\* shouldReplace: keep the newer, on equal times the lower id.
ShouldReplace(e, x) ==
    \/ e.created_at > x.created_at
    \/ e.created_at = x.created_at /\ e.id < x.id

\* Mutant: the row loses tags of the event.
StoreBareEvent(rows, e) ==
    [stored |-> e \notin rows,
     rows   |-> rows \cup {[e EXCEPT !.d = NoTag, !.expiration = Never]}]

\* storeEvent: INSERT, which the primary key refuses for an event it has.
StoreEvent(rows, e) == [stored |-> e \notin rows, rows |-> rows \cup {e}]

\* The rows the DELETE of a replacement removes before its INSERT.
Displaced(rows, e) ==
    IF Incumbents(rows, e) = {} THEN {}
    ELSE LET x == Existing(rows, e)
         IN  IF x.id # e.id /\ ShouldReplace(e, x) THEN {x} ELSE {}

\* Mutant: the DELETE is forgotten.
StoreBeside(rows, e) ==
    LET wins == Incumbents(rows, e) = {} \/ Displaced(rows, e) # {}
    IN  [stored |-> wins, rows |-> IF wins THEN rows \cup {e} ELSE rows]

\* storeReplaceableEvent and storeParameterizedReplaceableEvent
StoreReplaceable(rows, e) ==
    LET wins == Incumbents(rows, e) = {} \/ Displaced(rows, e) # {}
    IN  [stored |-> wins,
         rows   |-> IF wins THEN (rows \ Displaced(rows, e)) \cup {e} ELSE rows]

\* The treatment of a kind: Nip16Module's pre-store hook under the registry,
\* the hard-coded branches without it.  Both choose the same statement.
Treat(rows, e) ==
    IF IsAnyReplaceableKind(e.kind) THEN StoreReplaceable(rows, e)
                                    ELSE StoreEvent(rows, e)

-----------------------------------------------------------------------------
(* A slot is what holds one version: the address of a replaceable event,    *)
(* the id of any other.                                                     *)

Slot(e) ==
    IF IsReplaceableKind(e.kind) THEN <<e.pubkey, e.kind, "">>
    ELSE IF IsParameterizedReplaceableKind(e.kind)
         THEN <<e.pubkey, e.kind, DTagValue(e)>>
         ELSE <<e.id>>

SlotsOf(S) == {Slot(e) : e \in S}

OneVersion(rows) == \A e, f \in rows : Slot(e) = Slot(f) => e = f

\* The order of the versions of a slot as NIP-01 has it: the latest, and among
\* those of one second the one with the lowest id.
Newer(f, e) ==
    /\ f.created_at >= e.created_at
    /\ f.created_at = e.created_at => f.id < e.id

\* f holds the slot of e at least as well as e itself.
Covers(f, e) == Slot(f) = Slot(e) /\ (f = e \/ Newer(f, e))

=============================================================================
