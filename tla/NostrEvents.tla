----------------------------- MODULE NostrEvents -----------------------------
(****************************************************************************)
(* Events and filters as both relay backends see them: the kind ranges of   *)
(* core/Schema.ts, the expiry test of core/Nip40.ts and the filter test of  *)
(* relay/core/FilterMatcher.ts.                                             *)
(*                                                                          *)
(* An event is a record                                                     *)
(*   id, created_at, kind : Nat     (an id is a hash: ids compare as hex    *)
(*                                   strings do, so a number stands for it) *)
(*   pubkey     : the author                                                *)
(*   d          : value of the first "d" tag, or NoTag                      *)
(*   e          : the ids of its "e" tags                                   *)
(*   tagged     : what else a filter may look for, as pairs of a name and a *)
(*                value: its "p", "a" and "t" tags and, under "search", the *)
(*                phrases of its content                                    *)
(*   further    : <<"e", v>> and <<"p", v>> where such a pair stands side   *)
(*                by side in a tag, but further on than its first two       *)
(*                fields: in the JSON text of the tags and not a tag of     *)
(*                that name                                                 *)
(*   protected  : it carries the NIP-70 tag ["-"]                           *)
(*   expiration : value of its "expiration" tag, or Never                   *)
(* The signature and the tags no decision below looks at are left out.      *)
(*                                                                          *)
(* A filter is a record of ids, authors, kinds, since, until, eTags (#e),   *)
(* dTags (#d), limit, and asks: the values it gives under each of "p", "a", *)
(* "t" and "search" that it mentions.                                       *)
(****************************************************************************)
EXTENDS Integers

CONSTANTS
    Events,     \* the events clients may submit
    NoTag,      \* no such tag
    Never,      \* no expiration
    NoLimit     \* a filter without "limit" or without "until"

ASSUME EventsAssumption ==
    /\ \A e \in Events :
          /\ e.id \in Nat /\ e.created_at \in Nat /\ e.kind \in Nat
          /\ e.e \subseteq Nat
          /\ e.protected \in BOOLEAN
          /\ e.expiration \in Nat \cup {Never}
    /\ \A e, f \in Events : e.id = f.id => e = f
    /\ Never \notin Nat
    /\ NoLimit \notin Nat

-----------------------------------------------------------------------------
(* Kinds (core/Schema.ts) *)

IsReplaceableKind(k) == k = 0 \/ k = 3 \/ (k >= 10000 /\ k <= 19999)

IsParameterizedReplaceableKind(k) == k >= 30000 /\ k <= 39999

IsAnyReplaceableKind(k) ==
    IsReplaceableKind(k) \/ IsParameterizedReplaceableKind(k)

DeletionKind == 5
VanishKind   == 62
AuthKind     == 22242

\* getDTagValue(event) ?? ""
DTagValue(e) == IF e.d = NoTag THEN "" ELSE e.d

-----------------------------------------------------------------------------
(* Time (core/Nip40.ts, and the same test in BunSqliteStore.queryEvents) *)

Expired(e, t) == e.expiration # Never /\ t > e.expiration

-----------------------------------------------------------------------------
(* Filters (relay/core/FilterMatcher.ts): an empty or absent list does not  *)
(* constrain; ids and authors are whole hex strings by the Filter schema,   *)
(* so the prefix test of the code is equality here.                         *)

\* What the two backends look up alike.
MatchesColumns(e, f) ==
    /\ f.ids     # {} => e.id \in f.ids
    /\ f.authors # {} => e.pubkey \in f.authors
    /\ f.kinds   # {} => e.kind \in f.kinds
    /\ e.created_at >= f.since
    /\ f.until # NoLimit => e.created_at <= f.until

MatchesFilter(e, f) ==
    /\ MatchesColumns(e, f)
    /\ f.eTags # {} => f.eTags \cap e.e # {}
    /\ f.dTags # {} => e.d \in f.dTags
    /\ \A name \in DOMAIN f.asks : \E v \in f.asks[name] : <<name, v>> \in e.tagged

\* OR over the filters of a subscription; no filter at all matches nothing.
MatchesFilters(e, filters) ==
    \E i \in DOMAIN filters : MatchesFilter(e, filters[i])

=============================================================================
