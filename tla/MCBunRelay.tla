----------------------------- MODULE MCBunRelay -----------------------------
(* A small author's history: two versions of a profile of the same second,  *)
(* three addressable events in two slots, a note that expires, requests     *)
(* for deletion and to vanish, a stranger who tries to delete, a protected  *)
(* note, one that does not verify and an AUTH event sent as EVENT.          *)
EXTENDS BunRelay

CONSTANTS alice, bob, noTag, never, noLimit

Event(id, pubkey, kind, at) ==
    [id |-> id, pubkey |-> pubkey, kind |-> kind, created_at |-> at,
     d |-> noTag, e |-> {}, tagged |-> {}, further |-> {}, protected |-> FALSE, expiration |-> never]

profile1 == Event(2, alice, 0, 1)
profile2 == Event(1, alice, 0, 1)
article1 == [Event(5, alice, 30023, 1) EXCEPT !.d = ""]
article2 == Event(6, alice, 30023, 2)
post     == [Event(3, alice, 30023, 2) EXCEPT !.d = "post"]
note     == [Event(4, alice, 1, 1) EXCEPT !.expiration = 0]
delete   == [Event(7, alice, DeletionKind, 2) EXCEPT !.e = {2, 4}]
vanish   == Event(8, alice, VanishKind, 1)
stranger == [Event(9, bob, DeletionKind, 2) EXCEPT !.e = {2, 4}]
secret   == [Event(10, alice, 1, 2) EXCEPT !.protected = TRUE]
forged   == Event(11, bob, 0, 1)
auth     == Event(12, bob, AuthKind, 1)

MCEvents == {profile1, profile2, article1, article2, post, note, delete, vanish,
             stranger, secret, forged, auth}

MCInvalid == {forged}

FewEvents == {profile1, profile2, note, delete}

Filter(authors, kinds, limit) ==
    [ids |-> {}, authors |-> authors, kinds |-> kinds, since |-> 0,
     until |-> noLimit, eTags |-> {}, dTags |-> {}, asks |-> << >>, limit |-> limit]

profiles  == Filter({}, {0}, noLimit)
requests  == Filter({}, {DeletionKind}, noLimit)
latest    == Filter({alice}, {0, 1}, 1)
MCFilters == {profiles, requests, latest}

MCFilterLists == { <<profiles, requests>>, <<latest>>, << >> }

ASSUME FiltersAreNamed ==
    \A filters \in FilterLists : \A i \in DOMAIN filters : filters[i] \in MCFilters
=============================================================================
