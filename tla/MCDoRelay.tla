------------------------------ MODULE MCDoRelay ------------------------------
(* Against a page of two: an article, a stranger's note of the same "d"     *)
(* tag that expires, a deletion request for both, whoever wrote them, and a *)
(* request to vanish; for the violations, notes older and newer than it.    *)
(* The statements of "posts", "topical" and "mentions" are not exact: the   *)
(* note has no d_tag column, its topic is not looked for, and the article   *)
(* has alice's name further on in a tag.                                    *)
EXTENDS DoRelay

CONSTANTS alice, bob, noTag, never, noLimit

Event(id, pubkey, kind, at) ==
    [id |-> id, pubkey |-> pubkey, kind |-> kind, created_at |-> at,
     d |-> noTag, e |-> {}, tagged |-> {}, further |-> {}, protected |-> FALSE, expiration |-> never]

profile1 == Event(2, alice, 0, 1)
article  == [Event(5, alice, 30023, 1) EXCEPT !.d = "post", !.further = {<<"p", alice>>}]
note     == [Event(6, bob, 1, 2) EXCEPT !.d = "post", !.expiration = 0,
                !.tagged = {<<"p", alice>>, <<"t", "topic">>, <<"search", "words">>}]
note1    == Event(7, alice, 1, 0)
note2    == Event(8, alice, 1, 2)
delete   == [Event(9, alice, DeletionKind, 2) EXCEPT !.e = {2, 5, 6}, !.tagged = {<<"p", bob>>}]
vanish   == [Event(10, alice, VanishKind, 1) EXCEPT !.e = {6}, !.tagged = {<<"p", bob>>}]

MCEvents == {article, note, delete, vanish}

Notes == {note1, note2, profile1, vanish}

Filter(authors, kinds, limit) ==
    [ids |-> {}, authors |-> authors, kinds |-> kinds, since |-> 0,
     until |-> noLimit, eTags |-> {}, dTags |-> {}, asks |-> << >>, limit |-> limit]

ofAlice   == Filter({alice}, {}, noLimit)
posts     == [Filter({}, {}, noLimit) EXCEPT !.dTags = {"post"}]
latest    == Filter({}, {1, 5}, 1)
answers   == [Filter({}, {}, 1) EXCEPT !.eTags = {6}]
toBob     == [Filter({}, {}, 1) EXCEPT !.asks = [p |-> {bob}]]
topical   == [Filter({}, {1, 5}, 1) EXCEPT !.asks = [t |-> {"topic"}, search |-> {"words"}]]
mentions  == [Filter({}, {1, 30023}, 1) EXCEPT !.asks = [p |-> {alice}]]
MCFilters == {ofAlice, posts, latest, answers, toBob, topical, mentions}

MCFilterLists ==
    { <<ofAlice, posts>>, <<latest>>, <<answers, toBob>>, <<topical, mentions>>, << >> }

OneFilter == { <<ofAlice>> }

ASSUME FiltersAreNamed ==
    \A filters \in FilterLists : \A i \in DOMAIN filters : filters[i] \in MCFilters

ASSUME TwoKindsOfFilters ==
    Events = MCEvents =>
        {f \in MCFilters : Exact(f)} = {ofAlice, latest, answers, toBob}
=============================================================================
