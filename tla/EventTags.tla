------------------------------ MODULE EventTags ------------------------------
(* How objects are written into the tags of an event and read back, as the     *)
(* generate* and parse* functions do it with if, forEach, push, find, filter   *)
(* and switch.  A field of an object is the sequence of its values: << >> when *)
(* it is undefined.  An element that a tag does not have is as good as "".     *)
EXTENDS Integers, Sequences, SequencesExt

At(tag, i) == IF i <= Len(tag) THEN tag[i] ELSE ""
Truthy(v) == IF v = "" THEN << >> ELSE <<v>>
FirstOrNone(values) == IF values = << >> THEN << >> ELSE <<values[1]>>
LastOrNone(values) == IF values = << >> THEN << >> ELSE <<Last(values)>>

\* Writing: if (field) push([name, field]); field.forEach(v => push([name, v]));
\* push([name, ...field]).
OneTag(name, field) == IF field = << >> \/ field[1] = "" THEN << >> ELSE << <<name, field[1]>> >>
EachTag(name, field) == [i \in DOMAIN field |-> <<name, field[i]>>]
SpreadTag(name, field) == IF field = << >> THEN << >> ELSE << <<name>> \o field >>
\* if (flag) push(tag)
FlagTag(tag, field) == IF field = << >> THEN << >> ELSE <<tag>>

\* Reading: the tags of a name, their second elements that are not empty, the one of the
\* first tag (find), the first or the last of them, the rest of the last tag.
Named(tags, name) == SelectSeq(tags, LAMBDA tag : At(tag, 1) = name)
SecondsOf(tags) == [i \in DOMAIN tags |-> At(tags[i], 2)]
ValuesOf(tags, name) == SelectSeq(SecondsOf(Named(tags, name)), LAMBDA v : v # "")
FoundOf(tags, name) == IF Named(tags, name) = << >> THEN << >> ELSE Truthy(At(Named(tags, name)[1], 2))
FirstOf(tags, name) == FirstOrNone(ValuesOf(tags, name))
LastOf(tags, name) == LastOrNone(ValuesOf(tags, name))
RestOf(tags, name) == IF Named(tags, name) = << >> THEN << >> ELSE Tail(Last(Named(tags, name)))
HasTag(tags, name, value) == IF \E i \in DOMAIN tags : At(tags[i], 1) = name /\ At(tags[i], 2) = value
                             THEN <<"true">> ELSE << >>

\* The values of the fields of an object: at most one, at most two, exactly one, a flag.
Maybe(S) == {<< >>} \union {<<s>> : s \in S}
ListsOf(S) == Maybe(S) \union (S \X S)
One(S) == {<<s>> : s \in S}
Flags == {<< >>, <<"true">>}
=============================================================================
