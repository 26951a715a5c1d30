--------------------------- MODULE ReplaceableLists ---------------------------
(* The lists that an account keeps as one replaceable event: its follows       *)
(* (client/FollowListService.ts, kind 3) and its relays with their modes       *)
(* (client/RelayListService.ts, kind 10002).  A change reads the list, adds or *)
(* removes an entry and publishes the whole again; several devices of one      *)
(* account do so over the relay.  A list is a function from entries to modes;  *)
(* follows have one mode, and adding one that is there changes nothing.        *)
EXTENDS EventStore

CONSTANTS Devices,
          ListEntries,        \* pubkeys, or URLs
          Modes,          \* read, write, both; or one mode for follows
          NoMode,         \* the entry is not in the list
          IsFollowList,
          ListIds,        \* ids of events, hashes
          MaxListTime,    \* bound: the clock
          NoVersion

ASSUME ListsAssumption ==
    /\ IsFollowList \in BOOLEAN /\ ListIds \subseteq Nat /\ MaxListTime \in Nat
    /\ NoMode \notin Modes
    /\ IsFollowList => \A m, n \in Modes : m = n
    /\ NoVersion \notin [created_at : 0..MaxListTime, id : ListIds,
                         list : [ListEntries -> Modes \union {NoMode}]]

VARIABLES version,        \* the event the relay stores
          usedIds,
          listClock,
          devices,        \* the call each device makes, and how far it is
          said,           \* history: the list that the calls which returned say there is
          disturbed       \* history: calls overlapped, timed out or published in one second

listVars == <<version, usedIds, listClock, devices, said, disturbed>>

EmptyList == [x \in ListEntries |-> NoMode]
NoCallYet == [step |-> "idle", add |-> FALSE, entry |-> NoMode, mode |-> NoMode,
              list |-> EmptyList, at |-> 0, id |-> 0]

ListsInit ==
    /\ version = NoVersion /\ usedIds = {} /\ listClock = 0
    /\ devices = [d \in Devices |-> NoCallYet]
    /\ said = EmptyList
    /\ disturbed = FALSE

Stored == IF version = NoVersion THEN EmptyList ELSE version.list
Busy == {d \in Devices : devices[d].step # "idle"}

\* addFollow, addRelay, removeFollow, removeRelay: the REQ of the read.
BeginChange(d, add, x, mode) ==
    /\ devices[d].step = "idle"
    /\ devices' = [devices EXCEPT ![d] = [NoCallYet EXCEPT !.step = "asked", !.add = add,
                                                           !.entry = x, !.mode = mode]]
    /\ disturbed' = (disturbed \/ Busy # {})
    /\ UNCHANGED <<version, usedIds, listClock, said>>

\* The relay answers with the event it stores.
RelayAnswers(d) ==
    /\ devices[d].step = "asked"
    /\ devices' = [devices EXCEPT ![d].step = "answered", ![d].list = Stored]
    /\ UNCHANGED <<version, usedIds, listClock, said, disturbed>>

\* Mutant: the call publishes what it adds without what it has read.
ChangedAlone(c, list) ==
    IF ~c.add THEN [list EXCEPT ![c.entry] = NoMode] ELSE [EmptyList EXCEPT ![c.entry] = c.mode]

\* The list a call publishes, given the list it has read: the same one when there is
\* nothing to do.
Changed(c, list) ==
    IF ~c.add THEN [list EXCEPT ![c.entry] = NoMode]
    ELSE IF IsFollowList /\ list[c.entry] # NoMode THEN list
    ELSE [list EXCEPT ![c.entry] = c.mode]

\* History: what the caller is told is in the list now.
AsAsked(c) == [said EXCEPT ![c.entry] = IF c.add THEN c.mode ELSE NoMode]

\* Mutant: the new version is dated a second after the clock, to be newer than the last.
ProceedsLater(d, list, id) ==
    LET c == devices[d] IN
    IF Changed(c, list) = list
    THEN /\ devices' = [devices EXCEPT ![d] = NoCallYet]
         /\ said' = AsAsked(c)
         /\ UNCHANGED usedIds
    ELSE /\ id \notin usedIds
         /\ devices' = [devices EXCEPT ![d].step = "publishing", ![d].list = Changed(c, list),
                                       ![d].at = listClock + 1, ![d].id = id]
         /\ usedIds' = usedIds \union {id}
         /\ UNCHANGED said

\* The rest of the call until its publish, with the list that getFollows or getRelayList
\* gave.  Without a change it returns accepted.
Proceeds(d, list, id) ==
    LET c == devices[d] IN
    IF Changed(c, list) = list
    THEN /\ devices' = [devices EXCEPT ![d] = NoCallYet]
         /\ said' = AsAsked(c)
         /\ UNCHANGED usedIds
    ELSE /\ id \notin usedIds
         /\ devices' = [devices EXCEPT ![d].step = "publishing", ![d].list = Changed(c, list),
                                       ![d].at = listClock, ![d].id = id]
         /\ usedIds' = usedIds \union {id}
         /\ UNCHANGED said

AnswerArrives(d, id) ==
    /\ devices[d].step = "answered"
    /\ Proceeds(d, devices[d].list, id)
    /\ UNCHANGED <<version, listClock, disturbed>>

\* 500 ms without an event: the list is taken to be empty.
ReadTimesOut(d, id) ==
    /\ devices[d].step \in {"asked", "answered"}
    /\ disturbed' = (disturbed \/ Stored # EmptyList)
    /\ Proceeds(d, EmptyList, id)
    /\ UNCHANGED <<version, listClock>>

\* The relay handles the event and answers OK true, whether it replaces what it stores or
\* not; the call returns accepted.
ListPublished(d) ==
    LET c == devices[d]
        e == [created_at |-> c.at, id |-> c.id, list |-> c.list]
    IN
    /\ c.step = "publishing"
    /\ version' = IF version = NoVersion \/ ShouldReplace(e, version) THEN e ELSE version
    /\ said' = AsAsked(c)
    /\ disturbed' = (disturbed \/ (version # NoVersion /\ version.created_at >= c.at))
    /\ devices' = [devices EXCEPT ![d] = NoCallYet]
    /\ UNCHANGED <<usedIds, listClock>>

\* The publish fails, or the device stops.
ChangeFails(d) ==
    /\ devices[d].step # "idle"
    /\ devices' = [devices EXCEPT ![d] = NoCallYet]
    /\ UNCHANGED <<version, usedIds, listClock, said, disturbed>>

ListTick ==
    /\ listClock < MaxListTime
    /\ listClock' = listClock + 1
    /\ UNCHANGED <<version, usedIds, devices, said, disturbed>>

ListsNext ==
    \/ \E d \in Devices :
         \/ \E add \in BOOLEAN, x \in ListEntries, m \in Modes : BeginChange(d, add, x, m)
         \/ RelayAnswers(d)
         \/ \E id \in ListIds : AnswerArrives(d, id) \/ ReadTimesOut(d, id)
         \/ ListPublished(d) \/ ChangeFails(d)
    \/ ListTick

ListsSpec == ListsInit /\ [][ListsNext]_listVars

-----------------------------------------------------------------------------
(* getReadRelays and getWriteRelays, of the list that is stored *)

ReadRelays == {x \in ListEntries : Stored[x] \in {"read", "both"}}
WriteRelays == {x \in ListEntries : Stored[x] \in {"write", "both"}}

ListsTypeOK ==
    /\ version = NoVersion \/
         version \in [created_at : 0..MaxListTime, id : ListIds,
                      list : [ListEntries -> Modes \union {NoMode}]]
    /\ usedIds \subseteq ListIds /\ listClock \in 0..MaxListTime
    /\ \A d \in Devices :
         /\ devices[d].step \in {"idle", "asked", "answered", "publishing"}
         /\ devices[d].list \in [ListEntries -> Modes \union {NoMode}]
         /\ devices[d].at \in 0..MaxListTime
    /\ said \in [ListEntries -> Modes \union {NoMode}]
    /\ disturbed \in BOOLEAN

\* As long as calls do not overlap, no read of a list that exists times out and no two
\* versions are of one second, the stored list is what the calls that returned accepted
\* say: every entry added is there with its last mode, none removed is.
ListIsWhatCallsSay == disturbed \/ Stored = said

\* addFollow "fetches current list, adds the new follow, and publishes updated list": what
\* the call stores keeps every entry that was there.
AddKeeps ==
    [][\A d \in Devices :
         devices[d].step = "publishing" /\ devices[d].add /\ version' # version =>
            \A x \in ListEntries : Stored[x] # NoMode => version'.list[x] # NoMode]_listVars
=============================================================================
