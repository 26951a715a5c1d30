------------------------------ MODULE RelayAdmin ------------------------------
(* The HTTP side of the Bun server: the information document (NIP-11) and the  *)
(* management calls (NIP-86), which change lists and fields of an object that  *)
(* is shared by all requests, between the awaits of each.  An effect given to  *)
(* runPromise runs at once; what follows its await runs later.                 *)
EXTENDS Integers, Sequences, FiniteSets

CONSTANTS AdminCalls,     \* HTTP requests with a management call
          Lists,          \* bannedPubkeys, allowedPubkeys, bannedEvents, allowedKinds, blockedIps
          AdminKeys,
          InfoFields,     \* the fields of the document
          ChangeFields,   \* those with a change method: name, description, icon
          ConfiguredInfo, \* config.relayInfo
          DefaultInfo,    \* defaultRelayInfo
          Tokens,         \* NIP-98 events: [kind, age, u, method, payload]
          Unset

HttpAuthKind == 27235

ASSUME AdminAssumption ==
    /\ ChangeFields \subseteq InfoFields
    /\ ConfiguredInfo \in [InfoFields -> {"configured", Unset}]
    /\ DefaultInfo \in [InfoFields -> {"default", Unset}]
    /\ Unset \notin AdminCalls

VARIABLES lists,            \* the admin service's maps, as sets of keys
          infoOverrides,    \* its relayInfo object, changed in place
          currentRelayInfo, \* the server's overlay
          calls,            \* what each request has come to
          changes           \* history: the changes of fields in the order they were made

adminVars == <<lists, infoOverrides, currentRelayInfo, calls, changes>>

\* {...under, ...over}
Spread(under, over) == [f \in InfoFields |-> IF over[f] # Unset THEN over[f] ELSE under[f]]

\* mergeRelayInfo of RelayInfo.ts: the limits and fees merge likewise, one level down.
RelayInfoOf(custom) == Spread(DefaultInfo, custom)

Document == Spread(RelayInfoOf(ConfiguredInfo), currentRelayInfo)

NoCall == [step |-> "idle", method |-> "none", on |-> Unset, key |-> Unset,
           authorized |-> FALSE, answer |-> {}]

AdminInit ==
    /\ lists = [l \in Lists |-> {}]
    /\ infoOverrides = [f \in InfoFields |-> Unset]
    /\ currentRelayInfo = RelayInfoOf(ConfiguredInfo)
    /\ calls = [r \in AdminCalls |-> NoCall]
    /\ changes = << >>

-----------------------------------------------------------------------------
\* validateEventFull (core/Nip98.ts): the payload tag counts when the body has members.
ValidateEventFull(t) ==
    /\ t.kind = HttpAuthKind
    /\ t.age < 60
    /\ t.u = "this URL"
    /\ t.method = "post"
    /\ t.payload = "hash of this body"

Requests ==
    [method : {"set", "delete", "list"}, on : Lists, key : AdminKeys]
      \union [method : {"change"}, on : ChangeFields, key : {Unset}]
      \union [method : {"supportedmethods", "other"}, on : {Unset}, key : {Unset}]

\* The request has an Authorization header, and waits for its body.
Request(r, q, t) ==
    /\ calls[r].step = "idle"
    /\ calls' = [calls EXCEPT ![r] =
                   [step |-> "reading", method |-> q.method, on |-> q.on, key |-> q.key,
                    authorized |-> ValidateEventFull(t), answer |-> {}]]
    /\ UNCHANGED <<lists, infoOverrides, currentRelayInfo, changes>>

\* The body has arrived, or cannot be parsed; the checks of the token are awaited.
BodyRead(r, parsed) ==
    /\ calls[r].step = "reading"
    /\ calls' = [calls EXCEPT ![r].step = IF parsed THEN "checking" ELSE "refused"]
    /\ UNCHANGED <<lists, infoOverrides, currentRelayInfo, changes>>

Unauthorized(r) ==
    /\ calls[r].step = "checking" /\ ~calls[r].authorized
    /\ calls' = [calls EXCEPT ![r].step = "refused"]
    /\ UNCHANGED <<lists, infoOverrides, currentRelayInfo, changes>>

Passes(r, method) == calls[r].step = "checking" /\ calls[r].authorized /\ calls[r].method = method

\* banpubkey, allowpubkey, banevent, allowkind, blockip
PutOnList(r) ==
    /\ Passes(r, "set")
    /\ lists' = [lists EXCEPT ![calls[r].on] = @ \union {calls[r].key}]
    /\ calls' = [calls EXCEPT ![r].step = "done"]
    /\ UNCHANGED <<infoOverrides, currentRelayInfo, changes>>

\* allowevent, disallowkind, unblockip
TakeOffList(r) ==
    /\ Passes(r, "delete")
    /\ lists' = [lists EXCEPT ![calls[r].on] = @ \ {calls[r].key}]
    /\ calls' = [calls EXCEPT ![r].step = "done"]
    /\ UNCHANGED <<infoOverrides, currentRelayInfo, changes>>

\* The list methods copy the list; listeventsneedingmoderation copies one nothing fills.
ReadList(r) ==
    /\ Passes(r, "list")
    /\ calls' = [calls EXCEPT ![r].step = "done", ![r].answer = lists[calls[r].on]]
    /\ UNCHANGED <<lists, infoOverrides, currentRelayInfo, changes>>

\* supportedmethods, and the answer to a method there is not.
AnswerAtOnce(r) ==
    /\ Passes(r, "supportedmethods") \/ Passes(r, "other")
    /\ calls' = [calls EXCEPT ![r].step = "answered"]
    /\ UNCHANGED <<lists, infoOverrides, currentRelayInfo, changes>>

\* Mutant: the change makes a new object of overrides.
ChangeFieldAlone(r) ==
    /\ Passes(r, "change")
    /\ infoOverrides' = [f \in InfoFields |-> IF f = calls[r].on THEN r ELSE Unset]
    /\ changes' = Append(changes, r)
    /\ calls' = [calls EXCEPT ![r].step = "changed"]
    /\ UNCHANGED <<lists, currentRelayInfo>>

\* changerelayname and the like: the object is changed, its effect awaited ...
ChangeField(r) ==
    /\ Passes(r, "change")
    /\ infoOverrides' = [infoOverrides EXCEPT ![calls[r].on] = r]
    /\ changes' = Append(changes, r)
    /\ calls' = [calls EXCEPT ![r].step = "changed"]
    /\ UNCHANGED <<lists, currentRelayInfo>>

\* ... then getRelayInfo, which gives the object itself ...
AskForInfo(r) ==
    /\ calls[r].step = "changed"
    /\ calls' = [calls EXCEPT ![r].step = "asked"]
    /\ UNCHANGED <<lists, infoOverrides, currentRelayInfo, changes>>

\* ... and its fields as they are now go over the overlay.
OverlayInfo(r) ==
    /\ calls[r].step = "asked"
    /\ currentRelayInfo' = Spread(currentRelayInfo, infoOverrides)
    /\ calls' = [calls EXCEPT ![r].step = "answered"]
    /\ UNCHANGED <<lists, infoOverrides, changes>>

RespondList(r) ==
    /\ calls[r].step = "done"
    /\ calls' = [calls EXCEPT ![r].step = "answered"]
    /\ UNCHANGED <<lists, infoOverrides, currentRelayInfo, changes>>

AdminNext ==
    \E r \in AdminCalls :
      \/ \E q \in Requests, t \in Tokens : Request(r, q, t)
      \/ \E parsed \in BOOLEAN : BodyRead(r, parsed)
      \/ Unauthorized(r) \/ AnswerAtOnce(r)
      \/ PutOnList(r) \/ TakeOffList(r) \/ ReadList(r) \/ RespondList(r)
      \/ ChangeField(r) \/ AskForInfo(r) \/ OverlayInfo(r)

AdminSpec == AdminInit /\ [][AdminNext]_adminVars

-----------------------------------------------------------------------------
(* Properties *)

AdminTypeOK ==
    /\ lists \in [Lists -> SUBSET AdminKeys]
    /\ infoOverrides \in [InfoFields -> AdminCalls \union {Unset}]
    /\ currentRelayInfo \in [InfoFields -> AdminCalls \union {"configured", "default", Unset}]
    /\ \A r \in AdminCalls :
         calls[r].step \in {"idle", "reading", "checking", "refused", "done", "changed", "asked",
                            "answered"}
    /\ changes \in Seq(AdminCalls)

Place(r) == CHOOSE i \in DOMAIN changes : changes[i] = r

\* Once a change of a field is answered, the document shows it or a change that was made
\* after it, however the awaits of several requests interleave.
DocumentShowsChanges ==
    \A r \in AdminCalls :
        (calls[r].method = "change" /\ calls[r].step = "answered") =>
            /\ Document[calls[r].on] \in AdminCalls
            /\ Place(Document[calls[r].on]) >= Place(r)
=============================================================================
