----------------------------- MODULE RelayAccess -----------------------------
(* What decides whether the relay takes an event: the rate limiter and NIP-70  *)
(* test of MessageHandler, the policies of the loaded modules, and NIP-42      *)
(* authentication over the ConnectionManager.  RelayCore models what happens   *)
(* to an event that is taken; here every submission is of a regular kind and   *)
(* is stored once.  The two servers never call connect, disconnect or          *)
(* createChallenge: the program that embeds the relay does, at any time.       *)
EXTENDS Integers, FiniteSets, Sequences, SequencesExt

CONSTANTS AccessConns,    \* connection ids
          Submissions,    \* events that clients submit
          AuthEvents,     \* events that clients send in AUTH messages
          Modules,        \* the loaded modules, in order
          RelayHosts,     \* hosts of Nip42Config.relayUrls
          MaxAuthAge,
          RlMax, RlWindow,\* RELAY_RL_MAX_EVENTS, RELAY_RL_WINDOW_MS
          MaxEpoch,       \* bound: connect calls of one id
          MaxChallenge,   \* bound: challenges generated
          MaxAccessTime,  \* bound: the relayClock
          Nobody

AuthEventKind == 22242
Challenges == 1..MaxChallenge

ASSUME AccessAssumption ==
    /\ MaxAuthAge \in Nat /\ RlMax \in Nat \ {0} /\ RlWindow \in Nat \ {0}
    /\ MaxEpoch \in Nat /\ MaxChallenge \in Nat /\ MaxAccessTime \in Nat
    /\ \A e \in Submissions : Nobody # e.pubkey /\ e.created_at \in Int
    /\ \A a \in AuthEvents : Nobody # a.pubkey

VARIABLES relayClock,
          contexts,       \* connectionsRef: id -> [challenge, authPubkey]
          rlBuckets,      \* id -> [startedAt, count]
          stored,           \* stored events
          challenges,     \* history: the connection and epoch each challenge was made for
          epoch,          \* history: connect calls of each id
          proven,         \* history: who has answered which connection's challenge
          storedBy,       \* history: what was stored through which connection, when
          passed          \* history: when EVENTs of each connection got past the limiter

accessVars == <<relayClock, contexts, rlBuckets, stored, challenges, epoch, proven, storedBy, passed>>

NoContext == [challenge |-> Nobody, authPubkey |-> Nobody, known |-> FALSE]
NoBucket == [startedAt |-> 0, count |-> 0]

AccessInit ==
    /\ relayClock = 0
    /\ contexts = [c \in AccessConns |-> NoContext]
    /\ rlBuckets = [c \in AccessConns |-> NoBucket]
    /\ stored = {}
    /\ challenges = << >>
    /\ epoch = [c \in AccessConns |-> 0]
    /\ proven = {}
    /\ storedBy = {}
    /\ passed = [c \in AccessConns |-> << >>]

-----------------------------------------------------------------------------
(* Policies: a decision is "Accept", "Reject" (whatever the reason) or "Shadow" *)

AcceptIf(b) == IF b THEN "Accept" ELSE "Reject"

BuiltIn(p, e) ==
    CASE p.is = "verifySignature"   -> AcceptIf(e.signed)
      [] p.is = "maxContentLength"  -> AcceptIf(e.content <= p.arg)
      [] p.is = "maxTags"           -> AcceptIf(e.tags <= p.arg)
      [] p.is = "maxTagValueLength" -> AcceptIf(e.longestTag <= p.arg)
      [] p.is = "maxFutureSeconds"  -> AcceptIf(e.created_at <= relayClock + p.arg)
      [] p.is = "maxPastSeconds"    -> AcceptIf(e.created_at >= relayClock - p.arg)
      [] p.is = "allowKinds"        -> AcceptIf(e.kind \in p.arg)
      [] p.is = "blockKinds"        -> AcceptIf(e.kind \notin p.arg)
      [] p.is = "allowPubkeys"      -> AcceptIf(e.pubkey \in p.arg)
      [] p.is = "blockPubkeys"      -> AcceptIf(e.pubkey \notin p.arg)
      [] p.is = "rejectAuthKind"    -> IF e.kind = AuthEventKind THEN "Shadow" ELSE "Accept"

\* all: the first decision that is not Accept.
AllOf(decisions) ==
    LET i == SelectInSeq(decisions, LAMBDA d : d # "Accept") IN
    IF i = 0 THEN "Accept" ELSE decisions[i]

\* any: the first decision that is not Reject.
AnyOf(decisions) ==
    LET i == SelectInSeq(decisions, LAMBDA d : d # "Reject") IN
    IF i = 0 THEN "Reject" ELSE decisions[i]

Decisions(policies, e) == [i \in DOMAIN policies |-> BuiltIn(policies[i], e)]

\* A policy of a module: a built-in one, or one combined of built-in ones.
PolicyOf(p, e) ==
    CASE p.is = "any"         -> AnyOf(Decisions(p.arg, e))
      [] p.is = "forKinds"    -> IF e.kind \in p.kinds THEN AllOf(Decisions(p.arg, e)) ELSE "Accept"
      [] p.is = "exceptKinds" -> IF e.kind \in p.kinds THEN "Accept" ELSE AllOf(Decisions(p.arg, e))
      [] OTHER                -> BuiltIn(p, e)

\* Mutant: a module that names no kinds handles none.
HandlesNamed(m, kind) == kind \in m.kinds

HandlesKind(m, kind) == m.kinds = {} \/ kind \in m.kinds

\* What the policies of one module decide.
Verdict(m, e) ==
    IF HandlesKind(m, e.kind) THEN AllOf([j \in DOMAIN m.policies |-> PolicyOf(m.policies[j], e)])
    ELSE "Accept"

\* getPolicy: the policies of every module that handles the kind, one module after the other.
Evaluate(e) == AllOf([i \in DOMAIN Modules |-> Verdict(Modules[i], e)])

\* createNip01Module; a bound it is not given is neither enforced nor advertised.
Nip01(maxContent, maxTags, future, past) ==
    [kinds |-> {},
     policies |-> <<[is |-> "verifySignature"], [is |-> "maxContentLength", arg |-> maxContent],
                    [is |-> "maxTags", arg |-> maxTags]>>
                    \o (IF future = Nobody THEN << >> ELSE <<[is |-> "maxFutureSeconds", arg |-> future]>>)
                    \o (IF past = Nobody THEN << >> ELSE <<[is |-> "maxPastSeconds", arg |-> past]>>),
     limits |-> [max_content_length |-> maxContent, max_event_tags |-> maxTags,
                 created_at_upper_limit |-> future, created_at_lower_limit |-> past]]

\* createNip42Module
Nip42(authRequired) ==
    [kinds |-> {AuthEventKind}, policies |-> <<[is |-> "rejectAuthKind"]>>,
     limits |-> [auth_required |-> IF authRequired THEN TRUE ELSE Nobody]]

\* mergeRelayInfo's limitation: for each limit the last module that gives one.
Advertised(limit) ==
    LET giving == {i \in DOMAIN Modules : /\ limit \in DOMAIN Modules[i].limits
                                          /\ Modules[i].limits[limit] # Nobody}
    IN IF giving = {} THEN Nobody
       ELSE Modules[CHOOSE i \in giving : \A j \in giving : j <= i].limits[limit]

\* Every kind of event meets a policy of m that tests the limit m advertises, if it does:
\* the policies and limits of createNip01Module, the only ones with these limits, come from
\* one configuration.
TestsLimit(m, limit, policy) ==
    (limit \in DOMAIN m.limits /\ m.limits[limit] # Nobody) =>
        /\ m.kinds = {} /\ m.limits[limit] \in Int
        /\ \E j \in DOMAIN m.policies :
             m.policies[j].is = policy /\ m.policies[j].arg = m.limits[limit]

TestsLimits(m) ==
    /\ TestsLimit(m, "max_content_length", "maxContentLength")
    /\ TestsLimit(m, "max_event_tags", "maxTags")
    /\ TestsLimit(m, "created_at_upper_limit", "maxFutureSeconds")
    /\ TestsLimit(m, "created_at_lower_limit", "maxPastSeconds")

ASSUME ModulesAssumption ==
    /\ DOMAIN Modules = 1..Len(Modules) /\ Len(Modules) \in Nat
    /\ \A i \in DOMAIN Modules :
         /\ DOMAIN Modules[i].policies = 1..Len(Modules[i].policies)
         /\ Len(Modules[i].policies) \in Nat
         /\ TestsLimits(Modules[i])

-----------------------------------------------------------------------------
(* Rate limit *)

\* Mutant: a new window starts without counting the event that starts it.
BucketFromZero(c) ==
    IF relayClock - rlBuckets[c].startedAt >= RlWindow
    THEN [startedAt |-> relayClock, count |-> 0]
    ELSE [rlBuckets[c] EXCEPT !.count = IF @ > RlMax THEN @ ELSE @ + 1]

\* checkRate.  A count above the limit is the same as the one just above.
Bucket(c) ==
    IF rlBuckets[c].count = 0 \/ relayClock - rlBuckets[c].startedAt >= RlWindow
    THEN [startedAt |-> relayClock, count |-> 1]
    ELSE [rlBuckets[c] EXCEPT !.count = IF @ > RlMax THEN @ ELSE @ + 1]

WithinRate(c) == Bucket(c).count <= RlMax

-----------------------------------------------------------------------------
(* Messages *)

IsAuthenticated(c, pubkey) == contexts[c].authPubkey # Nobody /\ contexts[c].authPubkey = pubkey

\* NIP-70: what is protected comes from its author.
MayPublish(c, e) == e.protected => IsAuthenticated(c, e.pubkey)

\* handleEvent: limiter, policies, NIP-70, store.
SubmitEvent(c, e) ==
    LET taken == WithinRate(c) /\ Evaluate(e) = "Accept" /\ MayPublish(c, e) IN
    /\ rlBuckets' = [rlBuckets EXCEPT ![c] = Bucket(c)]
    /\ passed' = IF WithinRate(c) THEN [passed EXCEPT ![c] = Append(@, relayClock)] ELSE passed
    /\ stored' = IF taken THEN stored \union {e} ELSE stored
    /\ storedBy' = IF taken /\ e \notin stored
                   THEN storedBy \union {[event |-> e, conn |-> c, epoch |-> epoch[c], at |-> relayClock]}
                   ELSE storedBy
    /\ UNCHANGED <<relayClock, contexts, challenges, epoch, proven>>

\* verifyAuthEvent: of the relay tag only the host is compared.
VerifyAuthEvent(a, challenge) ==
    /\ a.kind = AuthEventKind
    /\ relayClock - a.created_at <= MaxAuthAge /\ a.created_at - relayClock <= MaxAuthAge
    /\ a.challenge = challenge
    /\ a.host \in RelayHosts
    /\ a.signed

\* handleAuth; an AUTH that is refused leaves an earlier one in force.
HandleAuth(c, a) ==
    /\ contexts[c].challenge # Nobody
    /\ VerifyAuthEvent(a, contexts[c].challenge)
    /\ contexts' = [contexts EXCEPT ![c].authPubkey = a.pubkey]
    /\ proven' = proven \union {<<challenges[a.challenge], a.pubkey>>}
    /\ UNCHANGED <<relayClock, rlBuckets, stored, challenges, epoch, storedBy, passed>>

-----------------------------------------------------------------------------
(* Connections *)

\* Mutant: a context that is there is kept.
ManagerReconnect(c) ==
    /\ epoch[c] < MaxEpoch
    /\ contexts' = [contexts EXCEPT ![c].known = TRUE]
    /\ epoch' = [epoch EXCEPT ![c] = @ + 1]
    /\ UNCHANGED <<relayClock, rlBuckets, stored, challenges, proven, storedBy, passed>>

\* ConnectionManager.connect: a context of the same id is replaced.
ManagerConnect(c) ==
    /\ epoch[c] < MaxEpoch
    /\ contexts' = [contexts EXCEPT ![c] = [NoContext EXCEPT !.known = TRUE]]
    /\ epoch' = [epoch EXCEPT ![c] = @ + 1]
    /\ UNCHANGED <<relayClock, rlBuckets, stored, challenges, proven, storedBy, passed>>

\* ConnectionManager.disconnect: the bucket of the limiter stays.
ManagerDisconnect(c) ==
    /\ contexts[c].known
    /\ contexts' = [contexts EXCEPT ![c] = NoContext]
    /\ UNCHANGED <<relayClock, rlBuckets, stored, challenges, epoch, proven, storedBy, passed>>

\* createChallenge, and getChallenge without a challenge: kept if the context exists.
CreateChallenge(c) ==
    /\ Len(challenges) < MaxChallenge
    /\ challenges' = Append(challenges, <<c, epoch[c]>>)
    /\ contexts' = IF contexts[c].known
                   THEN [contexts EXCEPT ![c].challenge = Len(challenges) + 1] ELSE contexts
    /\ UNCHANGED <<relayClock, rlBuckets, stored, epoch, proven, storedBy, passed>>

AccessTick ==
    /\ relayClock < MaxAccessTime
    /\ relayClock' = relayClock + 1
    /\ UNCHANGED <<contexts, rlBuckets, stored, challenges, epoch, proven, storedBy, passed>>

AccessNext ==
    \/ \E c \in AccessConns :
         \/ \E e \in Submissions : SubmitEvent(c, e)
         \/ \E a \in AuthEvents : HandleAuth(c, a)
         \/ ManagerConnect(c) \/ ManagerDisconnect(c) \/ CreateChallenge(c)
    \/ AccessTick

AccessSpec == AccessInit /\ [][AccessNext]_accessVars

-----------------------------------------------------------------------------
(* Properties *)

AccessTypeOK ==
    /\ relayClock \in 0..MaxAccessTime
    /\ contexts \in [AccessConns ->
         [challenge : Challenges \union {Nobody}, known : BOOLEAN,
          authPubkey : {a.pubkey : a \in AuthEvents} \union {Nobody}]]
    /\ rlBuckets \in [AccessConns -> [startedAt : 0..MaxAccessTime, count : 0..(RlMax + 1)]]
    /\ stored \subseteq Submissions
    /\ challenges \in Seq(AccessConns \X (0..MaxEpoch))
    /\ epoch \in [AccessConns -> 0..MaxEpoch]
    /\ proven \subseteq (AccessConns \X (0..MaxEpoch)) \X {a.pubkey : a \in AuthEvents}
    /\ storedBy \subseteq [event : Submissions, conn : AccessConns,
                           epoch : 0..MaxEpoch, at : 0..MaxAccessTime]
    /\ passed \in [AccessConns -> Seq(0..MaxAccessTime)]

\* However the fixed windows fall, no period of one window's length sees more than twice
\* RELAY_RL_MAX_EVENTS of one connection past the limiter.
RateHolds ==
    \A c \in AccessConns, t \in 0..MaxAccessTime :
        Cardinality({i \in DOMAIN passed[c] : passed[c][i] \in t..(t + RlWindow - 1)}) <= 2 * RlMax

\* A connection counts as some pubkey's only after that pubkey answered a challenge that
\* was made for this connection since it last connected: no AUTH event of another
\* connection or of an earlier one of the same id counts, whatever challenges were renewed.
AuthIsProven ==
    \A c \in AccessConns : contexts[c].authPubkey # Nobody =>
        <<<<c, epoch[c]>>, contexts[c].authPubkey>> \in proven

\* A protected event was stored through a connection that its author had proven to be his.
ProtectedFromOwner ==
    \A s \in storedBy : s.event.protected => <<<<s.conn, s.epoch>>, s.event.pubkey>> \in proven

WithinLimits(limit, value) == Advertised(limit) # Nobody => value <= Advertised(limit)

\* The limits that the merge of the modules advertises (NipModule.ts) are enforced: no stored
\* event exceeds them, whichever modules were loaded in which order and whichever the merge
\* took.  The Bun server's own document also shows config.relayInfo.limitation, which nothing
\* tests and of which this says nothing.
AdvertisedIsEnforced ==
    \A s \in storedBy :
        /\ WithinLimits("max_content_length", s.event.content)
        /\ WithinLimits("max_event_tags", s.event.tags)
        /\ WithinLimits("created_at_upper_limit", s.event.created_at - s.at)
        /\ WithinLimits("created_at_lower_limit", s.at - s.event.created_at)

\* "If true, unauthenticated clients will receive auth-required errors" (Nip42Module.ts):
\* when the document says auth_required, what is stored came from an authenticated client.
AuthRequiredEnforced ==
    \A s \in storedBy : Advertised("auth_required") = TRUE =>
        \E pubkey \in {a.pubkey : a \in AuthEvents} : <<<<s.conn, s.epoch>>, pubkey>> \in proven
=============================================================================
