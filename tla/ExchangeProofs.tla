---------------------------- MODULE ExchangeProofs ----------------------------
(****************************************************************************)
(* The safety properties of what clients and relays give each other, for    *)
(* any connections, events, requests and modules: who may write through a   *)
(* connection, what the limiter lets past, what the information document    *)
(* shows and promises.                                                      *)
(****************************************************************************)
EXTENDS MCExchange, ServiceProofs

-----------------------------------------------------------------------------
(* Policies                                                                  *)

\* A set of positive numbers that is not empty has a least one.
LEMMA LeastOf ==
    ASSUME NEW I, I \subseteq Nat, I # {}
    PROVE  Min(I) \in I /\ \A j \in I : Min(I) <= j
  <1>1. \E z \in I : \A y \in I : z <= y
    BY LeastNumber
  <1> QED
    BY <1>1 DEF Min

\* When all of a list of decisions is Accept, each of them is.
LEMMA AcceptedByAll ==
    ASSUME NEW d, DOMAIN d = 1..Len(d), Len(d) \in Nat, AllOf(d) = "Accept", NEW i \in DOMAIN d
    PROVE  d[i] = "Accept"
  <1> DEFINE I == {j \in 1..Len(d) : d[j] # "Accept"}
  <1>1. I \subseteq Nat
    OBVIOUS
  <1>2. AllOf(d) = IF I = {} THEN "Accept" ELSE d[Min(I)]
    <2>1. CASE I = {}
      BY <2>1 DEF AllOf, SelectInSeq
    <2>2. CASE I # {}
      <3>1. Min(I) \in I
        BY <1>1, <2>2, LeastOf
      <3>2. Min(I) # 0
        BY <3>1
      <3> QED
        BY <2>2, <3>2 DEF AllOf, SelectInSeq
    <2> QED
      BY <2>1, <2>2
  <1>3. I = {}
    <2>1. ASSUME I # {}
          PROVE  FALSE
      <3>1. Min(I) \in I
        BY <1>1, <2>1, LeastOf
      <3> QED
        BY <1>2, <2>1, <3>1
    <2> QED
      BY <2>1
  <1> QED
    BY <1>3

\* A module that tests a limit stores nothing beyond it.
LEMMA VerdictOfLimit ==
    ASSUME ModulesAssumption, NEW e, Evaluate(e) = "Accept", NEW i \in DOMAIN Modules,
           NEW limit, NEW policy, TestsLimit(Modules[i], limit, policy),
           limit \in DOMAIN Modules[i].limits, Modules[i].limits[limit] # Nobody
    PROVE  /\ Modules[i].limits[limit] \in Int
           /\ \E p : /\ p.is = policy /\ p.arg = Modules[i].limits[limit]
                     /\ PolicyOf(p, e) = "Accept"
  <1>1. PICK d : d = [k \in DOMAIN Modules |-> Verdict(Modules[k], e)]
    OBVIOUS
  <1>2. DOMAIN d = 1..Len(Modules) /\ Len(Modules) \in Nat /\ Len(d) = Len(Modules)
    BY <1>1 DEF ModulesAssumption
  <1>3. AllOf(d) = "Accept"
    BY <1>1 DEF Evaluate
  <1>4. d[i] = "Accept"
    BY <1>1, <1>2, <1>3, AcceptedByAll
  <1>5. Verdict(Modules[i], e) = "Accept"
    BY <1>1, <1>4
  <1>6. /\ Modules[i].kinds = {} /\ Modules[i].limits[limit] \in Int
        /\ \E j \in DOMAIN Modules[i].policies :
             /\ Modules[i].policies[j].is = policy
             /\ Modules[i].policies[j].arg = Modules[i].limits[limit]
    BY DEF TestsLimit
  <1>7. PICK q : q = [j \in DOMAIN Modules[i].policies |-> PolicyOf(Modules[i].policies[j], e)]
    OBVIOUS
  <1>8. DOMAIN q = 1..Len(Modules[i].policies) /\ Len(Modules[i].policies) \in Nat
    BY <1>7 DEF ModulesAssumption
  <1>9. Len(q) = Len(Modules[i].policies)
    BY <1>8
  <1>10. AllOf(q) = "Accept"
    BY <1>5, <1>6, <1>7 DEF Verdict, HandlesKind
  <1>11. PICK j \in DOMAIN Modules[i].policies :
             /\ Modules[i].policies[j].is = policy
             /\ Modules[i].policies[j].arg = Modules[i].limits[limit]
    BY <1>6
  <1>12. q[j] = "Accept"
    BY <1>7, <1>8, <1>9, <1>10, <1>11, AcceptedByAll
  <1> QED
    BY <1>6, <1>7, <1>11, <1>12

\* What the document advertises is the limit of some module.
LEMMA AdvertisedByModule ==
    ASSUME ModulesAssumption, NEW limit, Advertised(limit) # Nobody
    PROVE  \E i \in DOMAIN Modules :
             /\ limit \in DOMAIN Modules[i].limits /\ Modules[i].limits[limit] # Nobody
             /\ Advertised(limit) = Modules[i].limits[limit]
  <1> DEFINE giving == {i \in DOMAIN Modules : /\ limit \in DOMAIN Modules[i].limits
                                              /\ Modules[i].limits[limit] # Nobody}
  <1>1. giving # {}
    BY DEF Advertised
  <1>2. \E i \in giving : \A j \in giving : j <= i
    <2> DEFINE back == {Len(Modules) - i : i \in giving}
    <2>1. Len(Modules) \in Nat /\ \A i \in giving : i \in 1..Len(Modules)
      BY DEF ModulesAssumption
    <2>2. back \subseteq Nat /\ back # {}
      BY <1>1, <2>1
    <2>3. Min(back) \in back /\ \A j \in back : Min(back) <= j
      BY <2>2, LeastOf
    <2>4. PICK i \in giving : Min(back) = Len(Modules) - i
      BY <2>3
    <2>5. ASSUME NEW j \in giving
          PROVE  j <= i
      <3>1. Len(Modules) - i <= Len(Modules) - j
        BY <2>3, <2>4
      <3> QED
        BY <2>1, <3>1
    <2> QED
      BY <2>5
  <1>3. PICK i : i = CHOOSE k \in giving : \A j \in giving : j <= k
    OBVIOUS
  <1>4. i \in giving
    BY <1>2, <1>3
  <1>5. Advertised(limit) = Modules[i].limits[limit]
    BY <1>1, <1>3 DEF Advertised
  <1> QED
    BY <1>4, <1>5

\* What createNip01Module puts together tests the limits it advertises.
LEMMA Nip01Tests ==
    ASSUME NEW content \in Int, NEW tags \in Int,
           NEW future \in Int \union {Nobody}, NEW past \in Int \union {Nobody}
    PROVE  TestsLimits(Nip01(content, tags, future, past))
  <1>0. PICK m : m = Nip01(content, tags, future, past)
    OBVIOUS
  <1>1. /\ m.kinds = {} /\ DOMAIN m.limits = {"max_content_length", "max_event_tags",
                                             "created_at_upper_limit", "created_at_lower_limit"}
        /\ m.limits["max_content_length"] = content /\ m.limits["max_event_tags"] = tags
        /\ m.limits["created_at_upper_limit"] = future
        /\ m.limits["created_at_lower_limit"] = past
    BY <1>0 DEF Nip01
  <1>2. PICK a, b, c, f, t :
          /\ a = [is |-> "verifySignature"] /\ b = [is |-> "maxContentLength", arg |-> content]
          /\ c = [is |-> "maxTags", arg |-> tags] /\ f = [is |-> "maxFutureSeconds", arg |-> future]
          /\ t = [is |-> "maxPastSeconds", arg |-> past]
    OBVIOUS
  <1>3. m.policies = <<a, b, c>> \o (IF future = Nobody THEN << >> ELSE <<f>>)
                                 \o (IF past = Nobody THEN << >> ELSE <<t>>)
    BY <1>0, <1>2, Zenon DEF Nip01
  <1>4. PICK l : l = m.policies
    OBVIOUS
  <1>5. /\ 2 \in DOMAIN l /\ l[2] = b /\ 3 \in DOMAIN l /\ l[3] = c
        /\ future # Nobody => 4 \in DOMAIN l /\ l[4] = f
        /\ past # Nobody => \E j \in DOMAIN l : l[j] = t
    <2>1. PICK S : S = {a, b, c, f, t}
      OBVIOUS
    <2>2. /\ <<a, b, c>> \in Seq(S) /\ Len(<<a, b, c>>) = 3
          /\ <<a, b, c>>[2] = b /\ <<a, b, c>>[3] = c
      BY <2>1
    <2>3. PICK h \in Seq(S) : h = <<a, b, c>> /\ Len(h) = 3 /\ h[2] = b /\ h[3] = c
      BY <2>2
    <2>4. /\ << >> \in Seq(S) /\ Len(<< >>) = 0
          /\ <<f>> \in Seq(S) /\ Len(<<f>>) = 1 /\ <<f>>[1] = f
          /\ <<t>> \in Seq(S) /\ Len(<<t>>) = 1 /\ <<t>>[1] = t
      BY <2>1
    <2>5. PICK x \in Seq(S) :
            /\ x = (IF future = Nobody THEN << >> ELSE <<f>>)
            /\ IF future = Nobody THEN Len(x) = 0 ELSE Len(x) = 1 /\ x[1] = f
      BY <2>4
    <2>6. PICK y \in Seq(S) :
            /\ y = (IF past = Nobody THEN << >> ELSE <<t>>)
            /\ IF past = Nobody THEN Len(y) = 0 ELSE Len(y) = 1 /\ y[1] = t
      BY <2>4
    <2>a. /\ h \o x \in Seq(S) /\ Len(h \o x) = 3 + Len(x)
          /\ \A i \in 1..3 : (h \o x)[i] = h[i]
          /\ Len(x) = 1 => (h \o x)[4] = x[1]
      BY <2>3
    <2>7. PICK g \in Seq(S) : /\ g = h \o x /\ Len(g) = 3 + Len(x)
                              /\ \A i \in 1..3 : g[i] = h[i]
                              /\ Len(x) = 1 => g[4] = x[1]
      BY <2>a
    <2>8. l = g \o y
      BY <1>3, <1>4, <2>3, <2>5, <2>6, <2>7
    <2>9. /\ l \in Seq(S) /\ Len(l) = Len(g) + Len(y)
          /\ \A i \in 1..Len(g) : l[i] = g[i]
          /\ Len(y) = 1 => l[Len(g) + 1] = y[1]
      BY <2>8
    <2>10. Len(x) \in {0, 1} /\ Len(y) \in {0, 1}
      BY <2>5, <2>6
    <2>11. DOMAIN l = 1..(3 + Len(x) + Len(y))
      BY <2>7, <2>9
    <2>12. past # Nobody => 4 + Len(x) \in DOMAIN l /\ l[4 + Len(x)] = t
      BY <2>6, <2>7, <2>9, <2>10, <2>11
    <2>13. future # Nobody => 4 \in DOMAIN l /\ l[4] = f
      BY <2>5, <2>7, <2>9, <2>10, <2>11
    <2>14. /\ 2 \in DOMAIN l /\ l[2] = b
           /\ 3 \in DOMAIN l /\ l[3] = c
      BY <2>3, <2>7, <2>9, <2>10, <2>11
    <2> QED
      BY <2>12, <2>13, <2>14
  <1>6. /\ b.is = "maxContentLength" /\ b.arg = content /\ c.is = "maxTags" /\ c.arg = tags
        /\ f.is = "maxFutureSeconds" /\ f.arg = future /\ t.is = "maxPastSeconds" /\ t.arg = past
    BY <1>2
  <1>7. TestsLimits(m)
    BY <1>1, <1>4, <1>5, <1>6 DEF TestsLimits, TestsLimit
  <1> QED
    BY <1>0, <1>7

-----------------------------------------------------------------------------
(* RelayAccess: types, authentication, limits                                *)

AuthKeys == {a.pubkey : a \in AuthEvents}
ContextRecords == [challenge : Challenges \union {Nobody}, known : BOOLEAN,
             authPubkey : AuthKeys \union {Nobody}]
BucketRecords == [startedAt : 0..MaxAccessTime, count : 0..(RlMax + 1)]
StoredEntries == [event : Submissions, conn : AccessConns, epoch : 0..MaxEpoch,
                  at : 0..MaxAccessTime]

\* The challenge in a context was made for this connection since it last connected.
ChallengesAreOfNow ==
    \A c \in AccessConns : contexts[c].challenge # Nobody =>
        /\ contexts[c].challenge \in 1..Len(challenges)
        /\ challenges[contexts[c].challenge] = <<c, epoch[c]>>

AuthInv == ChallengesAreOfNow /\ AuthIsProven /\ ProtectedFromOwner

\* The shape of the state, with the records named.
LEMMA AccessTypes ==
    AccessTypeOK <=> /\ relayClock \in 0..MaxAccessTime
                     /\ contexts \in [AccessConns -> ContextRecords]
                     /\ rlBuckets \in [AccessConns -> BucketRecords]
                     /\ stored \subseteq Submissions
                     /\ challenges \in Seq(AccessConns \X (0..MaxEpoch))
                     /\ epoch \in [AccessConns -> 0..MaxEpoch]
                     /\ proven \subseteq (AccessConns \X (0..MaxEpoch)) \X AuthKeys
                     /\ storedBy \subseteq StoredEntries
                     /\ passed \in [AccessConns -> Seq(0..MaxAccessTime)]
  BY DEF AccessTypeOK, ContextRecords, BucketRecords, StoredEntries, AuthKeys

\* A context changes.
LEMMA ContextMoves ==
    ASSUME contexts \in [AccessConns -> ContextRecords], NEW c \in AccessConns, NEW n \in ContextRecords,
           contexts' = [contexts EXCEPT ![c] = n]
    PROVE  /\ contexts' \in [AccessConns -> ContextRecords] /\ contexts'[c] = n
           /\ \A d \in AccessConns \ {c} : contexts'[d] = contexts[d]
  OBVIOUS

\* The bucket that an event meets is a bucket.
LEMMA BucketTyped ==
    ASSUME AccessAssumption, relayClock \in 0..MaxAccessTime, NEW c \in AccessConns,
           rlBuckets \in [AccessConns -> BucketRecords]
    PROVE  Bucket(c) \in BucketRecords
  <1>1. PICK b \in BucketRecords : b = rlBuckets[c]
    OBVIOUS
  <1>2. /\ b.count \in 0..(RlMax + 1) /\ RlMax \in Nat \ {0}
        /\ b.startedAt \in 0..MaxAccessTime
    BY DEF BucketRecords, AccessAssumption
  <1>3. PICK n : n = IF b.count > RlMax THEN b.count ELSE b.count + 1
    OBVIOUS
  <1>4. n \in 0..(RlMax + 1)
    BY <1>2, <1>3
  <1>5. [b EXCEPT !.count = n] \in BucketRecords /\ [startedAt |-> relayClock, count |-> 1] \in BucketRecords
    BY <1>2, <1>4 DEF BucketRecords
  <1>6. Bucket(c) \in {[startedAt |-> relayClock, count |-> 1], [b EXCEPT !.count = n]}
    BY <1>1, <1>3, Zenon DEF Bucket
  <1> QED
    BY <1>5, <1>6

\* An EVENT message: what it stores was let in by its author's connection, within limits.
LEMMA SubmitSafe ==
    ASSUME AccessAssumption, AccessTypeOK, AuthInv,
           NEW c \in AccessConns, NEW e \in Submissions, SubmitEvent(c, e)
    PROVE  AccessTypeOK' /\ AuthInv'
  <1>1. /\ relayClock \in 0..MaxAccessTime /\ contexts \in [AccessConns -> ContextRecords]
        /\ rlBuckets \in [AccessConns -> BucketRecords] /\ stored \subseteq Submissions
        /\ challenges \in Seq(AccessConns \X (0..MaxEpoch))
        /\ epoch \in [AccessConns -> 0..MaxEpoch]
        /\ proven \subseteq (AccessConns \X (0..MaxEpoch)) \X AuthKeys
        /\ storedBy \subseteq StoredEntries /\ passed \in [AccessConns -> Seq(0..MaxAccessTime)]
    BY AccessTypes
  <1> DEFINE entry == [event |-> e, conn |-> c, epoch |-> epoch[c], at |-> relayClock]
  <1>2. entry \in StoredEntries /\ entry.event = e /\ entry.conn = c /\ entry.epoch = epoch[c]
    BY <1>1 DEF StoredEntries
  <1>3. /\ rlBuckets' = [rlBuckets EXCEPT ![c] = Bucket(c)]
        /\ \/ passed' = passed
           \/ passed' = [passed EXCEPT ![c] = Append(@, relayClock)]
        /\ stored' \in {stored, stored \union {e}}
        /\ \/ storedBy' = storedBy
           \/ storedBy' = storedBy \union {entry} /\ MayPublish(c, e)
        /\ UNCHANGED <<relayClock, contexts, challenges, epoch, proven>>
    BY DEF SubmitEvent
  <1> HIDE DEF entry
  <1>4. rlBuckets' \in [AccessConns -> BucketRecords]
    BY <1>1, <1>3, BucketTyped
  <1>5. passed' \in [AccessConns -> Seq(0..MaxAccessTime)]
    <2>1. Append(passed[c], relayClock) \in Seq(0..MaxAccessTime)
      BY <1>1
    <2> QED
      BY <1>1, <1>3, <2>1
  <1>6. AccessTypeOK'
    <2>1. /\ relayClock' \in 0..MaxAccessTime /\ contexts' \in [AccessConns -> ContextRecords]
          /\ stored' \subseteq Submissions
          /\ challenges' \in Seq(AccessConns \X (0..MaxEpoch))
          /\ epoch' \in [AccessConns -> 0..MaxEpoch]
          /\ proven' \subseteq (AccessConns \X (0..MaxEpoch)) \X AuthKeys
          /\ storedBy' \subseteq StoredEntries
      BY <1>1, <1>2, <1>3
    <2> QED
      BY <1>4, <1>5, <2>1 DEF AccessTypeOK, ContextRecords, BucketRecords, StoredEntries, AuthKeys
  <1>7. ChallengesAreOfNow' /\ AuthIsProven'
    BY <1>3 DEF AuthInv, ChallengesAreOfNow, AuthIsProven
  <1>8. ProtectedFromOwner'
    <2>1. MayPublish(c, e) /\ e.protected => <<<<c, epoch[c]>>, e.pubkey>> \in proven
      BY DEF MayPublish, IsAuthenticated, AuthInv, AuthIsProven
    <2>2. \A s \in storedBy' : s \in storedBy \/ (s = entry /\ MayPublish(c, e))
      BY <1>3
    <2> QED
      BY <1>2, <1>3, <2>1, <2>2 DEF AuthInv, ProtectedFromOwner
  <1> QED
    BY <1>6, <1>7, <1>8 DEF AuthInv

\* An AUTH message proves who answered the challenge of this connection.
LEMMA AuthSafe ==
    ASSUME AccessAssumption, AccessTypeOK, AuthInv,
           NEW c \in AccessConns, NEW a \in AuthEvents, HandleAuth(c, a)
    PROVE  AccessTypeOK' /\ AuthInv'
  <1>1. /\ contexts \in [AccessConns -> ContextRecords] /\ epoch \in [AccessConns -> 0..MaxEpoch]
        /\ proven \subseteq (AccessConns \X (0..MaxEpoch)) \X AuthKeys
    BY AccessTypes
  <1> DEFINE n == [contexts[c] EXCEPT !.authPubkey = a.pubkey]
  <1>2. /\ n \in ContextRecords /\ n.authPubkey = a.pubkey /\ n.challenge = contexts[c].challenge
    BY <1>1 DEF ContextRecords, AuthKeys
  <1>3. /\ contexts' = [contexts EXCEPT ![c] = n]
        /\ proven' = proven \union {<<challenges[a.challenge], a.pubkey>>}
        /\ contexts[c].challenge # Nobody /\ a.challenge = contexts[c].challenge
        /\ UNCHANGED <<relayClock, rlBuckets, stored, challenges, epoch, storedBy, passed>>
    BY DEF HandleAuth, VerifyAuthEvent
  <1> HIDE DEF n
  <1>4. challenges[a.challenge] = <<c, epoch[c]>>
    BY <1>3 DEF AuthInv, ChallengesAreOfNow
  <1>5. /\ contexts' \in [AccessConns -> ContextRecords] /\ contexts'[c] = n
        /\ \A d \in AccessConns \ {c} : contexts'[d] = contexts[d]
    BY <1>1, <1>2, <1>3, ContextMoves
  <1>6. AccessTypeOK'
    <2>1. <<challenges[a.challenge], a.pubkey>> \in (AccessConns \X (0..MaxEpoch)) \X AuthKeys
      BY <1>1, <1>4 DEF AuthKeys
    <2>2. proven' \subseteq (AccessConns \X (0..MaxEpoch)) \X AuthKeys
      BY <1>1, <1>3, <2>1
    <2> QED
      BY <1>3, <1>5, <2>2 DEF AccessTypeOK, ContextRecords, AuthKeys
  <1>7. ChallengesAreOfNow'
    BY <1>2, <1>3, <1>5 DEF AuthInv, ChallengesAreOfNow
  <1>8. AuthIsProven'
    BY <1>2, <1>3, <1>4, <1>5 DEF AuthInv, AuthIsProven
  <1>9. ProtectedFromOwner'
    BY <1>3 DEF AuthInv, ProtectedFromOwner
  <1> QED
    BY <1>6, <1>7, <1>8, <1>9 DEF AuthInv

\* A connection that comes or goes forgets who it was authenticated as, and its challenge.
LEMMA ContextForgets ==
    ASSUME AccessTypeOK, AuthInv, NEW c \in AccessConns, NEW n \in ContextRecords,
           n.authPubkey = Nobody, n.challenge = Nobody, contexts' = [contexts EXCEPT ![c] = n],
           NEW k \in 0..MaxEpoch, epoch' = [epoch EXCEPT ![c] = k],
           UNCHANGED <<relayClock, rlBuckets, stored, challenges, proven, storedBy, passed>>
    PROVE  AccessTypeOK' /\ AuthInv'
  <1>1. /\ contexts \in [AccessConns -> ContextRecords] /\ epoch \in [AccessConns -> 0..MaxEpoch]
    BY AccessTypes
  <1>2. /\ contexts' \in [AccessConns -> ContextRecords] /\ contexts'[c] = n
        /\ \A d \in AccessConns \ {c} : contexts'[d] = contexts[d] /\ epoch'[d] = epoch[d]
        /\ epoch' \in [AccessConns -> 0..MaxEpoch]
    BY <1>1
  <1>3. AccessTypeOK'
    BY <1>2 DEF AccessTypeOK, ContextRecords, AuthKeys
  <1>4. ChallengesAreOfNow' /\ AuthIsProven'
    BY <1>2 DEF AuthInv, ChallengesAreOfNow, AuthIsProven
  <1>5. ProtectedFromOwner'
    BY DEF AuthInv, ProtectedFromOwner
  <1> QED
    BY <1>3, <1>4, <1>5 DEF AuthInv

\* A new challenge is the one of the connection it was made for.
LEMMA ChallengeSafe ==
    ASSUME AccessAssumption, AccessTypeOK, AuthInv, NEW c \in AccessConns, CreateChallenge(c)
    PROVE  AccessTypeOK' /\ AuthInv'
  <1>1. /\ contexts \in [AccessConns -> ContextRecords] /\ epoch \in [AccessConns -> 0..MaxEpoch]
        /\ challenges \in Seq(AccessConns \X (0..MaxEpoch))
    BY AccessTypes
  <1>2. PICK l \in Nat : l = Len(challenges)
    BY <1>1
  <1>3. /\ l < MaxChallenge /\ challenges' = Append(challenges, <<c, epoch[c]>>)
        /\ \/ contexts' = contexts
           \/ contexts' = [contexts EXCEPT ![c].challenge = l + 1]
        /\ UNCHANGED <<relayClock, rlBuckets, stored, epoch, proven, storedBy, passed>>
    BY <1>2 DEF CreateChallenge
  <1>4. <<c, epoch[c]>> \in AccessConns \X (0..MaxEpoch)
    BY <1>1
  <1>5. /\ challenges' \in Seq(AccessConns \X (0..MaxEpoch)) /\ Len(challenges') = l + 1
        /\ challenges'[l + 1] = <<c, epoch[c]>>
        /\ \A i \in 1..l : challenges'[i] = challenges[i]
    BY <1>1, <1>2, <1>3, <1>4
  <1> DEFINE n == [contexts[c] EXCEPT !.challenge = l + 1]
  <1>6. /\ n \in ContextRecords /\ n.challenge = l + 1 /\ n.authPubkey = contexts[c].authPubkey
    <2>1. contexts[c] \in ContextRecords /\ l + 1 \in Challenges
      BY <1>1, <1>3 DEF Challenges, AccessAssumption
    <2> QED
      BY <2>1 DEF ContextRecords
  <1>7. contexts' = contexts \/ contexts' = [contexts EXCEPT ![c] = n]
    BY <1>3
  <1> HIDE DEF n
  <1>8. /\ contexts' \in [AccessConns -> ContextRecords]
        /\ contexts'[c] = contexts[c] \/ contexts'[c] = n
        /\ \A d \in AccessConns \ {c} : contexts'[d] = contexts[d]
    BY <1>1, <1>6, <1>7
  <1>9. AccessTypeOK'
    BY <1>3, <1>5, <1>8 DEF AccessTypeOK, ContextRecords, AuthKeys
  <1>10. ChallengesAreOfNow'
    <2>1. ASSUME NEW d \in AccessConns, contexts'[d].challenge # Nobody
          PROVE  /\ contexts'[d].challenge \in 1..Len(challenges')
                 /\ challenges'[contexts'[d].challenge] = <<d, epoch'[d]>>
      <3>1. CASE contexts'[d] = contexts[d]
        <4>1. /\ contexts[d].challenge \in 1..l
              /\ challenges[contexts[d].challenge] = <<d, epoch[d]>>
          BY <1>2, <2>1, <3>1 DEF AuthInv, ChallengesAreOfNow
        <4> QED
          BY <1>3, <1>5, <3>1, <4>1
      <3>2. CASE d = c /\ contexts'[d] = n
        BY <1>3, <1>5, <1>6, <3>2
      <3> QED
        BY <1>8, <3>1, <3>2
    <2> QED
      BY <2>1 DEF ChallengesAreOfNow
  <1>11. AuthIsProven' /\ ProtectedFromOwner'
    BY <1>3, <1>6, <1>8 DEF AuthInv, AuthIsProven, ProtectedFromOwner
  <1> QED
    BY <1>9, <1>10, <1>11 DEF AuthInv

\* Every step of the relay keeps authentication right.
LEMMA AuthStep == AccessAssumption /\ AccessTypeOK /\ AuthInv /\ [AccessNext]_accessVars
                    => AccessTypeOK' /\ AuthInv'
  <1> SUFFICES ASSUME AccessAssumption, AccessTypeOK, AuthInv, [AccessNext]_accessVars
               PROVE  AccessTypeOK' /\ AuthInv'
    OBVIOUS
  <1>1. contexts \in [AccessConns -> ContextRecords] /\ epoch \in [AccessConns -> 0..MaxEpoch]
    BY AccessTypes
  <1>2. ASSUME NEW c \in AccessConns, ManagerConnect(c)
        PROVE  AccessTypeOK' /\ AuthInv'
    <2>1. PICK n : n = [NoContext EXCEPT !.known = TRUE]
      OBVIOUS
    <2>2. n \in ContextRecords /\ n.authPubkey = Nobody /\ n.challenge = Nobody
      BY <2>1 DEF NoContext, ContextRecords
    <2>3. PICK k \in 0..MaxEpoch : k = epoch[c] + 1
      BY <1>1, <1>2 DEF ManagerConnect, AccessAssumption
    <2>4. contexts' = [contexts EXCEPT ![c] = n] /\ epoch' = [epoch EXCEPT ![c] = k]
      BY <1>2, <2>1, <2>3 DEF ManagerConnect
    <2>5. UNCHANGED <<relayClock, rlBuckets, stored, challenges, proven, storedBy, passed>>
      BY <1>2 DEF ManagerConnect
    <2> QED
      BY <2>2, <2>4, <2>5, ContextForgets
  <1>3. ASSUME NEW c \in AccessConns, ManagerDisconnect(c)
        PROVE  AccessTypeOK' /\ AuthInv'
    <2>1. PICK n : n = NoContext
      OBVIOUS
    <2>2. n \in ContextRecords /\ n.authPubkey = Nobody /\ n.challenge = Nobody
      BY <2>1 DEF NoContext, ContextRecords
    <2>3. PICK k \in 0..MaxEpoch : k = epoch[c]
      BY <1>1
    <2>4. contexts' = [contexts EXCEPT ![c] = n] /\ epoch' = [epoch EXCEPT ![c] = k]
      BY <1>1, <1>3, <2>1, <2>3 DEF ManagerDisconnect
    <2>5. UNCHANGED <<relayClock, rlBuckets, stored, challenges, proven, storedBy, passed>>
      BY <1>3 DEF ManagerDisconnect
    <2> QED
      BY <2>2, <2>4, <2>5, ContextForgets
  <1>4. CASE AccessTick
    <2>1. AccessTypeOK'
      BY <1>4 DEF AccessTick, AccessAssumption, AccessTypeOK
    <2>2. AuthInv'
      BY <1>4 DEF AccessTick, AuthInv, ChallengesAreOfNow, AuthIsProven, ProtectedFromOwner
    <2> QED
      BY <2>1, <2>2
  <1>5. CASE UNCHANGED accessVars
    BY <1>5 DEF accessVars, AccessTypeOK, AuthInv, ChallengesAreOfNow, AuthIsProven,
                ProtectedFromOwner
  <1> QED
    BY <1>2, <1>3, <1>4, <1>5, SubmitSafe, AuthSafe, ChallengeSafe DEF AccessNext

\* What the four policies with a limit in the document decide.
LEMMA LimitPolicies ==
    ASSUME NEW p, NEW e
    PROVE  /\ p.is = "maxContentLength" => PolicyOf(p, e) = AcceptIf(e.content <= p.arg)
           /\ p.is = "maxTags" => PolicyOf(p, e) = AcceptIf(e.tags <= p.arg)
           /\ p.is = "maxFutureSeconds" =>
                PolicyOf(p, e) = AcceptIf(e.created_at <= relayClock + p.arg)
           /\ p.is = "maxPastSeconds" =>
                PolicyOf(p, e) = AcceptIf(e.created_at >= relayClock - p.arg)
  <1>1. p.is \notin {"any", "forKinds", "exceptKinds"} => PolicyOf(p, e) = BuiltIn(p, e)
    BY DEF PolicyOf
  <1>2. p.is = "maxContentLength" => BuiltIn(p, e) = AcceptIf(e.content <= p.arg)
    BY DEF BuiltIn
  <1>3. p.is = "maxTags" => BuiltIn(p, e) = AcceptIf(e.tags <= p.arg)
    BY DEF BuiltIn
  <1>4. p.is = "maxFutureSeconds" => BuiltIn(p, e) = AcceptIf(e.created_at <= relayClock + p.arg)
    BY DEF BuiltIn
  <1>5. p.is = "maxPastSeconds" => BuiltIn(p, e) = AcceptIf(e.created_at >= relayClock - p.arg)
    BY DEF BuiltIn
  <1> QED
    BY <1>1, <1>2, <1>3, <1>4, <1>5

\* No event is stored beyond a limit that the document advertises.
LEMMA LimitsStep ==
    AccessAssumption /\ ModulesAssumption /\ AccessTypeOK /\ AdvertisedIsEnforced
      /\ [AccessNext]_accessVars => AdvertisedIsEnforced'
  <1> SUFFICES ASSUME AccessAssumption, ModulesAssumption, AccessTypeOK, AdvertisedIsEnforced,
                      [AccessNext]_accessVars
               PROVE  AdvertisedIsEnforced'
    OBVIOUS
  <1>1. CASE UNCHANGED storedBy
    BY <1>1 DEF AdvertisedIsEnforced, WithinLimits, Advertised
  <1>2. ASSUME NEW c \in AccessConns, NEW e \in Submissions, SubmitEvent(c, e)
        PROVE  AdvertisedIsEnforced'
    <2> DEFINE entry == [event |-> e, conn |-> c, epoch |-> epoch[c], at |-> relayClock]
    <2>1. entry.event = e /\ entry.at = relayClock
      OBVIOUS
    <2>2. storedBy' = storedBy \/ (storedBy' = storedBy \union {entry} /\ Evaluate(e) = "Accept")
      BY <1>2 DEF SubmitEvent
    <2> HIDE DEF entry
    <2>3. CASE storedBy' = storedBy
      BY <1>1, <2>3
    <2>4. CASE storedBy' = storedBy \union {entry} /\ Evaluate(e) = "Accept"
      <3>1. ASSUME NEW limit, NEW policy, Advertised(limit) # Nobody,
                   \A i \in DOMAIN Modules : TestsLimit(Modules[i], limit, policy)
            PROVE  /\ Advertised(limit) \in Int
                   /\ \E p : /\ p.is = policy /\ p.arg = Advertised(limit)
                             /\ PolicyOf(p, e) = "Accept"
        BY <2>4, <3>1, AdvertisedByModule, VerdictOfLimit
      <3>2. relayClock \in Int /\ e.created_at \in Int
        BY DEF AccessTypeOK, AccessAssumption
      <3>3. WithinLimits("max_content_length", e.content)
        <4>1. \A i \in DOMAIN Modules :
                TestsLimit(Modules[i], "max_content_length", "maxContentLength")
          BY DEF ModulesAssumption, TestsLimits
        <4>3. Advertised("max_content_length") # Nobody =>
                /\ Advertised("max_content_length") \in Int
                /\ \E p : /\ p.is = "maxContentLength" /\ p.arg = Advertised("max_content_length")
                          /\ PolicyOf(p, e) = "Accept"
          BY <3>1, <4>1
        <4> QED
          BY <4>3, LimitPolicies DEF WithinLimits, AcceptIf
      <3>4. WithinLimits("max_event_tags", e.tags)
        <4>1. \A i \in DOMAIN Modules : TestsLimit(Modules[i], "max_event_tags", "maxTags")
          BY DEF ModulesAssumption, TestsLimits
        <4>3. Advertised("max_event_tags") # Nobody =>
                /\ Advertised("max_event_tags") \in Int
                /\ \E p : /\ p.is = "maxTags" /\ p.arg = Advertised("max_event_tags")
                          /\ PolicyOf(p, e) = "Accept"
          BY <3>1, <4>1
        <4> QED
          BY <4>3, LimitPolicies DEF WithinLimits, AcceptIf
      <3>5. WithinLimits("created_at_upper_limit", e.created_at - relayClock)
        <4>1. \A i \in DOMAIN Modules :
                TestsLimit(Modules[i], "created_at_upper_limit", "maxFutureSeconds")
          BY DEF ModulesAssumption, TestsLimits
        <4>2. ASSUME NEW p, p.is = "maxFutureSeconds", PolicyOf(p, e) = "Accept"
              PROVE  e.created_at <= relayClock + p.arg
          BY <4>2, LimitPolicies DEF AcceptIf
        <4>3. Advertised("created_at_upper_limit") # Nobody =>
                /\ Advertised("created_at_upper_limit") \in Int
                /\ \E p : /\ p.is = "maxFutureSeconds" /\ p.arg = Advertised("created_at_upper_limit")
                          /\ PolicyOf(p, e) = "Accept"
          BY <3>1, <4>1
        <4> QED
          BY <3>2, <4>2, <4>3 DEF WithinLimits
      <3>6. WithinLimits("created_at_lower_limit", relayClock - e.created_at)
        <4>1. \A i \in DOMAIN Modules :
                TestsLimit(Modules[i], "created_at_lower_limit", "maxPastSeconds")
          BY DEF ModulesAssumption, TestsLimits
        <4>2. ASSUME NEW p, p.is = "maxPastSeconds", PolicyOf(p, e) = "Accept"
              PROVE  e.created_at >= relayClock - p.arg
          BY <4>2, LimitPolicies DEF AcceptIf
        <4>3. Advertised("created_at_lower_limit") # Nobody =>
                /\ Advertised("created_at_lower_limit") \in Int
                /\ \E p : /\ p.is = "maxPastSeconds" /\ p.arg = Advertised("created_at_lower_limit")
                          /\ PolicyOf(p, e) = "Accept"
          BY <3>1, <4>1
        <4> QED
          BY <3>2, <4>2, <4>3 DEF WithinLimits
      <3>7. \A s \in storedBy' : s \in storedBy \/ s = entry
        BY <2>4
      <3> QED
        BY <2>1, <3>3, <3>4, <3>5, <3>6, <3>7 DEF AdvertisedIsEnforced, WithinLimits, Advertised
    <2> QED
      BY <2>2, <2>3, <2>4
  <1>3. ASSUME NEW c \in AccessConns, NEW a \in AuthEvents, HandleAuth(c, a)
        PROVE  AdvertisedIsEnforced'
    BY <1>1, <1>3 DEF HandleAuth
  <1>4. ASSUME NEW c \in AccessConns,
               ManagerConnect(c) \/ ManagerDisconnect(c) \/ CreateChallenge(c)
        PROVE  AdvertisedIsEnforced'
    BY <1>1, <1>4 DEF ManagerConnect, ManagerDisconnect, CreateChallenge
  <1>5. CASE AccessTick \/ UNCHANGED accessVars
    BY <1>1, <1>5 DEF AccessTick, accessVars
  <1> QED
    BY <1>2, <1>3, <1>4, <1>5 DEF AccessNext

-----------------------------------------------------------------------------
(* RelayAccess: the rate limit                                               *)

\* The entries of q between two times.
Span(q, lo, hi) == {i \in DOMAIN q : q[i] \in lo..hi}

\* They can be counted.
LEMMA SpanCounts ==
    ASSUME NEW q \in Seq(0..MaxAccessTime), NEW lo \in Int, NEW hi \in Int
    PROVE  IsFiniteSet(Span(q, lo, hi)) /\ Cardinality(Span(q, lo, hi)) \in Nat
  <1>1. DOMAIN q = 1..Len(q) /\ Len(q) \in Nat
    OBVIOUS
  <1>2. IsFiniteSet(1..Len(q))
    BY <1>1, FS_Interval
  <1>3. Span(q, lo, hi) \subseteq 1..Len(q)
    BY <1>1 DEF Span
  <1>4. IsFiniteSet(Span(q, lo, hi))
    BY <1>2, <1>3, FS_Subset
  <1> QED
    BY <1>4, FS_CardinalityType

\* They are times of the clock.
LEMMA TimesOf ==
    ASSUME NEW q \in Seq(0..MaxAccessTime)
    PROVE  \A i \in DOMAIN q : q[i] \in 0..MaxAccessTime
  <1>1. PICK S : S = 0..MaxAccessTime
    OBVIOUS
  <1>2. q \in Seq(S)
    BY <1>1
  <1>3. DOMAIN q = 1..Len(q)
    BY <1>2
  <1>4. \A i \in 1..Len(q) : q[i] \in S
    BY <1>2
  <1> QED
    BY <1>1, <1>3, <1>4

\* A span that two others cover has no more entries than both.
LEMMA SpanCovered ==
    ASSUME AccessAssumption, NEW q \in Seq(0..MaxAccessTime),
           NEW a \in Int, NEW b \in Int, NEW lo \in Int, NEW m \in Int, NEW hi \in Int,
           NEW r \in Seq(0..MaxAccessTime),
           Span(r, a, b) \subseteq Span(q, lo, m) \union Span(q, m + 1, hi)
    PROVE  Cardinality(Span(r, a, b))
             <= Cardinality(Span(q, lo, m)) + Cardinality(Span(q, m + 1, hi))
  <1>1. PICK S, T : S = Span(q, lo, m) /\ T = Span(q, m + 1, hi)
    OBVIOUS
  <1>2. /\ IsFiniteSet(S) /\ IsFiniteSet(T) /\ Cardinality(S) \in Nat /\ Cardinality(T) \in Nat
    BY <1>1, SpanCounts
  <1>3. /\ IsFiniteSet(S \union T)
        /\ Cardinality(S \union T) = Cardinality(S) + Cardinality(T) - Cardinality(S \intersect T)
    BY <1>2, FS_Union
  <1>4. IsFiniteSet(S \intersect T)
    BY <1>2, FS_Intersection
  <1>5. Cardinality(S \intersect T) \in Nat
    BY <1>4, FS_CardinalityType
  <1>6. /\ Cardinality(Span(r, a, b)) <= Cardinality(S \union T)
        /\ Cardinality(S \union T) \in Nat /\ Cardinality(Span(r, a, b)) \in Nat
    BY <1>1, <1>3, FS_Subset, FS_CardinalityType, SpanCounts
  <1> QED
    BY <1>1, <1>2, <1>3, <1>5, <1>6

\* A span within another has no more entries.
LEMMA SpanWithin ==
    ASSUME NEW q \in Seq(0..MaxAccessTime), NEW r \in Seq(0..MaxAccessTime),
           NEW a \in Int, NEW b \in Int, NEW lo \in Int, NEW hi \in Int,
           Span(r, a, b) \subseteq Span(q, lo, hi)
    PROVE  Cardinality(Span(r, a, b)) <= Cardinality(Span(q, lo, hi))
  BY SpanCounts, FS_Subset

\* r is q with one more entry, at x, which counts where its time is.
OneMore(q, x, r) ==
    /\ r \in Seq(0..MaxAccessTime) /\ DOMAIN r = DOMAIN q \union {Len(q) + 1}
    /\ r[Len(q) + 1] = x /\ \A i \in DOMAIN q : r[i] = q[i]
    /\ \A lo, hi \in Int :
         /\ x \notin lo..hi => Span(r, lo, hi) = Span(q, lo, hi)
         /\ x \in lo..hi => Cardinality(Span(r, lo, hi)) = Cardinality(Span(q, lo, hi)) + 1

\* No period of one window's length has more than twice the limit.
EveryPeriod(q) ==
    \A t \in 0..MaxAccessTime : Cardinality(Span(q, t, t + RlWindow - 1)) <= 2 * RlMax

\* An entry that is appended is one more.
LEMMA SpanMore ==
    ASSUME NEW q \in Seq(0..MaxAccessTime), NEW x \in 0..MaxAccessTime,
           NEW r, r = Append(q, x)
    PROVE  OneMore(q, x, r)
  <1>1. /\ r \in Seq(0..MaxAccessTime) /\ DOMAIN r = 1..(Len(q) + 1) /\ DOMAIN q = 1..Len(q)
        /\ Len(q) \in Nat /\ r[Len(q) + 1] = x /\ \A i \in 1..Len(q) : r[i] = q[i]
    OBVIOUS
  <1>2. DOMAIN r = DOMAIN q \union {Len(q) + 1} /\ Len(q) + 1 \notin DOMAIN q
    BY <1>1
  <1>3. ASSUME NEW lo \in Int, NEW hi \in Int, x \notin lo..hi
        PROVE  Span(r, lo, hi) = Span(q, lo, hi)
    BY <1>1, <1>2, <1>3 DEF Span
  <1>4. ASSUME NEW lo \in Int, NEW hi \in Int, x \in lo..hi
        PROVE  Cardinality(Span(r, lo, hi)) = Cardinality(Span(q, lo, hi)) + 1
    <2>1. Span(r, lo, hi) = Span(q, lo, hi) \union {Len(q) + 1}
      BY <1>1, <1>2, <1>4 DEF Span
    <2>2. Len(q) + 1 \notin Span(q, lo, hi)
      BY <1>2 DEF Span
    <2> QED
      BY <2>1, <2>2, SpanCounts, FS_AddElement
  <1> QED
    BY <1>1, <1>2, <1>3, <1>4 DEF OneMore

\* The entries of a connection's current window are at most its count, those of the window
\* before it that a period with the current one may meet are within the limit, and so is
\* every period.
RateOf(q, s, n, now) ==
    /\ s <= now /\ (n = 0 => q = << >>)
    /\ \A i \in DOMAIN q : q[i] <= now /\ q[i] < s + RlWindow
    /\ Cardinality(Span(q, s, MaxAccessTime)) <= n
    /\ Cardinality(Span(q, s, MaxAccessTime)) <= RlMax
    /\ Cardinality(Span(q, s - RlWindow + 1, s - 1)) <= RlMax
    /\ EveryPeriod(q)

RateInv ==
    \A c \in AccessConns :
        RateOf(passed[c], rlBuckets[c].startedAt, rlBuckets[c].count, relayClock)

\* A period that meets the present lies in the current window and the end of the one before.
LEMMA PeriodNow ==
    ASSUME AccessAssumption, NEW r \in Seq(0..MaxAccessTime),
           NEW s \in Int, NEW now \in Int, s <= now,
           NEW lo \in Int, lo = s - RlWindow + 1, NEW m \in Int, m = s - 1,
           Cardinality(Span(r, m + 1, MaxAccessTime)) <= RlMax,
           Cardinality(Span(r, lo, m)) <= RlMax,
           NEW t \in Int, NEW hi \in Int, hi = t + RlWindow - 1, now \in t..hi
    PROVE  Cardinality(Span(r, t, hi)) <= 2 * RlMax
  <1>1. RlWindow \in Nat \ {0} /\ RlMax \in Nat \ {0} /\ MaxAccessTime \in Nat
    BY DEF AccessAssumption
  <1>2. t >= lo
    BY <1>1
  <1>3. \A i \in DOMAIN r : r[i] \in 0..MaxAccessTime
    BY TimesOf
  <1>4. ASSUME NEW i \in DOMAIN r, r[i] \in t..hi
        PROVE  r[i] \in lo..m \/ r[i] \in (m + 1)..MaxAccessTime
    <2>1. PICK x : x = r[i]
      OBVIOUS
    <2>2. x \in t..hi /\ x \in 0..MaxAccessTime
      BY <1>3, <1>4, <2>1
    <2>3. x \in lo..m \/ x \in (m + 1)..MaxAccessTime
      BY <1>1, <1>2, <2>2
    <2> QED
      BY <2>1, <2>3
  <1>5. Span(r, t, hi) \subseteq Span(r, lo, m) \union Span(r, m + 1, MaxAccessTime)
    BY <1>4 DEF Span
  <1>6. MaxAccessTime \in Int
    BY <1>1
  <1>7. Cardinality(Span(r, t, hi))
          <= Cardinality(Span(r, lo, m)) + Cardinality(Span(r, m + 1, MaxAccessTime))
    BY <1>5, <1>6, SpanCovered
  <1>8. m + 1 \in Int
    OBVIOUS
  <1>9. /\ Cardinality(Span(r, t, hi)) \in Nat
        /\ Cardinality(Span(r, lo, m)) \in Nat
        /\ Cardinality(Span(r, m + 1, MaxAccessTime)) \in Nat
    BY <1>6, <1>8, SpanCounts
  <1>10. PICK A, B, C : /\ A = Cardinality(Span(r, t, hi)) /\ B = Cardinality(Span(r, lo, m))
                        /\ C = Cardinality(Span(r, m + 1, MaxAccessTime))
    OBVIOUS
  <1>11. A \in Nat /\ B \in Nat /\ C \in Nat /\ A <= B + C /\ B <= RlMax /\ C <= RlMax
    BY <1>7, <1>9, <1>10
  <1>12. A <= 2 * RlMax
    BY <1>1, <1>11
  <1> QED
    BY <1>10, <1>12

\* With one more entry, at the present, every period stays within the limit.
LEMMA PeriodsHold ==
    ASSUME AccessAssumption, NEW q, NEW r,
           NEW s \in Int, NEW now \in Int, s <= now,
           OneMore(q, now, r),
           Cardinality(Span(r, s, MaxAccessTime)) <= RlMax,
           Cardinality(Span(r, s - RlWindow + 1, s - 1)) <= RlMax,
           EveryPeriod(q)
    PROVE  EveryPeriod(r)
  <1>1. RlWindow \in Nat \ {0} /\ RlMax \in Nat \ {0} /\ MaxAccessTime \in Nat
    BY DEF AccessAssumption
  <1>2. ASSUME NEW t \in 0..MaxAccessTime
        PROVE  Cardinality(Span(r, t, t + RlWindow - 1)) <= 2 * RlMax
    <2>1. PICK hi \in Int : hi = t + RlWindow - 1
      BY <1>1
    <2>2. PICK lo \in Int : lo = s - RlWindow + 1
      BY <1>1
    <2>3. PICK m \in Int : m = s - 1
      BY <1>1
    <2>4. t \in Int /\ m + 1 = s
      BY <1>1, <2>3
    <2>5. Cardinality(Span(r, lo, m)) <= RlMax /\ Cardinality(Span(r, m + 1, MaxAccessTime)) <= RlMax
      BY <2>2, <2>3, <2>4
    <2>6. now \in t..hi => Cardinality(Span(r, t, hi)) <= 2 * RlMax
      <3>1. r \in Seq(0..MaxAccessTime)
        BY Zenon DEF OneMore
      <3> QED
        BY <2>1, <2>2, <2>3, <2>4, <2>5, <3>1, PeriodNow
    <2>7. now \notin t..hi => Span(r, t, hi) = Span(q, t, hi)
      BY <2>4, Zenon DEF OneMore
    <2>8. Cardinality(Span(q, t, hi)) <= 2 * RlMax
      BY <2>1, Zenon DEF EveryPeriod
    <2>9. Cardinality(Span(r, t, hi)) <= 2 * RlMax
      BY <2>6, <2>7, <2>8
    <2> QED
      BY <2>1, <2>9
  <1> QED
    BY <1>2, Zenon DEF EveryPeriod

\* An event that starts a window: the one before it is the window that ends.
LEMMA RateNew ==
    ASSUME AccessAssumption, NEW q \in Seq(0..MaxAccessTime), NEW s \in 0..MaxAccessTime, NEW n \in Nat,
           NEW now \in 0..MaxAccessTime, RateOf(q, s, n, now), n = 0 \/ now - s >= RlWindow,
           NEW r, r = Append(q, now)
    PROVE  RateOf(r, now, 1, now)
  <1>1. RlWindow \in Nat \ {0} /\ RlMax \in Nat \ {0} /\ MaxAccessTime \in Nat
    BY DEF AccessAssumption
  <1>2. OneMore(q, now, r)
    BY SpanMore
  <1>3. \A i \in DOMAIN q : q[i] \in 0..MaxAccessTime
    BY TimesOf
  <1>4. \A i \in DOMAIN q : q[i] < now
    <2>1. CASE n = 0
      BY <2>1 DEF RateOf
    <2>2. CASE now - s >= RlWindow
      <3>1. ASSUME NEW i \in DOMAIN q
            PROVE  q[i] < now
        <4>1. PICK x : x = q[i]
          OBVIOUS
        <4>2. x \in 0..MaxAccessTime /\ x < s + RlWindow
          BY <1>3, <4>1, Zenon DEF RateOf
        <4>3. x < now
          BY <1>1, <2>2, <4>2
        <4> QED
          BY <4>1, <4>3
      <3> QED
        BY <3>1
    <2> QED
      BY <2>1, <2>2
  <1>5. now \in Int /\ MaxAccessTime \in Int /\ s \in Int
    BY <1>1
  <1>6. Cardinality(Span(r, now, MaxAccessTime)) = 1
    <2>1. \A i \in DOMAIN q : q[i] \notin now..MaxAccessTime
      BY <1>1, <1>3, <1>4
    <2>2. Span(q, now, MaxAccessTime) = {}
      BY <2>1 DEF Span
    <2>3. Cardinality(Span(q, now, MaxAccessTime)) = 0
      BY <2>2, FS_EmptySet
    <2>4. now \in now..MaxAccessTime
      BY <1>1
    <2> QED
      BY <1>2, <1>5, <2>3, <2>4 DEF OneMore
  <1>7. Cardinality(Span(r, now - RlWindow + 1, now - 1)) <= RlMax
    <2>1. PICK lo \in Int : lo = now - RlWindow + 1
      BY <1>1
    <2>2. PICK hi \in Int : hi = now - 1
      BY <1>1
    <2>3. now \notin lo..hi
      BY <1>5, <2>2
    <2>4. Span(r, lo, hi) = Span(q, lo, hi)
      BY <1>2, <2>3, Zenon DEF OneMore
    <2>5. CASE n = 0
      <3>1. Span(q, lo, hi) = {}
        BY <2>5 DEF RateOf, Span
      <3>2. Cardinality(Span(r, lo, hi)) = 0
        BY <2>4, <3>1, FS_EmptySet
      <3>3. Cardinality(Span(r, lo, hi)) <= RlMax
        BY <1>1, <3>2
      <3> QED
        BY <2>1, <2>2, <3>3
    <2>6. CASE now - s >= RlWindow
      <3>1. lo >= s /\ hi <= MaxAccessTime
        BY <1>1, <1>5, <2>1, <2>2, <2>6
      <3>2. ASSUME NEW i \in DOMAIN q, q[i] \in lo..hi
            PROVE  q[i] \in s..MaxAccessTime
        BY <1>5, <3>1, <3>2
      <3>3. Span(q, lo, hi) \subseteq Span(q, s, MaxAccessTime)
        BY <3>2 DEF Span
      <3>4. Cardinality(Span(q, lo, hi)) <= Cardinality(Span(q, s, MaxAccessTime))
        BY <1>5, <3>3, SpanWithin
      <3>5. Cardinality(Span(q, s, MaxAccessTime)) <= RlMax
        BY DEF RateOf
      <3>6. Cardinality(Span(q, lo, hi)) \in Nat /\ Cardinality(Span(q, s, MaxAccessTime)) \in Nat
        BY <1>5, SpanCounts
      <3>7. Cardinality(Span(q, lo, hi)) <= RlMax
        BY <1>1, <3>4, <3>5, <3>6
      <3> QED
        BY <2>1, <2>2, <2>4, <3>7
    <2> QED
      BY <2>5, <2>6
  <1>8. EveryPeriod(r)
    <2>1. EveryPeriod(q)
      BY DEF RateOf
    <2>2. Cardinality(Span(r, now, MaxAccessTime)) <= RlMax /\ now <= now
      BY <1>1, <1>5, <1>6
    <2> QED
      BY <1>2, <1>5, <1>7, <2>1, <2>2, PeriodsHold
  <1>9. ASSUME NEW i \in DOMAIN r
        PROVE  r[i] <= now /\ r[i] < now + RlWindow
    <2>1. CASE i \in DOMAIN q
      <3>1. PICK x : x = q[i]
        OBVIOUS
      <3>2. x \in 0..MaxAccessTime /\ x < now
        BY <1>3, <1>4, <2>1, <3>1
      <3>3. x <= now /\ x < now + RlWindow
        BY <1>1, <3>2
      <3> QED
        BY <1>2, <2>1, <3>1, <3>3, Zenon DEF OneMore
    <2>2. CASE i = Len(q) + 1
      <3>1. now <= now /\ now < now + RlWindow
        BY <1>1, <1>5
      <3> QED
        BY <1>2, <2>2, <3>1, Zenon DEF OneMore
    <2> QED
      BY <1>2, <2>1, <2>2 DEF OneMore
  <1>10. Cardinality(Span(r, now, MaxAccessTime)) <= 1 /\ Cardinality(Span(r, now, MaxAccessTime)) <= RlMax
    BY <1>1, <1>6
  <1>11. now <= now /\ 1 # 0
    BY <1>5
  <1> QED
    BY <1>7, <1>8, <1>9, <1>10, <1>11, Zenon DEF RateOf

\* An event counted in a window that has begun.
LEMMA RateSame ==
    ASSUME AccessAssumption, NEW q \in Seq(0..MaxAccessTime), NEW s \in 0..MaxAccessTime, NEW n \in Nat,
           NEW now \in 0..MaxAccessTime, RateOf(q, s, n, now), ~(now - s >= RlWindow), n + 1 <= RlMax,
           NEW r, r = Append(q, now)
    PROVE  RateOf(r, s, n + 1, now)
  <1>1. RlWindow \in Nat \ {0} /\ RlMax \in Nat \ {0} /\ MaxAccessTime \in Nat
    BY DEF AccessAssumption
  <1>2. OneMore(q, now, r)
    BY SpanMore
  <1>3. now \in Int /\ MaxAccessTime \in Int /\ s \in Int /\ s <= now
    BY <1>1 DEF RateOf
  <1>4. Cardinality(Span(r, s, MaxAccessTime)) <= n + 1 /\ Cardinality(Span(r, s, MaxAccessTime)) <= RlMax
    <2>1. now \in s..MaxAccessTime
      BY <1>3
    <2>2. Cardinality(Span(r, s, MaxAccessTime)) = Cardinality(Span(q, s, MaxAccessTime)) + 1
      BY <1>2, <1>3, <2>1 DEF OneMore
    <2>3. Cardinality(Span(q, s, MaxAccessTime)) <= n
      BY DEF RateOf
    <2>4. Cardinality(Span(q, s, MaxAccessTime)) \in Nat
      BY <1>3, SpanCounts
    <2> QED
      BY <1>1, <2>2, <2>3, <2>4
  <1>5. Cardinality(Span(r, s - RlWindow + 1, s - 1)) <= RlMax
    <2>1. PICK lo \in Int : lo = s - RlWindow + 1
      BY <1>1
    <2>2. PICK hi \in Int : hi = s - 1
      BY <1>1
    <2>3. now \notin lo..hi
      BY <1>3, <2>2
    <2>4. Span(r, lo, hi) = Span(q, lo, hi)
      BY <1>2, <2>3, Zenon DEF OneMore
    <2>5. Cardinality(Span(q, lo, hi)) <= RlMax
      BY <2>1, <2>2, Zenon DEF RateOf
    <2> QED
      BY <2>1, <2>2, <2>4, <2>5
  <1>6. EveryPeriod(r)
    <2>1. EveryPeriod(q)
      BY DEF RateOf
    <2> QED
      BY <1>2, <1>3, <1>4, <1>5, <2>1, PeriodsHold
  <1>7. ASSUME NEW i \in DOMAIN r
        PROVE  r[i] <= now /\ r[i] < s + RlWindow
    <2>1. CASE i \in DOMAIN q
      BY <1>2, <2>1, Zenon DEF RateOf, OneMore
    <2>2. CASE i = Len(q) + 1
      <3>1. now <= now /\ now < s + RlWindow
        BY <1>1, <1>3
      <3> QED
        BY <1>2, <2>2, <3>1, Zenon DEF OneMore
    <2> QED
      BY <1>2, <2>1, <2>2 DEF OneMore
  <1>8. n + 1 # 0
    OBVIOUS
  <1> QED
    BY <1>3, <1>4, <1>5, <1>6, <1>7, <1>8, Zenon DEF RateOf

\* Time passes, and what is counted without getting past the limiter only adds to the count.
LEMMA RateLater ==
    ASSUME NEW q \in Seq(0..MaxAccessTime), NEW s \in 0..MaxAccessTime, NEW n \in Nat, NEW k \in Nat,
           NEW now \in Int, NEW later \in Int, now <= later, n <= k, MaxAccessTime \in Nat,
           RateOf(q, s, n, now)
    PROVE  RateOf(q, s, k, later)
  <1>1. s <= later
    BY DEF RateOf
  <1>2. k = 0 => q = << >>
    BY DEF RateOf
  <1>3. ASSUME NEW i \in DOMAIN q
        PROVE  q[i] <= later
    <2>1. PICK x : x = q[i]
      OBVIOUS
    <2>2. x <= now
      BY <2>1, Zenon DEF RateOf
    <2>3. x \in 0..MaxAccessTime
      BY <2>1, TimesOf
    <2>4. x <= later
      BY <2>2, <2>3
    <2> QED
      BY <2>1, <2>4
  <1>4. Cardinality(Span(q, s, MaxAccessTime)) <= k
    <2>1. Cardinality(Span(q, s, MaxAccessTime)) <= n
      BY DEF RateOf
    <2>2. s \in Int /\ MaxAccessTime \in Int
      OBVIOUS
    <2>3. Cardinality(Span(q, s, MaxAccessTime)) \in Nat
      BY <2>2, SpanCounts
    <2> QED
      BY <2>1, <2>3
  <1> QED
    BY <1>1, <1>2, <1>3, <1>4, Zenon DEF RateOf

\* The bucket after one more event, and the account of what got past the limiter.
BucketAfter(b, now) ==
    IF b.count = 0 \/ now - b.startedAt >= RlWindow
    THEN [startedAt |-> now, count |-> 1]
    ELSE [b EXCEPT !.count = IF @ > RlMax THEN @ ELSE @ + 1]

PassedAfter(q, d, now) == IF d.count <= RlMax THEN Append(q, now) ELSE q

\* What an EVENT message of one connection does to its own bucket and account.
LEMMA RateSubmit ==
    ASSUME AccessAssumption, NEW q \in Seq(0..MaxAccessTime), NEW b \in BucketRecords,
           NEW now \in 0..MaxAccessTime, RateOf(q, b.startedAt, b.count, now),
           NEW d, d = BucketAfter(b, now), NEW r, r = PassedAfter(q, d, now)
    PROVE  RateOf(r, d.startedAt, d.count, now)
  <1>1. RlWindow \in Nat \ {0} /\ RlMax \in Nat \ {0} /\ MaxAccessTime \in Nat
    BY DEF AccessAssumption
  <1>2. PICK s, n : s = b.startedAt /\ n = b.count
    OBVIOUS
  <1>3. s \in 0..MaxAccessTime /\ n \in 0..(RlMax + 1)
    BY <1>2, Zenon DEF BucketRecords
  <1>4. n \in Nat /\ now \in Int /\ MaxAccessTime \in Nat
    BY <1>1, <1>3
  <1>5. RateOf(q, s, n, now)
    BY <1>2
  <1>6. CASE n = 0 \/ now - s >= RlWindow
    <2>1. d = [startedAt |-> now, count |-> 1]
      BY <1>2, <1>6, Zenon DEF BucketAfter
    <2>2. d.startedAt = now /\ d.count = 1
      BY <2>1
    <2>3. 1 <= RlMax
      BY <1>1
    <2>4. r = Append(q, now)
      BY <2>2, <2>3, Zenon DEF PassedAfter
    <2>5. RateOf(r, now, 1, now)
      BY <1>3, <1>4, <1>5, <1>6, <2>4, RateNew
    <2> QED
      BY <2>2, <2>5
  <1>7. CASE ~(n = 0 \/ now - s >= RlWindow)
    <2>1. d = [b EXCEPT !.count = IF @ > RlMax THEN @ ELSE @ + 1]
      BY <1>2, <1>7, Zenon DEF BucketAfter
    <2>2. PICK k : k = IF n > RlMax THEN n ELSE n + 1
      OBVIOUS
    <2>3. d = [b EXCEPT !.count = k]
      BY <1>2, <2>1, <2>2
    <2>4. d.startedAt = s /\ d.count = k
      BY <1>2, <2>3 DEF BucketRecords
    <2>5. k \in Nat /\ n <= k /\ now <= now
      BY <1>1, <1>3, <1>4, <2>2
    <2>6. CASE k <= RlMax
      <3>1. r = Append(q, now)
        BY <2>4, <2>6, Zenon DEF PassedAfter
      <3>2. k = n + 1
        BY <1>1, <1>3, <2>2, <2>6
      <3>3. ~(now - s >= RlWindow) /\ n + 1 <= RlMax
        BY <1>7, <2>6, <3>2
      <3>4. RateOf(r, s, n + 1, now)
        BY <1>3, <1>4, <1>5, <3>1, <3>3, RateSame
      <3> QED
        BY <2>4, <3>2, <3>4
    <2>7. CASE ~(k <= RlMax)
      <3>1. r = q
        BY <2>4, <2>7, Zenon DEF PassedAfter
      <3>2. RateOf(q, s, k, now)
        BY <1>3, <1>4, <1>5, <2>5, RateLater
      <3> QED
        BY <2>4, <3>1, <3>2
    <2> QED
      BY <2>6, <2>7
  <1> QED
    BY <1>6, <1>7

\* Every step keeps the accounts of the rate limiter.
LEMMA RateStep == AccessAssumption /\ AccessTypeOK /\ RateInv /\ [AccessNext]_accessVars => RateInv'
  <1> SUFFICES ASSUME AccessAssumption, AccessTypeOK, RateInv, [AccessNext]_accessVars
               PROVE  RateInv'
    OBVIOUS
  <1>1. /\ relayClock \in 0..MaxAccessTime
        /\ rlBuckets \in [AccessConns -> BucketRecords]
        /\ passed \in [AccessConns -> Seq(0..MaxAccessTime)]
    BY AccessTypes
  <1>2. ASSUME NEW c \in AccessConns, NEW e \in Submissions, SubmitEvent(c, e)
        PROVE  RateInv'
    <2>1. relayClock' = relayClock /\ rlBuckets' = [rlBuckets EXCEPT ![c] = Bucket(c)]
      BY <1>2, Zenon DEF SubmitEvent
    <2>2. PICK q, b, d : q = passed[c] /\ b = rlBuckets[c] /\ d = Bucket(c)
      OBVIOUS
    <2>3. q \in Seq(0..MaxAccessTime) /\ b \in BucketRecords
      BY <1>1, <2>2
    <2>4. RateOf(q, b.startedAt, b.count, relayClock)
      BY <2>2, Zenon DEF RateInv
    <2>5. d = BucketAfter(b, relayClock)
      <3>1. Bucket(c) = BucketAfter(rlBuckets[c], relayClock)
        BY Zenon DEF Bucket, BucketAfter
      <3> QED
        BY <2>2, <3>1
    <2>6. PICK r : r = PassedAfter(q, d, relayClock)
      OBVIOUS
    <2>7. RateOf(r, d.startedAt, d.count, relayClock)
      BY <1>1, <2>3, <2>4, <2>5, <2>6, RateSubmit
    <2>8. passed' = IF d.count <= RlMax THEN [passed EXCEPT ![c] = Append(@, relayClock)] ELSE passed
      BY <1>2, <2>2, Zenon DEF SubmitEvent, WithinRate
    <2>9. passed' = [passed EXCEPT ![c] = r]
      <3>1. CASE d.count <= RlMax
        BY <2>2, <2>6, <2>8, <3>1, Zenon DEF PassedAfter
      <3>2. CASE ~(d.count <= RlMax)
        <4>1. r = passed[c] /\ passed' = passed
          BY <2>2, <2>6, <2>8, <3>2, Zenon DEF PassedAfter
        <4> QED
          BY <1>1, <4>1
      <3> QED
        BY <3>1, <3>2
    <2>10. rlBuckets' = [rlBuckets EXCEPT ![c] = d]
      BY <2>1, <2>2
    <2>11. /\ passed'[c] = r /\ rlBuckets'[c] = d
           /\ \A o \in AccessConns \ {c} : passed'[o] = passed[o] /\ rlBuckets'[o] = rlBuckets[o]
      BY <1>1, <2>9, <2>10
    <2>12. ASSUME NEW o \in AccessConns
           PROVE  RateOf(passed'[o], rlBuckets'[o].startedAt, rlBuckets'[o].count, relayClock')
      <3>1. CASE o = c
        BY <2>1, <2>7, <2>11, <3>1
      <3>2. CASE o # c
        BY <2>1, <2>11, <3>2, Zenon DEF RateInv
      <3> QED
        BY <3>1, <3>2
    <2> QED
      BY <2>12, Zenon DEF RateInv, RateOf, Span
  <1>3. ASSUME NEW c \in AccessConns,
               (\E a \in AuthEvents : HandleAuth(c, a))
                 \/ ManagerConnect(c) \/ ManagerDisconnect(c) \/ CreateChallenge(c)
        PROVE  UNCHANGED <<relayClock, rlBuckets, passed>>
    BY <1>3 DEF HandleAuth, ManagerConnect, ManagerDisconnect, CreateChallenge
  <1>4. CASE UNCHANGED <<relayClock, rlBuckets, passed>>
    BY <1>4 DEF RateInv, RateOf, Span
  <1>5. CASE AccessTick
    <2>1. relayClock' = relayClock + 1 /\ UNCHANGED <<rlBuckets, passed>>
      BY <1>5 DEF AccessTick
    <2>2. PICK later : later = relayClock'
      OBVIOUS
    <2>3. later \in Int /\ relayClock \in Int /\ relayClock <= later /\ MaxAccessTime \in Nat
      BY <1>1, <2>1, <2>2 DEF AccessAssumption
    <2>4. ASSUME NEW o \in AccessConns
          PROVE  RateOf(passed'[o], rlBuckets'[o].startedAt, rlBuckets'[o].count, later)
      <3>1. PICK q, s, n : q = passed[o] /\ s = rlBuckets[o].startedAt /\ n = rlBuckets[o].count
        OBVIOUS
      <3>2. q \in Seq(0..MaxAccessTime)
        BY <1>1, <3>1
      <3>3. s \in 0..MaxAccessTime /\ n \in 0..(RlMax + 1)
        BY <1>1, <3>1, Zenon DEF BucketRecords
      <3>4. n \in Nat /\ n <= n
        BY <3>3
      <3>5. RateOf(q, s, n, relayClock)
        BY <3>1, Zenon DEF RateInv
      <3>6. RateOf(q, s, n, later)
        BY <2>3, <3>2, <3>3, <3>4, <3>5, RateLater
      <3> QED
        BY <2>1, <3>1, <3>6
    <2> QED
      BY <2>2, <2>4, Zenon DEF RateInv, RateOf, Span
  <1>6. CASE UNCHANGED accessVars
    BY <1>4, <1>6 DEF accessVars
  <1> QED
    BY <1>2, <1>3, <1>4, <1>5, <1>6 DEF AccessNext

\* The accounts say what the property does.
LEMMA RateInvHolds == AccessAssumption /\ RateInv => RateHolds
  BY Zenon DEF RateInv, RateOf, EveryPeriod, RateHolds, Span

-----------------------------------------------------------------------------
(* RelayAccess: what holds at the start                                       *)

\* At the start nobody is known and nothing is stored.
LEMMA AccessStart ==
    AccessAssumption /\ AccessInit => AccessTypeOK /\ AuthInv /\ AdvertisedIsEnforced /\ RateInv
  <1> SUFFICES ASSUME AccessAssumption, AccessInit
               PROVE  AccessTypeOK /\ AuthInv /\ AdvertisedIsEnforced /\ RateInv
    OBVIOUS
  <1>1. /\ RlMax \in Nat \ {0} /\ RlWindow \in Nat \ {0}
        /\ MaxEpoch \in Nat /\ MaxChallenge \in Nat /\ MaxAccessTime \in Nat
    BY DEF AccessAssumption
  <1>2. AccessTypeOK
    <2>1. NoContext \in ContextRecords /\ NoBucket \in BucketRecords
      BY <1>1 DEF NoContext, NoBucket, ContextRecords, BucketRecords
    <2>2. /\ contexts \in [AccessConns -> ContextRecords]
          /\ rlBuckets \in [AccessConns -> BucketRecords]
      BY <2>1 DEF AccessInit
    <2>3. /\ relayClock \in 0..MaxAccessTime /\ epoch \in [AccessConns -> 0..MaxEpoch]
      BY <1>1 DEF AccessInit
    <2>4. challenges \in Seq(AccessConns \X (0..MaxEpoch))
      BY DEF AccessInit
    <2>5. passed \in [AccessConns -> Seq(0..MaxAccessTime)]
      BY DEF AccessInit
    <2>6. stored = {} /\ proven = {} /\ storedBy = {}
      BY DEF AccessInit
    <2> QED
      BY <2>2, <2>3, <2>4, <2>5, <2>6, AccessTypes
  <1>3. \A c \in AccessConns : contexts[c] = NoContext
    BY DEF AccessInit
  <1>4. NoContext.authPubkey = Nobody /\ NoContext.challenge = Nobody
    BY DEF NoContext
  <1>5. storedBy = {}
    BY DEF AccessInit
  <1>6. AuthInv /\ AdvertisedIsEnforced
    BY <1>3, <1>4, <1>5
       DEF AuthInv, ChallengesAreOfNow, AuthIsProven, ProtectedFromOwner, AdvertisedIsEnforced
  <1>7. ASSUME NEW c \in AccessConns
        PROVE  RateOf(passed[c], rlBuckets[c].startedAt, rlBuckets[c].count, relayClock)
    <2>1. /\ passed[c] = << >> /\ rlBuckets[c] = NoBucket /\ relayClock = 0
          /\ NoBucket.startedAt = 0 /\ NoBucket.count = 0
      BY DEF AccessInit, NoBucket
    <2>2. DOMAIN (<< >>) = {}
      OBVIOUS
    <2>3. \A lo, hi : Span(<< >>, lo, hi) = {}
      BY <2>2, Zenon DEF Span
    <2>4. Cardinality({}) = 0 /\ 0 <= 0 /\ 0 <= RlMax /\ 0 <= 2 * RlMax
      BY <1>1, FS_EmptySet
    <2>5. \A lo, hi : Cardinality(Span(<< >>, lo, hi)) = 0
      BY <2>3, <2>4
    <2>6. EveryPeriod(<< >>)
      BY <2>4, <2>5, Zenon DEF EveryPeriod
    <2>7. RateOf(<< >>, 0, 0, 0)
      BY <2>2, <2>4, <2>5, <2>6, Zenon DEF RateOf
    <2> QED
      BY <2>1, <2>7
  <1> QED
    BY <1>2, <1>6, <1>7 DEF RateInv

-----------------------------------------------------------------------------
(* RelayAdmin: a change is shown                                              *)

CallSteps == {"idle", "reading", "checking", "refused", "done", "changed", "asked", "answered"}
CallMethods == {"none", "set", "delete", "list", "change", "supportedmethods", "other"}
CallRecords == [step : CallSteps, method : CallMethods, on : Lists \union ChangeFields \union {Unset},
                key : AdminKeys \union {Unset}, authorized : BOOLEAN, answer : SUBSET AdminKeys]

\* What the method of a call says of where it acts.
CallFits(c) ==
    /\ c.method \in {"set", "delete", "list"} => c.on \in Lists /\ c.key \in AdminKeys
    /\ c.method = "change" => c.on \in ChangeFields
    /\ c.step = "done" => c.method # "change"
    /\ c.step \in {"changed", "asked"} => c.method = "change"

\* A call has made its change.
IsMade(c) == c.method = "change" /\ c.step \in {"changed", "asked", "answered"}

CallsFit == \A r \in AdminCalls : CallFits(calls[r])

\* The history names the calls that have made their change, each once.
MadeOnce ==
    /\ \A r \in AdminCalls : IsMade(calls[r]) <=> \E i \in DOMAIN changes : changes[i] = r
    /\ \A i, j \in DOMAIN changes : changes[i] = changes[j] => i = j

\* For a change that was made, the shared object holds it or a later one.
OverridesLast ==
    \A i \in DOMAIN changes : \E j \in DOMAIN changes :
        i <= j /\ infoOverrides[calls[changes[i]].on] = changes[j]

\* For a change that was answered, the overlay does.
OverlayLater ==
    \A i \in DOMAIN changes : calls[changes[i]].step = "answered" =>
        \E j \in DOMAIN changes : i <= j /\ currentRelayInfo[calls[changes[i]].on] = changes[j]

AdminTypes ==
    /\ lists \in [Lists -> SUBSET AdminKeys]
    /\ infoOverrides \in [InfoFields -> AdminCalls \union {Unset}]
    /\ currentRelayInfo \in [InfoFields -> AdminCalls \union {"configured", "default", Unset}]
    /\ calls \in [AdminCalls -> CallRecords]
    /\ changes \in Seq(AdminCalls)

AdminInv == AdminTypes /\ CallsFit /\ MadeOnce /\ OverridesLast /\ OverlayLater

\* What is known of the overlay at the start.
LEMMA OverlayTyped ==
    ASSUME NEW S, NEW u \in [InfoFields -> S], NEW v \in [InfoFields -> S]
    PROVE  Spread(u, v) \in [InfoFields -> S]
  BY DEF Spread

\* At the start no call has been made and no field was changed.
LEMMA AdminStart == AdminAssumption /\ AdminInit => AdminInv
  <1> SUFFICES ASSUME AdminAssumption, AdminInit
               PROVE  AdminInv
    OBVIOUS
  <1>1. NoCall \in CallRecords
    BY DEF NoCall, CallRecords, CallSteps, CallMethods
  <1>2. currentRelayInfo \in [InfoFields -> AdminCalls \union {"configured", "default", Unset}]
    <2>1. PICK S : S = AdminCalls \union {"configured", "default", Unset}
      OBVIOUS
    <2>2. ConfiguredInfo \in [InfoFields -> S] /\ DefaultInfo \in [InfoFields -> S]
      BY <2>1 DEF AdminAssumption
    <2>3. Spread(DefaultInfo, ConfiguredInfo) \in [InfoFields -> S]
      BY <2>2, OverlayTyped
    <2> QED
      BY <2>1, <2>3 DEF AdminInit, RelayInfoOf
  <1>3. AdminTypes
    BY <1>1, <1>2 DEF AdminInit, AdminTypes
  <1>4. \A r \in AdminCalls : calls[r] = NoCall
    BY DEF AdminInit
  <1>5. CallsFit
    BY <1>4 DEF CallsFit, CallFits, NoCall
  <1>6. DOMAIN changes = {}
    BY DEF AdminInit
  <1>7. \A r \in AdminCalls : ~IsMade(calls[r])
    BY <1>4 DEF IsMade, NoCall
  <1> QED
    BY <1>3, <1>5, <1>6, <1>7 DEF AdminInv, MadeOnce, OverridesLast, OverlayLater

\* A step of a call, to c, that makes no change and answers none.
LEMMA QuietCall ==
    ASSUME AdminInv, NEW r \in AdminCalls, NEW c \in CallRecords, CallFits(c),
           calls' = [calls EXCEPT ![r] = c],
           lists' \in [Lists -> SUBSET AdminKeys],
           UNCHANGED <<infoOverrides, currentRelayInfo, changes>>,
           IsMade(c) <=> IsMade(calls[r]),
           IsMade(c) => c.on = calls[r].on /\ (c.step = "answered" => calls[r].step = "answered")
    PROVE  AdminInv'
  <1>1. /\ calls \in [AdminCalls -> CallRecords] /\ changes \in Seq(AdminCalls)
        /\ infoOverrides' = infoOverrides /\ currentRelayInfo' = currentRelayInfo /\ changes' = changes
    BY DEF AdminInv, AdminTypes
  <1>2. calls' \in [AdminCalls -> CallRecords]
    BY <1>1
  <1>3. AdminTypes'
    BY <1>1, <1>2 DEF AdminInv, AdminTypes
  <1>4. calls'[r] = c /\ \A o \in AdminCalls \ {r} : calls'[o] = calls[o]
    BY <1>1
  <1>5. \A o \in AdminCalls : CallFits(calls'[o])
    BY <1>4, Zenon DEF AdminInv, CallsFit
  <1>6. CallsFit'
    BY <1>5 DEF CallsFit, CallFits
  <1>7. \A o \in AdminCalls : IsMade(calls'[o]) <=> IsMade(calls[o])
    BY <1>4
  <1>8. \A o \in AdminCalls : IsMade(calls[o]) =>
          /\ calls'[o].on = calls[o].on
          /\ calls'[o].step = "answered" => calls[o].step = "answered"
    BY <1>4
  <1>9. \A i \in DOMAIN changes : changes[i] \in AdminCalls /\ IsMade(calls[changes[i]])
    <2>1. \A i \in DOMAIN changes : changes[i] \in AdminCalls
      BY <1>1
    <2> QED
      BY <2>1, Zenon DEF AdminInv, MadeOnce
  <1>10. MadeOnce'
    <2>1. \A o \in AdminCalls : IsMade(calls'[o]) <=> \E i \in DOMAIN changes : changes[i] = o
      BY <1>7, Zenon DEF AdminInv, MadeOnce
    <2>2. \A i, j \in DOMAIN changes : changes[i] = changes[j] => i = j
      BY DEF AdminInv, MadeOnce
    <2> QED
      BY <1>1, <2>1, <2>2 DEF MadeOnce, IsMade
  <1>11. OverridesLast'
    <2>1. \A i \in DOMAIN changes : \E j \in DOMAIN changes :
            i <= j /\ infoOverrides[calls'[changes[i]].on] = changes[j]
      BY <1>8, <1>9, Zenon DEF AdminInv, OverridesLast
    <2> QED
      BY <1>1, <2>1, Zenon DEF OverridesLast
  <1>12. OverlayLater'
    <2>1. \A i \in DOMAIN changes : calls'[changes[i]].step = "answered" =>
            \E j \in DOMAIN changes : i <= j /\ currentRelayInfo[calls'[changes[i]].on] = changes[j]
      BY <1>8, <1>9, Zenon DEF AdminInv, OverlayLater
    <2> QED
      BY <1>1, <2>1, Zenon DEF OverlayLater
  <1> QED
    BY <1>3, <1>6, <1>10, <1>11, <1>12 DEF AdminInv

\* A change of a field goes to the end of the history and into the shared object.
LEMMA ChangeSafe ==
    ASSUME AdminAssumption, AdminInv, NEW r \in AdminCalls, ChangeField(r)
    PROVE  AdminInv'
  <1>1. /\ calls \in [AdminCalls -> CallRecords] /\ changes \in Seq(AdminCalls)
        /\ infoOverrides \in [InfoFields -> AdminCalls \union {Unset}]
    BY DEF AdminInv, AdminTypes
  <1>2. /\ calls[r].step = "checking" /\ calls[r].method = "change"
        /\ infoOverrides' = [infoOverrides EXCEPT ![calls[r].on] = r]
        /\ changes' = Append(changes, r)
        /\ lists' = lists /\ currentRelayInfo' = currentRelayInfo
    BY Zenon DEF ChangeField, Passes
  <1>3. PICK b \in CallRecords : b = calls[r]
    BY <1>1
  <1>4. PICK c : c = [b EXCEPT !.step = "changed"]
    OBVIOUS
  <1>5. calls' = [calls EXCEPT ![r] = c]
    BY <1>1, <1>3, <1>4, Zenon DEF ChangeField
  <1>6. b.step = "checking" /\ b.method = "change" /\ b.on \in ChangeFields /\ b.on \in InfoFields
    BY <1>2, <1>3, Zenon DEF AdminInv, CallsFit, CallFits, AdminAssumption
  <1>7. /\ c \in CallRecords /\ c.step = "changed" /\ c.method = "change" /\ c.on = b.on
    BY <1>4, <1>6 DEF CallRecords, CallSteps
  <1>8. calls'[r] = c /\ \A o \in AdminCalls \ {r} : calls'[o] = calls[o]
    BY <1>1, <1>5
  <1>9. PICK n \in Nat : n = Len(changes)
    BY <1>1
  <1>10. /\ changes' \in Seq(AdminCalls) /\ DOMAIN changes = 1..n /\ DOMAIN changes' = 1..(n + 1)
         /\ changes'[n + 1] = r /\ \A i \in 1..n : changes'[i] = changes[i]
    BY <1>1, <1>2, <1>9
  <1>11. \A i \in 1..n : changes[i] \in AdminCalls /\ IsMade(calls[changes[i]])
    <2>1. \A i \in 1..n : changes[i] \in AdminCalls
      BY <1>1, <1>10
    <2> QED
      BY <2>1, <1>10, Zenon DEF AdminInv, MadeOnce
  <1>12. ~IsMade(calls[r]) /\ \A i \in 1..n : changes[i] # r
    BY <1>2, <1>11 DEF IsMade
  <1>13. AdminTypes'
    <2>1. calls' \in [AdminCalls -> CallRecords]
      BY <1>1, <1>5, <1>7
    <2>2. infoOverrides' \in [InfoFields -> AdminCalls \union {Unset}]
      BY <1>1, <1>2
    <2> QED
      BY <1>2, <1>10, <2>1, <2>2 DEF AdminInv, AdminTypes
  <1>14. CallsFit'
    <2>1. CallFits(c)
      BY <1>6, <1>7 DEF CallFits
    <2>2. \A o \in AdminCalls : CallFits(calls'[o])
      BY <1>8, <2>1, Zenon DEF AdminInv, CallsFit
    <2> QED
      BY <2>2 DEF CallsFit, CallFits
  <1>15. \A i \in 1..(n + 1) : i \in 1..n \/ i = n + 1
    OBVIOUS
  <1>16. n + 1 \in 1..(n + 1) /\ \A i \in 1..n : i \in 1..(n + 1) /\ i <= n + 1
    OBVIOUS
  <1>17. MadeOnce'
    <2>1. ASSUME NEW o \in AdminCalls
          PROVE  IsMade(calls'[o]) <=> \E i \in DOMAIN changes' : changes'[i] = o
      <3>1. CASE o = r
        <4>1. IsMade(calls'[r])
          BY <1>7, <1>8 DEF IsMade
        <4> QED
          BY <1>10, <1>16, <3>1, <4>1
      <3>2. CASE o # r
        <4>1. IsMade(calls'[o]) <=> IsMade(calls[o])
          BY <1>8, <3>2
        <4>2. IsMade(calls[o]) <=> \E i \in 1..n : changes[i] = o
          BY <1>10, Zenon DEF AdminInv, MadeOnce
        <4>3. (\E i \in 1..n : changes[i] = o) <=> \E i \in 1..(n + 1) : changes'[i] = o
          BY <1>10, <1>15, <1>16, <3>2
        <4> QED
          BY <1>10, <4>1, <4>2, <4>3
      <3> QED
        BY <3>1, <3>2
    <2>2. ASSUME NEW i \in DOMAIN changes', NEW j \in DOMAIN changes', changes'[i] = changes'[j]
          PROVE  i = j
      <3>1. CASE i \in 1..n /\ j \in 1..n
        BY <1>10, <2>2, <3>1, Zenon DEF AdminInv, MadeOnce
      <3>2. CASE i \in 1..n /\ j = n + 1
        BY <1>10, <1>12, <2>2, <3>2
      <3>3. CASE i = n + 1 /\ j \in 1..n
        BY <1>10, <1>12, <2>2, <3>3
      <3>4. CASE i = n + 1 /\ j = n + 1
        BY <3>4
      <3> QED
        BY <1>10, <1>15, <3>1, <3>2, <3>3, <3>4
    <2> QED
      BY <2>1, <2>2 DEF MadeOnce, IsMade
  <1>18. OverridesLast'
    <2>1. ASSUME NEW i \in DOMAIN changes'
          PROVE  \E j \in DOMAIN changes' :
                   i <= j /\ infoOverrides'[calls'[changes'[i]].on] = changes'[j]
      <3>1. infoOverrides'[b.on] = r /\ \A f \in InfoFields : f # b.on => infoOverrides'[f] = infoOverrides[f]
        BY <1>1, <1>2, <1>3, <1>6
      <3>2. CASE i = n + 1
        <4>1. infoOverrides'[calls'[changes'[i]].on] = r
          BY <1>7, <1>8, <1>10, <3>1, <3>2
        <4>2. n + 1 <= n + 1
          OBVIOUS
        <4> QED
          BY <1>10, <1>16, <3>2, <4>1, <4>2
      <3>3. CASE i \in 1..n
        <4>1. PICK o : o = changes[i]
          OBVIOUS
        <4>2. /\ o \in AdminCalls /\ IsMade(calls[o]) /\ changes'[i] = o /\ o # r
              /\ calls'[o] = calls[o]
          BY <1>8, <1>10, <1>11, <1>12, <3>3, <4>1
        <4>3. calls[o].on \in InfoFields
          BY <4>2, Zenon DEF AdminInv, CallsFit, CallFits, IsMade, AdminAssumption
        <4>4. CASE calls[o].on = b.on
          <5>1. infoOverrides'[calls'[changes'[i]].on] = r
            BY <3>1, <4>2, <4>4
          <5> QED
            BY <1>10, <1>16, <3>3, <5>1
        <4>5. CASE calls[o].on # b.on
          <5>1. PICK j \in 1..n : i <= j /\ infoOverrides[calls[o].on] = changes[j]
            BY <1>10, <3>3, <4>1, Zenon DEF AdminInv, OverridesLast
          <5>2. infoOverrides'[calls'[changes'[i]].on] = changes'[j]
            BY <1>10, <3>1, <4>2, <4>3, <4>5, <5>1
          <5> QED
            BY <1>10, <1>16, <5>1, <5>2
        <4> QED
          BY <4>4, <4>5
      <3> QED
        BY <1>10, <1>15, <3>2, <3>3
    <2> QED
      BY <2>1, Zenon DEF OverridesLast
  <1>19. OverlayLater'
    <2>1. ASSUME NEW i \in DOMAIN changes', calls'[changes'[i]].step = "answered"
          PROVE  \E j \in DOMAIN changes' :
                   i <= j /\ currentRelayInfo'[calls'[changes'[i]].on] = changes'[j]
      <3>1. i # n + 1
        <4>1. calls'[changes'[n + 1]].step = "changed"
          BY <1>7, <1>8, <1>10
        <4>2. "changed" # "answered"
          OBVIOUS
        <4> QED
          BY <2>1, <4>1, <4>2
      <3>2. i \in 1..n
        BY <1>10, <1>15, <3>1
      <3>3. PICK o : o = changes[i]
        OBVIOUS
      <3>4. changes'[i] = o /\ calls'[o] = calls[o]
        BY <1>8, <1>10, <1>11, <1>12, <3>2, <3>3
      <3>5. PICK j \in 1..n : i <= j /\ currentRelayInfo[calls[o].on] = changes[j]
        <4>1. calls[changes[i]].step = "answered" /\ i \in DOMAIN changes
          BY <1>10, <2>1, <3>2, <3>3, <3>4
        <4>2. \E j \in DOMAIN changes : i <= j /\ currentRelayInfo[calls[changes[i]].on] = changes[j]
          BY <4>1, Zenon DEF AdminInv, OverlayLater
        <4> QED
          BY <1>10, <3>3, <4>2
      <3>6. currentRelayInfo'[calls'[changes'[i]].on] = changes'[j]
        BY <1>2, <1>10, <3>4, <3>5
      <3> QED
        BY <1>10, <1>16, <3>5, <3>6
    <2> QED
      BY <2>1, Zenon DEF OverlayLater
  <1> QED
    BY <1>13, <1>14, <1>17, <1>18, <1>19 DEF AdminInv

\* The overlay takes, for every field that was changed, a change no earlier than it showed.
LEMMA OverlaySafe ==
    ASSUME AdminAssumption, AdminInv, NEW r \in AdminCalls, OverlayInfo(r)
    PROVE  AdminInv'
  <1>1. /\ calls \in [AdminCalls -> CallRecords] /\ changes \in Seq(AdminCalls)
        /\ infoOverrides \in [InfoFields -> AdminCalls \union {Unset}]
        /\ currentRelayInfo \in [InfoFields -> AdminCalls \union {"configured", "default", Unset}]
    BY DEF AdminInv, AdminTypes
  <1>2. /\ calls[r].step = "asked"
        /\ currentRelayInfo' = Spread(currentRelayInfo, infoOverrides)
        /\ changes' = changes /\ lists' = lists /\ infoOverrides' = infoOverrides
    BY Zenon DEF OverlayInfo
  <1>3. PICK b \in CallRecords : b = calls[r]
    BY <1>1
  <1>4. PICK c : c = [b EXCEPT !.step = "answered"]
    OBVIOUS
  <1>5. calls' = [calls EXCEPT ![r] = c]
    BY <1>1, <1>3, <1>4, Zenon DEF OverlayInfo
  <1>6. b.step = "asked" /\ b.method = "change" /\ b.on \in ChangeFields
    BY <1>2, <1>3, Zenon DEF AdminInv, CallsFit, CallFits
  <1>7. /\ c \in CallRecords /\ c.step = "answered" /\ c.method = "change" /\ c.on = b.on
    BY <1>4, <1>6 DEF CallRecords, CallSteps
  <1>8. calls'[r] = c /\ \A o \in AdminCalls \ {r} : calls'[o] = calls[o]
    BY <1>1, <1>5
  <1>9. AdminTypes'
    <2>1. calls' \in [AdminCalls -> CallRecords]
      BY <1>1, <1>5, <1>7
    <2>2. currentRelayInfo' \in [InfoFields -> AdminCalls \union {"configured", "default", Unset}]
      BY <1>1, <1>2 DEF Spread
    <2> QED
      BY <1>1, <1>2, <2>1, <2>2 DEF AdminInv, AdminTypes
  <1>10. CallsFit'
    <2>1. CallFits(c)
      BY <1>6, <1>7 DEF CallFits
    <2>2. \A o \in AdminCalls : CallFits(calls'[o])
      BY <1>8, <2>1, Zenon DEF AdminInv, CallsFit
    <2> QED
      BY <2>2 DEF CallsFit, CallFits
  <1>11. IsMade(c) /\ IsMade(b)
    BY <1>6, <1>7 DEF IsMade
  <1>12. \A o \in AdminCalls : (IsMade(calls'[o]) <=> IsMade(calls[o])) /\ calls'[o].on = calls[o].on
    BY <1>3, <1>7, <1>8, <1>11
  <1>13. \A i \in DOMAIN changes : changes[i] \in AdminCalls /\ IsMade(calls[changes[i]])
    <2>1. \A i \in DOMAIN changes : changes[i] \in AdminCalls
      BY <1>1
    <2> QED
      BY <2>1, Zenon DEF AdminInv, MadeOnce
  <1>14. MadeOnce'
    <2>1. \A o \in AdminCalls : IsMade(calls'[o]) <=> \E i \in DOMAIN changes : changes[i] = o
      BY <1>12, Zenon DEF AdminInv, MadeOnce
    <2>2. \A i, j \in DOMAIN changes : changes[i] = changes[j] => i = j
      BY DEF AdminInv, MadeOnce
    <2> QED
      BY <1>2, <2>1, <2>2 DEF MadeOnce, IsMade
  <1>15. OverridesLast'
    <2>1. \A i \in DOMAIN changes : \E j \in DOMAIN changes :
            i <= j /\ infoOverrides[calls'[changes[i]].on] = changes[j]
      BY <1>12, <1>13, Zenon DEF AdminInv, OverridesLast
    <2> QED
      BY <1>2, <2>1, Zenon DEF OverridesLast
  <1>16. OverlayLater'
    <2>1. ASSUME NEW i \in DOMAIN changes
          PROVE  \E j \in DOMAIN changes :
                   i <= j /\ currentRelayInfo'[calls'[changes[i]].on] = changes[j]
      <3>1. PICK o : o = changes[i]
        OBVIOUS
      <3>2. o \in AdminCalls /\ IsMade(calls[o]) /\ calls'[o].on = calls[o].on
        BY <1>12, <1>13, <3>1
      <3>3. calls[o].on \in InfoFields
        BY <3>2, Zenon DEF AdminInv, CallsFit, CallFits, IsMade, AdminAssumption
      <3>4. PICK j \in DOMAIN changes : i <= j /\ infoOverrides[calls[o].on] = changes[j]
        BY <3>1, Zenon DEF AdminInv, OverridesLast
      <3>5. changes[j] \in AdminCalls /\ changes[j] # Unset
        BY <1>13, <3>4, Zenon DEF AdminAssumption
      <3>6. PICK f \in InfoFields : f = calls[o].on
        BY <3>3
      <3>7. infoOverrides[f] # Unset /\ infoOverrides[f] = changes[j]
        BY <3>4, <3>5, <3>6
      <3>8. currentRelayInfo'[f] = infoOverrides[f]
        BY <1>2, <3>7 DEF Spread
      <3>9. currentRelayInfo'[calls'[changes[i]].on] = changes[j]
        BY <3>1, <3>2, <3>6, <3>7, <3>8
      <3> QED
        BY <3>4, <3>9
    <2> QED
      BY <1>2, <2>1, Zenon DEF OverlayLater
  <1> QED
    BY <1>9, <1>10, <1>14, <1>15, <1>16 DEF AdminInv

\* Every step keeps the invariant of the administration.
LEMMA AdminStep == AdminAssumption /\ AdminInv /\ [AdminNext]_adminVars => AdminInv'
  <1> SUFFICES ASSUME AdminAssumption, AdminInv, [AdminNext]_adminVars
               PROVE  AdminInv'
    OBVIOUS
  <1>1. /\ calls \in [AdminCalls -> CallRecords] /\ lists \in [Lists -> SUBSET AdminKeys]
    BY DEF AdminInv, AdminTypes
  <1>2. ASSUME NEW r \in AdminCalls, NEW q \in Requests, NEW t \in Tokens, Request(r, q, t)
        PROVE  AdminInv'
    <2>1. PICK c : c = [step |-> "reading", method |-> q.method, on |-> q.on, key |-> q.key,
                        authorized |-> ValidateEventFull(t), answer |-> {}]
      OBVIOUS
    <2>2. /\ calls[r].step = "idle" /\ calls' = [calls EXCEPT ![r] = c] /\ lists' = lists
          /\ UNCHANGED <<infoOverrides, currentRelayInfo, changes>>
      BY <1>2, <2>1, Zenon DEF Request
    <2>3. ValidateEventFull(t) \in BOOLEAN
      BY DEF ValidateEventFull
    <2>4. /\ q.method \in CallMethods /\ q.on \in Lists \union ChangeFields \union {Unset}
          /\ q.key \in AdminKeys \union {Unset}
          /\ q.method \in {"set", "delete", "list"} => q.on \in Lists /\ q.key \in AdminKeys
          /\ q.method = "change" => q.on \in ChangeFields
      BY DEF Requests, CallMethods
    <2>5. /\ c.step = "reading" /\ c.method = q.method /\ c.on = q.on /\ c.key = q.key
      BY <2>1
    <2>6. c \in CallRecords
      BY <2>1, <2>3, <2>4 DEF CallRecords, CallSteps
    <2>7. CallFits(c)
      BY <2>4, <2>5 DEF CallFits
    <2>8. ~IsMade(c) /\ ~IsMade(calls[r])
      BY <2>2, <2>5 DEF IsMade
    <2> QED
      BY <1>1, <2>2, <2>6, <2>7, <2>8, QuietCall
  <1>3. ASSUME NEW r \in AdminCalls, NEW s \in CallSteps, NEW b, b = calls[r],
               calls' = [calls EXCEPT ![r].step = s],
               UNCHANGED <<infoOverrides, currentRelayInfo, changes>>,
               lists' \in [Lists -> SUBSET AdminKeys],
               s = "done" => b.method # "change", s \in {"changed", "asked"} => b.method = "change",
               IsMade([b EXCEPT !.step = s]) <=> IsMade(b), s = "answered" => ~IsMade(b)
        PROVE  AdminInv'
    <2>1. PICK c : c = [b EXCEPT !.step = s]
      OBVIOUS
    <2>2. b \in CallRecords /\ CallFits(b)
      BY <1>1, <1>3, Zenon DEF AdminInv, CallsFit
    <2>3. /\ c \in CallRecords /\ c.step = s /\ c.method = b.method /\ c.on = b.on /\ c.key = b.key
      BY <2>1, <2>2 DEF CallRecords
    <2>4. CallFits(c)
      BY <1>3, <2>2, <2>3, Zenon DEF CallFits
    <2>5. calls' = [calls EXCEPT ![r] = c]
      BY <1>3, <2>1
    <2>6. IsMade(c) <=> IsMade(calls[r])
      BY <1>3, <2>1
    <2>7. IsMade(c) => c.on = calls[r].on /\ (c.step = "answered" => calls[r].step = "answered")
      BY <1>3, <2>3, <2>6
    <2> QED
      BY <1>3, <2>3, <2>4, <2>5, <2>6, <2>7, QuietCall
  <1>4. ASSUME NEW b \in CallRecords, NEW s \in CallSteps
        PROVE  IsMade([b EXCEPT !.step = s]) <=>
                 (b.method = "change" /\ s \in {"changed", "asked", "answered"})
    BY DEF IsMade, CallRecords
  <1>5. ASSUME NEW r \in AdminCalls, NEW parsed \in BOOLEAN, BodyRead(r, parsed)
        PROVE  AdminInv'
    <2>1. PICK b \in CallRecords : b = calls[r]
      BY <1>1
    <2>2. PICK s : s = IF parsed THEN "checking" ELSE "refused"
      OBVIOUS
    <2>3. /\ b.step = "reading" /\ calls' = [calls EXCEPT ![r].step = s] /\ lists' = lists
          /\ UNCHANGED <<infoOverrides, currentRelayInfo, changes>>
      BY <1>5, <2>1, <2>2, Zenon DEF BodyRead
    <2>4. s \in CallSteps /\ s \in {"checking", "refused"}
      BY <2>2 DEF CallSteps
    <2>5. ~IsMade(b)
      BY <2>3 DEF IsMade
    <2>6. IsMade([b EXCEPT !.step = s]) <=> IsMade(b)
      BY <1>4, <2>4, <2>5
    <2> QED
      BY <1>1, <1>3, <2>1, <2>3, <2>4, <2>5, <2>6
  <1>6. ASSUME NEW r \in AdminCalls, Unauthorized(r)
        PROVE  AdminInv'
    <2>1. PICK b \in CallRecords : b = calls[r]
      BY <1>1
    <2>2. /\ b.step = "checking" /\ calls' = [calls EXCEPT ![r].step = "refused"] /\ lists' = lists
          /\ UNCHANGED <<infoOverrides, currentRelayInfo, changes>>
      BY <1>6, <2>1, Zenon DEF Unauthorized
    <2>3. "refused" \in CallSteps /\ ~IsMade(b)
      BY <2>2 DEF CallSteps, IsMade
    <2>4. IsMade([b EXCEPT !.step = "refused"]) <=> IsMade(b)
      BY <1>4, <2>3
    <2> QED
      BY <1>1, <1>3, <2>1, <2>2, <2>3, <2>4
  <1>7. ASSUME NEW r \in AdminCalls, NEW m \in {"supportedmethods", "other"}, Passes(r, m),
               AnswerAtOnce(r)
        PROVE  AdminInv'
    <2>1. PICK b \in CallRecords : b = calls[r]
      BY <1>1
    <2>2. /\ b.step = "checking" /\ b.method = m
          /\ calls' = [calls EXCEPT ![r].step = "answered"] /\ lists' = lists
          /\ UNCHANGED <<infoOverrides, currentRelayInfo, changes>>
      BY <1>7, <2>1, Zenon DEF AnswerAtOnce, Passes
    <2>3. "answered" \in CallSteps /\ ~IsMade(b) /\ b.method # "change"
      BY <2>2 DEF CallSteps, IsMade
    <2>4. IsMade([b EXCEPT !.step = "answered"]) <=> IsMade(b)
      BY <1>4, <2>3
    <2> QED
      BY <1>1, <1>3, <2>1, <2>2, <2>3, <2>4
  <1>8. ASSUME NEW r \in AdminCalls, PutOnList(r) \/ TakeOffList(r)
        PROVE  AdminInv'
    <2>1. PICK b \in CallRecords : b = calls[r]
      BY <1>1
    <2>2. /\ b.step = "checking" /\ b.method \in {"set", "delete"}
          /\ calls' = [calls EXCEPT ![r].step = "done"]
          /\ UNCHANGED <<infoOverrides, currentRelayInfo, changes>>
          /\ \/ lists' = [lists EXCEPT ![b.on] = @ \union {b.key}]
             \/ lists' = [lists EXCEPT ![b.on] = @ \ {b.key}]
      <3>1. CASE PutOnList(r)
        BY <2>1, <3>1, Zenon DEF PutOnList, Passes
      <3>2. CASE TakeOffList(r)
        BY <2>1, <3>2, Zenon DEF TakeOffList, Passes
      <3> QED
        BY <1>8, <3>1, <3>2
    <2>3. b.on \in Lists /\ b.key \in AdminKeys
      BY <2>1, <2>2, Zenon DEF AdminInv, CallsFit, CallFits
    <2>4. lists' \in [Lists -> SUBSET AdminKeys]
      BY <1>1, <2>2, <2>3
    <2>5. "done" \in CallSteps /\ ~IsMade(b) /\ b.method # "change"
      BY <2>2 DEF CallSteps, IsMade
    <2>6. IsMade([b EXCEPT !.step = "done"]) <=> IsMade(b)
      BY <1>4, <2>5
    <2> QED
      BY <1>3, <2>1, <2>2, <2>4, <2>5, <2>6
  <1>9. ASSUME NEW r \in AdminCalls, ReadList(r)
        PROVE  AdminInv'
    <2>1. PICK b \in CallRecords : b = calls[r]
      BY <1>1
    <2>2. PICK a : a = lists[b.on]
      OBVIOUS
    <2>3. PICK c : c = [b EXCEPT !.step = "done", !.answer = a]
      OBVIOUS
    <2>4. /\ b.step = "checking" /\ b.method = "list" /\ lists' = lists
          /\ calls' = [calls EXCEPT ![r].step = "done", ![r].answer = a]
          /\ UNCHANGED <<infoOverrides, currentRelayInfo, changes>>
      BY <1>9, <2>1, <2>2, Zenon DEF ReadList, Passes
    <2>5. calls' = [calls EXCEPT ![r] = c]
      BY <1>1, <2>1, <2>3, <2>4
    <2>6. CallFits(b) /\ b.on \in Lists
      BY <2>1, <2>4, Zenon DEF AdminInv, CallsFit, CallFits
    <2>7. a \in SUBSET AdminKeys
      BY <1>1, <2>2, <2>6
    <2>8. /\ c \in CallRecords /\ c.step = "done" /\ c.method = b.method /\ c.on = b.on /\ c.key = b.key
      BY <2>3, <2>7 DEF CallRecords, CallSteps
    <2>9. CallFits(c)
      BY <2>4, <2>6, <2>8 DEF CallFits
    <2>10. ~IsMade(c) /\ ~IsMade(calls[r])
      BY <2>1, <2>4, <2>8 DEF IsMade
    <2> QED
      BY <1>1, <2>4, <2>5, <2>8, <2>9, <2>10, QuietCall
  <1>10. ASSUME NEW r \in AdminCalls, RespondList(r)
         PROVE  AdminInv'
    <2>1. PICK b \in CallRecords : b = calls[r]
      BY <1>1
    <2>2. /\ b.step = "done" /\ calls' = [calls EXCEPT ![r].step = "answered"] /\ lists' = lists
          /\ UNCHANGED <<infoOverrides, currentRelayInfo, changes>>
      BY <1>10, <2>1, Zenon DEF RespondList
    <2>3. b.method # "change"
      BY <2>1, <2>2, Zenon DEF AdminInv, CallsFit, CallFits
    <2>4. "answered" \in CallSteps /\ ~IsMade(b)
      BY <2>3 DEF CallSteps, IsMade
    <2>5. IsMade([b EXCEPT !.step = "answered"]) <=> IsMade(b)
      BY <1>4, <2>3, <2>4
    <2> QED
      BY <1>1, <1>3, <2>1, <2>2, <2>4, <2>5
  <1>11. ASSUME NEW r \in AdminCalls, AskForInfo(r)
         PROVE  AdminInv'
    <2>1. PICK b \in CallRecords : b = calls[r]
      BY <1>1
    <2>2. /\ b.step = "changed" /\ calls' = [calls EXCEPT ![r].step = "asked"] /\ lists' = lists
          /\ UNCHANGED <<infoOverrides, currentRelayInfo, changes>>
      BY <1>11, <2>1, Zenon DEF AskForInfo
    <2>3. b.method = "change"
      BY <2>1, <2>2, Zenon DEF AdminInv, CallsFit, CallFits
    <2>4. "asked" \in CallSteps /\ IsMade(b)
      BY <2>2, <2>3 DEF CallSteps, IsMade
    <2>5. IsMade([b EXCEPT !.step = "asked"]) <=> IsMade(b)
      BY <1>4, <2>3, <2>4
    <2> QED
      BY <1>1, <1>3, <2>1, <2>2, <2>3, <2>4, <2>5
  <1>12. CASE UNCHANGED adminVars
    BY <1>12 DEF adminVars, AdminInv, AdminTypes, CallsFit, CallFits, MadeOnce, IsMade, OverridesLast,
                 OverlayLater
  <1>13. ASSUME NEW r \in AdminCalls, AnswerAtOnce(r)
         PROVE  AdminInv'
    BY <1>7, <1>13 DEF AnswerAtOnce
  <1> QED
    BY <1>2, <1>5, <1>6, <1>8, <1>9, <1>10, <1>11, <1>12, <1>13, ChangeSafe, OverlaySafe DEF AdminNext

\* The invariant says what the property does.
LEMMA AdminShows == AdminAssumption /\ AdminInv => AdminTypeOK /\ DocumentShowsChanges
  <1> SUFFICES ASSUME AdminAssumption, AdminInv
               PROVE  AdminTypeOK /\ DocumentShowsChanges
    OBVIOUS
  <1>1. calls \in [AdminCalls -> CallRecords] /\ changes \in Seq(AdminCalls)
    BY DEF AdminInv, AdminTypes
  <1>2. AdminTypeOK
    <2>1. \A r \in AdminCalls : calls[r].step \in CallSteps
      BY <1>1 DEF CallRecords
    <2> QED
      BY <2>1 DEF AdminInv, AdminTypes, AdminTypeOK, CallSteps
  <1>3. \A i \in DOMAIN changes : changes[i] \in AdminCalls
    BY <1>1
  <1>4. ASSUME NEW i \in DOMAIN changes
        PROVE  Place(changes[i]) = i
    <2>1. \A k \in DOMAIN changes : changes[k] = changes[i] => k = i
      BY Zenon DEF AdminInv, MadeOnce
    <2> QED
      BY <2>1 DEF Place
  <1>5. ASSUME NEW r \in AdminCalls, calls[r].method = "change", calls[r].step = "answered"
        PROVE  /\ Document[calls[r].on] \in AdminCalls
               /\ Place(Document[calls[r].on]) >= Place(r)
    <2>1. IsMade(calls[r])
      BY <1>5 DEF IsMade
    <2>2. PICK i \in DOMAIN changes : changes[i] = r
      BY <2>1, Zenon DEF AdminInv, MadeOnce
    <2>3. PICK j \in DOMAIN changes : i <= j /\ currentRelayInfo[calls[r].on] = changes[j]
      BY <1>5, <2>2, Zenon DEF AdminInv, OverlayLater
    <2>4. changes[j] \in AdminCalls /\ changes[j] # Unset
      BY <1>3, <2>3, Zenon DEF AdminAssumption
    <2>5. PICK f \in InfoFields : f = calls[r].on
      BY <1>5, Zenon DEF AdminInv, CallsFit, CallFits, AdminAssumption
    <2>6. currentRelayInfo[f] # Unset
      BY <2>3, <2>4, <2>5
    <2>7. Document[f] = currentRelayInfo[f]
      BY <2>6, Zenon DEF Document, Spread
    <2>8. Document[calls[r].on] = changes[j]
      BY <2>3, <2>5, <2>7
    <2>9. Place(changes[j]) = j /\ Place(r) = i
      BY <1>4, <2>2, <2>3
    <2>10. i \in Int /\ j \in Int
      BY <1>1
    <2>11. j >= i
      BY <2>3, <2>10
    <2> QED
      BY <2>4, <2>8, <2>9, <2>11
  <1> QED
    BY <1>2, <1>5 DEF DocumentShowsChanges

-----------------------------------------------------------------------------
(* ClientServices: the calls of the catalogue                                *)
(*                                                                          *)
(* What each call asks a relay for, as decodeFilter leaves its filter, for  *)
(* any arguments; so what it gets of the events of the operation it goes    *)
(* with, and that it is a reader of the kind that is served.                *)

\* A query of one of the services, and all that it says.
IsQuery(q, authors, kinds, tags, limit, mode, takes, local) ==
    /\ DOMAIN q = {"ids", "authors", "kinds", "tags", "limit", "mode", "takes", "local"}
    /\ q.ids = {} /\ q.authors = authors /\ q.kinds = kinds /\ q.tags = tags
    /\ q.limit = limit /\ q.mode = mode /\ q.takes = takes /\ q.local = local

Gets(q, e) == Asks(DecodeFilter(q), e)
By(authors, e) == authors = {} \/ e.pubkey \in authors
OfKind(kinds, e) == kinds = {} \/ e.kind \in kinds

\* What must be said of one query of a reader.
AreCounts(limit, takes, mode, local) ==
    IsCount(limit) /\ IsCount(takes) /\ (mode \in {"head", "stream"} => local = {})

IsSound(q) == AreCounts(q.limit, q.takes, q.mode, q.local)

\* The query is sound, and gets the events by these authors, of these kinds, with these tags.
AsksFor(q, authors, kinds, tags) ==
    /\ IsSound(q)
    /\ \A e : Gets(q, e) <=> By(authors, e) /\ OfKind(kinds, e) /\ tags \subseteq e.tags

\* The tags that decodeFilter keeps, which have a value each.
AreKeptOf(kept, tags) ==
    /\ kept = {t \in tags : t[1] \in FilterTags}
    /\ \A t, u \in kept : t[1] = u[1] => t = u

\* The tags of a list, and those of a label that are asked for.
ListTags(kind, d) == IF ListNeedsD(kind) THEN {<<"d", d>>} ELSE {}
LabelTags(target) == IF target[1] \in FilterTags THEN {target} ELSE {}

LEMMA QueryAsksFor ==
    ASSUME NEW q, NEW authors, NEW kinds, NEW tags, NEW limit, NEW mode, NEW takes, NEW local,
           IsQuery(q, authors, kinds, tags, limit, mode, takes, local),
           AreCounts(limit, takes, mode, local), NEW kept, AreKeptOf(kept, tags)
    PROVE  AsksFor(q, authors, kinds, kept)
  <1>1. PICK f : f = DecodeFilter(q)
    OBVIOUS
  <1>2. f.ids = {} /\ f.authors = authors /\ f.kinds = kinds /\ f.tags = kept
    BY <1>1 DEF DecodeFilter, IsQuery, AreKeptOf
  <1>3. ASSUME NEW e
        PROVE  (\A name \in TagNames(f) : \E t \in f.tags : t[1] = name /\ t \in e.tags) <=>
                 kept \subseteq e.tags
    BY <1>2 DEF TagNames, AreKeptOf
  <1>4. \A e : Gets(q, e) <=> By(authors, e) /\ OfKind(kinds, e) /\ kept \subseteq e.tags
    BY <1>1, <1>2, <1>3 DEF Gets, Asks, By, OfKind
  <1>5. IsSound(q)
    BY DEF IsQuery, IsSound
  <1> QED
    BY <1>4, <1>5 DEF AsksFor

LEMMA CountsAre == IsCount(NoLimit) /\ \A n \in Nat \ {0} : IsCount(n) /\ n # NoLimit
  BY EventsAssumption DEF IsCount

\* Application data, articles, lists, status, bookmarks.
LEMMA DataQueries ==
    /\ \A a, x : AsksFor(GetAppData(a, x), {a}, {30078}, {<<"d", x>>})
    /\ \A a, n : IsCount(n) => AsksFor(ListKeys(a, n), {a}, {30078}, {})
    /\ \A a, x : AsksFor(GetArticle(a, x), {a}, {30023}, {<<"d", x>>})
    /\ \A a, n : IsCount(n) => AsksFor(ListArticles(a, n), {a}, {30023}, {})
    /\ \A a, x, k, n : IsCount(n) => AsksFor(GetLatestList(a, k, x, n), {a}, {k}, ListTags(k, x))
    /\ \A a, x : AsksFor(GetStatus(a, x), {a}, {30315}, {<<"d", x>>})
    /\ \A u, S : AsksFor(GetByUrl(u, S), S, {39701}, {<<"d", u.rest>>})
    /\ \A x, n, S : IsCount(n) => AsksFor(ListByTopic(x, S, n), S, {39701}, {<<"t", x>>})
  <1>1. ASSUME NEW a, NEW x
       PROVE  AsksFor(GetAppData(a, x), {a}, {30078}, {<<"d", x>>})
    <2>1. PICK q : q = GetAppData(a, x)
      OBVIOUS
    <2>2. IsQuery(q, {a}, {30078},
                  {<<"d", x>>}, 1, "head", 1, {})
      BY <2>1 DEF IsQuery, GetAppData, FirstAt, First, AskFor
    <2>3. AreCounts(1, 1, "head", {})
      BY CountsAre DEF AreCounts, Or, IsCount
    <2>4. AreKeptOf({<<"d", x>>}, {<<"d", x>>})
      BY DEF AreKeptOf, FilterTags
    <2> QED
      BY <2>1, <2>2, <2>3, <2>4, QueryAsksFor
  <1>2. ASSUME NEW a, NEW n, IsCount(n)
       PROVE  AsksFor(ListKeys(a, n), {a}, {30078}, {})
    <2>1. PICK q : q = ListKeys(a, n)
      OBVIOUS
    <2>2. IsQuery(q, {a}, {30078},
                  {}, NoLimit, "loop", Or(n, 100), {})
      BY <2>1 DEF IsQuery, ListKeys, Loop, AskFor
    <2>3. AreCounts(NoLimit, Or(n, 100), "loop", {})
      BY <1>2, CountsAre DEF AreCounts, Or, IsCount
    <2>4. AreKeptOf({}, {})
      BY DEF AreKeptOf, FilterTags
    <2> QED
      BY <2>1, <2>2, <2>3, <2>4, QueryAsksFor
  <1>3. ASSUME NEW a, NEW x
       PROVE  AsksFor(GetArticle(a, x), {a}, {30023}, {<<"d", x>>})
    <2>1. PICK q : q = GetArticle(a, x)
      OBVIOUS
    <2>2. IsQuery(q, {a}, {30023},
                  {<<"d", x>>}, 1, "head", 1, {})
      BY <2>1 DEF IsQuery, GetArticle, FirstAt, First, AskFor
    <2>3. AreCounts(1, 1, "head", {})
      BY CountsAre DEF AreCounts, Or, IsCount
    <2>4. AreKeptOf({<<"d", x>>}, {<<"d", x>>})
      BY DEF AreKeptOf, FilterTags
    <2> QED
      BY <2>1, <2>2, <2>3, <2>4, QueryAsksFor
  <1>4. ASSUME NEW a, NEW n, IsCount(n)
       PROVE  AsksFor(ListArticles(a, n), {a}, {30023}, {})
    <2>1. PICK q : q = ListArticles(a, n)
      OBVIOUS
    <2>2. IsQuery(q, {a}, {30023},
                  {}, n, "loop", Or(n, 10), {})
      BY <2>1 DEF IsQuery, ListArticles, Loop, AskFor
    <2>3. AreCounts(n, Or(n, 10), "loop", {})
      BY <1>4, CountsAre DEF AreCounts, Or, IsCount
    <2>4. AreKeptOf({}, {})
      BY DEF AreKeptOf, FilterTags
    <2> QED
      BY <2>1, <2>2, <2>3, <2>4, QueryAsksFor
  <1>5. ASSUME NEW a, NEW x, NEW k, NEW n, IsCount(n)
       PROVE  AsksFor(GetLatestList(a, k, x, n), {a}, {k}, ListTags(k, x))
    <2>1. PICK q : q = GetLatestList(a, k, x, n)
      OBVIOUS
    <2>2. IsQuery(q, {a}, {k},
                  ListTags(k, x), Or(n, 1), "head", 1, {})
      BY <2>1 DEF IsQuery, GetLatestList, FirstBy, ListTags, First, AskFor
    <2>3. AreCounts(Or(n, 1), 1, "head", {})
      BY <1>5, CountsAre DEF AreCounts, Or, IsCount
    <2>4. AreKeptOf(ListTags(k, x), ListTags(k, x))
      BY DEF AreKeptOf, FilterTags, ListTags
    <2> QED
      BY <2>1, <2>2, <2>3, <2>4, QueryAsksFor
  <1>6. ASSUME NEW a, NEW x
       PROVE  AsksFor(GetStatus(a, x), {a}, {30315}, {<<"d", x>>})
    <2>1. PICK q : q = GetStatus(a, x)
      OBVIOUS
    <2>2. IsQuery(q, {a}, {30315},
                  {<<"d", x>>}, 1, "head", 1, {})
      BY <2>1 DEF IsQuery, GetStatus, FirstAt, First, AskFor
    <2>3. AreCounts(1, 1, "head", {})
      BY CountsAre DEF AreCounts, Or, IsCount
    <2>4. AreKeptOf({<<"d", x>>}, {<<"d", x>>})
      BY DEF AreKeptOf, FilterTags
    <2> QED
      BY <2>1, <2>2, <2>3, <2>4, QueryAsksFor
  <1>7. ASSUME NEW u, NEW S
       PROVE  AsksFor(GetByUrl(u, S), S, {39701}, {<<"d", u.rest>>})
    <2>1. PICK q : q = GetByUrl(u, S)
      OBVIOUS
    <2>2. IsQuery(q, S, {39701},
                  {<<"d", u.rest>>}, 1, "head", 1, {})
      BY <2>1 DEF IsQuery, GetByUrl, ToDTag, First, AskFor
    <2>3. AreCounts(1, 1, "head", {})
      BY CountsAre DEF AreCounts, Or, IsCount
    <2>4. AreKeptOf({<<"d", u.rest>>}, {<<"d", u.rest>>})
      BY DEF AreKeptOf, FilterTags
    <2> QED
      BY <2>1, <2>2, <2>3, <2>4, QueryAsksFor
  <1>8. ASSUME NEW x, NEW n, NEW S, IsCount(n)
       PROVE  AsksFor(ListByTopic(x, S, n), S, {39701}, {<<"t", x>>})
    <2>1. PICK q : q = ListByTopic(x, S, n)
      OBVIOUS
    <2>2. IsQuery(q, S, {39701},
                  {<<"t", x>>}, Or(n, NoLimit), "each", Or(n, 1), {})
      BY <2>1 DEF IsQuery, ListByTopic, Each, AskFor
    <2>3. AreCounts(Or(n, NoLimit), Or(n, 1), "each", {})
      BY <1>8, CountsAre DEF AreCounts, Or, IsCount
    <2>4. AreKeptOf({<<"t", x>>}, {<<"t", x>>})
      BY DEF AreKeptOf, FilterTags
    <2> QED
      BY <2>1, <2>2, <2>3, <2>4, QueryAsksFor
  <1> QED
    BY <1>1, <1>2, <1>3, <1>4, <1>5, <1>6, <1>7, <1>8

\* Wallets, tokens, nutzaps, mints.
LEMMA MoneyQueries ==
    /\ \A a : AsksFor(GetLatestWallet(a), {a}, {17375}, {})
    /\ \A a, n : IsCount(n) => AsksFor(GetTokens(a, n), {a}, {7375}, {})
    /\ \A a, n : IsCount(n) => AsksFor(GetHistory(a, n), {a}, {7376}, {})
    /\ \A a : AsksFor(GetNutzapInfo(a), {a}, {10019}, {})
    /\ \A a, n, S : IsCount(n) => AsksFor(FindIncoming(a, S, n), {}, {9321}, {<<"p", a>>})
    /\ \A x, k : AsksFor(GetMintInfoByD(k, x), {}, {k}, {<<"d", x>>})
    /\ \A n, S, T : IsCount(n) => AsksFor(FindRecommendations(T, S, n), S, {38000}, {})
  <1>1. ASSUME NEW a
       PROVE  AsksFor(GetLatestWallet(a), {a}, {17375}, {})
    <2>1. PICK q : q = GetLatestWallet(a)
      OBVIOUS
    <2>2. IsQuery(q, {a}, {17375},
                  {}, 1, "head", 1, {})
      BY <2>1 DEF IsQuery, GetLatestWallet, FirstBy, First, AskFor
    <2>3. AreCounts(1, 1, "head", {})
      BY CountsAre DEF AreCounts, Or, IsCount
    <2>4. AreKeptOf({}, {})
      BY DEF AreKeptOf, FilterTags
    <2> QED
      BY <2>1, <2>2, <2>3, <2>4, QueryAsksFor
  <1>2. ASSUME NEW a, NEW n, IsCount(n)
       PROVE  AsksFor(GetTokens(a, n), {a}, {7375}, {})
    <2>1. PICK q : q = GetTokens(a, n)
      OBVIOUS
    <2>2. IsQuery(q, {a}, {7375},
                  {}, Or(n, 10), "each", Or(n, 1), {})
      BY <2>1 DEF IsQuery, GetTokens, Each, AskFor
    <2>3. AreCounts(Or(n, 10), Or(n, 1), "each", {})
      BY <1>2, CountsAre DEF AreCounts, Or, IsCount
    <2>4. AreKeptOf({}, {})
      BY DEF AreKeptOf, FilterTags
    <2> QED
      BY <2>1, <2>2, <2>3, <2>4, QueryAsksFor
  <1>3. ASSUME NEW a, NEW n, IsCount(n)
       PROVE  AsksFor(GetHistory(a, n), {a}, {7376}, {})
    <2>1. PICK q : q = GetHistory(a, n)
      OBVIOUS
    <2>2. IsQuery(q, {a}, {7376},
                  {}, Or(n, 10), "each", Or(n, 1), {})
      BY <2>1 DEF IsQuery, GetHistory, Each, AskFor
    <2>3. AreCounts(Or(n, 10), Or(n, 1), "each", {})
      BY <1>3, CountsAre DEF AreCounts, Or, IsCount
    <2>4. AreKeptOf({}, {})
      BY DEF AreKeptOf, FilterTags
    <2> QED
      BY <2>1, <2>2, <2>3, <2>4, QueryAsksFor
  <1>4. ASSUME NEW a
       PROVE  AsksFor(GetNutzapInfo(a), {a}, {10019}, {})
    <2>1. PICK q : q = GetNutzapInfo(a)
      OBVIOUS
    <2>2. IsQuery(q, {a}, {10019},
                  {}, 1, "head", 1, {})
      BY <2>1 DEF IsQuery, GetNutzapInfo, FirstBy, First, AskFor
    <2>3. AreCounts(1, 1, "head", {})
      BY CountsAre DEF AreCounts, Or, IsCount
    <2>4. AreKeptOf({}, {})
      BY DEF AreKeptOf, FilterTags
    <2> QED
      BY <2>1, <2>2, <2>3, <2>4, QueryAsksFor
  <1>5. ASSUME NEW a, NEW n, NEW S, IsCount(n)
       PROVE  AsksFor(FindIncoming(a, S, n), {}, {9321}, {<<"p", a>>})
    <2>1. PICK q : q = FindIncoming(a, S, n)
      OBVIOUS
    <2>2. IsQuery(q, {}, {9321},
                  {<<"p", a>>} \union {<<"u", m>> : m \in S}, Or(n, 3), "each", Or(n, 1), {})
      BY <2>1 DEF IsQuery, FindIncoming, Each, AskFor
    <2>3. AreCounts(Or(n, 3), Or(n, 1), "each", {})
      BY <1>5, CountsAre DEF AreCounts, Or, IsCount
    <2>4. AreKeptOf({<<"p", a>>}, {<<"p", a>>} \union {<<"u", m>> : m \in S})
      BY DEF AreKeptOf, FilterTags
    <2> QED
      BY <2>1, <2>2, <2>3, <2>4, QueryAsksFor
  <1>6. ASSUME NEW x, NEW k
       PROVE  AsksFor(GetMintInfoByD(k, x), {}, {k}, {<<"d", x>>})
    <2>1. PICK q : q = GetMintInfoByD(k, x)
      OBVIOUS
    <2>2. IsQuery(q, {}, {k},
                  {<<"d", x>>}, 1, "head", 1, {})
      BY <2>1 DEF IsQuery, GetMintInfoByD, First, AskFor
    <2>3. AreCounts(1, 1, "head", {})
      BY CountsAre DEF AreCounts, Or, IsCount
    <2>4. AreKeptOf({<<"d", x>>}, {<<"d", x>>})
      BY DEF AreKeptOf, FilterTags
    <2> QED
      BY <2>1, <2>2, <2>3, <2>4, QueryAsksFor
  <1>7. ASSUME NEW n, NEW S, NEW T, IsCount(n)
       PROVE  AsksFor(FindRecommendations(T, S, n), S, {38000}, {})
    <2>1. PICK q : q = FindRecommendations(T, S, n)
      OBVIOUS
    <2>2. IsQuery(q, S, {38000},
                  {<<"k", i>> : i \in T}, Or(n, NoLimit), "each", Or(n, 1), {})
      BY <2>1 DEF IsQuery, FindRecommendations, Each, AskFor
    <2>3. AreCounts(Or(n, NoLimit), Or(n, 1), "each", {})
      BY <1>7, CountsAre DEF AreCounts, Or, IsCount
    <2>4. AreKeptOf({}, {<<"k", i>> : i \in T})
      BY DEF AreKeptOf, FilterTags
    <2> QED
      BY <2>1, <2>2, <2>3, <2>4, QueryAsksFor
  <1> QED
    BY <1>1, <1>2, <1>3, <1>4, <1>5, <1>6, <1>7

\* The marketplace.
LEMMA MarketQueries ==
    /\ \A a, x : AsksFor(GetStall(a, x), {a}, {30017}, {<<"d", x>>})
    /\ \A a, x : AsksFor(GetProduct(a, x), {a}, {30018}, {<<"d", x>>})
    /\ \A a, n : IsCount(n) => AsksFor(GetMarketUI(a, n), {a}, {30019}, {})
    /\ \A a, x : AsksFor(GetAuction(a, x), {a}, {30020}, {<<"d", x>>})
  <1>1. ASSUME NEW a, NEW x
       PROVE  AsksFor(GetStall(a, x), {a}, {30017}, {<<"d", x>>})
    <2>1. PICK q : q = GetStall(a, x)
      OBVIOUS
    <2>2. IsQuery(q, {a}, {30017},
                  {<<"d", x>>}, 1, "head", 1, {})
      BY <2>1 DEF IsQuery, GetStall, FirstAt, First, AskFor
    <2>3. AreCounts(1, 1, "head", {})
      BY CountsAre DEF AreCounts, Or, IsCount
    <2>4. AreKeptOf({<<"d", x>>}, {<<"d", x>>})
      BY DEF AreKeptOf, FilterTags
    <2> QED
      BY <2>1, <2>2, <2>3, <2>4, QueryAsksFor
  <1>2. ASSUME NEW a, NEW x
       PROVE  AsksFor(GetProduct(a, x), {a}, {30018}, {<<"d", x>>})
    <2>1. PICK q : q = GetProduct(a, x)
      OBVIOUS
    <2>2. IsQuery(q, {a}, {30018},
                  {<<"d", x>>}, 1, "head", 1, {})
      BY <2>1 DEF IsQuery, GetProduct, FirstAt, First, AskFor
    <2>3. AreCounts(1, 1, "head", {})
      BY CountsAre DEF AreCounts, Or, IsCount
    <2>4. AreKeptOf({<<"d", x>>}, {<<"d", x>>})
      BY DEF AreKeptOf, FilterTags
    <2> QED
      BY <2>1, <2>2, <2>3, <2>4, QueryAsksFor
  <1>3. ASSUME NEW a, NEW n, IsCount(n)
       PROVE  AsksFor(GetMarketUI(a, n), {a}, {30019}, {})
    <2>1. PICK q : q = GetMarketUI(a, n)
      OBVIOUS
    <2>2. IsQuery(q, {a}, {30019},
                  {}, Or(n, 3), "each", Or(n, 1), {})
      BY <2>1 DEF IsQuery, GetMarketUI, Each, AskFor
    <2>3. AreCounts(Or(n, 3), Or(n, 1), "each", {})
      BY <1>3, CountsAre DEF AreCounts, Or, IsCount
    <2>4. AreKeptOf({}, {})
      BY DEF AreKeptOf, FilterTags
    <2> QED
      BY <2>1, <2>2, <2>3, <2>4, QueryAsksFor
  <1>4. ASSUME NEW a, NEW x
       PROVE  AsksFor(GetAuction(a, x), {a}, {30020}, {<<"d", x>>})
    <2>1. PICK q : q = GetAuction(a, x)
      OBVIOUS
    <2>2. IsQuery(q, {a}, {30020},
                  {<<"d", x>>}, 1, "head", 1, {})
      BY <2>1 DEF IsQuery, GetAuction, FirstAt, First, AskFor
    <2>3. AreCounts(1, 1, "head", {})
      BY CountsAre DEF AreCounts, Or, IsCount
    <2>4. AreKeptOf({<<"d", x>>}, {<<"d", x>>})
      BY DEF AreKeptOf, FilterTags
    <2> QED
      BY <2>1, <2>2, <2>3, <2>4, QueryAsksFor
  <1> QED
    BY <1>1, <1>2, <1>3, <1>4

\* Calendars, live events, videos, polls, threads, snippets, chat, search.
LEMMA SocialQueries ==
    /\ \A a, x, k : AsksFor(GetByD(k, a, x), {a}, {k}, {<<"d", x>>})
    /\ \A a, x : AsksFor(GetLiveEvent(a, x), {a}, {30311}, {<<"d", x>>})
    /\ \A n, S, T : IsCount(n) =>
         AsksFor(ListVideos(T, S, n), S, IF T = {} THEN {21, 22} ELSE T, {})
    /\ \A x, n, S : IsCount(n) => AsksFor(ListResponses(x, S, n), S, {1018}, {<<"e", x>>})
    /\ \A a, n : IsCount(n) => AsksFor(ListThreadsByAuthor(a, n), {a}, {11}, {})
    /\ \A a, n : IsCount(n) => AsksFor(ListSnippets(a, n), {a}, {1337}, {})
    /\ \A a, n : IsCount(n) => AsksFor(ListChats(a, n), {a}, {9}, {})
    /\ \A x, n, S, T : IsCount(n) => AsksFor(Search(x, T, S, n), S, T, {<<"search", x>>})
    /\ \A a : AsksFor(GetLatestKeyPackage(a), {a}, {443}, {})
  <1>1. ASSUME NEW a, NEW x, NEW k
       PROVE  AsksFor(GetByD(k, a, x), {a}, {k}, {<<"d", x>>})
    <2>1. PICK q : q = GetByD(k, a, x)
      OBVIOUS
    <2>2. IsQuery(q, {a}, {k},
                  {<<"d", x>>}, 1, "head", 1, {})
      BY <2>1 DEF IsQuery, GetByD, FirstAt, First, AskFor
    <2>3. AreCounts(1, 1, "head", {})
      BY CountsAre DEF AreCounts, Or, IsCount
    <2>4. AreKeptOf({<<"d", x>>}, {<<"d", x>>})
      BY DEF AreKeptOf, FilterTags
    <2> QED
      BY <2>1, <2>2, <2>3, <2>4, QueryAsksFor
  <1>2. ASSUME NEW a, NEW x
       PROVE  AsksFor(GetLiveEvent(a, x), {a}, {30311}, {<<"d", x>>})
    <2>1. PICK q : q = GetLiveEvent(a, x)
      OBVIOUS
    <2>2. IsQuery(q, {a}, {30311},
                  {<<"d", x>>}, 1, "head", 1, {})
      BY <2>1 DEF IsQuery, GetLiveEvent, FirstAt, First, AskFor
    <2>3. AreCounts(1, 1, "head", {})
      BY CountsAre DEF AreCounts, Or, IsCount
    <2>4. AreKeptOf({<<"d", x>>}, {<<"d", x>>})
      BY DEF AreKeptOf, FilterTags
    <2> QED
      BY <2>1, <2>2, <2>3, <2>4, QueryAsksFor
  <1>3. ASSUME NEW n, NEW S, NEW T, IsCount(n)
       PROVE  AsksFor(ListVideos(T, S, n), S, IF T = {} THEN {21, 22} ELSE T, {})
    <2>1. PICK q : q = ListVideos(T, S, n)
      OBVIOUS
    <2>2. IsQuery(q, S, IF T = {} THEN {21, 22} ELSE T,
                  {}, n, "loop", Or(n, 5), {})
      BY <2>1 DEF IsQuery, ListVideos, Loop, AskFor
    <2>3. AreCounts(n, Or(n, 5), "loop", {})
      BY <1>3, CountsAre DEF AreCounts, Or, IsCount
    <2>4. AreKeptOf({}, {})
      BY DEF AreKeptOf, FilterTags
    <2> QED
      BY <2>1, <2>2, <2>3, <2>4, QueryAsksFor
  <1>4. ASSUME NEW x, NEW n, NEW S, IsCount(n)
       PROVE  AsksFor(ListResponses(x, S, n), S, {1018}, {<<"e", x>>})
    <2>1. PICK q : q = ListResponses(x, S, n)
      OBVIOUS
    <2>2. IsQuery(q, S, {1018},
                  {<<"e", x>>}, n, "loop", Or(n, 10), {})
      BY <2>1 DEF IsQuery, ListResponses, Loop, AskFor
    <2>3. AreCounts(n, Or(n, 10), "loop", {})
      BY <1>4, CountsAre DEF AreCounts, Or, IsCount
    <2>4. AreKeptOf({<<"e", x>>}, {<<"e", x>>})
      BY DEF AreKeptOf, FilterTags
    <2> QED
      BY <2>1, <2>2, <2>3, <2>4, QueryAsksFor
  <1>5. ASSUME NEW a, NEW n, IsCount(n)
       PROVE  AsksFor(ListThreadsByAuthor(a, n), {a}, {11}, {})
    <2>1. PICK q : q = ListThreadsByAuthor(a, n)
      OBVIOUS
    <2>2. IsQuery(q, {a}, {11},
                  {}, Or(n, NoLimit), "each", Or(n, 1), {})
      BY <2>1 DEF IsQuery, ListThreadsByAuthor, Each, AskFor
    <2>3. AreCounts(Or(n, NoLimit), Or(n, 1), "each", {})
      BY <1>5, CountsAre DEF AreCounts, Or, IsCount
    <2>4. AreKeptOf({}, {})
      BY DEF AreKeptOf, FilterTags
    <2> QED
      BY <2>1, <2>2, <2>3, <2>4, QueryAsksFor
  <1>6. ASSUME NEW a, NEW n, IsCount(n)
       PROVE  AsksFor(ListSnippets(a, n), {a}, {1337}, {})
    <2>1. PICK q : q = ListSnippets(a, n)
      OBVIOUS
    <2>2. IsQuery(q, {a}, {1337},
                  {}, Or(n, NoLimit), "each", Or(n, 1), {})
      BY <2>1 DEF IsQuery, ListSnippets, Each, AskFor
    <2>3. AreCounts(Or(n, NoLimit), Or(n, 1), "each", {})
      BY <1>6, CountsAre DEF AreCounts, Or, IsCount
    <2>4. AreKeptOf({}, {})
      BY DEF AreKeptOf, FilterTags
    <2> QED
      BY <2>1, <2>2, <2>3, <2>4, QueryAsksFor
  <1>7. ASSUME NEW a, NEW n, IsCount(n)
       PROVE  AsksFor(ListChats(a, n), {a}, {9}, {})
    <2>1. PICK q : q = ListChats(a, n)
      OBVIOUS
    <2>2. IsQuery(q, {a}, {9},
                  {}, Or(n, NoLimit), "each", Or(n, 1), {})
      BY <2>1 DEF IsQuery, ListChats, Each, AskFor
    <2>3. AreCounts(Or(n, NoLimit), Or(n, 1), "each", {})
      BY <1>7, CountsAre DEF AreCounts, Or, IsCount
    <2>4. AreKeptOf({}, {})
      BY DEF AreKeptOf, FilterTags
    <2> QED
      BY <2>1, <2>2, <2>3, <2>4, QueryAsksFor
  <1>8. ASSUME NEW x, NEW n, NEW S, NEW T, IsCount(n)
       PROVE  AsksFor(Search(x, T, S, n), S, T, {<<"search", x>>})
    <2>1. PICK q : q = Search(x, T, S, n)
      OBVIOUS
    <2>2. IsQuery(q, S, T,
                  {<<"search", x>>}, Or(n, NoLimit), "each", Or(n, 1), {})
      BY <2>1 DEF IsQuery, Search, Each, AskFor
    <2>3. AreCounts(Or(n, NoLimit), Or(n, 1), "each", {})
      BY <1>8, CountsAre DEF AreCounts, Or, IsCount
    <2>4. AreKeptOf({<<"search", x>>}, {<<"search", x>>})
      BY DEF AreKeptOf, FilterTags
    <2> QED
      BY <2>1, <2>2, <2>3, <2>4, QueryAsksFor
  <1>9. ASSUME NEW a
       PROVE  AsksFor(GetLatestKeyPackage(a), {a}, {443}, {})
    <2>1. PICK q : q = GetLatestKeyPackage(a)
      OBVIOUS
    <2>2. IsQuery(q, {a}, {443},
                  {}, 1, "head", 1, {})
      BY <2>1 DEF IsQuery, GetLatestKeyPackage, FirstBy, First, AskFor
    <2>3. AreCounts(1, 1, "head", {})
      BY CountsAre DEF AreCounts, Or, IsCount
    <2>4. AreKeptOf({}, {})
      BY DEF AreKeptOf, FilterTags
    <2> QED
      BY <2>1, <2>2, <2>3, <2>4, QueryAsksFor
  <1> QED
    BY <1>1, <1>2, <1>3, <1>4, <1>5, <1>6, <1>7, <1>8, <1>9

\* Relays and application handlers.
LEMMA RelayQueries ==
    /\ \A x : AsksFor(GetLatestForRelay(x), {}, {30166}, {<<"d", x>>})
    /\ \A n, S : IsCount(n) => AsksFor(FindRelays(S, n), {}, {30166}, {})
    /\ \A x, S : AsksFor(GetHandlers(x, S), S, {31990}, {})
    /\ \A x, S : AsksFor(GetRecommendations(x, S), S, {31989}, {<<"d", x>>})
    /\ \A a, x : AsksFor(GetHandlerByAddress(a, x), {a}, {31990}, {<<"d", x>>})
  <1>1. ASSUME NEW x
       PROVE  AsksFor(GetLatestForRelay(x), {}, {30166}, {<<"d", x>>})
    <2>1. PICK q : q = GetLatestForRelay(x)
      OBVIOUS
    <2>2. IsQuery(q, {}, {30166},
                  {<<"d", x>>}, 1, "head", 1, {})
      BY <2>1 DEF IsQuery, GetLatestForRelay, First, AskFor
    <2>3. AreCounts(1, 1, "head", {})
      BY CountsAre DEF AreCounts, Or, IsCount
    <2>4. AreKeptOf({<<"d", x>>}, {<<"d", x>>})
      BY DEF AreKeptOf, FilterTags
    <2> QED
      BY <2>1, <2>2, <2>3, <2>4, QueryAsksFor
  <1>2. ASSUME NEW n, NEW S, IsCount(n)
       PROVE  AsksFor(FindRelays(S, n), {}, {30166}, {})
    <2>1. PICK q : q = FindRelays(S, n)
      OBVIOUS
    <2>2. IsQuery(q, {}, {30166},
                  {}, n, "loop", Or(n, 10), S)
      BY <2>1 DEF IsQuery, FindRelays, Loop, AskFor
    <2>3. AreCounts(n, Or(n, 10), "loop", S)
      BY <1>2, CountsAre DEF AreCounts, Or, IsCount
    <2>4. AreKeptOf({}, {})
      BY DEF AreKeptOf, FilterTags
    <2> QED
      BY <2>1, <2>2, <2>3, <2>4, QueryAsksFor
  <1>3. ASSUME NEW x, NEW S
       PROVE  AsksFor(GetHandlers(x, S), S, {31990}, {})
    <2>1. PICK q : q = GetHandlers(x, S)
      OBVIOUS
    <2>2. IsQuery(q, S, {31990},
                  {<<"k", x>>}, NoLimit, "stream", NoLimit, {})
      BY <2>1 DEF IsQuery, GetHandlers, Streamed, AskFor
    <2>3. AreCounts(NoLimit, NoLimit, "stream", {})
      BY CountsAre DEF AreCounts, Or, IsCount
    <2>4. AreKeptOf({}, {<<"k", x>>})
      BY DEF AreKeptOf, FilterTags
    <2> QED
      BY <2>1, <2>2, <2>3, <2>4, QueryAsksFor
  <1>4. ASSUME NEW x, NEW S
       PROVE  AsksFor(GetRecommendations(x, S), S, {31989}, {<<"d", x>>})
    <2>1. PICK q : q = GetRecommendations(x, S)
      OBVIOUS
    <2>2. IsQuery(q, S, {31989},
                  {<<"d", x>>}, NoLimit, "stream", NoLimit, {})
      BY <2>1 DEF IsQuery, GetRecommendations, Streamed, AskFor
    <2>3. AreCounts(NoLimit, NoLimit, "stream", {})
      BY CountsAre DEF AreCounts, Or, IsCount
    <2>4. AreKeptOf({<<"d", x>>}, {<<"d", x>>})
      BY DEF AreKeptOf, FilterTags
    <2> QED
      BY <2>1, <2>2, <2>3, <2>4, QueryAsksFor
  <1>5. ASSUME NEW a, NEW x
       PROVE  AsksFor(GetHandlerByAddress(a, x), {a}, {31990}, {<<"d", x>>})
    <2>1. PICK q : q = GetHandlerByAddress(a, x)
      OBVIOUS
    <2>2. IsQuery(q, {a}, {31990},
                  {<<"d", x>>}, 1, "head", 1, {})
      BY <2>1 DEF IsQuery, GetHandlerByAddress, FirstAt, First, AskFor
    <2>3. AreCounts(1, 1, "head", {})
      BY CountsAre DEF AreCounts, Or, IsCount
    <2>4. AreKeptOf({<<"d", x>>}, {<<"d", x>>})
      BY DEF AreKeptOf, FilterTags
    <2> QED
      BY <2>1, <2>2, <2>3, <2>4, QueryAsksFor
  <1> QED
    BY <1>1, <1>2, <1>3, <1>4, <1>5

\* Channels and groups.
LEMMA ChannelQueries ==
    /\ \A a, x : AsksFor(GetChannelMetadata(x, a), {a}, {41}, {<<"e", x>>})
    /\ \A x, n : IsCount(n) => AsksFor(GetMessages(x, n), {}, {42}, {<<"e", x>>})
    /\ \A x, k : AsksFor(FetchEventByKind(k, x), {}, {k}, {<<"d", x>>})
  <1>1. ASSUME NEW a, NEW x
       PROVE  AsksFor(GetChannelMetadata(x, a), {a}, {41}, {<<"e", x>>})
    <2>1. PICK q : q = GetChannelMetadata(x, a)
      OBVIOUS
    <2>2. IsQuery(q, {a}, {41},
                  {<<"e", x>>}, 1, "head", 1, {})
      BY <2>1 DEF IsQuery, GetChannelMetadata, First, AskFor
    <2>3. AreCounts(1, 1, "head", {})
      BY CountsAre DEF AreCounts, Or, IsCount
    <2>4. AreKeptOf({<<"e", x>>}, {<<"e", x>>})
      BY DEF AreKeptOf, FilterTags
    <2> QED
      BY <2>1, <2>2, <2>3, <2>4, QueryAsksFor
  <1>2. ASSUME NEW x, NEW n, IsCount(n)
       PROVE  AsksFor(GetMessages(x, n), {}, {42}, {<<"e", x>>})
    <2>1. PICK q : q = GetMessages(x, n)
      OBVIOUS
    <2>2. IsQuery(q, {}, {42},
                  {<<"e", x>>}, Or(n, 50), "stream", Or(n, 50), {})
      BY <2>1 DEF IsQuery, GetMessages, Streamed, AskFor
    <2>3. AreCounts(Or(n, 50), Or(n, 50), "stream", {})
      BY <1>2, CountsAre DEF AreCounts, Or, IsCount
    <2>4. AreKeptOf({<<"e", x>>}, {<<"e", x>>})
      BY DEF AreKeptOf, FilterTags
    <2> QED
      BY <2>1, <2>2, <2>3, <2>4, QueryAsksFor
  <1>3. ASSUME NEW x, NEW k
       PROVE  AsksFor(FetchEventByKind(k, x), {}, {k}, {<<"d", x>>})
    <2>1. PICK q : q = FetchEventByKind(k, x)
      OBVIOUS
    <2>2. IsQuery(q, {}, {k},
                  {<<"d", x>>}, 1, "head", 1, {})
      BY <2>1 DEF IsQuery, FetchEventByKind, First, AskFor
    <2>3. AreCounts(1, 1, "head", {})
      BY CountsAre DEF AreCounts, Or, IsCount
    <2>4. AreKeptOf({<<"d", x>>}, {<<"d", x>>})
      BY DEF AreKeptOf, FilterTags
    <2> QED
      BY <2>1, <2>2, <2>3, <2>4, QueryAsksFor
  <1> QED
    BY <1>1, <1>2, <1>3

\* Labels: the namespaces are dropped, and so is what a label is about, unless its tag is
\* one of the schema's.
LEMMA LabelQueries ==
    ASSUME NEW S, NEW t, NEW n, IsCount(n)
    PROVE  AsksFor(QueryLabels(S, {t}, n), {}, {1985}, LabelTags(t))
  <1>1. PICK q : q = QueryLabels(S, {t}, n)
    OBVIOUS
  <1>2. IsQuery(q, {}, {1985},
                {<<"L", ns>> : ns \in S} \union {t}, n, "loop", Or(n, 10), {})
    BY <1>1 DEF IsQuery, QueryLabels, Loop, AskFor
  <1>3. AreCounts(n, Or(n, 10), "loop", {})
    BY CountsAre DEF AreCounts, Or, IsCount
  <1>4. AreKeptOf(LabelTags(t),
                  {<<"L", ns>> : ns \in S} \union {t})
    <2>1. \A u \in {<<"L", ns>> : ns \in S} : u[1] \notin FilterTags
      BY DEF FilterTags
    <2> QED
      BY <2>1 DEF AreKeptOf, LabelTags
  <1> QED
    BY <1>1, <1>2, <1>3, <1>4, QueryAsksFor

\* A channel is looked for by its id.
LEMMA ChannelQuery ==
    ASSUME NEW x
    PROVE  LET q == GetChannel(x) IN
           /\ IsSound(q)
           /\ \A e : Gets(q, e) <=> e.id = x /\ e.kind = 40
  <1>1. PICK q : q = GetChannel(x)
    OBVIOUS
  <1>2. /\ DOMAIN q = {"ids", "authors", "kinds", "tags", "limit", "mode", "takes", "local"}
        /\ q.ids = {x} /\ q.authors = {} /\ q.kinds = {40} /\ q.tags = {}
        /\ q.limit = 1 /\ q.takes = 1 /\ q.mode = "head" /\ q.local = {}
    BY <1>1 DEF GetChannel, First, AskFor
  <1>3. PICK f : f = DecodeFilter(q)
    OBVIOUS
  <1>4. f.ids = {x} /\ f.authors = {} /\ f.kinds = {40} /\ f.tags = {}
    BY <1>2, <1>3 DEF DecodeFilter
  <1>5. \A e : Gets(q, e) <=> e.id = x /\ e.kind = 40
    BY <1>3, <1>4 DEF Gets, Asks, TagNames
  <1>6. IsSound(q)
    BY <1>2, CountsAre DEF AreCounts, IsSound
  <1> QED
    BY <1>1, <1>5, <1>6

\* The answers to a job: two streams, of two kinds.
IsJobStream(q, kinds, x) ==
    AsksFor(q, {}, kinds, {<<"e", x>>}) /\ q.mode = "stream" /\ q.limit = NoLimit

JobResults == 6000..6999
ResultsOf(kind) == {kind + 1000}

LEMMA JobStreams ==
    ASSUME NEW x, NEW k
    PROVE  /\ DOMAIN SubscribeToJob(x) = {1, 2} /\ DOMAIN SubscribeToRequest(x, k) = {1, 2}
           /\ IsJobStream(SubscribeToJob(x)[1], {7000}, x)
           /\ IsJobStream(SubscribeToJob(x)[2], JobResults, x)
           /\ IsJobStream(SubscribeToRequest(x, k)[1], {7000}, x)
           /\ IsJobStream(SubscribeToRequest(x, k)[2], ResultsOf(k), x)
  <1>1. ASSUME NEW kinds, NEW q,
               q = Streamed([AskFor(kinds) EXCEPT !.tags = {<<"e", x>>}], NoLimit)
        PROVE  IsJobStream(q, kinds, x)
    <2>1. IsQuery(q, {}, kinds, {<<"e", x>>}, NoLimit, "stream", NoLimit, {})
      BY <1>1 DEF IsQuery, Streamed, AskFor
    <2>2. AreCounts(NoLimit, NoLimit, "stream", {})
      BY CountsAre DEF AreCounts
    <2>3. AreKeptOf({<<"e", x>>}, {<<"e", x>>})
      BY DEF AreKeptOf, FilterTags
    <2>4. AsksFor(q, {}, kinds, {<<"e", x>>})
      BY <2>1, <2>2, <2>3, QueryAsksFor
    <2> QED
      BY <2>1, <2>4 DEF IsJobStream, IsQuery
  <1>2. ASSUME NEW p, NEW q
        PROVE  DOMAIN <<p, q>> = {1, 2} /\ <<p, q>>[1] = p /\ <<p, q>>[2] = q
    OBVIOUS
  <1>3. /\ DOMAIN SubscribeToJob(x) = {1, 2}
        /\ IsJobStream(SubscribeToJob(x)[1], {7000}, x)
        /\ IsJobStream(SubscribeToJob(x)[2], JobResults, x)
    BY <1>1, <1>2 DEF SubscribeToJob, JobResults
  <1>4. /\ DOMAIN SubscribeToRequest(x, k) = {1, 2}
        /\ IsJobStream(SubscribeToRequest(x, k)[1], {7000}, x)
        /\ IsJobStream(SubscribeToRequest(x, k)[2], ResultsOf(k), x)
    BY <1>1, <1>2 DEF SubscribeToRequest, ResultsOf
  <1> QED
    BY <1>3, <1>4

-----------------------------------------------------------------------------
(* ClientServices: what the calls get                                        *)

\* An event that an operation published.
Of(e, t) == e.kind = t.kind /\ e.tags = t.tags

\* Of the application data, articles, lists, statuses and bookmarks that are published.
DataIsRead(e) ==
    /\ \A a, x, y, n : IsCount(n) /\ Of(e, PutAppData(y)) =>
         /\ Gets(GetAppData(a, x), e) <=> e.pubkey = a /\ y = x
         /\ Gets(ListKeys(a, n), e) <=> e.pubkey = a
    /\ \A a, x, y, n : IsCount(n) /\ Of(e, PublishArticle(y)) =>
         /\ Gets(GetArticle(a, x), e) <=> e.pubkey = a /\ y = x
         /\ Gets(ListArticles(a, n), e) <=> e.pubkey = a
    /\ \A a, x, y, k, n : IsCount(n) /\ Of(e, PublishList(k, y)) =>
         (Gets(GetLatestList(a, k, x, n), e) <=> e.pubkey = a /\ (ListNeedsD(k) => y = x))
    /\ \A a, x, y : Of(e, PublishStatus(y)) =>
         (Gets(GetStatus(a, x), e) <=> e.pubkey = a /\ y = x)
    /\ \A x, u, v, S, T, n : IsCount(n) /\ Of(e, PublishBookmark(v, T)) =>
         /\ Gets(GetByUrl(u, S), e) <=> By(S, e) /\ v.rest = u.rest
         /\ Gets(ListByTopic(x, S, n), e) <=> By(S, e) /\ x \in T

\* Of wallets, tokens, nutzaps and mints: the mints asked for are dropped, and so are the
\* kinds of a recommendation.
MoneyIsRead(e) ==
    /\ \A a : Of(e, UpsertWallet) =>
         (Gets(GetLatestWallet(a), e) <=> e.pubkey = a)
    /\ \A a, n : IsCount(n) /\ Of(e, PublishToken) =>
         (Gets(GetTokens(a, n), e) <=> e.pubkey = a)
    /\ \A a, x, y, S, n : IsCount(n) /\ (Of(e, PublishSpendingHistory(S)) \/ Of(e, Redeem(x, y))) =>
         (Gets(GetHistory(a, n), e) <=> e.pubkey = a)
    /\ \A a : Of(e, PublishNutzapInfo) =>
         (Gets(GetNutzapInfo(a), e) <=> e.pubkey = a)
    /\ \A a, y, m, S, n : IsCount(n) /\ Of(e, PublishNutzap(y, m)) =>
         (Gets(FindIncoming(a, S, n), e) <=> y = a)
    /\ \A x, y, m : Of(e, PublishCashuMintInfo(y, m)) =>
         (Gets(GetMintInfoByD(38172, x), e) <=> y = x)
    /\ \A x, y, S : Of(e, PublishFedimintInfo(y, S)) =>
         (Gets(GetMintInfoByD(38173, x), e) <=> y = x)
    /\ \A y, k, m, S, T, n : IsCount(n) /\ Of(e, RecommendMint(k, y, m)) =>
         (Gets(FindRecommendations(T, S, n), e) <=> By(S, e))

MarketIsRead(e) ==
    /\ \A a, x, y : Of(e, PublishStall(y)) =>
         (Gets(GetStall(a, x), e) <=> e.pubkey = a /\ y = x)
    /\ \A a, x, y, S : Of(e, PublishProduct(y, S)) =>
         (Gets(GetProduct(a, x), e) <=> e.pubkey = a /\ y = x)
    /\ \A a, n : IsCount(n) /\ Of(e, PublishMarketUI) =>
         (Gets(GetMarketUI(a, n), e) <=> e.pubkey = a)
    /\ \A a, x, y, S : Of(e, PublishAuction(y, S)) =>
         (Gets(GetAuction(a, x), e) <=> e.pubkey = a /\ y = x)

\* Of calendars, live events, videos, labels, polls, threads, snippets and chat: the
\* namespaces of labels are dropped, and targets whose tag is not in the schema.
SocialIsRead(e) ==
    /\ \A a, x, y, S, T : Of(e, PublishDateEvent(y, S, T)) =>
         (Gets(GetByD(31922, a, x), e) <=> e.pubkey = a /\ y = x)
    /\ \A a, x, y, S, T : Of(e, PublishTimeEvent(y, S, T)) =>
         (Gets(GetByD(31923, a, x), e) <=> e.pubkey = a /\ y = x)
    /\ \A a, x, y, S : Of(e, PublishCalendar(y, S)) =>
         (Gets(GetByD(31924, a, x), e) <=> e.pubkey = a /\ y = x)
    /\ \A a, x, y : Of(e, PublishLiveEvent(y)) =>
         (Gets(GetLiveEvent(a, x), e) <=> e.pubkey = a /\ y = x)
    /\ \A a, k, S, T, n : IsCount(n) /\ k \in {21, 22} /\ Of(e, PublishVideo(k, T)) =>
         (Gets(ListVideos(S, {a}, n), e) <=> e.pubkey = a /\ OfKind(S, e))
    /\ \A t, u, S, T, n : IsCount(n) /\ Of(e, PublishLabel(T, u)) /\ t[1] \in FilterTags =>
         (Gets(QueryLabels(S, {t}, n), e) <=> t = u)
    /\ \A t, u, S, T, n : IsCount(n) /\ Of(e, PublishLabel(T, u)) /\ t[1] \notin FilterTags =>
         Gets(QueryLabels(S, {t}, n), e)
    /\ \A x, y, S, n : IsCount(n) /\ Of(e, PublishResponse(y)) =>
         (Gets(ListResponses(x, S, n), e) <=> By(S, e) /\ y = x)
    /\ \A a, n : IsCount(n) /\ Of(e, PublishThread) =>
         (Gets(ListThreadsByAuthor(a, n), e) <=> e.pubkey = a)
    /\ \A a, n : IsCount(n) /\ Of(e, PublishSnippet) =>
         (Gets(ListSnippets(a, n), e) <=> e.pubkey = a)
    /\ \A a, n : IsCount(n) /\ Of(e, SendChat) =>
         (Gets(ListChats(a, n), e) <=> e.pubkey = a)
    /\ \A a : Of(e, PublishKeyPackage) =>
         (Gets(GetLatestKeyPackage(a), e) <=> e.pubkey = a)

\* Of relays, which are all asked for, and of handlers: the kind that is to be handled is
\* dropped.
RelaysAreRead(e) ==
    /\ \A x, y, m, S, T, n : IsCount(n) /\ Of(e, PublishDiscovery(y, m, S, T)) =>
         (Gets(FindRelays(S, n), e) /\ (Gets(GetLatestForRelay(x), e) <=> y = x))
    /\ \A a, x, y, S, T : Of(e, PublishHandlerInfo(y, T)) =>
         /\ Gets(GetHandlers(x, S), e) <=> By(S, e)
         /\ Gets(GetHandlerByAddress(a, x), e) <=> e.pubkey = a /\ y = x
    /\ \A x, y, m, S : Of(e, PublishRecommendation(y, m)) =>
         (Gets(GetRecommendations(x, S), e) <=> By(S, e) /\ y = x)

ChannelsAreRead(e) ==
    /\ \A x : Of(e, CreateChannel) =>
         (Gets(GetChannel(x), e) <=> e.id = x)
    /\ \A a, x, y : Of(e, UpdateChannelMetadata(y)) =>
         (Gets(GetChannelMetadata(x, a), e) <=> e.pubkey = a /\ y = x)
    /\ \A x, y, S, n : IsCount(n) /\ Of(e, SendMessage(y, S)) =>
         (Gets(GetMessages(x, n), e) <=> y = x \/ x \in S)
    /\ \A x, y, k : Of(e, GroupEvent(k, y)) =>
         (Gets(FetchEventByKind(k, x), e) <=> y = x)

\* Of the answers to jobs, each in one of the two streams.
JobsAreRead(e) ==
    \A x, y, k : k \in 5000..5999 =>
        LET job == SubscribeToJob(x)
            request == SubscribeToRequest(x, k)
        IN
        /\ Of(e, Feedback(y)) =>
             /\ ~Gets(job[2], e) /\ (Gets(job[1], e) <=> y = x)
             /\ ~Gets(request[2], e) /\ (Gets(request[1], e) <=> y = x)
        /\ Of(e, JobResult(k, y)) =>
             /\ ~Gets(job[1], e) /\ (Gets(job[2], e) <=> y = x)
             /\ ~Gets(request[1], e) /\ (Gets(request[2], e) <=> y = x)

LEMMA DataRead == ASSUME NEW e PROVE DataIsRead(e)
  <1>1. ASSUME NEW a, NEW x, NEW y, NEW n, IsCount(n),
               Of(e, PutAppData(y))
       PROVE  /\ Gets(GetAppData(a, x), e) <=> e.pubkey = a /\ y = x
              /\ Gets(ListKeys(a, n), e) <=> e.pubkey = a
    <2>1. /\ AsksFor(GetAppData(a, x), {a}, {30078}, {<<"d", x>>})
          /\ AsksFor(ListKeys(a, n), {a}, {30078}, {})
      BY <1>1, DataQueries
    <2> QED
      BY <1>1, <2>1 DEF AsksFor, By, OfKind, Of, Template, PutAppData
  <1>2. ASSUME NEW a, NEW x, NEW y, NEW n, IsCount(n),
               Of(e, PublishArticle(y))
       PROVE  /\ Gets(GetArticle(a, x), e) <=> e.pubkey = a /\ y = x
              /\ Gets(ListArticles(a, n), e) <=> e.pubkey = a
    <2>1. /\ AsksFor(GetArticle(a, x), {a}, {30023}, {<<"d", x>>})
          /\ AsksFor(ListArticles(a, n), {a}, {30023}, {})
      BY <1>2, DataQueries
    <2> QED
      BY <1>2, <2>1 DEF AsksFor, By, OfKind, Of, Template, PublishArticle
  <1>3. ASSUME NEW a, NEW x, NEW y, NEW k, NEW n, IsCount(n),
               Of(e, PublishList(k, y))
       PROVE  Gets(GetLatestList(a, k, x, n), e) <=> e.pubkey = a /\ (ListNeedsD(k) => y = x)
    <2>1. AsksFor(GetLatestList(a, k, x, n), {a}, {k}, ListTags(k, x))
      BY <1>3, DataQueries
    <2>2. e.kind = k /\ e.tags = ListTags(k, y)
      BY <1>3 DEF Of, Template, PublishList, ListTags
    <2>3. ListTags(k, x) \subseteq ListTags(k, y) <=> (ListNeedsD(k) => y = x)
      BY DEF ListTags
    <2> QED
      BY <2>1, <2>2, <2>3 DEF AsksFor, By, OfKind
  <1>4. ASSUME NEW a, NEW x, NEW y,
               Of(e, PublishStatus(y))
       PROVE  Gets(GetStatus(a, x), e) <=> e.pubkey = a /\ y = x
    <2>1. AsksFor(GetStatus(a, x), {a}, {30315}, {<<"d", x>>})
      BY <1>4, DataQueries
    <2> QED
      BY <1>4, <2>1 DEF AsksFor, By, OfKind, Of, Template, PublishStatus
  <1>5. ASSUME NEW x, NEW u, NEW v, NEW S, NEW T, NEW n, IsCount(n),
               Of(e, PublishBookmark(v, T))
       PROVE  /\ Gets(GetByUrl(u, S), e) <=> By(S, e) /\ v.rest = u.rest
              /\ Gets(ListByTopic(x, S, n), e) <=> By(S, e) /\ x \in T
    <2>1. /\ AsksFor(GetByUrl(u, S), S, {39701}, {<<"d", u.rest>>})
          /\ AsksFor(ListByTopic(x, S, n), S, {39701}, {<<"t", x>>})
      BY <1>5, DataQueries
    <2> QED
      BY <1>5, <2>1 DEF AsksFor, By, OfKind, Of, Template, PublishBookmark, ToDTag
  <1> QED
    BY <1>1, <1>2, <1>3, <1>4, <1>5 DEF DataIsRead

LEMMA MoneyRead == ASSUME NEW e PROVE MoneyIsRead(e)
  <1>1. ASSUME NEW a,
               Of(e, UpsertWallet)
       PROVE  Gets(GetLatestWallet(a), e) <=> e.pubkey = a
    <2>1. AsksFor(GetLatestWallet(a), {a}, {17375}, {})
      BY <1>1, MoneyQueries
    <2> QED
      BY <1>1, <2>1 DEF AsksFor, By, OfKind, Of, Template, UpsertWallet
  <1>2. ASSUME NEW a, NEW n, IsCount(n),
               Of(e, PublishToken)
       PROVE  Gets(GetTokens(a, n), e) <=> e.pubkey = a
    <2>1. AsksFor(GetTokens(a, n), {a}, {7375}, {})
      BY <1>2, MoneyQueries
    <2> QED
      BY <1>2, <2>1 DEF AsksFor, By, OfKind, Of, Template, PublishToken
  <1>3. ASSUME NEW a, NEW x, NEW y, NEW S, NEW n, IsCount(n),
               Of(e, PublishSpendingHistory(S)) \/ Of(e, Redeem(x, y))
       PROVE  Gets(GetHistory(a, n), e) <=> e.pubkey = a
    <2>1. AsksFor(GetHistory(a, n), {a}, {7376}, {})
      BY <1>3, MoneyQueries
    <2> QED
      BY <1>3, <2>1 DEF AsksFor, By, OfKind, Of, Template, PublishSpendingHistory, Redeem
  <1>4. ASSUME NEW a,
               Of(e, PublishNutzapInfo)
       PROVE  Gets(GetNutzapInfo(a), e) <=> e.pubkey = a
    <2>1. AsksFor(GetNutzapInfo(a), {a}, {10019}, {})
      BY <1>4, MoneyQueries
    <2> QED
      BY <1>4, <2>1 DEF AsksFor, By, OfKind, Of, Template, PublishNutzapInfo
  <1>5. ASSUME NEW a, NEW y, NEW m, NEW S, NEW n, IsCount(n),
               Of(e, PublishNutzap(y, m))
       PROVE  Gets(FindIncoming(a, S, n), e) <=> y = a
    <2>1. AsksFor(FindIncoming(a, S, n), {}, {9321}, {<<"p", a>>})
      BY <1>5, MoneyQueries
    <2> QED
      BY <1>5, <2>1 DEF AsksFor, By, OfKind, Of, Template, PublishNutzap
  <1>6. ASSUME NEW x, NEW y, NEW m,
               Of(e, PublishCashuMintInfo(y, m))
       PROVE  Gets(GetMintInfoByD(38172, x), e) <=> y = x
    <2>1. AsksFor(GetMintInfoByD(38172, x), {}, {38172}, {<<"d", x>>})
      BY <1>6, MoneyQueries
    <2> QED
      BY <1>6, <2>1 DEF AsksFor, By, OfKind, Of, Template, PublishCashuMintInfo
  <1>7. ASSUME NEW x, NEW y, NEW S,
               Of(e, PublishFedimintInfo(y, S))
       PROVE  Gets(GetMintInfoByD(38173, x), e) <=> y = x
    <2>1. AsksFor(GetMintInfoByD(38173, x), {}, {38173}, {<<"d", x>>})
      BY <1>7, MoneyQueries
    <2> QED
      BY <1>7, <2>1 DEF AsksFor, By, OfKind, Of, Template, PublishFedimintInfo
  <1>8. ASSUME NEW y, NEW k, NEW m, NEW S, NEW T, NEW n, IsCount(n),
               Of(e, RecommendMint(k, y, m))
       PROVE  Gets(FindRecommendations(T, S, n), e) <=> By(S, e)
    <2>1. AsksFor(FindRecommendations(T, S, n), S, {38000}, {})
      BY <1>8, MoneyQueries
    <2> QED
      BY <1>8, <2>1 DEF AsksFor, By, OfKind, Of, Template, RecommendMint, MintPointers
  <1> QED
    BY <1>1, <1>2, <1>3, <1>4, <1>5, <1>6, <1>7, <1>8 DEF MoneyIsRead

LEMMA MarketRead == ASSUME NEW e PROVE MarketIsRead(e)
  <1>1. ASSUME NEW a, NEW x, NEW y,
               Of(e, PublishStall(y))
       PROVE  Gets(GetStall(a, x), e) <=> e.pubkey = a /\ y = x
    <2>1. AsksFor(GetStall(a, x), {a}, {30017}, {<<"d", x>>})
      BY <1>1, MarketQueries
    <2> QED
      BY <1>1, <2>1 DEF AsksFor, By, OfKind, Of, Template, PublishStall
  <1>2. ASSUME NEW a, NEW x, NEW y, NEW S,
               Of(e, PublishProduct(y, S))
       PROVE  Gets(GetProduct(a, x), e) <=> e.pubkey = a /\ y = x
    <2>1. AsksFor(GetProduct(a, x), {a}, {30018}, {<<"d", x>>})
      BY <1>2, MarketQueries
    <2> QED
      BY <1>2, <2>1 DEF AsksFor, By, OfKind, Of, Template, PublishProduct
  <1>3. ASSUME NEW a, NEW n, IsCount(n),
               Of(e, PublishMarketUI)
       PROVE  Gets(GetMarketUI(a, n), e) <=> e.pubkey = a
    <2>1. AsksFor(GetMarketUI(a, n), {a}, {30019}, {})
      BY <1>3, MarketQueries
    <2> QED
      BY <1>3, <2>1 DEF AsksFor, By, OfKind, Of, Template, PublishMarketUI
  <1>4. ASSUME NEW a, NEW x, NEW y, NEW S,
               Of(e, PublishAuction(y, S))
       PROVE  Gets(GetAuction(a, x), e) <=> e.pubkey = a /\ y = x
    <2>1. AsksFor(GetAuction(a, x), {a}, {30020}, {<<"d", x>>})
      BY <1>4, MarketQueries
    <2> QED
      BY <1>4, <2>1 DEF AsksFor, By, OfKind, Of, Template, PublishAuction
  <1> QED
    BY <1>1, <1>2, <1>3, <1>4 DEF MarketIsRead

LEMMA SocialRead == ASSUME NEW e PROVE SocialIsRead(e)
  <1>1. ASSUME NEW a, NEW x, NEW y, NEW S, NEW T,
               Of(e, PublishDateEvent(y, S, T))
       PROVE  Gets(GetByD(31922, a, x), e) <=> e.pubkey = a /\ y = x
    <2>1. AsksFor(GetByD(31922, a, x), {a}, {31922}, {<<"d", x>>})
      BY <1>1, SocialQueries
    <2> QED
      BY <1>1, <2>1 DEF AsksFor, By, OfKind, Of, Template, PublishDateEvent
  <1>2. ASSUME NEW a, NEW x, NEW y, NEW S, NEW T,
               Of(e, PublishTimeEvent(y, S, T))
       PROVE  Gets(GetByD(31923, a, x), e) <=> e.pubkey = a /\ y = x
    <2>1. AsksFor(GetByD(31923, a, x), {a}, {31923}, {<<"d", x>>})
      BY <1>2, SocialQueries
    <2> QED
      BY <1>2, <2>1 DEF AsksFor, By, OfKind, Of, Template, PublishTimeEvent,
           PublishDateEvent
  <1>3. ASSUME NEW a, NEW x, NEW y, NEW S,
               Of(e, PublishCalendar(y, S))
       PROVE  Gets(GetByD(31924, a, x), e) <=> e.pubkey = a /\ y = x
    <2>1. AsksFor(GetByD(31924, a, x), {a}, {31924}, {<<"d", x>>})
      BY <1>3, SocialQueries
    <2> QED
      BY <1>3, <2>1 DEF AsksFor, By, OfKind, Of, Template, PublishCalendar
  <1>4. ASSUME NEW a, NEW x, NEW y,
               Of(e, PublishLiveEvent(y))
       PROVE  Gets(GetLiveEvent(a, x), e) <=> e.pubkey = a /\ y = x
    <2>1. AsksFor(GetLiveEvent(a, x), {a}, {30311}, {<<"d", x>>})
      BY <1>4, SocialQueries
    <2> QED
      BY <1>4, <2>1 DEF AsksFor, By, OfKind, Of, Template, PublishLiveEvent
  <1>5. ASSUME NEW a, NEW k, NEW S, NEW T, NEW n, IsCount(n),
               k \in {21, 22}, Of(e, PublishVideo(k, T))
       PROVE  Gets(ListVideos(S, {a}, n), e) <=> e.pubkey = a /\ OfKind(S, e)
    <2>1. AsksFor(ListVideos(S, {a}, n), {a}, IF S = {} THEN {21, 22} ELSE S, {})
      BY <1>5, SocialQueries
    <2> QED
      BY <1>5, <2>1 DEF AsksFor, By, OfKind, Of, Template, PublishVideo
  <1>6. ASSUME NEW t, NEW u, NEW S, NEW T, NEW n, IsCount(n),
               Of(e, PublishLabel(T, u)), t[1] \in FilterTags
       PROVE  Gets(QueryLabels(S, {t}, n), e) <=> t = u
    <2>1. AsksFor(QueryLabels(S, {t}, n), {}, {1985}, LabelTags(t))
      BY <1>6, LabelQueries
    <2>2. e.kind = 1985 /\ e.tags = {<<"L", ns>> : ns \in T} \union {u}
      BY <1>6 DEF Of, Template, PublishLabel
    <2>3. LabelTags(t) = {t}
      BY <1>6 DEF LabelTags
    <2>4. \A tag \in {<<"L", ns>> : ns \in T} : tag # t
      BY <1>6 DEF FilterTags
    <2>5. Gets(QueryLabels(S, {t}, n), e) <=> LabelTags(t) \subseteq e.tags
      <3>1. e.kind = 1985
        BY <2>2
      <3> QED
        BY <2>1, <3>1 DEF AsksFor, By, OfKind
    <2>6. ASSUME NEW A, NEW B, A = {t}
          PROVE  A \subseteq B <=> t \in B
      BY <2>6
    <2>7. t \in e.tags <=> t = u
      BY <2>2, <2>4
    <2> QED
      BY <2>3, <2>5, <2>6, <2>7
  <1>7. ASSUME NEW t, NEW u, NEW S, NEW T, NEW n, IsCount(n),
               Of(e, PublishLabel(T, u)), t[1] \notin FilterTags
       PROVE  Gets(QueryLabels(S, {t}, n), e)
    <2>1. AsksFor(QueryLabels(S, {t}, n), {}, {1985}, LabelTags(t))
      BY <1>7, LabelQueries
    <2>2. e.kind = 1985 /\ LabelTags(t) = {}
      BY <1>7 DEF Of, Template, PublishLabel, LabelTags
    <2> QED
      BY <2>1, <2>2 DEF AsksFor, By, OfKind
  <1>8. ASSUME NEW x, NEW y, NEW S, NEW n, IsCount(n),
               Of(e, PublishResponse(y))
       PROVE  Gets(ListResponses(x, S, n), e) <=> By(S, e) /\ y = x
    <2>1. AsksFor(ListResponses(x, S, n), S, {1018}, {<<"e", x>>})
      BY <1>8, SocialQueries
    <2> QED
      BY <1>8, <2>1 DEF AsksFor, By, OfKind, Of, Template, PublishResponse
  <1>9. ASSUME NEW a, NEW n, IsCount(n),
               Of(e, PublishThread)
       PROVE  Gets(ListThreadsByAuthor(a, n), e) <=> e.pubkey = a
    <2>1. AsksFor(ListThreadsByAuthor(a, n), {a}, {11}, {})
      BY <1>9, SocialQueries
    <2> QED
      BY <1>9, <2>1 DEF AsksFor, By, OfKind, Of, Template, PublishThread
  <1>10. ASSUME NEW a, NEW n, IsCount(n),
                Of(e, PublishSnippet)
        PROVE  Gets(ListSnippets(a, n), e) <=> e.pubkey = a
    <2>1. AsksFor(ListSnippets(a, n), {a}, {1337}, {})
      BY <1>10, SocialQueries
    <2> QED
      BY <1>10, <2>1 DEF AsksFor, By, OfKind, Of, Template, PublishSnippet
  <1>11. ASSUME NEW a, NEW n, IsCount(n),
                Of(e, SendChat)
        PROVE  Gets(ListChats(a, n), e) <=> e.pubkey = a
    <2>1. AsksFor(ListChats(a, n), {a}, {9}, {})
      BY <1>11, SocialQueries
    <2> QED
      BY <1>11, <2>1 DEF AsksFor, By, OfKind, Of, Template, SendChat
  <1>12. ASSUME NEW a,
                Of(e, PublishKeyPackage)
        PROVE  Gets(GetLatestKeyPackage(a), e) <=> e.pubkey = a
    <2>1. AsksFor(GetLatestKeyPackage(a), {a}, {443}, {})
      BY <1>12, SocialQueries
    <2> QED
      BY <1>12, <2>1 DEF AsksFor, By, OfKind, Of, Template, PublishKeyPackage
  <1> QED
    BY <1>1, <1>2, <1>3, <1>4, <1>5, <1>6, <1>7, <1>8, <1>9, <1>10, <1>11, <1>12 DEF SocialIsRead

LEMMA RelaysRead == ASSUME NEW e PROVE RelaysAreRead(e)
  <1>1. ASSUME NEW x, NEW y, NEW m, NEW S, NEW T, NEW n, IsCount(n),
               Of(e, PublishDiscovery(y, m, S, T))
       PROVE  Gets(FindRelays(S, n), e) /\ (Gets(GetLatestForRelay(x), e) <=> y = x)
    <2>1. /\ AsksFor(FindRelays(S, n), {}, {30166}, {})
          /\ AsksFor(GetLatestForRelay(x), {}, {30166}, {<<"d", x>>})
      BY <1>1, RelayQueries
    <2> QED
      BY <1>1, <2>1 DEF AsksFor, By, OfKind, Of, Template, PublishDiscovery
  <1>2. ASSUME NEW a, NEW x, NEW y, NEW S, NEW T,
               Of(e, PublishHandlerInfo(y, T))
       PROVE  /\ Gets(GetHandlers(x, S), e) <=> By(S, e)
              /\ Gets(GetHandlerByAddress(a, x), e) <=> e.pubkey = a /\ y = x
    <2>1. /\ AsksFor(GetHandlers(x, S), S, {31990}, {})
          /\ AsksFor(GetHandlerByAddress(a, x), {a}, {31990}, {<<"d", x>>})
      BY <1>2, RelayQueries
    <2> QED
      BY <1>2, <2>1 DEF AsksFor, By, OfKind, Of, Template, PublishHandlerInfo
  <1>3. ASSUME NEW x, NEW y, NEW m, NEW S,
               Of(e, PublishRecommendation(y, m))
       PROVE  Gets(GetRecommendations(x, S), e) <=> By(S, e) /\ y = x
    <2>1. AsksFor(GetRecommendations(x, S), S, {31989}, {<<"d", x>>})
      BY <1>3, RelayQueries
    <2> QED
      BY <1>3, <2>1 DEF AsksFor, By, OfKind, Of, Template, PublishRecommendation
  <1> QED
    BY <1>1, <1>2, <1>3 DEF RelaysAreRead

LEMMA ChannelsRead == ASSUME NEW e PROVE ChannelsAreRead(e)
  <1>1. ASSUME NEW x,
               Of(e, CreateChannel)
       PROVE  Gets(GetChannel(x), e) <=> e.id = x
    BY <1>1, ChannelQuery DEF Of, Template, CreateChannel
  <1>2. ASSUME NEW a, NEW x, NEW y,
               Of(e, UpdateChannelMetadata(y))
       PROVE  Gets(GetChannelMetadata(x, a), e) <=> e.pubkey = a /\ y = x
    <2>1. AsksFor(GetChannelMetadata(x, a), {a}, {41}, {<<"e", x>>})
      BY <1>2, ChannelQueries
    <2> QED
      BY <1>2, <2>1 DEF AsksFor, By, OfKind, Of, Template, UpdateChannelMetadata
  <1>3. ASSUME NEW x, NEW y, NEW S, NEW n, IsCount(n),
               Of(e, SendMessage(y, S))
       PROVE  Gets(GetMessages(x, n), e) <=> y = x \/ x \in S
    <2>1. AsksFor(GetMessages(x, n), {}, {42}, {<<"e", x>>})
      BY <1>3, ChannelQueries
    <2> QED
      BY <1>3, <2>1 DEF AsksFor, By, OfKind, Of, Template, SendMessage
  <1>4. ASSUME NEW x, NEW y, NEW k,
               Of(e, GroupEvent(k, y))
       PROVE  Gets(FetchEventByKind(k, x), e) <=> y = x
    <2>1. AsksFor(FetchEventByKind(k, x), {}, {k}, {<<"d", x>>})
      BY <1>4, ChannelQueries
    <2> QED
      BY <1>4, <2>1 DEF AsksFor, By, OfKind, Of, Template, GroupEvent
  <1> QED
    BY <1>1, <1>2, <1>3, <1>4 DEF ChannelsAreRead

LEMMA JobsRead == ASSUME NEW e PROVE JobsAreRead(e)
  <1>1. ASSUME NEW x, NEW y, NEW k, NEW q, NEW kinds, IsJobStream(q, kinds, x)
        PROVE  /\ Of(e, Feedback(y)) /\ kinds # {} =>
                    (Gets(q, e) <=> 7000 \in kinds /\ y = x)
               /\ Of(e, JobResult(k, y)) /\ kinds # {} =>
                    (Gets(q, e) <=> ResultsOf(k) \subseteq kinds /\ y = x)
    BY <1>1 DEF IsJobStream, AsksFor, By, OfKind, Of, Template, Feedback, JobResult, ResultsOf
  <1>2. ASSUME NEW k, k \in 5000..5999
        PROVE  /\ 7000 \notin ResultsOf(k) /\ 7000 \notin JobResults
               /\ ~(ResultsOf(k) \subseteq {7000}) /\ ResultsOf(k) \subseteq JobResults
               /\ JobResults # {} /\ ResultsOf(k) # {}
    BY <1>2 DEF ResultsOf, JobResults
  <1>3. ASSUME NEW x, NEW y, NEW k, k \in 5000..5999
        PROVE  LET job == SubscribeToJob(x)
                   request == SubscribeToRequest(x, k)
               IN
               /\ Of(e, Feedback(y)) =>
                    /\ ~Gets(job[2], e) /\ (Gets(job[1], e) <=> y = x)
                    /\ ~Gets(request[2], e) /\ (Gets(request[1], e) <=> y = x)
               /\ Of(e, JobResult(k, y)) =>
                    /\ ~Gets(job[1], e) /\ (Gets(job[2], e) <=> y = x)
                    /\ ~Gets(request[1], e) /\ (Gets(request[2], e) <=> y = x)
    <2>1. /\ IsJobStream(SubscribeToJob(x)[1], {7000}, x)
          /\ IsJobStream(SubscribeToJob(x)[2], JobResults, x)
          /\ IsJobStream(SubscribeToRequest(x, k)[1], {7000}, x)
          /\ IsJobStream(SubscribeToRequest(x, k)[2], ResultsOf(k), x)
      BY JobStreams
    <2>2. /\ 7000 \notin ResultsOf(k) /\ 7000 \notin JobResults
          /\ ~(ResultsOf(k) \subseteq {7000}) /\ ResultsOf(k) \subseteq JobResults
          /\ JobResults # {} /\ ResultsOf(k) # {}
      BY <1>2, <1>3
    <2>3. ASSUME Of(e, Feedback(y))
          PROVE  /\ ~Gets(SubscribeToJob(x)[2], e)
                 /\ Gets(SubscribeToJob(x)[1], e) <=> y = x
                 /\ ~Gets(SubscribeToRequest(x, k)[2], e)
                 /\ Gets(SubscribeToRequest(x, k)[1], e) <=> y = x
      <3>1. \A q, kinds : IsJobStream(q, kinds, x) /\ kinds # {} =>
              (Gets(q, e) <=> 7000 \in kinds /\ y = x)
        BY <1>1, <2>3
      <3> QED
        BY <2>1, <2>2, <3>1
    <2>4. ASSUME Of(e, JobResult(k, y))
          PROVE  /\ ~Gets(SubscribeToJob(x)[1], e)
                 /\ Gets(SubscribeToJob(x)[2], e) <=> y = x
                 /\ ~Gets(SubscribeToRequest(x, k)[1], e)
                 /\ Gets(SubscribeToRequest(x, k)[2], e) <=> y = x
      <3>1. \A q, kinds : IsJobStream(q, kinds, x) /\ kinds # {} =>
              (Gets(q, e) <=> ResultsOf(k) \subseteq kinds /\ y = x)
        BY <1>1, <2>4
      <3> QED
        BY <2>1, <2>2, <3>1
    <2> QED
      BY <2>3, <2>4
  <1> QED
    BY <1>3 DEF JobsAreRead

-----------------------------------------------------------------------------
(* ClientServices: readers and operations of the catalogue                   *)

\* Every call that reads one subscription, with any arguments; its limit is a count.
DataCalls(a, x, k, n, u, S) ==
    {GetAppData(a, x), ListKeys(a, n), GetArticle(a, x), ListArticles(a, n),
     GetLatestList(a, k, x, n), GetStatus(a, x), GetByUrl(u, S), ListByTopic(x, S, n)}
MoneyCalls(a, x, k, n, S, T) ==
    {GetLatestWallet(a), GetTokens(a, n), GetHistory(a, n), GetNutzapInfo(a),
     FindIncoming(a, S, n), GetMintInfoByD(k, x), FindRecommendations(T, S, n)}
MarketCalls(a, x, n) ==
    {GetStall(a, x), GetProduct(a, x), GetMarketUI(a, n), GetAuction(a, x)}
SocialCalls(a, x, k, n, S, T) ==
    {GetByD(k, a, x), GetLiveEvent(a, x), ListVideos(T, S, n), ListResponses(x, S, n),
     ListThreadsByAuthor(a, n), ListSnippets(a, n), ListChats(a, n), Search(x, T, S, n),
     GetLatestKeyPackage(a), QueryLabels(S, T, n)}
RelayCalls(a, x, n, S) ==
    {GetLatestForRelay(x), FindRelays(S, n), GetHandlers(x, S), GetRecommendations(x, S),
     GetHandlerByAddress(a, x)}
ChannelCalls(a, x, k, n) ==
    {GetChannelMetadata(x, a), GetMessages(x, n), FetchEventByKind(k, x), GetChannel(x)}

IsCall(q) ==
    \E n : IsCount(n) /\
      \/ \E a, x, k, u, S : q \in DataCalls(a, x, k, n, u, S)
      \/ \E a, x, k, S, T : q \in MoneyCalls(a, x, k, n, S, T)
      \/ \E a, x : q \in MarketCalls(a, x, n)
      \/ \E a, x, k, S, T : q \in SocialCalls(a, x, k, n, S, T)
      \/ \E a, x, S : q \in RelayCalls(a, x, n, S)
      \/ \E a, x, k : q \in ChannelCalls(a, x, k, n)

LEMMA AskersAreSound ==
    \A q, authors, kinds, tags : AsksFor(q, authors, kinds, tags) => IsSound(q)
  BY DEF AsksFor

LEMMA CallsAreSound == ASSUME NEW q, IsCall(q) PROVE IsSound(q)
  <1>1. ASSUME NEW n, IsCount(n), NEW a, NEW x, NEW k, NEW u, NEW S,
               q \in DataCalls(a, x, k, n, u, S)
        PROVE  IsSound(q)
    <2>1. /\ AsksFor(GetAppData(a, x), {a}, {30078}, {<<"d", x>>})
          /\ AsksFor(ListKeys(a, n), {a}, {30078}, {})
          /\ AsksFor(GetArticle(a, x), {a}, {30023}, {<<"d", x>>})
          /\ AsksFor(ListArticles(a, n), {a}, {30023}, {})
          /\ AsksFor(GetLatestList(a, k, x, n), {a}, {k}, ListTags(k, x))
          /\ AsksFor(GetStatus(a, x), {a}, {30315}, {<<"d", x>>})
          /\ AsksFor(GetByUrl(u, S), S, {39701}, {<<"d", u.rest>>})
          /\ AsksFor(ListByTopic(x, S, n), S, {39701}, {<<"t", x>>})
      BY <1>1, DataQueries
    <2>2. /\ IsSound(GetAppData(a, x))
          /\ IsSound(ListKeys(a, n))
          /\ IsSound(GetArticle(a, x))
          /\ IsSound(ListArticles(a, n))
          /\ IsSound(GetLatestList(a, k, x, n))
          /\ IsSound(GetStatus(a, x))
          /\ IsSound(GetByUrl(u, S))
          /\ IsSound(ListByTopic(x, S, n))
      BY <2>1, AskersAreSound
    <2> QED
      BY <1>1, <2>2 DEF DataCalls
  <1>2. ASSUME NEW n, IsCount(n), NEW a, NEW x, NEW k, NEW S, NEW T,
               q \in MoneyCalls(a, x, k, n, S, T)
        PROVE  IsSound(q)
    <2>1. /\ AsksFor(GetLatestWallet(a), {a}, {17375}, {})
          /\ AsksFor(GetTokens(a, n), {a}, {7375}, {})
          /\ AsksFor(GetHistory(a, n), {a}, {7376}, {})
          /\ AsksFor(GetNutzapInfo(a), {a}, {10019}, {})
          /\ AsksFor(FindIncoming(a, S, n), {}, {9321}, {<<"p", a>>})
          /\ AsksFor(GetMintInfoByD(k, x), {}, {k}, {<<"d", x>>})
          /\ AsksFor(FindRecommendations(T, S, n), S, {38000}, {})
      BY <1>2, MoneyQueries
    <2>2. /\ IsSound(GetLatestWallet(a))
          /\ IsSound(GetTokens(a, n))
          /\ IsSound(GetHistory(a, n))
          /\ IsSound(GetNutzapInfo(a))
          /\ IsSound(FindIncoming(a, S, n))
          /\ IsSound(GetMintInfoByD(k, x))
          /\ IsSound(FindRecommendations(T, S, n))
      BY <2>1, AskersAreSound
    <2> QED
      BY <1>2, <2>2 DEF MoneyCalls
  <1>3. ASSUME NEW n, IsCount(n), NEW a, NEW x,
               q \in MarketCalls(a, x, n)
        PROVE  IsSound(q)
    <2>1. /\ AsksFor(GetStall(a, x), {a}, {30017}, {<<"d", x>>})
          /\ AsksFor(GetProduct(a, x), {a}, {30018}, {<<"d", x>>})
          /\ AsksFor(GetMarketUI(a, n), {a}, {30019}, {})
          /\ AsksFor(GetAuction(a, x), {a}, {30020}, {<<"d", x>>})
      BY <1>3, MarketQueries
    <2>2. /\ IsSound(GetStall(a, x))
          /\ IsSound(GetProduct(a, x))
          /\ IsSound(GetMarketUI(a, n))
          /\ IsSound(GetAuction(a, x))
      BY <2>1, AskersAreSound
    <2> QED
      BY <1>3, <2>2 DEF MarketCalls
  <1>4. ASSUME NEW n, IsCount(n), NEW a, NEW x, NEW k, NEW S, NEW T,
               q \in SocialCalls(a, x, k, n, S, T)
        PROVE  IsSound(q)
    <2>1. /\ AsksFor(GetByD(k, a, x), {a}, {k}, {<<"d", x>>})
          /\ AsksFor(GetLiveEvent(a, x), {a}, {30311}, {<<"d", x>>})
          /\ AsksFor(ListResponses(x, S, n), S, {1018}, {<<"e", x>>})
          /\ AsksFor(ListThreadsByAuthor(a, n), {a}, {11}, {})
          /\ AsksFor(ListSnippets(a, n), {a}, {1337}, {})
          /\ AsksFor(ListChats(a, n), {a}, {9}, {})
          /\ AsksFor(Search(x, T, S, n), S, T, {<<"search", x>>})
          /\ AsksFor(GetLatestKeyPackage(a), {a}, {443}, {})
      BY <1>4, SocialQueries
    <2>2. /\ IsSound(GetByD(k, a, x))
          /\ IsSound(GetLiveEvent(a, x))
          /\ IsSound(ListResponses(x, S, n))
          /\ IsSound(ListThreadsByAuthor(a, n))
          /\ IsSound(ListSnippets(a, n))
          /\ IsSound(ListChats(a, n))
          /\ IsSound(Search(x, T, S, n))
          /\ IsSound(GetLatestKeyPackage(a))
      BY <2>1, AskersAreSound
    <2>3. IsSound(QueryLabels(S, T, n))
      <3>1. PICK r : r = QueryLabels(S, T, n)
        OBVIOUS
      <3>2. r.limit = n /\ r.takes = Or(n, 10) /\ r.mode = "loop" /\ r.local = {}
        BY <3>1 DEF QueryLabels, Loop, AskFor
      <3>3. AreCounts(n, Or(n, 10), "loop", {})
        BY <1>4, CountsAre DEF AreCounts, Or, IsCount
      <3> QED
        BY <3>1, <3>2, <3>3 DEF IsSound
    <2>4. IsSound(ListVideos(T, S, n))
      <3>1. PICK v : v = ListVideos(T, S, n)
        OBVIOUS
      <3>2. v.limit = n /\ v.takes = Or(n, 5) /\ v.mode = "loop" /\ v.local = {}
        BY <3>1 DEF ListVideos, Loop, AskFor
      <3>3. AreCounts(n, Or(n, 5), "loop", {})
        BY <1>4, CountsAre DEF AreCounts, Or, IsCount
      <3> QED
        BY <3>1, <3>2, <3>3 DEF IsSound
    <2> QED
      BY <1>4, <2>2, <2>3, <2>4 DEF SocialCalls
  <1>5. ASSUME NEW n, IsCount(n), NEW a, NEW x, NEW S,
               q \in RelayCalls(a, x, n, S)
        PROVE  IsSound(q)
    <2>1. /\ AsksFor(GetLatestForRelay(x), {}, {30166}, {<<"d", x>>})
          /\ AsksFor(FindRelays(S, n), {}, {30166}, {})
          /\ AsksFor(GetHandlers(x, S), S, {31990}, {})
          /\ AsksFor(GetRecommendations(x, S), S, {31989}, {<<"d", x>>})
          /\ AsksFor(GetHandlerByAddress(a, x), {a}, {31990}, {<<"d", x>>})
      BY <1>5, RelayQueries
    <2>2. /\ IsSound(GetLatestForRelay(x))
          /\ IsSound(FindRelays(S, n))
          /\ IsSound(GetHandlers(x, S))
          /\ IsSound(GetRecommendations(x, S))
          /\ IsSound(GetHandlerByAddress(a, x))
      BY <2>1, AskersAreSound
    <2> QED
      BY <1>5, <2>2 DEF RelayCalls
  <1>6. ASSUME NEW n, IsCount(n), NEW a, NEW x, NEW k,
               q \in ChannelCalls(a, x, k, n)
        PROVE  IsSound(q)
    <2>1. /\ AsksFor(GetChannelMetadata(x, a), {a}, {41}, {<<"e", x>>})
          /\ AsksFor(GetMessages(x, n), {}, {42}, {<<"e", x>>})
          /\ AsksFor(FetchEventByKind(k, x), {}, {k}, {<<"d", x>>})
      BY <1>6, ChannelQueries
    <2>2. /\ IsSound(GetChannelMetadata(x, a))
          /\ IsSound(GetMessages(x, n))
          /\ IsSound(FetchEventByKind(k, x))
      BY <2>1, AskersAreSound
    <2>3. IsSound(GetChannel(x))
      BY <1>6, ChannelQuery
    <2> QED
      BY <1>6, <2>2, <2>3 DEF ChannelCalls
  <1> QED
    BY <1>1, <1>2, <1>3, <1>4, <1>5, <1>6 DEF IsCall

\* Readers of one call, and of the two streams of a job.
IsCatalogReader(r) ==
    \/ \E q : IsCall(q) /\ r = <<q>>
    \/ \E x : r = SubscribeToJob(x)
    \/ \E x, k : IsJobRequestKind(k) /\ r = SubscribeToRequest(x, k)

IsPage(page) == IsCount(page.default) /\ IsCount(page.most)

LEMMA CatalogReads ==
    ASSUME NEW s, IsCatalogReader(s.reader), IsPage(s.page)
    PROVE  IsReader(s)
  <1>1. ASSUME NEW q, IsCall(q), s.reader = <<q>>
        PROVE  IsReader(s)
    <2>1. DOMAIN s.reader = {1} /\ s.reader[1] = q
      BY <1>1
    <2>2. IsSound(q)
      BY <1>1, CallsAreSound
    <2> QED
      BY <2>1, <2>2 DEF IsReader, IsPage, IsSound, AreCounts
  <1>2. ASSUME NEW x, NEW kinds, NEW others, kinds # {}, others # {}, kinds \cap others = {},
               DOMAIN s.reader = {1, 2}, IsJobStream(s.reader[1], kinds, x),
               IsJobStream(s.reader[2], others, x)
        PROVE  IsReader(s)
    <2>1. PICK p, q : p = s.reader[1] /\ q = s.reader[2]
      OBVIOUS
    <2>2. /\ AsksFor(p, {}, kinds, {<<"e", x>>}) /\ p.mode = "stream"
          /\ AsksFor(q, {}, others, {<<"e", x>>}) /\ q.mode = "stream"
      BY <1>2, <2>1 DEF IsJobStream
    <2>3. /\ IsCount(p.limit) /\ IsCount(p.takes) /\ p.local = {}
          /\ IsCount(q.limit) /\ IsCount(q.takes)
      BY <2>2 DEF AsksFor, IsSound, AreCounts
    <2>4. \A e : ~(Gets(p, e) /\ Gets(q, e))
      BY <1>2, <2>2 DEF AsksFor, OfKind
    <2>5. \A e \in Publishable(s), i, j \in DOMAIN s.reader :
            AskedBy(s, i, e) /\ AskedBy(s, j, e) => i = j
      BY <1>2, <2>1, <2>4 DEF AskedBy, Gets
    <2> QED
      BY <1>2, <2>1, <2>2, <2>3, <2>5 DEF IsReader, IsPage
  <1>3. ASSUME NEW x, s.reader = SubscribeToJob(x)
        PROVE  IsReader(s)
    <2>1. {7000} # {} /\ JobResults # {} /\ {7000} \cap JobResults = {}
      BY DEF JobResults
    <2>2. /\ DOMAIN s.reader = {1, 2} /\ IsJobStream(s.reader[1], {7000}, x)
          /\ IsJobStream(s.reader[2], JobResults, x)
      BY <1>3, JobStreams
    <2> QED
      BY <1>2, <2>1, <2>2
  <1>4. ASSUME NEW x, NEW k, IsJobRequestKind(k), s.reader = SubscribeToRequest(x, k)
        PROVE  IsReader(s)
    <2>1. {7000} # {} /\ ResultsOf(k) # {} /\ {7000} \cap ResultsOf(k) = {}
      BY <1>4 DEF IsJobRequestKind, ResultsOf
    <2>2. /\ DOMAIN s.reader = {1, 2} /\ IsJobStream(s.reader[1], {7000}, x)
          /\ IsJobStream(s.reader[2], ResultsOf(k), x)
      BY <1>4, JobStreams
    <2> QED
      BY <1>2, <2>1, <2>2
  <1> QED
    BY <1>1, <1>3, <1>4 DEF IsCatalogReader

\* Operations of one event each and rollOverToken; where tokens are published, no other
\* deletes.
IsSingle(op, kind) == \E t : op = <<t>> /\ t.kind # kind
AreOperations(ops) ==
    \/ \A op \in ops : IsSingle(op, DeletionKind) \/ \E old : op = RollOverToken(old)
    \/ \A op \in ops : IsSingle(op, TokenKind)

LEMMA CatalogReplaces ==
    ASSUME NEW s, AreOperations(s.operations)
    PROVE  HasOperations(s) /\ ReplacesBeforeDeleting(s)
  <1>1. PICK T : T = TemplatesOf(s)
    OBVIOUS
  <1>2. ASSUME NEW op \in s.operations, NEW i \in DOMAIN op
        PROVE  op[i] \in T
    BY <1>1 DEF TemplatesOf
  <1>3. ASSUME NEW op \in s.operations, NEW kind, IsSingle(op, kind)
        PROVE  /\ op \in Seq(T) /\ Len(op) = 1 /\ op[1] \in T /\ op[1].kind # kind
    <2>1. PICK t : op = <<t>> /\ t.kind # kind
      BY <1>3 DEF IsSingle
    <2>2. DOMAIN <<t>> = {1} /\ <<t>>[1] = t /\ Len(<<t>>) = 1
      OBVIOUS
    <2>3. t \in T
      BY <1>2, <2>1, <2>2
    <2>4. <<t>> \in Seq(T)
      BY <2>3
    <2> QED
      BY <2>1, <2>2, <2>3, <2>4
  <1>4. ASSUME NEW op \in s.operations, NEW old, op = RollOverToken(old)
        PROVE  /\ op \in Seq(T) /\ Len(op) = 2
               /\ op[1].kind = TokenKind /\ op[1].kind # DeletionKind
    <2>1. PICK p, d : p = PublishToken /\ d = DeleteToken(old)
      OBVIOUS
    <2>2. op = <<p, d>>
      BY <1>4, <2>1 DEF RollOverToken
    <2>3. DOMAIN <<p, d>> = {1, 2} /\ <<p, d>>[1] = p /\ <<p, d>>[2] = d /\ Len(<<p, d>>) = 2
      OBVIOUS
    <2>4. p \in T /\ d \in T
      BY <1>2, <2>2, <2>3
    <2>5. <<p, d>> \in Seq(T)
      BY <2>4
    <2>6. p.kind = TokenKind /\ p.kind # DeletionKind
      BY <2>1 DEF PublishToken, Template, TokenKind, DeletionKind
    <2> QED
      BY <2>2, <2>3, <2>5, <2>6
  <1>5. CASE \A op \in s.operations : IsSingle(op, DeletionKind) \/ \E old : op = RollOverToken(old)
    <2>1. ASSUME NEW op \in s.operations
          PROVE  /\ op \in Seq(T) /\ Len(op) > 0
                 /\ \A j \in 1..Len(op) : op[j].kind = DeletionKind =>
                      \E i \in 1..Len(op) : i < j /\ op[i].kind = TokenKind
      <3>1. CASE IsSingle(op, DeletionKind)
        <4>1. op \in Seq(T) /\ Len(op) = 1 /\ op[1].kind # DeletionKind
          BY <1>3, <3>1
        <4> QED
          BY <4>1
      <3>2. CASE \E old : op = RollOverToken(old)
        <4>1. /\ op \in Seq(T) /\ Len(op) = 2
              /\ op[1].kind = TokenKind /\ op[1].kind # DeletionKind
          BY <1>4, <3>2
        <4> QED
          BY <4>1
      <3> QED
        BY <1>5, <3>1, <3>2
    <2> QED
      BY <1>1, <2>1 DEF HasOperations, ReplacesBeforeDeleting
  <1>6. CASE \A op \in s.operations : IsSingle(op, TokenKind)
    <2>1. \A op \in s.operations :
            op \in Seq(T) /\ Len(op) = 1 /\ op[1].kind # TokenKind
      BY <1>3, <1>6
    <2>2. ~PublishesTokens(s)
      <3>1. ASSUME NEW t \in TemplatesOf(s)
            PROVE  t.kind # TokenKind
        <4>1. PICK op \in s.operations : t \in {op[i] : i \in DOMAIN op}
          BY DEF TemplatesOf
        <4>2. op \in Seq(T) /\ Len(op) = 1 /\ op[1].kind # TokenKind
          BY <2>1
        <4>3. DOMAIN op = {1}
          BY <4>2
        <4> QED
          BY <4>1, <4>2, <4>3
      <3> QED
        BY <3>1 DEF PublishesTokens
    <2> QED
      BY <1>1, <2>1, <2>2 DEF HasOperations, ReplacesBeforeDeleting
  <1> QED
    BY <1>5, <1>6 DEF AreOperations

-----------------------------------------------------------------------------
(* The parts together                                                          *)

\* What a relay lets in, and what it shows of itself, keep their invariants.
ExchangeInv ==
    /\ AccessTypeOK /\ AuthInv /\ AdvertisedIsEnforced /\ RateInv
    /\ AdminInv

\* A step is of one part, and the others stand still.
LEMMA StepOfParts == [Next]_allVars => [AccessNext]_accessVars /\ [AdminNext]_adminVars
  <1>1. CASE UNCHANGED allVars
    BY <1>1 DEF allVars
  <1>2. CASE Next
    <2>1. CASE AccessNext /\ UNCHANGED <<servicesVars, adminVars, negVars, pointerVars, gitVars,
                                          serviceVars, refVars, selectVars, chunkVars>>
      BY <2>1
    <2>2. CASE AdminNext /\ UNCHANGED <<servicesVars, accessVars, negVars, pointerVars, gitVars,
                                         serviceVars, refVars, selectVars, chunkVars>>
      BY <2>2
    <2>3. CASE UNCHANGED accessVars /\ UNCHANGED adminVars
      BY <2>3
    <2> QED
      BY <1>2, <2>1, <2>2, <2>3 DEF Next
  <1> QED
    BY <1>1, <1>2

\* The same of the services.
LEMMA StepOfServices == [Next]_allVars => [ServicesNext]_servicesVars
  <1>1. CASE UNCHANGED allVars
    BY <1>1 DEF allVars
  <1>2. CASE Next
    <2>1. CASE ServicesNext
      BY <2>1
    <2>2. CASE UNCHANGED servicesVars
      BY <2>2
    <2> QED
      BY <1>2, <2>1, <2>2 DEF Next
  <1> QED
    BY <1>1, <1>2

\* The invariant of the two parts, in every behaviour.
LEMMA ExchangeInvHolds == Spec => []ExchangeInv
  <1>1. Init => ExchangeInv
    BY AccessStart, AdminStart, AccessAssumption, AdminAssumption DEF Init, ExchangeInv
  <1>2. ExchangeInv /\ [Next]_allVars => ExchangeInv'
    <2> SUFFICES ASSUME ExchangeInv, [Next]_allVars
                 PROVE  ExchangeInv'
      OBVIOUS
    <2>1. [AccessNext]_accessVars /\ [AdminNext]_adminVars
      BY StepOfParts
    <2>2. AccessTypeOK' /\ AuthInv'
      BY <2>1, AuthStep, AccessAssumption DEF ExchangeInv
    <2>3. AdvertisedIsEnforced'
      BY <2>1, LimitsStep, AccessAssumption, ModulesAssumption DEF ExchangeInv
    <2>4. RateInv'
      BY <2>1, RateStep, AccessAssumption DEF ExchangeInv
    <2>5. AdminInv'
      BY <2>1, AdminStep, AdminAssumption DEF ExchangeInv
    <2> QED
      BY <2>2, <2>3, <2>4, <2>5 DEF ExchangeInv
  <1> QED
    BY <1>1, <1>2, PTL DEF Spec

\* A context counts as a pubkey's only after that pubkey answered a challenge that was made
\* for this connection since it last connected, and a protected event was stored only
\* through a connection of its author: whatever is connected again, disconnected, challenged
\* anew and answered late (ConnectionManager.ts, AuthService.ts, MessageHandler.ts).
THEOREM OnlyOwners == Spec => []AuthIsOwners
  <1>1. ExchangeInv => AuthIsOwners
    BY DEF ExchangeInv, AuthInv, AuthIsOwners
  <1> QED
    BY <1>1, ExchangeInvHolds, PTL

\* What is stored is within the limits of content, tags and time that the information
\* document advertises, for every list of modules in every order, as far as the modules
\* that advertise those limits have the policy (NipRegistry.ts, Nip01Module.ts).
THEOREM LimitsEnforced == Spec => []AdvertisedIsEnforced
  <1>1. ExchangeInv => AdvertisedIsEnforced
    BY DEF ExchangeInv
  <1> QED
    BY <1>1, ExchangeInvHolds, PTL

\* No period of one window's length sees more than twice the limit of one connection's
\* events pass the limiter, for every limit and window (checkRate of MessageHandler.ts).
THEOREM RateIsBounded == Spec => []RateHolds
  <1>1. ExchangeInv => RateHolds
    BY RateInvHolds, AccessAssumption DEF ExchangeInv
  <1> QED
    BY <1>1, ExchangeInvHolds, PTL

\* A field change that was answered is shown by the information document, or a later one
\* is, however the awaits of any number of requests interleave (BunServer.ts,
\* Nip86AdminService.ts).
THEOREM ChangesAreShown == Spec => []DocumentShowsChanges
  <1>1. ExchangeInv => DocumentShowsChanges
    BY AdminShows, AdminAssumption DEF ExchangeInv
  <1> QED
    BY <1>1, ExchangeInvHolds, PTL

\* Calls, ids and subscriptions, in every behaviour: for any scenarios of sequences of
\* templates and of readers whose numbers are counts.
ReadingInv == CallInv /\ EverInv /\ ReadInv /\ scenario \in Scenarios

LEMMA ReadingInvHolds ==
    ASSUME \A s \in Scenarios : HasOperations(s) /\ IsReader(s)
    PROVE  Spec => []ReadingInv
  <1>1. Init => ReadingInv
    <2>1. Init => ServicesInit
      BY DEF Init
    <2>2. ServicesInit => scenario \in Scenarios
      BY DEF ServicesInit
    <2> QED
      BY <2>1, <2>2, ReadStart DEF ReadingInv
  <1>2. ReadingInv /\ [Next]_allVars => ReadingInv'
    <2> SUFFICES ASSUME ReadingInv, [Next]_allVars
                 PROVE  ReadingInv'
      OBVIOUS
    <2>1. [ServicesNext]_servicesVars
      BY StepOfServices
    <2>2. /\ CallInv /\ EverInv /\ ReadInv /\ scenario \in Scenarios
          /\ IsReader(scenario) /\ \A s \in Scenarios : HasOperations(s)
      BY DEF ReadingInv
    <2>3. CallInv'
      BY <2>1, <2>2, CallStep
    <2>4. EverInv'
      BY <2>1, <2>2, EverStep
    <2>5. ReadInv'
      BY <2>1, <2>2, ReadStep, ClientServicesAssumption, EventsAssumption
    <2>6. scenario' \in Scenarios
      BY <2>1, <2>2, ScenarioStays
    <2> QED
      BY <2>3, <2>4, <2>5, <2>6 DEF ReadingInv
  <1> QED
    BY <1>1, <1>2, PTL DEF Spec

\* What the invariant says of the read that is going on.
LEMMA ReadingInvGives ==
    ASSUME \A s \in Scenarios : IsReader(s), ReadingInv
    PROVE  HeadIsLatest /\ FoundIfStored /\ OnlyAsked /\ StreamComplete
  <1>1. CallInv /\ EverInv /\ ReadInv /\ IsReader(scenario)
    BY DEF ReadingInv
  <1> QED
    BY <1>1, ReadInvGives, ClientServicesAssumption

\* A call that takes the first frame of its subscription returns an event it asked for, no
\* older than any the relay had stored of those when the call began, whatever is published,
\* replaced or tied meanwhile and however small the relay's pages are (the get methods of
\* the client services, such as client/AppDataService.ts get): for any scenarios.
THEOREM HeadsAreLatest ==
    ASSUME \A s \in Scenarios : HasOperations(s) /\ IsReader(s)
    PROVE  Spec => []HeadIsLatest
  <1>1. ReadingInv => HeadIsLatest
    BY ReadingInvGives
  <1> QED
    BY <1>1, ReadingInvHolds, PTL

\* A call returns only what its filter, as decodeFilter leaves it, lets through and its own
\* test keeps, and returns nothing of what was stored only when its time ran out before the
\* first frame came, or when its test refused what it took (the get and list methods of the
\* client services).  What a filter is left with is another matter: CatalogIsRead.
THEOREM AskedAreFound ==
    ASSUME \A s \in Scenarios : HasOperations(s) /\ IsReader(s)
    PROVE  Spec => [](FoundIfStored /\ OnlyAsked)
  <1>1. ReadingInv => FoundIfStored /\ OnlyAsked
    BY ReadingInvGives
  <1> QED
    BY <1>1, ReadingInvHolds, PTL

\* A stream has every event it asks for exactly once, delivered, queued or on its way, whether
\* it was stored before the subscription or published after, whatever its limit and the
\* relay's: only one that was stored before, and for which a full page of others as new was
\* given, is not given itself (client/RelayService.ts subscribe, relay/core/
\* SubscriptionManager.ts).
THEOREM StreamsAreComplete ==
    ASSUME \A s \in Scenarios : HasOperations(s) /\ IsReader(s)
    PROVE  Spec => []StreamComplete
  <1>1. ReadingInv => StreamComplete
    BY ReadingInvGives
  <1> QED
    BY <1>1, ReadingInvHolds, PTL

\* rollOverToken never leaves an account that once stored a token without one, wherever it
\* stops and whatever runs between its two publishes, as long as the relay did not refuse
\* its new token: for any scenarios whose operations publish a token before they delete
\* one, as RollOver does (client/CashuWalletService.ts).
THEOREM TokensAreKept ==
    ASSUME \A s \in Scenarios : ReplacesBeforeDeleting(s)
    PROVE  Spec => []TokenKept
  <1>1. Init /\ scenario \in Scenarios => TokenInv
    BY DEF Init, ServicesInit, TokenInv, TokenKept, EventsOfScenario, CallFollows
  <1>2. Init => scenario \in Scenarios
    BY DEF Init, ServicesInit
  <1>3. TokenInv /\ [Next]_allVars => TokenInv'
    BY StepOfServices, TokenStep
  <1>4. TokenInv => TokenKept
    BY DEF TokenInv
  <1> QED
    BY <1>1, <1>2, <1>3, <1>4, PTL DEF Spec

\* What each call of the services, with any arguments, gets of what the operation it goes
\* with publishes: the author, address or topic it names decide, and these conditions do
\* not, since decodeFilter drops them: the mints of a nutzap, the kinds of a recommendation
\* of mints, the namespaces of a label and targets such as "r", the kind of a handler.
THEOREM CatalogIsRead ==
    ASSUME NEW e
    PROVE  /\ DataIsRead(e) /\ MoneyIsRead(e) /\ MarketIsRead(e) /\ SocialIsRead(e)
           /\ RelaysAreRead(e) /\ ChannelsAreRead(e) /\ JobsAreRead(e)
  BY DataRead, MoneyRead, MarketRead, SocialRead, RelaysRead, ChannelsRead, JobsRead

\* The services as they are: any call of the catalogue, with any arguments, any limit and any
\* page of the relay, beside operations of one event each and rollOverToken, has the
\* properties above, together.
THEOREM CatalogIsServed ==
    ASSUME \A s \in Scenarios :
             IsCatalogReader(s.reader) /\ IsPage(s.page) /\ AreOperations(s.operations)
    PROVE  Spec => [](HeadIsLatest /\ FoundIfStored /\ OnlyAsked /\ StreamComplete /\ TokenKept)
  <1>1. \A s \in Scenarios : HasOperations(s) /\ IsReader(s)
    BY CatalogReads, CatalogReplaces
  <1>2. \A s \in Scenarios : ReplacesBeforeDeleting(s)
    BY CatalogReplaces
  <1>3. Spec => []HeadIsLatest
    BY <1>1, HeadsAreLatest
  <1>4. Spec => [](FoundIfStored /\ OnlyAsked)
    BY <1>1, AskedAreFound
  <1>5. Spec => []StreamComplete
    BY <1>1, StreamsAreComplete
  <1>6. Spec => []TokenKept
    BY <1>2, TokensAreKept
  <1> QED
    BY <1>3, <1>4, <1>5, <1>6, PTL

-----------------------------------------------------------------------------
(* Selections                                                                *)

\* A step of the exchange is one of the selections, or leaves them alone.
LEMMA StepOfSelections == [Next]_allVars => [SelectNext]_selectVars
  <1>1. CASE UNCHANGED allVars
    BY <1>1 DEF allVars
  <1>2. CASE Next
    <2>1. CASE SelectNext
      BY <2>1
    <2>2. CASE UNCHANGED selectVars
      BY <2>2
    <2> QED
      BY <1>2, <2>1, <2>2 DEF Next
  <1> QED
    BY <1>1, <1>2

\* A vote counts once, with the voter's last response before the end of the poll, and the
\* latest of each author does not depend on repetitions: in whatever order and however often
\* relays send the events (client/Nip88Service.ts countResults, wrappers/utils.ts
\* getLatestReplaceable and deduplicateEvents).
THEOREM VotesAreFree == Spec => []VotesAreOrderFree
  <1>1. Init => Arrivals
    BY SelectArrivals DEF Init
  <1>2. Arrivals /\ [Next]_allVars => Arrivals'
    BY StepOfSelections, SelectArrivals
  <1>3. Arrivals => VotesAreOrderFree
    BY VotesFree DEF VotesAreOrderFree
  <1> QED
    BY <1>1, <1>2, <1>3, PTL DEF Spec

-----------------------------------------------------------------------------
(* Negentropy                                                                *)

\* A step of the exchange is one of the reconciliation, or leaves it alone.
LEMMA StepOfReconciliation == [Next]_allVars => [NegNext]_negVars
  <1>1. CASE UNCHANGED allVars
    BY <1>1 DEF allVars
  <1>2. CASE Next
    <2>1. CASE NegNext
      BY <2>1
    <2>2. CASE UNCHANGED negVars
      BY <2>2
    <2> QED
      BY <1>2, <2>1, <2>2 DEF Next
  <1> QED
    BY <1>1, <1>2

\* No side is told of an id on which both agree, and when the exchange of two of these objects
\* is over every difference is known to one of them, unless the frame limit cut off two answers
\* in a row: for any items, frame limit and number of buckets (wrappers/nip77.ts reconcile).
THEOREM ReconciliationIsTold == Spec => []ReconciliationTells
  <1>1. Init => NegInv
    BY NegentropyAssumption, NegInvInit DEF Init
  <1>2. NegInv /\ [Next]_allVars => NegInv'
    BY NegentropyAssumption, StepOfReconciliation, NegInvStep
  <1>3. NegInv => ReconciliationTells
    BY NegInvTells DEF ReconciliationTells
  <1> QED
    BY <1>1, <1>2, <1>3, PTL DEF Spec

-----------------------------------------------------------------------------
(* Chunks                                                                    *)

\* A step of the exchange is one of the chunks, or leaves them alone.
LEMMA StepOfChunks == [Next]_allVars => [ChunksNext]_chunkVars
  <1>1. CASE UNCHANGED allVars
    BY <1>1 DEF allVars
  <1>2. CASE Next
    <2>1. CASE ChunksNext
      BY <2>1
    <2>2. CASE UNCHANGED chunkVars
      BY <2>2
    <2> QED
      BY <1>2, <2>1, <2>2 DEF Next
  <1> QED
    BY <1>1, <1>2

\* Who received the chunks of one message, each once and in whatever order, reads the message,
\* whatever size was asked for the chunks and whatever other messages were sent
\* (client/NipBEService.ts fragment and reassemble).
THEOREM ChunksAreReassembled == Spec => []AnyOrderIsRead
  <1>1. Init => ChunksArrive
    BY ChunksAssumption, ChunksStep DEF Init
  <1>2. ChunksArrive /\ [Next]_allVars => ChunksArrive'
    BY ChunksAssumption, StepOfChunks, ChunksStep
  <1>3. ChunksArrive => AnyOrderIsRead
    BY ChunksAssumption, ChunksRead
  <1> QED
    BY <1>1, <1>2, <1>3, PTL DEF Spec
=============================================================================
