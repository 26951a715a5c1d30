----------------------------- MODULE ServiceProofs -----------------------------
(****************************************************************************)
(* What ClientServices keeps, for any scenarios: tokens are not lost, and   *)
(* the reading calls find what was stored and nothing else; what Selections *)
(* computes does not depend on the order in which events came;              *)
(* Negentropy tells each side only what the other lacks, and all of it; and *)
(* the chunks of a message give the message, in whatever order they came.   *)
(****************************************************************************)
EXTENDS ClientServices, Selections, Negentropy, Chunks, FiniteSetTheorems, FunctionTheorems,
        SequenceTheorems, WellFoundedInduction, TLAPS

-----------------------------------------------------------------------------
(* Sequences and the set of what is in them                                   *)

\* No element is there twice.
IsOnce(s) == \A m, n \in DOMAIN s : s[m] = s[n] => m = n

LEMMA AppendAdds ==
    ASSUME NEW S, NEW s \in Seq(S), NEW e \in S
    PROVE  /\ Append(s, e) \in Seq(S) /\ Append(s, e) # <<>>
           /\ ToSet(Append(s, e)) = ToSet(s) \union {e}
           /\ Append(s, e)[1] = IF s = <<>> THEN e ELSE s[1]
           /\ IsOnce(s) /\ e \notin ToSet(s) => IsOnce(Append(s, e))
  <1>1. PICK t : t = Append(s, e)
    OBVIOUS
  <1>2. /\ t \in Seq(S) /\ t # <<>> /\ DOMAIN t = 1..(Len(s) + 1) /\ DOMAIN s = 1..Len(s)
        /\ Len(s) \in Nat /\ \A i \in 1..Len(s) : t[i] = s[i]
        /\ t[Len(s) + 1] = e /\ (s = <<>> <=> Len(s) = 0)
    BY <1>1
  <1>3. ToSet(t) = ToSet(s) \union {e}
    BY <1>2 DEF ToSet
  <1>4. t[1] = IF s = <<>> THEN e ELSE s[1]
    BY <1>2
  <1>5. IsOnce(s) /\ e \notin ToSet(s) => IsOnce(t)
    BY <1>2 DEF ToSet, IsOnce
  <1> QED
    BY <1>1, <1>2, <1>3, <1>4, <1>5

LEMMA ConcatAdds ==
    ASSUME NEW S, NEW s \in Seq(S), NEW t \in Seq(S)
    PROVE  /\ s \o t \in Seq(S) /\ ToSet(s \o t) = ToSet(s) \union ToSet(t)
           /\ t # <<>> => s \o t # <<>>
           /\ IsOnce(s) /\ IsOnce(t) /\ ToSet(s) \cap ToSet(t) = {} => IsOnce(s \o t)
  <1>1. PICK u : u = s \o t
    OBVIOUS
  <1>2. /\ u \in Seq(S) /\ DOMAIN u = 1..(Len(s) + Len(t))
        /\ DOMAIN s = 1..Len(s) /\ DOMAIN t = 1..Len(t) /\ Len(s) \in Nat /\ Len(t) \in Nat
        /\ t # <<>> => Len(t) > 0
    BY <1>1
  <1>3. /\ \A i \in 1..Len(s) : u[i] = s[i]
        /\ \A i \in 1..Len(t) : u[Len(s) + i] = t[i]
    BY <1>1, <1>2
  <1>4. \A k \in DOMAIN u : \/ k \in DOMAIN s /\ u[k] = s[k]
                            \/ k - Len(s) \in DOMAIN t /\ u[k] = t[k - Len(s)]
    <2>1. ASSUME NEW k \in DOMAIN u, k \notin DOMAIN s
          PROVE  k - Len(s) \in DOMAIN t /\ u[k] = t[k - Len(s)]
      <3>1. k - Len(s) \in 1..Len(t) /\ Len(s) + (k - Len(s)) = k
        BY <1>2, <2>1
      <3> QED
        BY <1>2, <1>3, <3>1
    <2> QED
      BY <1>2, <1>3, <2>1
  <1>5. ToSet(u) = ToSet(s) \union ToSet(t)
    <2>1. ToSet(u) \subseteq ToSet(s) \union ToSet(t)
      BY <1>4 DEF ToSet
    <2>2. \A i \in DOMAIN s : i \in DOMAIN u
      BY <1>2
    <2>3. \A i \in DOMAIN t : Len(s) + i \in DOMAIN u
      BY <1>2
    <2>4. ToSet(s) \subseteq ToSet(u)
      BY <1>2, <1>3, <2>2 DEF ToSet
    <2>5. ToSet(t) \subseteq ToSet(u)
      BY <1>2, <1>3, <2>3 DEF ToSet
    <2> QED
      BY <2>1, <2>4, <2>5
  <1>6. t # <<>> => u # <<>>
    BY <1>2
  <1>7. ASSUME IsOnce(s), IsOnce(t), ToSet(s) \cap ToSet(t) = {},
               NEW m \in DOMAIN u, NEW n \in DOMAIN u, u[m] = u[n]
        PROVE  m = n
    <2>1. CASE m \in DOMAIN s /\ n \in DOMAIN s
      BY <1>2, <1>3, <1>7, <2>1 DEF IsOnce
    <2>2. CASE m \in DOMAIN s /\ n \notin DOMAIN s
      BY <1>2, <1>3, <1>4, <1>7, <2>2 DEF ToSet
    <2>3. CASE m \notin DOMAIN s /\ n \in DOMAIN s
      BY <1>2, <1>3, <1>4, <1>7, <2>3 DEF ToSet
    <2>4. CASE m \notin DOMAIN s /\ n \notin DOMAIN s
      <3>1. m - Len(s) = n - Len(s)
        BY <1>4, <1>7, <2>4 DEF IsOnce
      <3> QED
        BY <1>2, <3>1
    <2> QED
      BY <2>1, <2>2, <2>3, <2>4
  <1>8. IsOnce(s) /\ IsOnce(t) /\ ToSet(s) \cap ToSet(t) = {} => IsOnce(u)
    BY <1>7, Zenon DEF IsOnce
  <1> QED
    BY <1>1, <1>2, <1>5, <1>6, <1>8

LEMMA TailLoses ==
    ASSUME NEW S, NEW s \in Seq(S), s # <<>>
    PROVE  /\ Head(s) \in S /\ Tail(s) \in Seq(S) /\ Head(s) = s[1]
           /\ ToSet(s) = {Head(s)} \union ToSet(Tail(s))
           /\ IsOnce(s) => IsOnce(Tail(s)) /\ Head(s) \notin ToSet(Tail(s))
  <1>1. PICK t : t = Tail(s)
    OBVIOUS
  <1>2. /\ t \in Seq(S) /\ Len(s) \in Nat \ {0} /\ DOMAIN t = 1..(Len(s) - 1)
        /\ DOMAIN s = 1..Len(s) /\ Head(s) = s[1] /\ s[1] \in S
        /\ \A i \in 1..(Len(s) - 1) : t[i] = s[i + 1]
    BY <1>1
  <1>3. \A k \in DOMAIN s : k # 1 => k - 1 \in DOMAIN t /\ t[k - 1] = s[k]
    BY <1>2
  <1>4. \A k \in DOMAIN t : k + 1 \in DOMAIN s /\ t[k] = s[k + 1]
    BY <1>2
  <1>5. ToSet(s) = {s[1]} \union ToSet(t)
    <2>1. 1 \in DOMAIN s
      BY <1>2
    <2> QED
      BY <1>3, <1>4, <2>1 DEF ToSet
  <1>6. IsOnce(s) => IsOnce(t) /\ s[1] \notin ToSet(t)
    BY <1>2, <1>4 DEF ToSet, IsOnce
  <1> QED
    BY <1>1, <1>2, <1>5, <1>6

\* The first k elements.
LEMMA PrefixOf ==
    ASSUME NEW S, NEW s \in Seq(S), NEW k \in 0..Len(s)
    PROVE  /\ SubSeq(s, 1, k) \in Seq(S) /\ ToSet(SubSeq(s, 1, k)) \subseteq ToSet(s)
           /\ IsOnce(s) => IsOnce(SubSeq(s, 1, k))
           /\ k > 0 => SubSeq(s, 1, k) # <<>> /\ SubSeq(s, 1, k)[1] = s[1]
           /\ k = Len(s) => SubSeq(s, 1, k) = s
  <1>1. PICK t : t = SubSeq(s, 1, k)
    OBVIOUS
  <1>2. /\ t \in Seq(S) /\ Len(t) = k /\ Len(s) \in Nat /\ DOMAIN t = 1..k /\ DOMAIN s = 1..Len(s)
        /\ \A i \in 1..k : t[i] = s[i]
    BY <1>1
  <1>3. \A i \in 1..k : i \in DOMAIN s
    BY <1>2
  <1>4. ToSet(t) \subseteq ToSet(s) /\ (IsOnce(s) => IsOnce(t))
    BY <1>2, <1>3 DEF ToSet, IsOnce
  <1>5. k > 0 => t # <<>> /\ t[1] = s[1]
    BY <1>2
  <1>6. k = Len(s) => t = s
    BY <1>2
  <1> QED
    BY <1>1, <1>2, <1>4, <1>5, <1>6

\* As many elements as places.
LEMMA OnceCounts ==
    ASSUME NEW S, NEW s \in Seq(S), IsOnce(s)
    PROVE  IsFiniteSet(ToSet(s)) /\ Cardinality(ToSet(s)) = Len(s)
  <1>1. PICK n : n = Len(s)
    OBVIOUS
  <1>2. n \in Nat /\ DOMAIN s = 1..n /\ s \in [1..n -> S]
    BY <1>1
  <1>3. s \in Injection(1..n, ToSet(s)) /\ \A y \in ToSet(s) : \E i \in 1..n : s[i] = y
    BY <1>2 DEF Injection, IsInjective, IsOnce, ToSet
  <1>4. s \in Surjection(1..n, ToSet(s))
    BY <1>3 DEF Surjection, Injection
  <1>5. IsFiniteSet(1..n) /\ Cardinality(1..n) = n
    BY <1>2, FS_Interval
  <1> QED
    BY <1>1, <1>3, <1>4, <1>5, FS_Surjection

LEMMA EmptyHasNone == ToSet(<<>>) = {} /\ IsOnce(<<>>)
  BY DEF ToSet, IsOnce

LEMMA NotEmptyHasFirst ==
    ASSUME NEW S, NEW s \in Seq(S), s # <<>>
    PROVE  1 \in DOMAIN s /\ s[1] \in ToSet(s) /\ s[1] \in S
  <1>1. 1 \in DOMAIN s /\ s[1] \in S
    OBVIOUS
  <1> QED
    BY <1>1 DEF ToSet

LEMMA InSetOfSeq == ASSUME NEW S, NEW s \in Seq(S) PROVE ToSet(s) \subseteq S
  BY DEF ToSet

-----------------------------------------------------------------------------
(* ClientServices: a token is replaced before it is deleted                  *)

TokenKind == 7375
IsTokenOf(x, a) == x.kind = TokenKind /\ x.pubkey = a
HasToken(a) == \E x \in rows : IsTokenOf(x, a)

TemplatesOf(s) == UNION {{op[i] : i \in DOMAIN op} : op \in s.operations}
PublishesTokens(s) == \E t \in TemplatesOf(s) : t.kind = TokenKind

\* What the constants must say of a scenario: where tokens are published, an operation that
\* deletes has published a token first, as rollOverToken has.
ReplacesBeforeDeleting(s) ==
    \A op \in s.operations :
        /\ op \in Seq(TemplatesOf(s)) /\ Len(op) > 0
        /\ PublishesTokens(s) =>
             \A j \in 1..Len(op) : op[j].kind = DeletionKind =>
                 \E i \in 1..Len(op) : i < j /\ op[i].kind = TokenKind

\* A call is at the k-th template of op, and what it refers to was there before it.  Once it
\* has published a token that was not refused, its author has one that op does not refer to.
CallIsAt(op, k) ==
    /\ call = [author |-> call.author, rest |-> call.rest, since |-> call.since]
    /\ call.rest \in Seq(TemplatesOf(scenario))
    /\ k \in 1..Len(op) /\ Len(call.rest) = Len(op) + 1 - k
    /\ \A m \in 1..Len(call.rest) : call.rest[m] = op[k + m - 1]
    /\ CanRefer(op)
    /\ call.author \notin refused /\ (\E i \in 1..Len(op) : i < k /\ op[i].kind = TokenKind) =>
         \E y \in rows : /\ IsTokenOf(y, call.author)
                         /\ \A i \in 1..Len(op) : y.id \notin Refers(op[i])

CallFollows == call # Idle => \E op \in scenario.operations, k \in Nat : CallIsAt(op, k)

EventsOfScenario == \A x \in ever : \E t \in TemplatesOf(scenario) : x.kind = t.kind

TokenInv == scenario \in Scenarios /\ EventsOfScenario /\ CallFollows /\ TokenKept

\* The relay's handling of an event takes no token that the event does not refer to.
LEMMA TreatKeepsTokens ==
    ASSUME NEW S, NEW e, NEW y \in S, y.kind = TokenKind
    PROVE  y \in Treat(S, e).rows
  <1>1. CASE IsAnyReplaceableKind(e.kind)
    <2>1. ~IsAnyReplaceableKind(TokenKind)
      BY DEF TokenKind, IsAnyReplaceableKind, IsReplaceableKind, IsParameterizedReplaceableKind
    <2>2. \A x \in Incumbents(S, e) : x.kind = e.kind
      BY DEF Incumbents
    <2>3. \A x \in Displaced(S, e) : x \in Incumbents(S, e)
      BY DEF Displaced, Existing
    <2>4. y \notin Displaced(S, e)
      BY <1>1, <2>1, <2>2, <2>3
    <2>5. y \in StoreReplaceable(S, e).rows
      BY <2>4 DEF StoreReplaceable
    <2> QED
      BY <1>1, <2>5 DEF Treat
  <1>2. CASE ~IsAnyReplaceableKind(e.kind)
    BY <1>2 DEF Treat, StoreEvent
  <1> QED
    BY <1>1, <1>2

LEMMA TokenIsStored ==
    ASSUME NEW S, NEW e, e.kind = TokenKind
    PROVE  e \in Treat(S, e).rows
  BY DEF Treat, StoreEvent, TokenKind, IsAnyReplaceableKind, IsReplaceableKind,
         IsParameterizedReplaceableKind

\* What is left of a call.
LEMMA GoesOn ==
    ASSUME NEW a, NEW rest, NEW since, call = [author |-> a, rest |-> rest, since |-> since]
    PROVE  CallGoesOn = [author |-> a, rest |-> Tail(rest), since |-> clock]
  <1>1. PICK t : t = Tail(rest)
    OBVIOUS
  <1>2. CallGoesOn = [call EXCEPT !.rest = t, !.since = clock]
    BY <1>1 DEF CallGoesOn
  <1> QED
    BY <1>1, <1>2

\* The next event of a call is stored.
LEMMA PublishKeepsTokens ==
    ASSUME \A s \in Scenarios : ReplacesBeforeDeleting(s), TokenInv,
           NEW id, NEW at, PublishNext(id, at)
    PROVE  TokenInv'
  <1>1. PICK op \in scenario.operations, k \in Nat : CallIsAt(op, k)
    BY DEF PublishNext, TokenInv, CallFollows
  <1>2. PICK a, rest, since : a = call.author /\ rest = call.rest /\ since = call.since
    OBVIOUS
  <1>3. PICK T : T = TemplatesOf(scenario)
    OBVIOUS
  <1>4. /\ call = [author |-> a, rest |-> rest, since |-> since] /\ rest \in Seq(T)
        /\ k \in 1..Len(op) /\ Len(rest) = Len(op) + 1 - k
        /\ \A m \in 1..Len(rest) : rest[m] = op[k + m - 1]
    BY <1>1, <1>2, <1>3 DEF CallIsAt
  <1>5. op \in Seq(T) /\ Len(op) \in Nat
    BY <1>3 DEF TokenInv, ReplacesBeforeDeleting
  <1>6. Head(rest) = op[k] /\ op[k] \in T
    BY <1>4, <1>5
  <1>7. PICK e : e = Event(id, a, op[k], at)
    OBVIOUS
  <1>8. e.id = id /\ e.kind = op[k].kind /\ e.pubkey = a /\ e.e = Refers(op[k])
    BY <1>7 DEF Event, Refers
  <1>9. /\ id \notin {x.id : x \in ever}
        /\ rows' = Treat(rows \ Deleted(e), e).rows
        /\ ever' = ever \union {e}
        /\ call' = IF Len(rest) = 1 THEN Idle
                   ELSE [author |-> a, rest |-> Tail(rest), since |-> clock]
        /\ scenario' = scenario /\ refused' = refused
    <2>1. /\ id \notin {x.id : x \in ever}
          /\ LET x == Event(id, call.author, Head(call.rest), at)
                 result == Treat(rows \ Deleted(x), x)
             IN  rows' = result.rows /\ ever' = ever \union {x}
          /\ call' = IF Len(call.rest) = 1 THEN Idle ELSE CallGoesOn
          /\ scenario' = scenario /\ refused' = refused
      BY Zenon DEF PublishNext
    <2>2. e = Event(id, call.author, Head(call.rest), at)
      BY <1>2, <1>6, <1>7, Zenon
    <2>3. rows' = Treat(rows \ Deleted(e), e).rows /\ ever' = ever \union {e}
      BY <2>1, <2>2, Zenon
    <2>4. CallGoesOn = [author |-> a, rest |-> Tail(rest), since |-> clock]
      BY <1>2, <1>4, GoesOn
    <2>5. call' = IF Len(rest) = 1 THEN Idle
                  ELSE [author |-> a, rest |-> Tail(rest), since |-> clock]
      BY <1>2, <2>1, <2>4, Zenon
    <2> QED
      BY <2>1, <2>3, <2>5, Zenon
  <1>10. \A i \in 1..Len(op) : id \notin Refers(op[i])
    BY <1>1, <1>5, <1>9 DEF CallIsAt, CanRefer
  <1>11. ASSUME NEW y \in rows, y.kind = TokenKind,
                e.kind # DeletionKind \/ y.pubkey # a \/ y.id \notin Refers(op[k])
         PROVE  y \in rows'
    BY <1>8, <1>9, <1>11, TreatKeepsTokens DEF Deleted
  <1>12. e.kind = TokenKind => e \in rows'
    BY <1>9, TokenIsStored
  <1>13. EventsOfScenario'
    BY <1>3, <1>6, <1>8, <1>9 DEF TokenInv, EventsOfScenario
  <1>14. ASSUME a \notin refused, e.kind # TokenKind,
                \E i \in 1..Len(op) : i < k /\ op[i].kind = TokenKind
         PROVE  \E y \in rows' : /\ IsTokenOf(y, a)
                                 /\ \A i \in 1..Len(op) : y.id \notin Refers(op[i])
    <2>1. PICK y \in rows : /\ IsTokenOf(y, a)
                            /\ \A i \in 1..Len(op) : y.id \notin Refers(op[i])
      BY <1>1, <1>2, <1>14 DEF CallIsAt
    <2>2. y \in rows'
      BY <1>4, <1>11, <2>1 DEF IsTokenOf
    <2> QED
      BY <2>1, <2>2
  <1>15. e.kind = DeletionKind => e.kind # TokenKind
    BY DEF DeletionKind, TokenKind
  <1>16. ASSUME NEW b \in Accounts, b \notin refused, NEW x \in ever', IsTokenOf(x, b)
         PROVE  \E y \in rows' : IsTokenOf(y, b)
    <2>1. CASE x = e
      BY <1>12, <1>16, <2>1 DEF IsTokenOf
    <2>2. CASE x \in ever
      <3>1. PICK y \in rows : IsTokenOf(y, b)
        BY <1>16, <2>2 DEF TokenInv, TokenKept, IsTokenOf, TokenKind
      <3>2. CASE e.kind # DeletionKind \/ b # a
        BY <1>11, <3>1, <3>2 DEF IsTokenOf
      <3>3. CASE e.kind = DeletionKind /\ b = a
        <4>1. PublishesTokens(scenario)
          BY <1>16, <2>2 DEF TokenInv, EventsOfScenario, PublishesTokens, IsTokenOf
        <4>2. \E i \in 1..Len(op) : i < k /\ op[i].kind = TokenKind
          BY <1>4, <1>8, <3>3, <4>1 DEF TokenInv, ReplacesBeforeDeleting
        <4> QED
          BY <1>14, <1>15, <1>16, <3>3, <4>2
      <3> QED
        BY <3>2, <3>3
    <2> QED
      BY <1>9, <1>16, <2>1, <2>2
  <1>17. CallFollows'
    <2> SUFFICES ASSUME call' # Idle
                 PROVE  CallIsAt(op, k + 1)'
      <3>1. scenario' = scenario /\ op \in scenario.operations /\ k + 1 \in Nat
        BY <1>4, <1>9
      <3> QED
        BY <3>1 DEF CallFollows
    <2>1. PICK r : r = Tail(rest)
      OBVIOUS
    <2>2. /\ Len(rest) > 1 /\ call' = [author |-> a, rest |-> r, since |-> clock]
          /\ r \in Seq(T) /\ Len(r) = Len(rest) - 1
          /\ \A m \in 1..Len(r) : r[m] = rest[m + 1]
      BY <1>4, <1>5, <1>9, <2>1
    <2>3. call'.author = a /\ call'.rest = r /\ call'.since = clock
      BY <2>2
    <2>4. /\ k + 1 \in 1..Len(op) /\ Len(r) = Len(op) + 1 - (k + 1)
          /\ \A m \in 1..Len(r) : r[m] = op[(k + 1) + m - 1]
      <3>1. k + 1 \in 1..Len(op) /\ Len(r) = Len(op) + 1 - (k + 1)
        BY <1>4, <1>5, <2>2
      <3>2. ASSUME NEW m \in 1..Len(r)
            PROVE  r[m] = op[(k + 1) + m - 1]
        <4>1. m + 1 \in 1..Len(rest) /\ k + (m + 1) - 1 = (k + 1) + m - 1
          BY <1>4, <1>5, <2>2
        <4>2. r[m] = rest[m + 1] /\ rest[m + 1] = op[k + (m + 1) - 1]
          BY <1>4, <2>2, <4>1
        <4> QED
          BY <4>1, <4>2
      <3> QED
        BY <3>1, <3>2
    <2>5. CanRefer(op)'
      BY <1>1, <1>9 DEF CallIsAt, CanRefer
    <2>6. ASSUME a \notin refused, NEW i \in 1..Len(op), i < k + 1, op[i].kind = TokenKind
          PROVE  \E y \in rows' : /\ IsTokenOf(y, a)
                                  /\ \A j \in 1..Len(op) : y.id \notin Refers(op[j])
      <3>1. CASE e.kind = TokenKind
        BY <1>8, <1>10, <1>12, <3>1 DEF IsTokenOf
      <3>2. CASE e.kind # TokenKind
        <4>1. i < k
          BY <1>4, <1>5, <1>8, <2>6, <3>2
        <4> QED
          BY <1>14, <2>6, <3>2, <4>1
      <3> QED
        BY <3>1, <3>2
    <2> QED
      BY <1>3, <1>9, <2>2, <2>3, <2>4, <2>5, <2>6 DEF CallIsAt
  <1>18. TokenKept'
    <2>1. \A b \in Accounts \ refused' :
            (\E x \in ever' : IsTokenOf(x, b)) => \E y \in rows' : IsTokenOf(y, b)
      BY <1>9, <1>16
    <2> QED
      BY <2>1 DEF TokenKept, IsTokenOf, TokenKind
  <1> QED
    BY <1>9, <1>13, <1>17, <1>18 DEF TokenInv

\* The relay refuses the next event and the call goes on.
LEMMA RefusalExcuses ==
    ASSUME \A s \in Scenarios : ReplacesBeforeDeleting(s), TokenInv, RefuseNext
    PROVE  TokenInv'
  <1>1. PICK op \in scenario.operations, k \in Nat : CallIsAt(op, k)
    BY DEF RefuseNext, TokenInv, CallFollows
  <1>2. PICK a, rest, since : a = call.author /\ rest = call.rest /\ since = call.since
    OBVIOUS
  <1>3. PICK T : T = TemplatesOf(scenario)
    OBVIOUS
  <1>4. /\ call = [author |-> a, rest |-> rest, since |-> since] /\ rest \in Seq(T)
        /\ Len(rest) > 1
        /\ k \in 1..Len(op) /\ Len(rest) = Len(op) + 1 - k
        /\ \A m \in 1..Len(rest) : rest[m] = op[k + m - 1]
    BY <1>1, <1>2, <1>3 DEF CallIsAt, RefuseNext
  <1>5. Len(op) \in Nat
    BY DEF TokenInv, ReplacesBeforeDeleting
  <1>6. PICK r : r = Tail(rest)
    OBVIOUS
  <1>7. /\ call' = [author |-> a, rest |-> r, since |-> clock]
        /\ refused' = refused \union {a} /\ UNCHANGED <<scenario, rows, ever>>
    BY <1>2, <1>4, <1>6, GoesOn DEF RefuseNext
  <1>8. /\ r \in Seq(T) /\ Len(r) = Len(rest) - 1
        /\ \A m \in 1..Len(r) : r[m] = rest[m + 1]
    BY <1>4, <1>6
  <1>9. /\ k + 1 \in 1..Len(op) /\ Len(r) = Len(op) + 1 - (k + 1)
    BY <1>4, <1>5, <1>8
  <1>10. ASSUME NEW m \in 1..Len(r)
         PROVE  r[m] = op[(k + 1) + m - 1]
    <2>1. m + 1 \in 1..Len(rest) /\ k + (m + 1) - 1 = (k + 1) + m - 1
      BY <1>4, <1>5, <1>8
    <2>2. r[m] = rest[m + 1] /\ rest[m + 1] = op[k + (m + 1) - 1]
      BY <1>4, <1>8, <2>1
    <2> QED
      BY <2>1, <2>2
  <1>11. CanRefer(op)'
    BY <1>1, <1>7 DEF CallIsAt, CanRefer
  <1>12. call'.author = a /\ call'.rest = r /\ call'.since = clock /\ a \in refused'
    BY <1>7
  <1>13. CallIsAt(op, k + 1)'
    BY <1>3, <1>7, <1>8, <1>9, <1>10, <1>11, <1>12 DEF CallIsAt
  <1>14. CallFollows'
    BY <1>4, <1>7, <1>13 DEF CallFollows
  <1>15. TokenKept' /\ EventsOfScenario'
    BY <1>7 DEF TokenInv, TokenKept, EventsOfScenario
  <1> QED
    BY <1>7, <1>14, <1>15 DEF TokenInv

\* A step of the services.
LEMMA TokenStep ==
    ASSUME \A s \in Scenarios : ReplacesBeforeDeleting(s), TokenInv,
           [ServicesNext]_servicesVars
    PROVE  TokenInv'
  <1>1. ASSUME NEW a \in Accounts, NEW op \in scenario.operations, BeginCall(a, op)
        PROVE  TokenInv'
    <2>1. /\ call' = [author |-> a, rest |-> op, since |-> clock] /\ CanRefer(op)
          /\ UNCHANGED <<scenario, rows, ever, refused>>
      BY <1>1 DEF BeginCall
    <2>2. op \in Seq(TemplatesOf(scenario)) /\ Len(op) > 0 /\ Len(op) \in Nat
      BY DEF TokenInv, ReplacesBeforeDeleting
    <2>3. CanRefer(op)'
      BY <2>1 DEF CanRefer
    <2>4. CallIsAt(op, 1)'
      BY <2>1, <2>2, <2>3 DEF CallIsAt
    <2>5. CallFollows'
      BY <2>1, <2>4 DEF CallFollows
    <2> QED
      BY <2>1, <2>5 DEF TokenInv, TokenKept, EventsOfScenario
  <1>2. ASSUME AbandonCall
        PROVE  TokenInv'
    BY <1>2 DEF AbandonCall, TokenInv, TokenKept, EventsOfScenario, CallFollows
  <1>3. ASSUME UNCHANGED <<scenario, rows, call, ever, refused>>
        PROVE  TokenInv'
    <2>1. scenario' \in Scenarios /\ EventsOfScenario' /\ TokenKept'
      BY <1>3 DEF TokenInv, TokenKept, EventsOfScenario
    <2>2. ASSUME NEW op \in scenario.operations, NEW k \in Nat, CallIsAt(op, k)
          PROVE  CallIsAt(op, k)'
      BY <1>3, <2>2 DEF CallIsAt, CanRefer
    <2>3. CallFollows'
      BY <1>3, <2>2 DEF TokenInv, CallFollows
    <2> QED
      BY <2>1, <2>3 DEF TokenInv
  <1>4. CASE TickSecond \/ StartRead \/ TakeTimesOut \/ BudgetSpent
             \/ \E i \in Subscriptions : Arrive(i) \/ TakeHead(i) \/ TakeAll(i)
    BY <1>3, <1>4 DEF TickSecond, StartRead, Arrive, TakeTimesOut, BudgetSpent, TakeHead, TakeAll
  <1>5. CASE UNCHANGED servicesVars
    BY <1>3, <1>5 DEF servicesVars
  <1> QED
    BY <1>1, <1>2, <1>4, <1>5, PublishKeepsTokens, RefusalExcuses DEF ServicesNext

-----------------------------------------------------------------------------
(* ClientServices: what was accepted                                          *)

\* An event of an operation of the scenario.
IsOfScenario(x) ==
    /\ x.id \in scenario.ids /\ x.pubkey \in Accounts /\ x.created_at \in Nat
    /\ \E t \in TemplatesOf(scenario) : x.kind = t.kind /\ x.tags = t.tags

\* What the constants must say of a scenario to take its calls at all.
HasOperations(s) == \A op \in s.operations : op \in Seq(TemplatesOf(s)) /\ Len(op) > 0

CallInv ==
    /\ scenario \in Scenarios /\ clock \in Nat
    /\ call # Idle => /\ call = [author |-> call.author, rest |-> call.rest, since |-> call.since]
                      /\ call.author \in Accounts
                      /\ call.rest \in Seq(TemplatesOf(scenario)) /\ call.rest # <<>>

EverInv ==
    /\ \A x \in ever : IsOfScenario(x)
    /\ \A x, y \in ever : x.id = y.id => x = y
    /\ rows \subseteq ever /\ before \subseteq ever

\* The relay stores no row but the event it is given.
LEMMA TreatAdds ==
    ASSUME NEW S, NEW e
    PROVE  /\ Treat(S, e).rows \subseteq S \union {e}
           /\ e \in Treat(S, e).rows /\ e \notin S => Treat(S, e).stored
  <1>1. /\ StoreReplaceable(S, e).rows \subseteq S \union {e}
        /\ e \in StoreReplaceable(S, e).rows /\ e \notin S => StoreReplaceable(S, e).stored
    BY DEF StoreReplaceable
  <1>2. /\ StoreEvent(S, e).rows \subseteq S \union {e}
        /\ e \in StoreEvent(S, e).rows /\ e \notin S => StoreEvent(S, e).stored
    BY DEF StoreEvent
  <1> QED
    BY <1>1, <1>2 DEF Treat

\* A set of events with ids of their own is finite when the ids are.
LEMMA EverIsFinite ==
    ASSUME ClientServicesAssumption, CallInv, EverInv
    PROVE  /\ IsFiniteSet(ever) /\ Cardinality(ever) <= Cardinality(scenario.ids)
           /\ Cardinality(scenario.ids) \in Nat /\ Cardinality(ever) \in Nat
  <1>1. IsFiniteSet(scenario.ids)
    BY DEF ClientServicesAssumption, CallInv
  <1>2. PICK f : f = [x \in ever |-> x.id]
    OBVIOUS
  <1>3. f \in [ever -> scenario.ids] /\ \A x, y \in ever : f[x] = f[y] => x = y
    BY <1>2 DEF EverInv, IsOfScenario
  <1>4. f \in Injection(ever, scenario.ids)
    BY <1>3 DEF Injection, IsInjective
  <1> QED
    BY <1>1, <1>4, FS_Injection, FS_CardinalityType

\* The event that a publish creates.
LEMMA CreatedIsOfScenario ==
    ASSUME CallInv, EverInv, NEW id \in scenario.ids, NEW at \in 0..clock, PublishNext(id, at)
    PROVE  \E e : /\ IsOfScenario(e) /\ e.id = id /\ id \notin {x.id : x \in ever}
                  /\ rows' = Treat(rows \ Deleted(e), e).rows
                  /\ ever' = ever \union {e}
                  /\ wire' = IF Treat(rows \ Deleted(e), e).stored /\ reader.step = "reading"
                             THEN Forwarded(e) ELSE wire
  <1>1. PICK e : e = Event(id, call.author, Head(call.rest), at)
    OBVIOUS
  <1>2. Head(call.rest) \in TemplatesOf(scenario) /\ call.author \in Accounts
    BY DEF CallInv, PublishNext
  <1>3. /\ e.id = id /\ e.pubkey = call.author /\ e.created_at = at
        /\ e.kind = Head(call.rest).kind /\ e.tags = Head(call.rest).tags
    BY <1>1 DEF Event
  <1>4. IsOfScenario(e)
    BY <1>2, <1>3 DEF IsOfScenario, CallInv
  <1>5. /\ LET x == Event(id, call.author, Head(call.rest), at)
               result == Treat(rows \ Deleted(x), x)
           IN  /\ rows' = result.rows /\ ever' = ever \union {x}
               /\ wire' = IF result.stored /\ reader.step = "reading"
                          THEN Forwarded(x) ELSE wire
        /\ id \notin {x.id : x \in ever}
    BY Zenon DEF PublishNext
  <1>6. /\ rows' = Treat(rows \ Deleted(e), e).rows /\ ever' = ever \union {e}
        /\ wire' = IF Treat(rows \ Deleted(e), e).stored /\ reader.step = "reading"
                   THEN Forwarded(e) ELSE wire
    BY <1>1, <1>5, Zenon
  <1> QED
    BY <1>3, <1>4, <1>5, <1>6, Zenon

\* The scenario never changes.
LEMMA ScenarioStays == [ServicesNext]_servicesVars => scenario' = scenario
  BY DEF ServicesNext, servicesVars, BeginCall, PublishNext, RefuseNext, AbandonCall, TickSecond,
         StartRead, Arrive, TakeHead, TakeAll, TakeTimesOut, BudgetSpent

\* Calls stay sequences of templates.
LEMMA CallStep ==
    ASSUME \A s \in Scenarios : HasOperations(s), CallInv, [ServicesNext]_servicesVars
    PROVE  CallInv'
  <1>1. ASSUME NEW a \in Accounts, NEW op \in scenario.operations, BeginCall(a, op)
        PROVE  CallInv'
    <2>1. op \in Seq(TemplatesOf(scenario)) /\ op # <<>>
      BY DEF CallInv, HasOperations
    <2>2. call' = [author |-> a, rest |-> op, since |-> clock] /\ UNCHANGED <<scenario, clock>>
      BY <1>1 DEF BeginCall
    <2> QED
      BY <2>1, <2>2 DEF CallInv
  <1>2. ASSUME call # Idle, Len(call.rest) # 1, call' = CallGoesOn, UNCHANGED <<scenario, clock>>
        PROVE  CallInv'
    <2>1. PICK a, rest, since, T : /\ a = call.author /\ rest = call.rest /\ since = call.since
                                   /\ T = TemplatesOf(scenario)
      OBVIOUS
    <2>2. /\ call = [author |-> a, rest |-> rest, since |-> since]
          /\ a \in Accounts /\ rest \in Seq(T) /\ rest # <<>>
      BY <1>2, <2>1 DEF CallInv
    <2>3. Tail(rest) \in Seq(T) /\ Tail(rest) # <<>>
      <3>1. Len(rest) # 1
        BY <1>2, <2>1
      <3>2. rest \in Seq(T) /\ rest # <<>>
        BY <2>2
      <3>3. Len(Tail(rest)) = Len(rest) - 1 /\ Tail(rest) \in Seq(T)
        BY <3>2
      <3>4. Len(rest) \in Nat /\ Len(rest) # 0
        BY <3>2
      <3>5. PICK t : t = Tail(rest)
        OBVIOUS
      <3>6. Len(t) # 0 /\ t \in Seq(T)
        BY <3>1, <3>3, <3>4, <3>5
      <3> QED
        BY <3>5, <3>6
    <2>4. call' = [author |-> a, rest |-> Tail(rest), since |-> clock]
      BY <1>2, <2>2, GoesOn
    <2>5. call'.author = a /\ call'.rest = Tail(rest) /\ call'.since = clock
      BY <2>4
    <2> QED
      BY <1>2, <2>1, <2>2, <2>3, <2>4, <2>5 DEF CallInv
  <1>3. ASSUME call' = Idle, UNCHANGED <<scenario, clock>>
        PROVE  CallInv'
    BY <1>3 DEF CallInv
  <1>4. ASSUME UNCHANGED <<scenario, call>>, clock' \in Nat
        PROVE  CallInv'
    BY <1>4 DEF CallInv
  <1>5. ASSUME NEW id \in scenario.ids, NEW at \in 0..clock, PublishNext(id, at)
        PROVE  CallInv'
    BY <1>2, <1>3, <1>5 DEF PublishNext
  <1>6. CASE RefuseNext
    <2>1. /\ call # Idle /\ Len(call.rest) > 1 /\ call' = CallGoesOn
          /\ UNCHANGED <<scenario, clock>>
      BY <1>6 DEF RefuseNext
    <2>2. Len(call.rest) # 1
      <3>1. PICK n : n = Len(call.rest)
        OBVIOUS
      <3>2. n \in Nat
        BY <2>1, <3>1 DEF CallInv
      <3>3. n > 1
        BY <2>1, <3>1, Zenon
      <3>4. n # 1
        BY <3>2, <3>3
      <3> QED
        BY <3>1, <3>4, Zenon
    <2>3. call # Idle /\ call' = CallGoesOn /\ UNCHANGED <<scenario, clock>>
      BY <2>1, Zenon
    <2> QED
      BY <1>2, <2>2, <2>3
  <1>7. CASE AbandonCall
    BY <1>3, <1>7 DEF AbandonCall
  <1>8. CASE TickSecond
    BY <1>4, <1>8 DEF TickSecond, CallInv
  <1>9. CASE UNCHANGED <<scenario, call, clock>>
    BY <1>4, <1>9 DEF CallInv
  <1>10. CASE StartRead \/ TakeTimesOut \/ BudgetSpent \/ UNCHANGED servicesVars
              \/ \E i \in Subscriptions : Arrive(i) \/ TakeHead(i) \/ TakeAll(i)
    BY <1>9, <1>10 DEF StartRead, Arrive, TakeHead, TakeAll, TakeTimesOut, BudgetSpent, servicesVars
  <1> QED
    BY <1>1, <1>5, <1>6, <1>7, <1>8, <1>10 DEF ServicesNext

\* Ids stay those of one event.
LEMMA EverStep ==
    ASSUME CallInv, EverInv, [ServicesNext]_servicesVars
    PROVE  EverInv'
  <1>1. ASSUME NEW id \in scenario.ids, NEW at \in 0..clock, PublishNext(id, at)
        PROVE  EverInv'
    <2>1. PICK e : /\ IsOfScenario(e) /\ e.id = id /\ id \notin {x.id : x \in ever}
                   /\ rows' = Treat(rows \ Deleted(e), e).rows
                   /\ ever' = ever \union {e}
      BY <1>1, CreatedIsOfScenario
    <2>2. rows' \subseteq rows \union {e}
      BY <2>1, TreatAdds
    <2>3. scenario' = scenario /\ before' = before
      BY <1>1 DEF PublishNext
    <2>4. \A x \in ever' : IsOfScenario(x)'
      BY <2>1, <2>3 DEF EverInv, IsOfScenario
    <2>5. \A x, y \in ever' : x.id = y.id => x = y
      BY <2>1 DEF EverInv
    <2>6. rows' \subseteq ever' /\ before' \subseteq ever'
      BY <2>1, <2>2, <2>3 DEF EverInv
    <2> QED
      BY <2>4, <2>5, <2>6 DEF EverInv
  <1>2. CASE UNCHANGED <<scenario, ever, rows>> /\ before' \in {before, rows}
    BY <1>2 DEF EverInv, IsOfScenario
  <1>3. CASE \/ StartRead \/ TakeTimesOut \/ BudgetSpent \/ UNCHANGED servicesVars
             \/ RefuseNext \/ AbandonCall \/ TickSecond
             \/ \E i \in Subscriptions : Arrive(i) \/ TakeHead(i) \/ TakeAll(i)
             \/ \E a \in Accounts, op \in scenario.operations : BeginCall(a, op)
    BY <1>2, <1>3 DEF StartRead, Arrive, TakeHead, TakeAll, TakeTimesOut, BudgetSpent, servicesVars,
                      RefuseNext, AbandonCall, TickSecond, BeginCall
  <1> QED
    BY <1>1, <1>3 DEF ServicesNext

-----------------------------------------------------------------------------
(* ClientServices: what the reader asks for                                   *)

\* The events that the operations of a scenario may publish, as a query sees them.
Publishable(s) ==
    {[id |-> id, pubkey |-> a, kind |-> t.kind, tags |-> t.tags] :
       id \in s.ids, a \in Accounts, t \in TemplatesOf(s)}

AskedBy(s, i, x) == Asks(DecodeFilter(s.reader[i]), x)

\* What the constants must say of a reader: its numbers are counts, a service that takes one
\* event reads one subscription and tests nothing itself, and so does one that reads streams,
\* no event of the scenario being asked for by two of them.
IsCount(n) == n = NoLimit \/ n \in Nat \ {0}
IsReader(s) ==
    /\ 1 \in DOMAIN s.reader
    /\ \A i \in DOMAIN s.reader : IsCount(s.reader[i].limit) /\ IsCount(s.reader[i].takes)
    /\ IsCount(s.page.default) /\ IsCount(s.page.most)
    /\ s.reader[1].mode = "head" => DOMAIN s.reader = {1} /\ s.reader[1].local = {}
    /\ s.reader[1].mode = "stream" =>
         /\ s.reader[1].local = {}
         /\ \A x \in Publishable(s), i, j \in DOMAIN s.reader :
              AskedBy(s, i, x) /\ AskedBy(s, j, x) => i = j

LEMMA AsksLooksAt ==
    ASSUME NEW q, NEW x, NEW y, x.id = y.id, x.pubkey = y.pubkey, x.kind = y.kind, x.tags = y.tags
    PROVE  Asks(q, x) <=> Asks(q, y)
  BY DEF Asks

\* No event of a stream's scenario is asked for twice, and none is refused where the reader
\* tests nothing.
LEMMA AskedOnce ==
    ASSUME IsReader(scenario), NEW x
    PROVE  /\ Mode \in {"head", "stream"} => Keeps(x)
           /\ Mode = "stream" /\ IsOfScenario(x) =>
                \A i, j \in Subscriptions : Sees(i, x) /\ Sees(j, x) => i = j
  <1>1. Mode \in {"head", "stream"} => Keeps(x)
    BY DEF IsReader, Mode, Keeps
  <1>2. ASSUME Mode = "stream", IsOfScenario(x)
        PROVE  \A i, j \in Subscriptions : Sees(i, x) /\ Sees(j, x) => i = j
    <2>1. PICK t \in TemplatesOf(scenario) : x.kind = t.kind /\ x.tags = t.tags
      BY <1>2 DEF IsOfScenario
    <2>2. PICK y : y = [id |-> x.id, pubkey |-> x.pubkey, kind |-> t.kind, tags |-> t.tags]
      OBVIOUS
    <2>3. y \in Publishable(scenario)
      BY <1>2, <2>2 DEF Publishable, IsOfScenario
    <2>4. y.id = x.id /\ y.pubkey = x.pubkey /\ y.kind = x.kind /\ y.tags = x.tags
      BY <2>1, <2>2
    <2>5. \A i : Sees(i, x) <=> AskedBy(scenario, i, y)
      BY <2>4, AsksLooksAt DEF Sees, AskedBy
    <2>6. \A i, j \in DOMAIN scenario.reader :
            AskedBy(scenario, i, y) /\ AskedBy(scenario, j, y) => i = j
      BY <1>2, <2>3 DEF IsReader, Mode
    <2> QED
      BY <2>5, <2>6 DEF Subscriptions
  <1> QED
    BY <1>1, <1>2

\* A set of events fills the page of a subscription, and leaves no place to another event.
Fills(i, S, x) ==
    /\ PageLimit(scenario.reader[i]) # NoLimit
    /\ IsFiniteSet(S) /\ Cardinality(S) >= PageLimit(scenario.reader[i])
    /\ \A y \in S : Sees(i, y) /\ y # x /\ y.created_at >= x.created_at

LEMMA PageLimitCounts ==
    ASSUME IsReader(scenario), NEW i \in Subscriptions
    PROVE  IsCount(PageLimit(scenario.reader[i]))
  <1>1. PICK q : q = scenario.reader[i]
    OBVIOUS
  <1>2. IsCount(q.limit) /\ IsCount(scenario.page.default) /\ IsCount(scenario.page.most)
    BY <1>1 DEF IsReader, Subscriptions
  <1>3. IsCount(PageLimit(q))
    BY <1>2 DEF PageLimit, IsCount
  <1> QED
    BY <1>1, <1>3

\* The relay's answer: events that were asked for, each once, the latest of them first; and
\* all of them, unless a full page of events as new as it takes the place of one.
LEMMA PageShows ==
    ASSUME ClientServicesAssumption, EventsAssumption, CallInv, EverInv, IsReader(scenario),
           NEW i \in Subscriptions, NEW p \in Pages(scenario.reader[i])
    PROVE  /\ p \in Seq(rows) /\ IsOnce(p)
           /\ \A x \in ToSet(p) : Sees(i, x)
           /\ \A x \in rows : Sees(i, x) => p # <<>> /\ x.created_at <= p[1].created_at
           /\ \A x \in rows : Sees(i, x) => x \in ToSet(p) \/ Fills(i, ToSet(p), x)
  <1>1. PICK M : M = {x \in rows : Sees(i, x)}
    OBVIOUS
  <1>2. PICK q : q = scenario.reader[i]
    OBVIOUS
  <1>3. /\ IsFiniteSet(M) /\ Cardinality(M) \in Nat /\ Cardinality(M) <= Cardinality(scenario.ids)
        /\ Cardinality(scenario.ids) \in Nat
    <2>1. M \in SUBSET ever
      BY <1>1 DEF EverInv
    <2>2. /\ IsFiniteSet(ever) /\ Cardinality(ever) <= Cardinality(scenario.ids)
          /\ Cardinality(scenario.ids) \in Nat /\ Cardinality(ever) \in Nat
      BY EverIsFinite
    <2>3. IsFiniteSet(M) /\ Cardinality(M) <= Cardinality(ever)
      BY <2>1, <2>2, FS_Subset
    <2>4. Cardinality(M) \in Nat
      BY <2>3, FS_CardinalityType
    <2> QED
      BY <2>2, <2>3, <2>4
  <1>0. PICK limit : limit = PageLimit(q)
    OBVIOUS
  <1>4. PICK s \in SetToSeqs(M) : IsNewestFirst(s) /\ p = CutTo(s, limit)
    BY <1>0, <1>1, <1>2 DEF Pages, Sees
  <1>5. PICK n : n = Cardinality(M)
    OBVIOUS
  <1>6. s \in [1..n -> M] /\ \A k, m \in 1..n : k # m => s[k] # s[m]
    BY <1>5 DEF SetToSeqs
  <1>7. s \in Seq(M) /\ Len(s) = n /\ DOMAIN s = 1..n /\ n \in Nat
    BY <1>3, <1>5, <1>6
  <1>8. \A x \in M : \E k \in 1..n : s[k] = x
    <2>1. s \in Injection(1..n, M)
      BY <1>6 DEF Injection, IsInjective
    <2>2. Cardinality(1..n) = Cardinality(M)
      BY <1>5, <1>7, FS_Interval
    <2>3. s \in Surjection(1..n, M)
      BY <1>3, <2>1, <2>2, FS_Injection
    <2> QED
      BY <2>3 DEF Surjection
  <1>9. PICK k : k = IF limit = NoLimit \/ limit > Len(s) THEN Len(s) ELSE limit
    OBVIOUS
  <1>10. IsCount(limit)
    BY <1>0, <1>2, PageLimitCounts
  <1>11. k \in 0..n /\ (n > 0 => k > 0)
    BY <1>7, <1>9, <1>10 DEF IsCount
  <1>12. IsOnce(s) /\ p = SubSeq(s, 1, k)
    BY <1>4, <1>6, <1>7, <1>9 DEF IsOnce, CutTo
  <1>13. /\ p \in Seq(M) /\ ToSet(p) \subseteq ToSet(s) /\ IsOnce(p)
         /\ k > 0 => p # <<>> /\ p[1] = s[1]
         /\ k = Len(s) => p = s
    BY <1>7, <1>11, <1>12, PrefixOf
  <1>14. ASSUME NEW x \in M
         PROVE  p # <<>> /\ x.created_at <= p[1].created_at
    <2>1. PICK m \in 1..n : s[m] = x
      BY <1>8
    <2>2. n > 0 /\ 1 \in 1..n
      BY <1>7, <2>1
    <2>3. p # <<>> /\ p[1] = s[1]
      BY <1>11, <1>13, <2>2
    <2>4. CASE m = 1
      <3>1. s[1] = x /\ x \in ever
        BY <1>1, <2>1, <2>4 DEF EverInv
      <3>2. x.created_at \in Nat
        BY <3>1 DEF EverInv, IsOfScenario
      <3>3. x.created_at <= x.created_at
        BY <3>2
      <3> QED
        BY <2>3, <3>1, <3>3
    <2>5. CASE m # 1
      <3>1. 1 < m
        BY <1>7, <2>1, <2>5
      <3>2. s[1].created_at >= s[m].created_at
        BY <1>4, <1>7, <2>1, <2>2, <3>1 DEF IsNewestFirst
      <3>3. s[1] \in ever /\ x \in ever
        BY <1>1, <1>6, <2>2 DEF EverInv
      <3>4. s[1].created_at \in Nat /\ x.created_at \in Nat
        BY <3>3 DEF EverInv, IsOfScenario
      <3> QED
        BY <2>1, <2>3, <3>2, <3>4
    <2> QED
      BY <2>4, <2>5
  <1>15. ASSUME NEW x \in M, x \notin ToSet(p)
         PROVE  Fills(i, ToSet(p), x)
    <2>1. PICK m \in 1..n : s[m] = x
      BY <1>8
    <2>2. Len(p) = k /\ DOMAIN p = 1..k /\ \A j \in 1..k : p[j] = s[j]
      BY <1>7, <1>11, <1>12
    <2>3. m > k
      BY <1>11, <1>15, <2>1, <2>2 DEF ToSet
    <2>4. limit # NoLimit /\ k = limit /\ limit \in Nat
      BY <1>7, <1>9, <1>10, <1>11, <2>1, <2>3 DEF IsCount
    <2>5. IsFiniteSet(ToSet(p)) /\ Cardinality(ToSet(p)) = k
      BY <1>13, <2>2, OnceCounts
    <2>6. ASSUME NEW y \in ToSet(p)
          PROVE  Sees(i, y) /\ y # x /\ y.created_at >= x.created_at
      <3>1. PICK j \in 1..k : s[j] = y
        BY <2>2 DEF ToSet
      <3>2. j < m /\ j \in 1..n
        BY <1>7, <1>11, <2>1, <2>3
      <3>3. y \in M
        BY <1>6, <3>1, <3>2
      <3>4. s[j].created_at >= s[m].created_at
        BY <1>4, <1>7, <2>1, <3>2 DEF IsNewestFirst
      <3> QED
        BY <1>1, <1>15, <2>1, <3>1, <3>3, <3>4
    <2>7. Cardinality(ToSet(p)) >= limit
      BY <2>4, <2>5
    <2> QED
      BY <1>0, <1>2, <2>4, <2>5, <2>6, <2>7 DEF Fills
  <1>16. p \in Seq(rows) /\ \A x \in ToSet(p) : Sees(i, x)
    <2>1. ToSet(p) \subseteq M
      BY <1>13, InSetOfSeq
    <2>2. M \subseteq rows
      BY <1>1
    <2>3. p \in Seq(rows)
      BY <1>13, <2>2
    <2> QED
      BY <1>1, <2>1, <2>3
  <1> QED
    BY <1>1, <1>13, <1>14, <1>15, <1>16

-----------------------------------------------------------------------------
(* ClientServices: what is on its way to the reader                           *)

\* What the reader has found, and what of each subscription waits or is in flight.
PipeShape ==
    /\ wire \in [Subscriptions -> Seq(ever)] /\ queues \in [Subscriptions -> Seq(ever)]
    /\ reader = [step |-> reader.step, taken |-> reader.taken, found |-> reader.found]
    /\ reader.found \in Seq(ever)
    /\ reader.step = "idle" => /\ reader.found = <<>>
                               /\ \A i \in Subscriptions : wire[i] = <<>> /\ queues[i] = <<>>

Passing(i) == ToSet(wire[i]) \union ToSet(queues[i])

\* Only what was asked for is on its way.
PipeAsked ==
    /\ \A i \in Subscriptions : \A x \in Passing(i) : Sees(i, x)
    /\ \A x \in ToSet(reader.found) : Asked(x) /\ Keeps(x)

\* Something is there as soon as something asked for was stored at the start, unless the
\* reader has refused what it took.
SomethingComes ==
    \/ reader.found # <<>>
    \/ \E i \in Subscriptions : wire[i] # <<>> \/ queues[i] # <<>>
    \/ \E y \in ever : Asked(y) /\ ~Keeps(y)
PipeNotEmpty ==
    reader.step # "idle" /\ (\E x \in before : Asked(x)) => SomethingComes

\* Of one subscription, what comes first is the latest of what was stored at the start.
AsLateAsStored(y) == \A x \in before : Asked(x) => x.created_at <= y.created_at
PipeHead ==
    Mode = "head" /\ reader.step # "idle" =>
        /\ reader.found # <<>> => AsLateAsStored(reader.found[1])
        /\ reader.found = <<>> /\ queues[1] # <<>> => AsLateAsStored(queues[1][1])
        /\ reader.found = <<>> /\ queues[1] = <<>> /\ wire[1] # <<>> => AsLateAsStored(wire[1][1])

\* A stream has, or will have, each event that was stored once, but for those that had no
\* place on the page.
IsGiven(x) == x \in ToSet(reader.found) \/ \E i \in Subscriptions : x \in Passing(i)
Outweighed(x) ==
    \E i \in Subscriptions :
        /\ x \in before /\ Sees(i, x)
        /\ \E S \in SUBSET before : Fills(i, S, x) /\ \A y \in S : IsGiven(y)
PipeComplete ==
    Mode = "stream" /\ reader.step = "reading" =>
        /\ IsOnce(reader.found)
        /\ \A i \in Subscriptions :
             /\ IsOnce(wire[i]) /\ IsOnce(queues[i])
             /\ ToSet(wire[i]) \cap ToSet(queues[i]) = {}
             /\ Passing(i) \cap ToSet(reader.found) = {}
        /\ \A x \in before \union rows : Asked(x) => IsGiven(x) \/ Outweighed(x)

ReadInv == PipeShape /\ PipeAsked /\ PipeNotEmpty /\ PipeHead /\ PipeComplete

\* What is given stays given, and what it outweighs stays outweighed.
LEMMA OutweighedStays ==
    ASSUME scenario' = scenario, before' = before,
           \A y \in before : IsGiven(y) => IsGiven(y)', NEW x, Outweighed(x)
    PROVE  Outweighed(x)'
  <1>1. PICK i \in Subscriptions, S \in SUBSET before :
          x \in before /\ Sees(i, x) /\ Fills(i, S, x) /\ \A y \in S : IsGiven(y)
    BY DEF Outweighed
  <1>2. Fills(i, S, x)' /\ Sees(i, x)' /\ Subscriptions' = Subscriptions
    BY <1>1 DEF Fills, Sees, PageLimit, Subscriptions
  <1>3. \A y \in S : IsGiven(y)'
    BY <1>1
  <1>4. i \in Subscriptions' /\ S \in SUBSET before' /\ x \in before'
    BY <1>1, <1>2
  <1> QED
    BY <1>2, <1>3, <1>4 DEF Outweighed

\* An event is accepted while the call reads: it goes to the subscriptions that ask for it.
LEMMA PublishRead ==
    ASSUME CallInv, EverInv, IsReader(scenario), ReadInv,
           NEW id \in scenario.ids, NEW at \in 0..clock, PublishNext(id, at)
    PROVE  ReadInv'
  <1>1. PICK e : /\ IsOfScenario(e) /\ e.id = id /\ id \notin {x.id : x \in ever}
                 /\ rows' = Treat(rows \ Deleted(e), e).rows
                 /\ ever' = ever \union {e}
                 /\ wire' = IF Treat(rows \ Deleted(e), e).stored /\ reader.step = "reading"
                            THEN Forwarded(e) ELSE wire
    BY CreatedIsOfScenario
  <1>2. /\ scenario' = scenario /\ reader' = reader /\ queues' = queues /\ before' = before
        /\ Subscriptions' = Subscriptions /\ Mode' = Mode
        /\ \A i, x : Sees(i, x)' <=> Sees(i, x)
        /\ \A x : (Asked(x)' <=> Asked(x)) /\ (Keeps(x)' <=> Keeps(x))
    BY DEF PublishNext, Subscriptions, Mode, Sees, Asked, Keeps
  <1>3. e \notin ever /\ e \in ever' /\ ever \subseteq ever' /\ rows \subseteq ever
    BY <1>1 DEF EverInv
  <1>4. /\ rows' \subseteq rows \union {e}
        /\ e \in rows' => Treat(rows \ Deleted(e), e).stored
    BY <1>1, <1>3, TreatAdds
  <1>5. PICK sent \in BOOLEAN : sent <=> Treat(rows \ Deleted(e), e).stored /\ reader.step = "reading"
    OBVIOUS
  <1>6. /\ wire' = IF sent THEN Forwarded(e) ELSE wire
        /\ sent => reader.step = "reading"
        /\ e \in rows' /\ reader.step = "reading" => sent
    BY <1>1, <1>4, <1>5
  <1>7. /\ wire \in [Subscriptions -> Seq(ever)] /\ queues \in [Subscriptions -> Seq(ever)]
        /\ reader.found \in Seq(ever)
    BY DEF ReadInv, PipeShape
  <1>8. \A i \in Subscriptions :
          /\ sent /\ Sees(i, e) => wire'[i] = Append(wire[i], e)
          /\ ~(sent /\ Sees(i, e)) => wire'[i] = wire[i]
    BY <1>6 DEF Forwarded, Sees
  <1>9. DOMAIN wire' = Subscriptions /\ wire' = [i \in DOMAIN wire' |-> wire'[i]]
    BY <1>6, <1>7 DEF Forwarded
  <1>10. ASSUME NEW i \in Subscriptions
         PROVE  /\ wire'[i] \in Seq(ever')
                /\ ToSet(wire'[i]) = ToSet(wire[i]) \union (IF sent /\ Sees(i, e) THEN {e} ELSE {})
                /\ wire[i] # <<>> => wire'[i] # <<>> /\ wire'[i][1] = wire[i][1]
                /\ wire[i] = <<>> /\ wire'[i] # <<>> => wire'[i][1] = e
                /\ IsOnce(wire[i]) => IsOnce(wire'[i])
    <2>1. wire[i] \in Seq(ever') /\ wire[i] \in Seq(ever)
      BY <1>3, <1>7
    <2>2. e \notin ToSet(wire[i])
      BY <1>3, <2>1, InSetOfSeq
    <2>3. CASE sent /\ Sees(i, e)
      <3>1. wire'[i] = Append(wire[i], e)
        BY <1>8, <2>3
      <3> QED
        BY <1>3, <2>1, <2>2, <2>3, <3>1, AppendAdds
    <2>4. CASE ~(sent /\ Sees(i, e))
      BY <1>8, <2>1, <2>4
    <2> QED
      BY <2>3, <2>4
  <1>11. PipeShape'
    <2>1. wire' \in [Subscriptions -> Seq(ever')]
      BY <1>9, <1>10
    <2>2. queues \in [Subscriptions -> Seq(ever')] /\ reader.found \in Seq(ever')
      BY <1>3, <1>7
    <2>3. reader.step = "idle" => ~sent
      BY <1>6
    <2>4. ASSUME reader.step = "idle"
          PROVE  /\ reader.found = <<>>
                 /\ \A i \in Subscriptions : wire'[i] = <<>> /\ queues[i] = <<>>
      BY <1>8, <2>3, <2>4 DEF ReadInv, PipeShape
    <2>5. reader = [step |-> reader.step, taken |-> reader.taken, found |-> reader.found]
      BY DEF ReadInv, PipeShape
    <2> QED
      BY <1>2, <2>1, <2>2, <2>4, <2>5 DEF PipeShape
  <1>12. \A i \in Subscriptions :
           Passing(i)' = Passing(i) \union (IF sent /\ Sees(i, e) THEN {e} ELSE {})
    BY <1>2, <1>10 DEF Passing
  <1>13. PipeAsked'
    <2>1. ASSUME NEW i \in Subscriptions, NEW x \in Passing(i)'
          PROVE  Sees(i, x)'
      BY <1>2, <1>12, <2>1 DEF ReadInv, PipeAsked
    <2>2. \A x \in ToSet(reader'.found) : Asked(x)' /\ Keeps(x)'
      BY <1>2 DEF ReadInv, PipeAsked
    <2> QED
      BY <1>2, <2>1, <2>2 DEF PipeAsked
  <1>14. SomethingComes => SomethingComes'
    <2>1. (\E y \in ever : Asked(y) /\ ~Keeps(y)) => \E y \in ever' : Asked(y)' /\ ~Keeps(y)'
      BY <1>2, <1>3
    <2>2. reader.found # <<>> => reader'.found # <<>>
      BY <1>2
    <2>3. \A i \in Subscriptions :
            wire[i] # <<>> \/ queues[i] # <<>> => wire'[i] # <<>> \/ queues'[i] # <<>>
      BY <1>2, <1>10
    <2> QED
      BY <1>2, <2>1, <2>2, <2>3 DEF SomethingComes
  <1>15. PipeNotEmpty'
    BY <1>2, <1>14 DEF ReadInv, PipeNotEmpty
  <1>16. PipeHead'
    <2> SUFFICES ASSUME Mode = "head", reader.step # "idle"
                 PROVE  /\ reader.found # <<>> => AsLateAsStored(reader.found[1])
                        /\ reader.found = <<>> /\ queues[1] # <<>> => AsLateAsStored(queues[1][1])
                        /\ reader.found = <<>> /\ queues[1] = <<>> /\ wire'[1] # <<>> =>
                             AsLateAsStored(wire'[1][1])
      BY <1>2 DEF PipeHead, AsLateAsStored
    <2>1. Subscriptions = {1}
      BY DEF IsReader, Mode, Subscriptions
    <2>2. CASE wire[1] # <<>>
      BY <1>10, <2>1, <2>2 DEF ReadInv, PipeHead
    <2>3. CASE wire[1] = <<>>
      <3>1. ASSUME reader.found = <<>>, queues[1] = <<>>
            PROVE  AsLateAsStored(wire'[1][1])
        <4>0. \A y : Keeps(y)
          BY AskedOnce
        <4>1. ~SomethingComes
          BY <2>1, <2>3, <3>1, <4>0 DEF SomethingComes
        <4> QED
          BY <4>1 DEF ReadInv, PipeNotEmpty, AsLateAsStored
      <3> QED
        BY <3>1 DEF ReadInv, PipeHead
    <2> QED
      BY <2>2, <2>3
  <1>17. PipeComplete'
    <2> SUFFICES ASSUME Mode = "stream", reader.step = "reading"
                 PROVE  /\ IsOnce(reader.found)
                        /\ \A i \in Subscriptions :
                             /\ IsOnce(wire'[i]) /\ IsOnce(queues[i])
                             /\ ToSet(wire'[i]) \cap ToSet(queues[i]) = {}
                             /\ Passing(i)' \cap ToSet(reader.found) = {}
                        /\ \A x \in before \union rows' : Asked(x) =>
                             IsGiven(x)' \/ Outweighed(x)'
      BY <1>2 DEF PipeComplete
    <2>1. /\ IsOnce(reader.found)
          /\ \A i \in Subscriptions :
               /\ IsOnce(wire[i]) /\ IsOnce(queues[i])
               /\ ToSet(wire[i]) \cap ToSet(queues[i]) = {}
               /\ Passing(i) \cap ToSet(reader.found) = {}
          /\ \A x \in before \union rows : Asked(x) => IsGiven(x) \/ Outweighed(x)
      BY DEF ReadInv, PipeComplete
    <2>2. e \notin ToSet(reader.found) /\ \A i \in Subscriptions : e \notin ToSet(queues[i])
      BY <1>3, <1>7, InSetOfSeq
    <2>3. ASSUME NEW i \in Subscriptions
          PROVE  /\ IsOnce(wire'[i]) /\ ToSet(wire'[i]) \cap ToSet(queues[i]) = {}
                 /\ Passing(i)' \cap ToSet(reader.found) = {}
      BY <1>10, <1>12, <2>1, <2>2, <2>3
    <2>4. \A x : IsGiven(x) => IsGiven(x)'
      BY <1>2, <1>12 DEF IsGiven
    <2>5. ASSUME NEW x \in before \union rows', Asked(x)
          PROVE  IsGiven(x)' \/ Outweighed(x)'
      <3>1. CASE x \in before \union rows
        BY <1>2, <2>1, <2>4, <2>5, <3>1, OutweighedStays
      <3>2. CASE x = e /\ e \in rows'
        <4>1. PICK i \in Subscriptions : Sees(i, e)
          BY <2>5, <3>2 DEF Asked
        <4>2. sent
          BY <1>6, <3>2
        <4>3. e \in Passing(i)'
          BY <1>12, <4>1, <4>2
        <4> QED
          BY <1>2, <3>2, <4>3 DEF IsGiven
      <3> QED
        BY <1>4, <2>5, <3>1, <3>2
    <2> QED
      BY <2>1, <2>3, <2>5
  <1> QED
    BY <1>11, <1>13, <1>15, <1>16, <1>17 DEF ReadInv

\* The call subscribes: each subscription has its page in flight.
LEMMA StartReadRead ==
    ASSUME ClientServicesAssumption, EventsAssumption, CallInv, EverInv,
           IsReader(scenario), ReadInv, StartRead
    PROVE  ReadInv'
  <1>1. /\ scenario' = scenario /\ queues' = queues /\ before' = rows /\ rows' = rows /\ ever' = ever
        /\ Subscriptions' = Subscriptions /\ Mode' = Mode
        /\ \A i, x : Sees(i, x)' <=> Sees(i, x)
        /\ \A x : (Asked(x)' <=> Asked(x)) /\ (Keeps(x)' <=> Keeps(x))
    BY DEF StartRead, Subscriptions, Mode, Sees, Asked, Keeps
  <1>2. /\ reader.found = <<>> /\ \A i \in Subscriptions : queues[i] = <<>>
        /\ reader = [step |-> reader.step, taken |-> reader.taken, found |-> reader.found]
    BY DEF ReadInv, PipeShape, StartRead
  <1>3. reader' = [step |-> "reading", taken |-> reader.taken, found |-> <<>>]
    BY <1>2 DEF StartRead
  <1>4. reader'.step = "reading" /\ reader'.found = <<>> /\ reader'.taken = reader.taken
    BY <1>3
  <1>5. \A i \in Subscriptions : wire'[i] \in Pages(scenario.reader[i])
    BY DEF StartRead
  <1>6. DOMAIN wire' = Subscriptions /\ wire' = [i \in DOMAIN wire' |-> wire'[i]]
    BY DEF StartRead
  <1>7. ASSUME NEW i \in Subscriptions
        PROVE  /\ wire'[i] \in Seq(rows) /\ IsOnce(wire'[i])
               /\ \A x \in ToSet(wire'[i]) : Sees(i, x)
               /\ \A x \in rows : Sees(i, x) =>
                    wire'[i] # <<>> /\ x.created_at <= wire'[i][1].created_at
               /\ \A x \in rows : Sees(i, x) =>
                    x \in ToSet(wire'[i]) \/ Fills(i, ToSet(wire'[i]), x)
    <2>1. PICK p : p = wire'[i]
      OBVIOUS
    <2>2. p \in Pages(scenario.reader[i])
      BY <1>5, <2>1
    <2> QED
      BY <2>1, <2>2, PageShows
  <1>8. \A i \in Subscriptions : Passing(i)' = ToSet(wire'[i])
    BY <1>1, <1>2, EmptyHasNone DEF Passing
  <1>9. \A x \in rows : Asked(x) => \E i \in Subscriptions : Sees(i, x)
    BY DEF Asked
  <1>10. PipeShape'
    <2>1. rows \subseteq ever
      BY DEF EverInv
    <2>2. wire' \in [Subscriptions -> Seq(ever)]
      BY <1>6, <1>7, <2>1
    <2>3. queues \in [Subscriptions -> Seq(ever)]
      BY DEF ReadInv, PipeShape
    <2> QED
      BY <1>1, <1>3, <1>4, <2>2, <2>3 DEF PipeShape
  <1>11. PipeAsked'
    BY <1>1, <1>4, <1>7, <1>8, EmptyHasNone DEF PipeAsked
  <1>12. PipeNotEmpty'
    BY <1>1, <1>7, <1>9 DEF PipeNotEmpty, SomethingComes
  <1>13. PipeHead'
    <2> SUFFICES ASSUME Mode = "head"
                 PROVE  \A x \in rows : Asked(x) => x.created_at <= wire'[1][1].created_at
      BY <1>1, <1>2, <1>4 DEF PipeHead, AsLateAsStored, IsReader, Mode, Subscriptions
    <2>1. Subscriptions = {1}
      BY DEF IsReader, Mode, Subscriptions
    <2> QED
      BY <1>7, <1>9, <2>1
  <1>14. PipeComplete'
    <2> SUFFICES ASSUME Mode = "stream", NEW x \in rows, Asked(x)
                 PROVE  IsGiven(x)' \/ Outweighed(x)'
      BY <1>1, <1>2, <1>4, <1>7, <1>8, EmptyHasNone DEF PipeComplete
    <2>1. PICK i \in Subscriptions : Sees(i, x)
      BY <1>9
    <2>2. PICK S : S = ToSet(wire'[i])
      OBVIOUS
    <2>3. \A y \in S : IsGiven(y)'
      BY <1>1, <1>8, <2>2 DEF IsGiven
    <2>4. CASE x \in S
      BY <2>3, <2>4
    <2>5. CASE Fills(i, S, x)
      <3>1. Fills(i, S, x)'
        BY <1>1, <2>5 DEF Fills, PageLimit
      <3>2. S \in SUBSET before'
        <4>1. wire'[i] \in Seq(rows)
          BY <1>7
        <4> QED
          BY <1>1, <2>2, <4>1, InSetOfSeq
      <3>3. i \in Subscriptions' /\ x \in before' /\ Sees(i, x)'
        BY <1>1, <2>1
      <3> QED
        BY <2>3, <3>1, <3>2, <3>3 DEF Outweighed
    <2> QED
      BY <1>7, <2>1, <2>2, <2>4, <2>5
  <1> QED
    BY <1>10, <1>11, <1>12, <1>13, <1>14 DEF ReadInv

\* A frame arrives: its event is no more in flight and waits in the queue.
LEMMA ArriveRead ==
    ASSUME IsReader(scenario), ReadInv, NEW k \in Subscriptions, Arrive(k)
    PROVE  ReadInv'
  <1>1. /\ scenario' = scenario /\ reader' = reader /\ before' = before /\ rows' = rows
        /\ ever' = ever /\ Subscriptions' = Subscriptions /\ Mode' = Mode
        /\ \A i, x : Sees(i, x)' <=> Sees(i, x)
        /\ \A x : (Asked(x)' <=> Asked(x)) /\ (Keeps(x)' <=> Keeps(x))
    BY DEF Arrive, Subscriptions, Mode, Sees, Asked, Keeps
  <1>2. /\ wire \in [Subscriptions -> Seq(ever)] /\ queues \in [Subscriptions -> Seq(ever)]
        /\ reader.found \in Seq(ever)
        /\ reader = [step |-> reader.step, taken |-> reader.taken, found |-> reader.found]
    BY DEF ReadInv, PipeShape
  <1>3. /\ wire[k] # <<>> /\ reader.step = "reading"
        /\ queues' = [queues EXCEPT ![k] = Append(@, Head(wire[k]))]
        /\ wire' = [wire EXCEPT ![k] = Tail(@)]
    BY DEF Arrive
  <1>4. PICK e : e = Head(wire[k])
    OBVIOUS
  <1>5. PICK w, q : w = wire[k] /\ q = queues[k]
    OBVIOUS
  <1>6. w \in Seq(ever) /\ w # <<>> /\ q \in Seq(ever) /\ e = Head(w)
    BY <1>2, <1>3, <1>4, <1>5
  <1>7. /\ e \in ever /\ Tail(w) \in Seq(ever) /\ e = w[1]
        /\ ToSet(w) = {e} \union ToSet(Tail(w))
        /\ IsOnce(w) => IsOnce(Tail(w)) /\ e \notin ToSet(Tail(w))
    BY <1>6, TailLoses
  <1>8. /\ Append(q, e) \in Seq(ever) /\ Append(q, e) # <<>>
        /\ ToSet(Append(q, e)) = ToSet(q) \union {e}
        /\ Append(q, e)[1] = IF q = <<>> THEN e ELSE q[1]
        /\ IsOnce(q) /\ e \notin ToSet(q) => IsOnce(Append(q, e))
    BY <1>6, <1>7, AppendAdds
  <1>9. /\ queues'[k] = Append(q, e) /\ wire'[k] = Tail(w)
        /\ \A i \in Subscriptions : i # k => queues'[i] = queues[i] /\ wire'[i] = wire[i]
        /\ wire' \in [Subscriptions -> Seq(ever)] /\ queues' \in [Subscriptions -> Seq(ever)]
    BY <1>2, <1>3, <1>4, <1>5, <1>7, <1>8
  <1>10. \A i \in Subscriptions : Passing(i)' = Passing(i)
    <2>1. Passing(k)' = Passing(k)
      BY <1>5, <1>7, <1>8, <1>9 DEF Passing
    <2> QED
      BY <1>9, <2>1 DEF Passing
  <1>11. PipeShape'
    BY <1>1, <1>2, <1>3, <1>9 DEF PipeShape
  <1>12. PipeAsked'
    BY <1>1, <1>10 DEF ReadInv, PipeAsked
  <1>13. PipeNotEmpty'
    <2>1. k \in Subscriptions' /\ queues'[k] # <<>>
      BY <1>1, <1>8, <1>9
    <2>2. SomethingComes'
      BY <2>1 DEF SomethingComes
    <2> QED
      BY <2>2 DEF PipeNotEmpty
  <1>14. PipeHead'
    <2> SUFFICES ASSUME Mode = "head"
                 PROVE  /\ reader.found # <<>> => AsLateAsStored(reader.found[1])
                        /\ reader.found = <<>> => AsLateAsStored(queues'[1][1])
      BY <1>1, <1>8, <1>9 DEF PipeHead, AsLateAsStored, IsReader, Mode, Subscriptions
    <2>1. k = 1
      BY DEF IsReader, Mode, Subscriptions
    <2>2. queues'[1][1] = IF queues[1] = <<>> THEN wire[1][1] ELSE queues[1][1]
      BY <1>5, <1>7, <1>8, <1>9, <2>1
    <2> QED
      BY <1>3, <2>1, <2>2 DEF ReadInv, PipeHead
  <1>15. PipeComplete'
    <2> SUFFICES ASSUME Mode = "stream"
                 PROVE  \A i \in Subscriptions :
                          /\ IsOnce(wire'[i]) /\ IsOnce(queues'[i])
                          /\ ToSet(wire'[i]) \cap ToSet(queues'[i]) = {}
      <3>1. \A x : IsGiven(x) => IsGiven(x)'
        BY <1>1, <1>10 DEF IsGiven
      <3>2. ASSUME NEW x \in before \union rows, Asked(x), Mode = "stream"
            PROVE  IsGiven(x)' \/ Outweighed(x)'
        <4>1. IsGiven(x) \/ Outweighed(x)
          BY <1>3, <3>2 DEF ReadInv, PipeComplete
        <4>2. scenario' = scenario /\ before' = before /\ \A y \in before : IsGiven(y) => IsGiven(y)'
          BY <1>1, <3>1
        <4>3. Outweighed(x) => Outweighed(x)'
          BY <4>2, OutweighedStays
        <4> QED
          BY <3>1, <4>1, <4>3
      <3> QED
        BY <1>1, <1>3, <1>10, <3>2 DEF ReadInv, PipeComplete
    <2>1. \A i \in Subscriptions :
            /\ IsOnce(wire[i]) /\ IsOnce(queues[i])
            /\ ToSet(wire[i]) \cap ToSet(queues[i]) = {}
      BY <1>3 DEF ReadInv, PipeComplete
    <2>2. IsOnce(w) /\ IsOnce(q) /\ ToSet(w) \cap ToSet(q) = {}
      BY <1>5, <2>1
    <2>3. /\ IsOnce(Tail(w)) /\ IsOnce(Append(q, e))
          /\ ToSet(Tail(w)) \cap ToSet(Append(q, e)) = {}
      <3>1. e \in ToSet(w) /\ e \notin ToSet(q) /\ e \notin ToSet(Tail(w)) /\ IsOnce(Tail(w))
        BY <1>7, <2>2
      <3>2. IsOnce(Append(q, e))
        BY <1>8, <2>2, <3>1
      <3> QED
        BY <1>7, <1>8, <2>2, <3>1, <3>2
    <2>4. /\ IsOnce(wire'[k]) /\ IsOnce(queues'[k])
          /\ ToSet(wire'[k]) \cap ToSet(queues'[k]) = {}
      BY <1>9, <2>3
    <2> QED
      BY <1>9, <2>1, <2>4
  <1> QED
    BY <1>11, <1>12, <1>13, <1>14, <1>15 DEF ReadInv

\* What waits for the reader was accepted, and asked for.
LEMMA WaitingIsAsked ==
    ASSUME EverInv, IsReader(scenario), ReadInv,
           NEW i \in Subscriptions, NEW x \in Passing(i)
    PROVE  /\ x \in ever /\ IsOfScenario(x) /\ Sees(i, x) /\ Asked(x)
           /\ Mode \in {"head", "stream"} => Keeps(x)
           /\ Mode = "stream" => \A j \in Subscriptions : j # i => x \notin Passing(j)
  <1>1. \A j \in Subscriptions : \A y \in Passing(j) : y \in ever /\ Sees(j, y)
    <2>1. ASSUME NEW j \in Subscriptions, NEW y \in Passing(j)
          PROVE  y \in ever
      <3>1. wire[j] \in Seq(ever) /\ queues[j] \in Seq(ever)
        BY DEF ReadInv, PipeShape
      <3>2. ToSet(wire[j]) \subseteq ever /\ ToSet(queues[j]) \subseteq ever
        BY <3>1, InSetOfSeq
      <3> QED
        BY <3>2 DEF Passing
    <2> QED
      BY <2>1 DEF ReadInv, PipeAsked
  <1>2. IsOfScenario(x)
    BY <1>1 DEF EverInv
  <1> QED
    BY <1>1, <1>2, AskedOnce DEF Asked

\* runHead takes the first element, which the service may test, and drops the others.
LEMMA TakeHeadRead ==
    ASSUME EverInv, IsReader(scenario), ReadInv, NEW k \in Subscriptions, TakeHead(k)
    PROVE  ReadInv'
  <1>1. /\ scenario' = scenario /\ wire' = wire /\ before' = before /\ rows' = rows
        /\ ever' = ever /\ Subscriptions' = Subscriptions /\ Mode' = Mode
        /\ \A i, x : Sees(i, x)' <=> Sees(i, x)
        /\ \A x : (Asked(x)' <=> Asked(x)) /\ (Keeps(x)' <=> Keeps(x))
    BY DEF TakeHead, Subscriptions, Mode, Sees, Asked, Keeps
  <1>2. /\ wire \in [Subscriptions -> Seq(ever)] /\ queues \in [Subscriptions -> Seq(ever)]
        /\ reader.found \in Seq(ever)
    BY DEF ReadInv, PipeShape
  <1>3. PICK q, f : q = queues[k] /\ f = reader.found
    OBVIOUS
  <1>4. q \in Seq(ever) /\ q # <<>> /\ f \in Seq(ever)
    BY <1>2, <1>3 DEF TakeHead
  <1>5. PICK e : e = Head(q)
    OBVIOUS
  <1>6. e \in ever /\ e = q[1] /\ e \in ToSet(q)
    BY <1>4, <1>5, TailLoses
  <1>7. Asked(e) /\ (Mode = "head" => Keeps(e))
    <2>1. e \in Passing(k)
      BY <1>3, <1>6 DEF Passing
    <2> QED
      BY <2>1, WaitingIsAsked
  <1>9. PICK g : g = IF Keeps(e) THEN Append(f, e) ELSE f
    OBVIOUS
  <1>8. /\ queues' = [queues EXCEPT ![k] = <<>>] /\ reader.step = "reading" /\ Mode # "stream"
        /\ reader' = Counted(g, reader.taken + 1)
    BY <1>3, <1>5, <1>9 DEF TakeHead
  <1>10. /\ g \in Seq(ever) /\ (f # <<>> \/ Keeps(e) => g # <<>>)
         /\ \A x \in ToSet(g) : x \in ToSet(f) \/ (x = e /\ Keeps(e))
         /\ Keeps(e) => g[1] = IF f = <<>> THEN e ELSE f[1]
    BY <1>4, <1>6, <1>9, AppendAdds
  <1>11. /\ reader' = [step |-> reader'.step, taken |-> reader'.taken, found |-> reader'.found]
         /\ reader'.found = g /\ reader'.step # "idle"
    BY <1>8 DEF Counted
  <1>12. /\ queues' \in [Subscriptions -> Seq(ever)] /\ queues'[k] = <<>>
         /\ \A i \in Subscriptions : i # k => queues'[i] = queues[i]
    <2>1. <<>> \in Seq(ever)
      OBVIOUS
    <2> QED
      BY <1>2, <1>8, <2>1
  <1>13. \A i \in Subscriptions : Passing(i)' \subseteq Passing(i)
    BY <1>1, <1>12, EmptyHasNone DEF Passing
  <1>14. PipeShape'
    BY <1>1, <1>2, <1>10, <1>11, <1>12 DEF PipeShape
  <1>15. PipeAsked'
    BY <1>1, <1>3, <1>7, <1>10, <1>11, <1>13 DEF ReadInv, PipeAsked
  <1>16. PipeNotEmpty'
    <2>1. CASE Keeps(e)
      BY <1>10, <1>11, <2>1 DEF PipeNotEmpty, SomethingComes
    <2>2. CASE ~Keeps(e)
      BY <1>1, <1>6, <1>7, <2>2 DEF PipeNotEmpty, SomethingComes
    <2> QED
      BY <2>1, <2>2
  <1>17. PipeHead'
    <2> SUFFICES ASSUME Mode = "head"
                 PROVE  AsLateAsStored(g[1])
      BY <1>1, <1>7, <1>10, <1>11 DEF PipeHead, AsLateAsStored
    <2>1. k = 1 /\ Keeps(e)
      BY <1>7 DEF IsReader, Mode, Subscriptions
    <2>2. CASE f = <<>>
      <3>1. reader.found = <<>> /\ queues[1] = q /\ q # <<>> /\ reader.step # "idle"
        BY <1>3, <1>4, <1>8, <2>1, <2>2
      <3>2. AsLateAsStored(q[1])
        BY <3>1 DEF ReadInv, PipeHead
      <3>3. g[1] = q[1]
        BY <1>6, <1>10, <2>1, <2>2
      <3> QED
        BY <3>2, <3>3
    <2>3. CASE f # <<>>
      <3>1. g[1] = f[1]
        BY <1>10, <2>1, <2>3
      <3>2. AsLateAsStored(f[1])
        BY <1>3, <1>8, <2>3 DEF ReadInv, PipeHead
      <3> QED
        BY <3>1, <3>2
    <2> QED
      BY <2>2, <2>3
  <1>18. PipeComplete'
    BY <1>1, <1>8 DEF PipeComplete
  <1> QED
    BY <1>14, <1>15, <1>16, <1>17, <1>18 DEF ReadInv

\* runForEach takes all that waits.
LEMMA TakeAllRead ==
    ASSUME EverInv, IsReader(scenario), ReadInv, NEW k \in Subscriptions, TakeAll(k)
    PROVE  ReadInv'
  <1>1. /\ scenario' = scenario /\ wire' = wire /\ before' = before /\ rows' = rows
        /\ ever' = ever /\ Subscriptions' = Subscriptions /\ Mode' = Mode
        /\ \A i, x : Sees(i, x)' <=> Sees(i, x)
        /\ \A x : (Asked(x)' <=> Asked(x)) /\ (Keeps(x)' <=> Keeps(x))
    BY DEF TakeAll, Subscriptions, Mode, Sees, Asked, Keeps
  <1>2. /\ wire \in [Subscriptions -> Seq(ever)] /\ queues \in [Subscriptions -> Seq(ever)]
        /\ reader.found \in Seq(ever)
    BY DEF ReadInv, PipeShape
  <1>3. PICK q, f : q = queues[k] /\ f = reader.found
    OBVIOUS
  <1>4. q \in Seq(ever) /\ q # <<>> /\ f \in Seq(ever)
    BY <1>2, <1>3 DEF TakeAll
  <1>5. PICK g : g = f \o q
    OBVIOUS
  <1>6. /\ g \in Seq(ever) /\ ToSet(g) = ToSet(f) \union ToSet(q) /\ g # <<>>
        /\ IsOnce(f) /\ IsOnce(q) /\ ToSet(f) \cap ToSet(q) = {} => IsOnce(g)
    BY <1>4, <1>5, ConcatAdds
  <1>7. PICK full \in BOOLEAN : full <=> Takes # NoLimit /\ Len(g) >= Takes
    OBVIOUS
  <1>8. PICK h : h = IF full THEN SubSeq(g, 1, Takes) ELSE g
    OBVIOUS
  <1>9. /\ queues' = [queues EXCEPT ![k] = <<>>] /\ reader.step = "reading" /\ Mode = "stream"
        /\ reader' = [step |-> IF full THEN "done" ELSE "reading", taken |-> reader.taken,
                      found |-> h]
    BY <1>3, <1>5, <1>7, <1>8 DEF TakeAll
  <1>10. h \in Seq(ever) /\ ToSet(h) \subseteq ToSet(g) /\ h # <<>>
    <2>1. CASE full
      <3>1. Takes \in Nat \ {0}
        BY <1>7, <2>1 DEF IsReader, IsCount, Takes, Subscriptions
      <3>2. Takes \in 0..Len(g) /\ Takes > 0
        BY <1>6, <1>7, <2>1, <3>1
      <3> QED
        BY <1>6, <1>8, <2>1, <3>2, PrefixOf
    <2>2. CASE ~full
      BY <1>6, <1>8, <2>2
    <2> QED
      BY <2>1, <2>2
  <1>11. /\ reader' = [step |-> reader'.step, taken |-> reader'.taken, found |-> reader'.found]
         /\ reader'.found = h /\ reader'.step # "idle" /\ (reader'.step = "reading" => h = g)
    BY <1>8, <1>9
  <1>12. /\ queues' \in [Subscriptions -> Seq(ever)] /\ queues'[k] = <<>>
         /\ \A i \in Subscriptions : i # k => queues'[i] = queues[i]
    <2>1. <<>> \in Seq(ever)
      OBVIOUS
    <2> QED
      BY <1>2, <1>9, <2>1
  <1>13. /\ \A i \in Subscriptions : Passing(i)' \subseteq Passing(i)
         /\ \A i \in Subscriptions : Passing(i) \subseteq Passing(i)' \union ToSet(q)
         /\ ToSet(q) \subseteq Passing(k) /\ Passing(k)' = ToSet(wire[k])
    BY <1>1, <1>3, <1>12, EmptyHasNone DEF Passing
  <1>14. PipeShape'
    BY <1>1, <1>2, <1>10, <1>11, <1>12 DEF PipeShape
  <1>15. PipeAsked'
    <2>1. \A x \in ToSet(q) : Asked(x) /\ Keeps(x)
      BY <1>9, <1>13, WaitingIsAsked
    <2>2. \A x \in ToSet(h) : Asked(x) /\ Keeps(x)
      BY <1>3, <1>6, <1>10, <2>1 DEF ReadInv, PipeAsked
    <2>3. \A i \in Subscriptions : \A x \in Passing(i)' : Sees(i, x)
      BY <1>13 DEF ReadInv, PipeAsked
    <2> QED
      BY <1>1, <1>11, <2>2, <2>3 DEF PipeAsked
  <1>16. PipeNotEmpty'
    BY <1>10, <1>11 DEF PipeNotEmpty, SomethingComes
  <1>17. PipeHead'
    BY <1>1, <1>9 DEF PipeHead
  <1>18. PipeComplete'
    <2> SUFFICES ASSUME h = g
                 PROVE  /\ IsOnce(g)
                        /\ \A i \in Subscriptions :
                             /\ IsOnce(wire[i]) /\ IsOnce(queues'[i])
                             /\ ToSet(wire[i]) \cap ToSet(queues'[i]) = {}
                             /\ Passing(i)' \cap ToSet(g) = {}
                        /\ \A x \in before \union rows : Asked(x) =>
                             IsGiven(x)' \/ Outweighed(x)'
      BY <1>1, <1>11 DEF PipeComplete
    <2>1. /\ IsOnce(f)
          /\ \A i \in Subscriptions :
               /\ IsOnce(wire[i]) /\ IsOnce(queues[i])
               /\ ToSet(wire[i]) \cap ToSet(queues[i]) = {}
               /\ Passing(i) \cap ToSet(f) = {}
          /\ \A x \in before \union rows : Asked(x) => IsGiven(x) \/ Outweighed(x)
      BY <1>3, <1>9 DEF ReadInv, PipeComplete
    <2>2. IsOnce(g)
      BY <1>3, <1>6, <1>13, <2>1
    <2>3. \A i \in Subscriptions :
            IsOnce(queues'[i]) /\ ToSet(wire[i]) \cap ToSet(queues'[i]) = {}
      BY <1>12, <2>1, EmptyHasNone
    <2>4. ASSUME NEW i \in Subscriptions, NEW x \in Passing(i)', x \in ToSet(g)
          PROVE  FALSE
      <3>1. x \in ToSet(q) /\ x \in Passing(i)
        BY <1>6, <1>13, <2>1, <2>4
      <3>2. CASE i = k
        BY <1>3, <1>13, <2>1, <2>4, <3>1, <3>2
      <3>3. CASE i # k
        BY <1>9, <1>13, <3>1, <3>3, WaitingIsAsked
      <3> QED
        BY <3>2, <3>3
    <2>5. \A x : IsGiven(x) => IsGiven(x)'
      BY <1>1, <1>3, <1>6, <1>11, <1>13 DEF IsGiven
    <2>6. ASSUME NEW x \in before \union rows, Asked(x)
          PROVE  IsGiven(x)' \/ Outweighed(x)'
      BY <1>1, <2>1, <2>5, <2>6, OutweighedStays
    <2> QED
      BY <2>1, <2>2, <2>3, <2>4, <2>6
  <1> QED
    BY <1>14, <1>15, <1>16, <1>17, <1>18 DEF ReadInv

\* The other steps leave what is on its way alone; a timer may end the call.
LEMMA OtherRead ==
    ASSUME ReadInv, UNCHANGED <<scenario, rows, wire, queues, ever, before>>,
           \/ reader' = reader
           \/ /\ reader.step = "reading"
              /\ \E n : \E step \in {"reading", "done"} :
                   reader' = [step |-> step, taken |-> n, found |-> reader.found]
    PROVE  ReadInv'
  <1>1. /\ reader'.found = reader.found
        /\ reader' = [step |-> reader'.step, taken |-> reader'.taken, found |-> reader'.found]
        /\ reader'.step = "idle" => reader.step = "idle"
        /\ reader'.step # "idle" => reader.step # "idle"
        /\ reader'.step = "reading" => reader.step = "reading"
    BY DEF ReadInv, PipeShape
  <1>2. /\ Subscriptions' = Subscriptions /\ Mode' = Mode
        /\ \A i, x : Sees(i, x)' <=> Sees(i, x)
        /\ \A x : (Asked(x)' <=> Asked(x)) /\ (Keeps(x)' <=> Keeps(x))
        /\ \A i : Passing(i)' = Passing(i)
    BY DEF Subscriptions, Mode, Sees, Asked, Keeps, Passing
  <1>3. PipeShape'
    BY <1>1, <1>2 DEF ReadInv, PipeShape
  <1>4. PipeAsked'
    BY <1>1, <1>2 DEF ReadInv, PipeAsked
  <1>5. PipeNotEmpty' /\ PipeHead'
    BY <1>1, <1>2 DEF ReadInv, PipeNotEmpty, SomethingComes, PipeHead, AsLateAsStored
  <1>6. PipeComplete'
    <2>1. \A x : IsGiven(x) => IsGiven(x)'
      BY <1>1, <1>2 DEF IsGiven
    <2>2. ASSUME Mode = "stream", reader'.step = "reading", NEW x \in before \union rows, Asked(x)
          PROVE  IsGiven(x)' \/ Outweighed(x)'
      BY <1>1, <2>1, <2>2, OutweighedStays DEF ReadInv, PipeComplete
    <2> QED
      BY <1>1, <1>2, <2>2 DEF ReadInv, PipeComplete
  <1> QED
    BY <1>3, <1>4, <1>5, <1>6 DEF ReadInv

\* A step of the services.
LEMMA ReadStep ==
    ASSUME ClientServicesAssumption, EventsAssumption, CallInv, EverInv,
           IsReader(scenario), ReadInv, [ServicesNext]_servicesVars
    PROVE  ReadInv'
  <1>1. CASE \E id \in scenario.ids, at \in 0..clock : PublishNext(id, at)
    BY <1>1, PublishRead
  <1>2. CASE StartRead
    BY <1>2, StartReadRead
  <1>3. CASE \E i \in Subscriptions : Arrive(i) \/ TakeHead(i) \/ TakeAll(i)
    BY <1>3, ArriveRead, TakeHeadRead, TakeAllRead
  <1>4. reader = [step |-> reader.step, taken |-> reader.taken, found |-> reader.found]
    BY DEF ReadInv, PipeShape
  <1>5. ASSUME reader.step = "reading", reader' = [reader EXCEPT !.step = "done"],
               UNCHANGED <<scenario, rows, wire, queues, ever, before>>
        PROVE  ReadInv'
    <2>1. reader' = [step |-> "done", taken |-> reader.taken, found |-> reader.found]
      BY <1>4, <1>5
    <2> QED
      BY <1>5, <2>1, OtherRead
  <1>6. CASE BudgetSpent
    BY <1>5, <1>6 DEF BudgetSpent
  <1>7. CASE TakeTimesOut
    <2>1. CASE Mode = "each"
      <3>1. reader' = Counted(reader.found, reader.taken + 1)
        BY <1>7, <2>1 DEF TakeTimesOut
      <3>2. \E n : \E step \in {"reading", "done"} :
              reader' = [step |-> step, taken |-> n, found |-> reader.found]
        BY <3>1 DEF Counted
      <3> QED
        BY <1>7, <3>2, OtherRead DEF TakeTimesOut
    <2>2. CASE Mode # "each"
      BY <1>5, <1>7, <2>2 DEF TakeTimesOut
    <2> QED
      BY <2>1, <2>2
  <1>8. CASE \/ RefuseNext \/ AbandonCall \/ TickSecond \/ UNCHANGED servicesVars
             \/ \E a \in Accounts, op \in scenario.operations : BeginCall(a, op)
    <2>1. UNCHANGED <<scenario, rows, reader, wire, queues, ever, before>>
      BY <1>8 DEF RefuseNext, AbandonCall, TickSecond, BeginCall, servicesVars
    <2> QED
      BY <2>1, OtherRead
  <1> QED
    BY <1>1, <1>2, <1>3, <1>6, <1>7, <1>8 DEF ServicesNext

\* What is once in a sequence, or in one of several, is counted once.
LEMMA OnceIsOne ==
    ASSUME NEW s, IsOnce(s), NEW x
    PROVE  Cardinality({i \in DOMAIN s : s[i] = x}) = IF x \in ToSet(s) THEN 1 ELSE 0
  <1>1. CASE x \in ToSet(s)
    <2>1. PICK i \in DOMAIN s : s[i] = x
      BY <1>1 DEF ToSet
    <2>2. {j \in DOMAIN s : s[j] = x} = {i}
      BY <2>1 DEF IsOnce
    <2> QED
      BY <1>1, <2>2, FS_Singleton
  <1>2. CASE x \notin ToSet(s)
    <2>1. {j \in DOMAIN s : s[j] = x} = {}
      BY <1>2 DEF ToSet
    <2> QED
      BY <1>2, <2>1, FS_EmptySet
  <1> QED
    BY <1>1, <1>2

LEMMA CopiesIsOne ==
    ASSUME NEW seqs, \A i \in Subscriptions : IsOnce(seqs[i]), NEW x,
           \A i, j \in Subscriptions : x \in ToSet(seqs[i]) /\ x \in ToSet(seqs[j]) => i = j
    PROVE  Copies(seqs, x) = IF \E i \in Subscriptions : x \in ToSet(seqs[i]) THEN 1 ELSE 0
  <1>1. PICK P : P = {p \in UNION {{i} \X DOMAIN seqs[i] : i \in Subscriptions} :
                        seqs[p[1]][p[2]] = x}
    OBVIOUS
  <1>2. Copies(seqs, x) = Cardinality(P)
    BY <1>1 DEF Copies
  <1>3. ASSUME NEW p \in P
        PROVE  \E i \in Subscriptions : \E n \in DOMAIN seqs[i] :
                 p = <<i, n>> /\ seqs[i][n] = x /\ x \in ToSet(seqs[i])
    <2>1. PICK i \in Subscriptions : p \in {i} \X DOMAIN seqs[i]
      BY <1>1
    <2>2. PICK n \in DOMAIN seqs[i] : p = <<i, n>>
      BY <2>1
    <2>3. seqs[i][n] = x
      BY <1>1, <2>2
    <2>4. x \in ToSet(seqs[i])
      BY <2>2, <2>3 DEF ToSet
    <2> QED
      BY <2>2, <2>3, <2>4
  <1>4. CASE \E i \in Subscriptions : x \in ToSet(seqs[i])
    <2>1. PICK i \in Subscriptions : x \in ToSet(seqs[i])
      BY <1>4
    <2>2. PICK n \in DOMAIN seqs[i] : seqs[i][n] = x
      BY <2>1 DEF ToSet
    <2>3. <<i, n>> \in P
      BY <1>1, <2>2
    <2>4. ASSUME NEW p \in P
          PROVE  p = <<i, n>>
      <3> PICK j \in Subscriptions : \E m \in DOMAIN seqs[j] :
              p = <<j, m>> /\ seqs[j][m] = x /\ x \in ToSet(seqs[j])
        BY <1>3
      <3>1. PICK m \in DOMAIN seqs[j] : p = <<j, m>> /\ seqs[j][m] = x /\ x \in ToSet(seqs[j])
        OBVIOUS
      <3>2. j = i
        BY <2>1, <3>1
      <3>3. m = n
        BY <2>2, <3>1, <3>2 DEF IsOnce
      <3> QED
        BY <3>1, <3>2, <3>3
    <2>5. P = {<<i, n>>}
      BY <2>3, <2>4
    <2> QED
      BY <1>2, <1>4, <2>5, FS_Singleton
  <1>5. CASE ~\E i \in Subscriptions : x \in ToSet(seqs[i])
    <2>1. P = {}
      BY <1>3, <1>5
    <2> QED
      BY <1>2, <1>5, <2>1, FS_EmptySet
  <1> QED
    BY <1>4, <1>5

\* What the invariant says of the call.
LEMMA ReadInvGives ==
    ASSUME ClientServicesAssumption, CallInv, EverInv, IsReader(scenario), ReadInv
    PROVE  HeadIsLatest /\ FoundIfStored /\ OnlyAsked /\ StreamComplete
  <1>1. /\ wire \in [Subscriptions -> Seq(ever)] /\ queues \in [Subscriptions -> Seq(ever)]
        /\ reader.found \in Seq(ever)
    BY DEF ReadInv, PipeShape
  <1>2. OnlyAsked
    BY DEF ReadInv, PipeAsked, OnlyAsked, ToSet
  <1>3. HeadIsLatest
    <2> SUFFICES ASSUME Mode = "head", reader.found # <<>>
                 PROVE  Asked(reader.found[1]) /\ AsLateAsStored(reader.found[1])
      BY DEF HeadIsLatest, AsLateAsStored
    <2>1. 1 \in DOMAIN reader.found
      BY <1>1, NotEmptyHasFirst
    <2>2. Asked(reader.found[1])
      BY <1>2, <2>1 DEF OnlyAsked
    <2>3. reader.step # "idle"
      BY DEF ReadInv, PipeShape
    <2> QED
      BY <2>2, <2>3 DEF ReadInv, PipeHead
  <1>4. FoundIfStored
    <2> SUFFICES ASSUME reader.step = "done", reader.found = <<>>, wire = EmptyQueues,
                        queues = EmptyQueues, ~\E y \in ever : Asked(y) /\ ~Keeps(y)
                 PROVE  ~\E x \in before : Asked(x)
      BY DEF FoundIfStored
    <2>1. ~SomethingComes
      BY DEF SomethingComes, EmptyQueues
    <2> QED
      BY <2>1 DEF ReadInv, PipeNotEmpty
  <1>5. ASSUME Mode = "stream", reader.step = "reading", NEW x \in ever, Asked(x)
        PROVE  TimesGiven(x) = IF IsGiven(x) THEN 1 ELSE 0
    <2>1. /\ IsOnce(reader.found)
          /\ \A i \in Subscriptions :
               /\ IsOnce(wire[i]) /\ IsOnce(queues[i])
               /\ ToSet(wire[i]) \cap ToSet(queues[i]) = {}
               /\ Passing(i) \cap ToSet(reader.found) = {}
      BY <1>5 DEF ReadInv, PipeComplete
    <2>2. \A i, j \in Subscriptions : x \in Passing(i) /\ x \in Passing(j) => i = j
      BY <1>5, WaitingIsAsked
    <2>3. \A i \in Subscriptions :
            x \in Passing(i) <=> x \in ToSet(wire[i]) \/ x \in ToSet(queues[i])
      BY DEF Passing
    <2>4. Cardinality({i \in DOMAIN reader.found : reader.found[i] = x}) =
            IF x \in ToSet(reader.found) THEN 1 ELSE 0
      BY <2>1, OnceIsOne
    <2>5. Copies(wire, x) = IF \E i \in Subscriptions : x \in ToSet(wire[i]) THEN 1 ELSE 0
      BY <2>1, <2>2, <2>3, CopiesIsOne
    <2>6. Copies(queues, x) = IF \E i \in Subscriptions : x \in ToSet(queues[i]) THEN 1 ELSE 0
      BY <2>1, <2>2, <2>3, CopiesIsOne
    <2>7. CASE x \in ToSet(reader.found)
      <3>1. \A i \in Subscriptions : x \notin ToSet(wire[i]) /\ x \notin ToSet(queues[i])
        BY <2>1, <2>3, <2>7
      <3> QED
        BY <2>4, <2>5, <2>6, <2>7, <3>1 DEF TimesGiven, IsGiven
    <2>9. CASE ~IsGiven(x)
      <3>1. \A i \in Subscriptions : x \notin ToSet(wire[i]) /\ x \notin ToSet(queues[i])
        BY <2>3, <2>9 DEF IsGiven
      <3> QED
        BY <2>4, <2>5, <2>6, <2>9, <3>1 DEF TimesGiven, IsGiven
    <2>8. CASE x \notin ToSet(reader.found) /\ IsGiven(x)
      <3>1. PICK i \in Subscriptions : x \in Passing(i)
        BY <2>8 DEF IsGiven
      <3>2. CASE x \in ToSet(wire[i])
        <4>1. \A j \in Subscriptions : x \notin ToSet(queues[j])
          BY <2>1, <2>2, <2>3, <3>1, <3>2
        <4> QED
          BY <2>4, <2>5, <2>6, <2>8, <3>2, <4>1 DEF TimesGiven
      <3>3. CASE x \in ToSet(queues[i])
        <4>1. \A j \in Subscriptions : x \notin ToSet(wire[j])
          BY <2>1, <2>2, <2>3, <3>1, <3>3
        <4> QED
          BY <2>4, <2>5, <2>6, <2>8, <3>3, <4>1 DEF TimesGiven
      <3> QED
        BY <2>3, <3>1, <3>2, <3>3
    <2> QED
      BY <2>7, <2>8, <2>9
  <1>6. ASSUME Mode = "stream", reader.step = "reading", NEW x \in ever, Outweighed(x)
        PROVE  HadNoPlace(x)
    <2>1. PICK i \in Subscriptions, S \in SUBSET before :
            x \in before /\ Sees(i, x) /\ Fills(i, S, x) /\ \A y \in S : IsGiven(y)
      BY <1>6 DEF Outweighed
    <2>2. PICK W : W = {y \in before : /\ Sees(i, y) /\ y # x /\ TimesGiven(y) = 1
                                       /\ y.created_at >= x.created_at}
      OBVIOUS
    <2>3. IsFiniteSet(before)
      <3>1. before \in SUBSET ever /\ IsFiniteSet(ever)
        BY EverIsFinite DEF EverInv
      <3> QED
        BY <3>1, FS_Subset
    <2>4. IsFiniteSet(W) /\ Cardinality(W) \in Nat
      <3>1. W \in SUBSET before
        BY <2>2
      <3> QED
        BY <2>3, <3>1, FS_Subset, FS_CardinalityType
    <2>5. S \in SUBSET W
      <3>1. ASSUME NEW y \in S
            PROVE  y \in W
        <4>1. y \in before /\ y \in ever /\ Sees(i, y) /\ y # x /\ y.created_at >= x.created_at
          BY <2>1 DEF Fills, EverInv
        <4>2. TimesGiven(y) = 1
          BY <1>5, <1>6, <2>1, <4>1 DEF Asked
        <4> QED
          BY <2>2, <4>1, <4>2
      <3> QED
        BY <3>1
    <2>6. Cardinality(S) <= Cardinality(W) /\ Cardinality(S) \in Nat
      BY <2>4, <2>5, FS_Subset, FS_CardinalityType
    <2>7. PICK limit : limit = PageLimit(scenario.reader[i])
      OBVIOUS
    <2>8. limit # NoLimit /\ Cardinality(S) >= limit /\ limit \in Nat
      <3>1. IsCount(limit)
        BY <2>7, PageLimitCounts
      <3> QED
        BY <2>1, <2>7, <3>1 DEF Fills, IsCount
    <2>9. Cardinality(W) >= limit
      BY <2>4, <2>6, <2>8
    <2> QED
      BY <2>1, <2>2, <2>7, <2>8, <2>9 DEF HadNoPlace
  <1>7. StreamComplete
    <2> SUFFICES ASSUME Mode = "stream", reader.step = "reading",
                        NEW x \in before \union rows, Asked(x)
                 PROVE  TimesGiven(x) = 1 \/ (TimesGiven(x) = 0 /\ HadNoPlace(x))
      BY DEF StreamComplete
    <2>1. x \in ever /\ (IsGiven(x) \/ Outweighed(x))
      BY DEF ReadInv, PipeComplete, EverInv
    <2> QED
      BY <1>5, <1>6, <2>1
  <1> QED
    BY <1>2, <1>3, <1>4, <1>7

\* Nothing is on its way at first.
LEMMA ReadStart ==
    ASSUME ServicesInit
    PROVE  CallInv /\ EverInv /\ ReadInv
  <1>1. CallInv /\ EverInv
    BY DEF ServicesInit, CallInv, EverInv
  <1>2. /\ reader.step = "idle" /\ reader.found = <<>>
        /\ \A i \in Subscriptions : wire[i] = <<>> /\ queues[i] = <<>>
    BY DEF ServicesInit, EmptyQueues
  <1>3. PipeShape
    <2>1. <<>> \in Seq(ever)
      OBVIOUS
    <2> QED
      BY <1>2, <2>1 DEF PipeShape, ServicesInit, EmptyQueues
  <1>4. \A i \in Subscriptions : Passing(i) = {}
    BY <1>2, EmptyHasNone DEF Passing
  <1>5. PipeAsked
    BY <1>2, <1>4, EmptyHasNone DEF PipeAsked
  <1>6. PipeNotEmpty /\ PipeHead /\ PipeComplete
    BY <1>2 DEF PipeNotEmpty, PipeHead, PipeComplete
  <1> QED
    BY <1>1, <1>3, <1>5, <1>6 DEF ReadInv

-----------------------------------------------------------------------------
\* A set of numbers that is not empty has a least one.
LEMMA LeastNumber ==
    ASSUME NEW I, I \subseteq Nat, I # {}
    PROVE  \E x \in I : \A y \in I : x <= y
  <1>1. IsWellFoundedOn({ss \in Nat \X Nat : ss[1] < ss[2]}, Nat)
    BY NatLessThanWellFounded DEF OpToRel
  <1>2. PICK below : below = {ss \in Nat \X Nat : ss[1] < ss[2]}
    OBVIOUS
  <1>3. PICK x \in I : \A y \in I : <<y, x>> \notin below
    BY <1>1, <1>2, WFMin, Zenon
  <1>4. \A y, z \in Nat : y < z => <<y, z>> \in below
    <2>1. \A y, z \in Nat : y < z => <<y, z>> \in {ss \in Nat \X Nat : ss[1] < ss[2]}
      OBVIOUS
    <2> QED
      BY <2>1, <1>2, Zenon
  <1>5. ASSUME NEW y \in I
        PROVE  x <= y
    <2>1. y \in Nat /\ x \in Nat
      OBVIOUS
    <2>2. ~(y < x)
      BY <1>3, <1>4, <2>1, Zenon
    <2> QED
      BY <2>1, <2>2
  <1> QED
    BY <1>5

-----------------------------------------------------------------------------
(* Folds *)

\* What holds of 0 and of the next number whenever it holds of one is reached by counting.
LEMMA Reaches ==
    ASSUME NEW I, NEW m \in Nat, 0 \in I,
           \A k \in 0..(m - 1) : k \in I => k + 1 \in I
    PROVE  \A k \in 0..m : k \in I
  <1> DEFINE J == {k \in 0..m : k \notin I}
  <1> SUFFICES ASSUME J # {} PROVE FALSE
    OBVIOUS
  <1>1. J \subseteq Nat
    OBVIOUS
  <1>2. PICK x \in J : \A y \in J : x <= y
    <2> HIDE DEF J
    <2> QED
      BY <1>1, LeastNumber
  <1>3. x \in 1..m
    BY <1>2
  <1>4. x - 1 \in 0..m /\ x - 1 \notin J
    BY <1>2, <1>3
  <1> QED
    BY <1>2, <1>3, <1>4

\* The operator by which the folds take the last index.
LEMMA MaxOf ==
    ASSUME NEW n \in Nat, NEW s \in SUBSET (1..n), s # {}
    PROVE  Max(s) \in s /\ \A y \in s : Max(s) >= y
  <1> DEFINE I == {n - y : y \in s}
  <1>0. \A y \in s : y \in 1..n
    OBVIOUS
  <1>1. I \subseteq Nat /\ I # {}
    <2>1. \A y \in s : n - y \in Nat
      BY <1>0
    <2> QED
      BY <2>1
  <1>2. PICK z \in I : \A y \in I : z <= y
    <2> HIDE DEF I
    <2> QED
      BY <1>1, LeastNumber
  <1>3. PICK x \in s : z = n - x
    BY <1>2
  <1>4. \A y \in s : x >= y
    BY <1>0, <1>2, <1>3
  <1> QED
    BY <1>4 DEF Max

\* Of the first k indices that is k, which leaves the k - 1 before it.
LEMMA MaxOfFirst ==
    ASSUME NEW k \in Nat \ {0}
    PROVE  Max(1..k) = k /\ (1..k) \ {k} = 1..(k - 1)
  <1>1. Max(1..k) \in 1..k /\ \A y \in 1..k : Max(1..k) >= y
    <2>1. 1..k \in SUBSET (1..k) /\ 1..k # {} /\ k \in Nat
      OBVIOUS
    <2> QED
      BY MaxOf, <2>1
  <1> QED
    BY <1>1

\* g is what FoldLeft defines of the operator that F is, on values in A.
HasFold(n, A, base, F) ==
    \E g \in [SUBSET (1..n) -> A] :
        \A s \in SUBSET (1..n) :
            g[s] = IF s = {} THEN base ELSE F[<<Max(s), g[s \ {Max(s)}]>>]

\* A function of the form that FoldLeft defines exists, when its operator is a function.
LEMMA FoldExists ==
    ASSUME NEW n \in Nat, NEW A, NEW base \in A, NEW F \in [(1..n) \X A -> A]
    PROVE  HasFold(n, A, base, F)
  <1> DEFINE Good(m, g) ==
               \A s \in SUBSET (1..m) :
                 g[s] = IF s = {} THEN base ELSE F[<<Max(s), g[s \ {Max(s)}]>>]
             I == {m \in 0..n : \E g \in [SUBSET (1..m) -> A] : Good(m, g)}
  <1>1. 0 \in I
    <2>1. [s \in SUBSET (1..0) |-> base] \in [SUBSET (1..0) -> A]
      OBVIOUS
    <2>2. Good(0, [s \in SUBSET (1..0) |-> base])
      OBVIOUS
    <2>3. 0 \in 0..n
      OBVIOUS
    <2> HIDE DEF Good
    <2> QED
      BY <2>1, <2>2, <2>3
  <1>2. ASSUME NEW k \in 0..(n - 1), k \in I
        PROVE  k + 1 \in I
    <2>1. PICK g \in [SUBSET (1..k) -> A] : Good(k, g)
      BY <1>2
    <2>2. PICK j : j = k + 1
      OBVIOUS
    <2>3. j \in 1..n /\ 1..j = (1..k) \union {j} /\ j \notin 1..k
      BY <2>2
    <2> DEFINE h == [s \in SUBSET (1..j) |-> IF j \in s THEN F[<<j, g[s \ {j}]>>] ELSE g[s]]
    <2>4. \A s \in SUBSET (1..j) : s \ {j} \in SUBSET (1..k)
      BY <2>3
    <2>5. h \in [SUBSET (1..j) -> A]
      BY <2>3, <2>4
    <2>6. ASSUME NEW s \in SUBSET (1..j)
          PROVE  h[s] = IF s = {} THEN base ELSE F[<<Max(s), h[s \ {Max(s)}]>>]
      <3>1. CASE j \in s
        <4>1. Max(s) = j
          <5>1. j \in Nat /\ s # {}
            BY <2>3, <3>1
          <5>2. Max(s) \in s /\ \A y \in s : Max(s) >= y
            BY <5>1, MaxOf
          <5>3. PICK x : x = Max(s)
            OBVIOUS
          <5>4. x \in 1..j /\ x >= j
            BY <5>2, <5>3, <3>1
          <5> QED
            BY <5>1, <5>3, <5>4
        <4>2. h[s \ {j}] = g[s \ {j}]
          BY <2>4
        <4> QED
          BY <3>1, <4>1, <4>2
      <3>2. CASE j \notin s /\ s # {}
        <4>1. s \in SUBSET (1..k)
          BY <2>3, <3>2
        <4>2. PICK t : t = s \ {Max(s)}
          OBVIOUS
        <4>3. t \in SUBSET (1..k) /\ t \in SUBSET (1..j) /\ j \notin t
          BY <2>3, <4>1, <4>2
        <4>4. h[t] = g[t] /\ h[s] = g[s]
          BY <4>3, <3>2
        <4>5. g[s] = F[<<Max(s), g[t]>>]
          BY <2>1, <4>1, <4>2, <3>2
        <4> QED
          BY <4>2, <4>4, <4>5, <3>2
      <3>3. CASE s = {}
        <4>1. g[{}] = base /\ h[{}] = g[{}]
          BY <2>1
        <4> QED
          BY <4>1, <3>3
      <3> QED
        BY <3>1, <3>2, <3>3
    <2>7. Good(j, h)
      BY <2>6, Zenon
    <2> HIDE DEF h, Good
    <2>8. \E f \in [SUBSET (1..j) -> A] : Good(j, f)
      BY <2>5, <2>7
    <2> QED
      BY <2>2, <2>3, <2>8
  <1>3. n \in I
    <2> HIDE DEF I
    <2> QED
      BY <1>1, <1>2, Reaches
  <1> QED
    BY <1>3 DEF HasFold

-----------------------------------------------------------------------------
(* Selections                                                                *)

\* h[k] is what Within has kept of the first k responses.
WithinSteps(p, events, n, h) ==
    /\ h[0] = << >> /\ h[n] = Within(p, events)
    /\ \A k \in 1..n : h[k] = IF p.until # NoEnd => events[k].createdAt <= p.until
                             THEN Append(h[k - 1], events[k]) ELSE h[k - 1]

\* Within, step by step: the responses among the first k that are in time.
LEMMA WithinFold ==
    ASSUME NEW p, NEW events \in Seq(Responses), NEW n \in Nat, DOMAIN events = 1..n
    PROVE  \E h : WithinSteps(p, events, n, h)
  <1> DEFINE A == Seq(Responses)
             Op(kept, e) == IF p.until # NoEnd => e.createdAt <= p.until THEN Append(kept, e) ELSE kept
             F == [x \in (1..n) \X A |-> Op(x[2], events[x[1]])]
             It(g) == [s \in SUBSET (1..n) |-> IF s = {} THEN << >>
                                              ELSE Op(g[s \ {Max(s)}], events[Max(s)])]
  <1>1. \A k \in 1..n : events[k] \in Responses
    OBVIOUS
  <1>2. \A k \in 1..n, a \in A : Op(a, events[k]) \in A
    BY <1>1
  <1>3. F \in [(1..n) \X A -> A]
    <2> HIDE DEF Op, A
    <2> QED
      BY <1>2
  <1>4. << >> \in A
    OBVIOUS
  <1>5. PICK g \in [SUBSET (1..n) -> A] :
          \A s \in SUBSET (1..n) :
            g[s] = IF s = {} THEN << >> ELSE F[<<Max(s), g[s \ {Max(s)}]>>]
    <2> HIDE DEF F, A
    <2> QED
      <3>1. HasFold(n, A, << >>, F)
        BY <1>3, <1>4, FoldExists
      <3> QED
        BY <3>1, Zenon DEF HasFold
  <1>6. g = It(g)
    <2> HIDE DEF Op, A
    <2>1. ASSUME NEW s \in SUBSET (1..n), s # {}
          PROVE  g[s] = Op(g[s \ {Max(s)}], events[Max(s)])
      <3>1. Max(s) \in 1..n
        BY <2>1, MaxOf
      <3>2. g[s \ {Max(s)}] \in A
        OBVIOUS
      <3>3. F[<<Max(s), g[s \ {Max(s)}]>>] = Op(g[s \ {Max(s)}], events[Max(s)])
        BY <3>1, <3>2
      <3> QED
        BY <1>5, <2>1, <3>3
    <2> HIDE DEF F
    <2>2. \A s \in SUBSET (1..n) :
            g[s] = IF s = {} THEN << >> ELSE Op(g[s \ {Max(s)}], events[Max(s)])
      BY <1>5, <2>1
    <2> QED
      BY <2>2
  <1>7. PICK f : f = (CHOOSE x : x = It(x))
    OBVIOUS
  <1>8. f = It(f)
    <2> HIDE DEF It
    <2> QED
      BY <1>6, <1>7
  <1>a. ASSUME NEW s \in SUBSET (1..n), s # {}
        PROVE  f[s] = Op(f[s \ {Max(s)}], events[Max(s)])
    <2> HIDE DEF Op
    <2> QED
      BY <1>a, <1>8
  <1>9. Within(p, events) = f[1..n]
    BY <1>7 DEF Within, FoldLeft, MapThenFoldSet
  <1> DEFINE h == [k \in 0..n |-> f[1..k]]
  <1>10. h[0] = << >>
    BY <1>8
  <1>11. ASSUME NEW k \in 1..n
         PROVE  h[k] = Op(h[k - 1], events[k])
    <2> HIDE DEF Op
    <2>1. Max(1..k) = k /\ (1..k) \ {k} = 1..(k - 1) /\ k - 1 \in 0..n
      BY MaxOfFirst
    <2>a. 1..k \in SUBSET (1..n) /\ 1..k # {}
      <3>1. k \in 1..k /\ \A j \in 1..k : j \in 1..n
        OBVIOUS
      <3> QED
        BY <3>1, Zenon
    <2>2. f[1..k] = Op(f[(1..k) \ {Max(1..k)}], events[Max(1..k)])
      BY <1>a, <2>a
    <2>3. h[k] = f[1..k] /\ h[k - 1] = f[1..(k - 1)]
      BY <2>1
    <2> HIDE DEF h
    <2> QED
      BY <2>1, <2>2, <2>3
  <1>12. h[n] = f[1..n]
    OBVIOUS
  <1> HIDE DEF h
  <1>13. WithinSteps(p, events, n, h)
    BY <1>9, <1>10, <1>11, <1>12 DEF WithinSteps
  <1> QED
    BY <1>13, Zenon

\* h[k] is what DeduplicateEvents has kept of the first k.
DedupSteps(events, n, h) ==
    /\ h[0] = << >> /\ h[n] = DeduplicateEvents(events)
    /\ \A k \in 1..n : h[k] = IF Contains(h[k - 1], events[k]) THEN h[k - 1]
                             ELSE Append(h[k - 1], events[k])

\* DeduplicateEvents, step by step.
LEMMA DedupFold ==
    ASSUME NEW events \in Seq(Responses), NEW n \in Nat, DOMAIN events = 1..n
    PROVE  \E h : DedupSteps(events, n, h)
  <1> DEFINE A == Seq(Responses)
             Op(kept, e) == IF Contains(kept, e) THEN kept ELSE Append(kept, e)
             F == [x \in (1..n) \X A |-> Op(x[2], events[x[1]])]
             It(g) == [s \in SUBSET (1..n) |-> IF s = {} THEN << >>
                                              ELSE Op(g[s \ {Max(s)}], events[Max(s)])]
  <1>1. \A k \in 1..n : events[k] \in Responses
    OBVIOUS
  <1>2. \A k \in 1..n, a \in A : Op(a, events[k]) \in A
    BY <1>1
  <1>3. F \in [(1..n) \X A -> A]
    <2> HIDE DEF Op, A
    <2> QED
      BY <1>2
  <1>4. << >> \in A
    OBVIOUS
  <1>5. PICK g \in [SUBSET (1..n) -> A] :
          \A s \in SUBSET (1..n) :
            g[s] = IF s = {} THEN << >> ELSE F[<<Max(s), g[s \ {Max(s)}]>>]
    <2> HIDE DEF F, A
    <2> QED
      <3>1. HasFold(n, A, << >>, F)
        BY <1>3, <1>4, FoldExists
      <3> QED
        BY <3>1, Zenon DEF HasFold
  <1>6. g = It(g)
    <2> HIDE DEF Op, A
    <2>1. ASSUME NEW s \in SUBSET (1..n), s # {}
          PROVE  g[s] = Op(g[s \ {Max(s)}], events[Max(s)])
      <3>1. Max(s) \in 1..n
        BY <2>1, MaxOf
      <3>2. g[s \ {Max(s)}] \in A
        OBVIOUS
      <3>3. F[<<Max(s), g[s \ {Max(s)}]>>] = Op(g[s \ {Max(s)}], events[Max(s)])
        BY <3>1, <3>2
      <3> QED
        BY <1>5, <2>1, <3>3
    <2> HIDE DEF F
    <2>2. \A s \in SUBSET (1..n) :
            g[s] = IF s = {} THEN << >> ELSE Op(g[s \ {Max(s)}], events[Max(s)])
      BY <1>5, <2>1
    <2> QED
      BY <2>2
  <1>7. PICK f : f = (CHOOSE x : x = It(x))
    OBVIOUS
  <1>8. f = It(f)
    <2> HIDE DEF It
    <2> QED
      BY <1>6, <1>7
  <1>a. ASSUME NEW s \in SUBSET (1..n), s # {}
        PROVE  f[s] = Op(f[s \ {Max(s)}], events[Max(s)])
    <2> HIDE DEF Op
    <2> QED
      BY <1>a, <1>8
  <1>9. DeduplicateEvents(events) = f[1..n]
    BY <1>7 DEF DeduplicateEvents, FoldLeft, MapThenFoldSet
  <1> DEFINE h == [k \in 0..n |-> f[1..k]]
  <1>10. h[0] = << >>
    BY <1>8
  <1>11. ASSUME NEW k \in 1..n
         PROVE  h[k] = Op(h[k - 1], events[k])
    <2> HIDE DEF Op
    <2>1. Max(1..k) = k /\ (1..k) \ {k} = 1..(k - 1) /\ k - 1 \in 0..n
      BY MaxOfFirst
    <2>a. 1..k \in SUBSET (1..n) /\ 1..k # {}
      <3>1. k \in 1..k /\ \A j \in 1..k : j \in 1..n
        OBVIOUS
      <3> QED
        BY <3>1, Zenon
    <2>2. f[1..k] = Op(f[(1..k) \ {Max(1..k)}], events[Max(1..k)])
      BY <1>a, <2>a
    <2>3. h[k] = f[1..k] /\ h[k - 1] = f[1..(k - 1)]
      BY <2>1
    <2> HIDE DEF h
    <2> QED
      BY <2>1, <2>2, <2>3
  <1>12. h[n] = f[1..n]
    OBVIOUS
  <1> HIDE DEF h
  <1>13. DedupSteps(events, n, h)
    BY <1>9, <1>10, <1>11, <1>12 DEF DedupSteps
  <1> QED
    BY <1>13, Zenon

\* h[k] is the voter's latest of the first k, as LatestOf finds it.
LatestSteps(events, n, voter, h) ==
    /\ h[0] = << >> /\ LatestOf(events)[voter] = h[n][1]
    /\ \A k \in 1..n :
         h[k] = IF /\ events[k].pubkey = voter
                   /\ (h[k - 1] = << >> \/ events[k].createdAt > h[k - 1][1].createdAt)
                THEN <<events[k]>> ELSE h[k - 1]

\* LatestOf, step by step: the voter's latest among the first k.
LEMMA LatestFold ==
    ASSUME NEW events \in Seq(Responses), NEW n \in Nat, DOMAIN events = 1..n,
           NEW voter \in {events[i].pubkey : i \in DOMAIN events}
    PROVE  \E h : LatestSteps(events, n, voter, h)
  <1> DEFINE A == Seq(Responses)
             Op(kept, e) == IF e.pubkey = voter /\ (kept = << >> \/ e.createdAt > kept[1].createdAt)
                             THEN <<e>> ELSE kept
             F == [x \in (1..n) \X A |-> Op(x[2], events[x[1]])]
             It(g) == [s \in SUBSET (1..n) |-> IF s = {} THEN << >>
                                              ELSE Op(g[s \ {Max(s)}], events[Max(s)])]
  <1>1. \A k \in 1..n : events[k] \in Responses
    OBVIOUS
  <1>2. \A k \in 1..n, a \in A : Op(a, events[k]) \in A
    BY <1>1
  <1>3. F \in [(1..n) \X A -> A]
    <2> HIDE DEF Op, A
    <2> QED
      BY <1>2
  <1>4. << >> \in A
    OBVIOUS
  <1>5. PICK g \in [SUBSET (1..n) -> A] :
          \A s \in SUBSET (1..n) :
            g[s] = IF s = {} THEN << >> ELSE F[<<Max(s), g[s \ {Max(s)}]>>]
    <2> HIDE DEF F, A
    <2> QED
      <3>1. HasFold(n, A, << >>, F)
        BY <1>3, <1>4, FoldExists
      <3> QED
        BY <3>1, Zenon DEF HasFold
  <1>6. g = It(g)
    <2> HIDE DEF Op, A
    <2>1. ASSUME NEW s \in SUBSET (1..n), s # {}
          PROVE  g[s] = Op(g[s \ {Max(s)}], events[Max(s)])
      <3>1. Max(s) \in 1..n
        BY <2>1, MaxOf
      <3>2. g[s \ {Max(s)}] \in A
        OBVIOUS
      <3>3. F[<<Max(s), g[s \ {Max(s)}]>>] = Op(g[s \ {Max(s)}], events[Max(s)])
        BY <3>1, <3>2
      <3> QED
        BY <1>5, <2>1, <3>3
    <2> HIDE DEF F
    <2>2. \A s \in SUBSET (1..n) :
            g[s] = IF s = {} THEN << >> ELSE Op(g[s \ {Max(s)}], events[Max(s)])
      BY <1>5, <2>1
    <2> QED
      BY <2>2
  <1>7. PICK f : f = (CHOOSE x : x = It(x))
    OBVIOUS
  <1>8. f = It(f)
    <2> HIDE DEF It
    <2> QED
      BY <1>6, <1>7
  <1>a. ASSUME NEW s \in SUBSET (1..n), s # {}
        PROVE  f[s] = Op(f[s \ {Max(s)}], events[Max(s)])
    <2> HIDE DEF Op
    <2> QED
      BY <1>a, <1>8
  <1>9. LatestOf(events)[voter] = f[1..n][1]
    BY <1>7 DEF LatestOf, FoldLeft, MapThenFoldSet
  <1> DEFINE h == [k \in 0..n |-> f[1..k]]
  <1>10. h[0] = << >>
    BY <1>8
  <1>11. ASSUME NEW k \in 1..n
         PROVE  h[k] = Op(h[k - 1], events[k])
    <2> HIDE DEF Op
    <2>1. Max(1..k) = k /\ (1..k) \ {k} = 1..(k - 1) /\ k - 1 \in 0..n
      BY MaxOfFirst
    <2>a. 1..k \in SUBSET (1..n) /\ 1..k # {}
      <3>1. k \in 1..k /\ \A j \in 1..k : j \in 1..n
        OBVIOUS
      <3> QED
        BY <3>1, Zenon
    <2>2. f[1..k] = Op(f[(1..k) \ {Max(1..k)}], events[Max(1..k)])
      BY <1>a, <2>a
    <2>3. h[k] = f[1..k] /\ h[k - 1] = f[1..(k - 1)]
      BY <2>1
    <2> HIDE DEF h
    <2> QED
      BY <2>1, <2>2, <2>3
  <1>12. h[n] = f[1..n]
    OBVIOUS
  <1> HIDE DEF h
  <1>13. LatestSteps(events, n, voter, h)
    BY <1>9, <1>10, <1>11, <1>12 DEF LatestSteps
  <1> QED
    BY <1>13, Zenon

-----------------------------------------------------------------------------
(* What the selections are *)

\* events[i] is the first of the latest of a voter.
IsLatest(events, n, voter, i) ==
    /\ events[i].pubkey = voter /\ LatestOf(events)[voter] = events[i]
    /\ \A j \in 1..n : events[j].pubkey = voter =>
         /\ events[j].createdAt <= events[i].createdAt
         /\ j < i => events[j].createdAt < events[i].createdAt

\* What LatestOf gives of each voter.
LEMMA LatestIs ==
    ASSUME NEW events \in Seq(Responses), NEW n \in Nat, DOMAIN events = 1..n,
           NEW voter \in {events[i].pubkey : i \in DOMAIN events}
    PROVE  \E i \in 1..n : IsLatest(events, n, voter, i)
  <1>0. \A i \in 1..n : events[i].createdAt \in Int
    <2>1. \A i \in 1..n : events[i] \in Responses
      OBVIOUS
    <2> QED
      BY <2>1 DEF Responses
  <1>a. PICK h : LatestSteps(events, n, voter, h)
    BY LatestFold
  <1>1. /\ h[0] = << >> /\ LatestOf(events)[voter] = h[n][1]
        /\ \A k \in 1..n :
             h[k] = IF /\ events[k].pubkey = voter
                       /\ (h[k - 1] = << >> \/ events[k].createdAt > h[k - 1][1].createdAt)
                    THEN <<events[k]>> ELSE h[k - 1]
    BY <1>a DEF LatestSteps
  <1> DEFINE LeadsFrom(i, k) ==
               /\ events[i].pubkey = voter
               /\ \A j \in 1..k : events[j].pubkey = voter =>
                    /\ events[j].createdAt <= events[i].createdAt
                    /\ j < i => events[j].createdAt < events[i].createdAt
             I == {k \in 0..n :
                     \/ h[k] = << >> /\ \A j \in 1..k : events[j].pubkey # voter
                     \/ \E i \in 1..k : h[k] = <<events[i]>> /\ LeadsFrom(i, k)}
  <1>2. 0 \in I
    BY <1>1
  <1>3. ASSUME NEW m \in 0..(n - 1), m \in I
        PROVE  m + 1 \in I
    <2>1. PICK k : k = m + 1
      OBVIOUS
    <2>2. k \in 1..n /\ k - 1 = m /\ \A j \in 1..k : j = k \/ j \in 1..m
      BY <2>1
    <2>3. h[k] = IF /\ events[k].pubkey = voter
                    /\ (h[m] = << >> \/ events[k].createdAt > h[m][1].createdAt)
                 THEN <<events[k]>> ELSE h[m]
      BY <1>1, <2>2
    <2>4. CASE h[m] = << >> /\ \A j \in 1..m : events[j].pubkey # voter
      <3>1. CASE events[k].pubkey = voter
        <4>1. h[k] = <<events[k]>>
          BY <2>3, <2>4, <3>1
        <4>2. LeadsFrom(k, k) /\ k \in 1..k
          BY <1>0, <2>2, <2>4, <3>1
        <4> QED
          BY <2>1, <2>2, <4>1, <4>2
      <3>2. CASE events[k].pubkey # voter
        <4>1. h[k] = << >> /\ \A j \in 1..k : events[j].pubkey # voter
          BY <2>2, <2>3, <2>4, <3>2
        <4> QED
          BY <2>1, <2>2, <4>1
      <3> QED
        BY <3>1, <3>2
    <2>5. CASE \E i \in 1..m : h[m] = <<events[i]>> /\ LeadsFrom(i, m)
      <3>1. PICK i \in 1..m : h[m] = <<events[i]>> /\ LeadsFrom(i, m)
        BY <2>5
      <3>2. h[m] # << >> /\ h[m][1] = events[i] /\ i \in 1..k /\ i \in 1..n /\ i < k
        BY <2>2, <3>1
      <3>3. CASE events[k].pubkey = voter /\ events[k].createdAt > events[i].createdAt
        <4>1. h[k] = <<events[k]>>
          BY <2>3, <3>2, <3>3
        <4>2. LeadsFrom(k, k) /\ k \in 1..k
          <5>1. ASSUME NEW j \in 1..m, events[j].pubkey = voter
                PROVE  events[j].createdAt < events[k].createdAt
            <6>1. events[j].createdAt <= events[i].createdAt
              BY <3>1, <5>1
            <6>2. j \in 1..n
              BY <2>2
            <6> QED
              BY <1>0, <2>2, <3>2, <3>3, <6>1, <6>2
          <5>2. events[k].createdAt <= events[k].createdAt /\ ~(k < k) /\ k \in 1..k
            BY <1>0, <2>2
          <5>3. \A j \in 1..m : events[j].createdAt \in Int /\ j \in 1..n
            BY <1>0, <2>2
          <5>4. events[k].createdAt \in Int
            BY <1>0, <2>2
          <5> QED
            BY <2>2, <3>3, <5>1, <5>2, <5>3, <5>4
        <4> QED
          BY <2>1, <2>2, <4>1, <4>2
      <3>4. CASE ~(events[k].pubkey = voter /\ events[k].createdAt > events[i].createdAt)
        <4>1. h[k] = <<events[i]>>
          BY <2>3, <3>1, <3>2, <3>4
        <4>2. events[k].createdAt \in Int /\ events[i].createdAt \in Int
          BY <1>0, <2>2, <3>2
        <4>3. events[k].pubkey = voter => events[k].createdAt <= events[i].createdAt
          BY <3>4, <4>2
        <4>4. LeadsFrom(i, k)
          BY <2>2, <3>1, <3>2, <4>3
        <4> QED
          BY <2>1, <2>2, <3>2, <4>1, <4>4
      <3> QED
        BY <3>3, <3>4
    <2> QED
      BY <1>3, <2>4, <2>5
  <1>4. n \in I
    <2> HIDE DEF I
    <2> QED
      BY <1>2, <1>3, Reaches
  <1>5. PICK i0 \in 1..n : events[i0].pubkey = voter
    OBVIOUS
  <1>6. PICK i \in 1..n : h[n] = <<events[i]>> /\ LeadsFrom(i, n)
    BY <1>4, <1>5
  <1> QED
    BY <1>1, <1>6 DEF IsLatest

\* A response counts that came before the end of the poll.
InTime(p, e) == p.until # NoEnd => e.createdAt <= p.until

\* Within keeps the responses that are in time.
LEMMA WithinIs ==
    ASSUME NEW p, NEW events \in Seq(Responses)
    PROVE  /\ Within(p, events) \in Seq(Responses)
           /\ ToSet(Within(p, events)) = {e \in ToSet(events) : InTime(p, e)}
  <1>1. PICK n \in Nat : DOMAIN events = 1..n
    OBVIOUS
  <1>a. PICK h : WithinSteps(p, events, n, h)
    BY <1>1, WithinFold
  <1>2. /\ h[0] = << >> /\ h[n] = Within(p, events)
        /\ \A k \in 1..n : h[k] = IF p.until # NoEnd => events[k].createdAt <= p.until
                                 THEN Append(h[k - 1], events[k]) ELSE h[k - 1]
    BY <1>a DEF WithinSteps
  <1> DEFINE Good(s, k) ==
               /\ s \in Seq(Responses)
               /\ \A i \in DOMAIN s : \E j \in 1..k : s[i] = events[j] /\ InTime(p, events[j])
               /\ \A j \in 1..k : InTime(p, events[j]) => \E i \in DOMAIN s : s[i] = events[j]
             I == {k \in 0..n : Good(h[k], k)}
  <1>3. 0 \in I
    <2>1. Good(<< >>, 0) /\ 0 \in 0..n
      OBVIOUS
    <2> QED
      BY <1>2, <2>1
  <1>4. ASSUME NEW m \in 0..(n - 1), m \in I
        PROVE  m + 1 \in I
    <2>1. PICK k : k = m + 1
      OBVIOUS
    <2>2. k \in 1..n /\ k - 1 = m /\ 1..k = (1..m) \union {k}
      BY <2>1
    <2>3. PICK s : s = h[m]
      OBVIOUS
    <2>4. Good(s, m)
      BY <1>4, <2>3
    <2>5. PICK e : e = events[k]
      OBVIOUS
    <2>6. e \in Responses
      BY <1>1, <2>2, <2>5
    <2>7. CASE InTime(p, e)
      <3>1. PICK t : t = Append(s, e)
        OBVIOUS
      <3>2. PICK l \in Nat : DOMAIN s = 1..l /\ Len(s) = l
        BY <2>4
      <3>3. t \in Seq(Responses) /\ DOMAIN t = 1..(l + 1) /\ t[l + 1] = e
            /\ \A i \in 1..l : t[i] = s[i]
        BY <2>4, <2>6, <3>1, <3>2
      <3>4. ASSUME NEW i \in DOMAIN t
            PROVE  \E j \in 1..k : t[i] = events[j] /\ InTime(p, events[j])
        <4>1. CASE i = l + 1
          BY <2>2, <2>5, <2>7, <3>3, <4>1
        <4>2. CASE i \in 1..l
          BY <2>2, <2>4, <3>2, <3>3, <4>2
        <4> QED
          BY <3>2, <3>3, <4>1, <4>2
      <3>5. ASSUME NEW j \in 1..k, InTime(p, events[j])
            PROVE  \E i \in DOMAIN t : t[i] = events[j]
        <4>1. CASE j = k
          BY <2>5, <3>2, <3>3, <4>1
        <4>2. CASE j \in 1..m
          <5>1. PICK i \in DOMAIN s : s[i] = events[j]
            BY <2>4, <3>5, <4>2
          <5> QED
            BY <3>2, <3>3, <5>1
        <4> QED
          BY <2>2, <4>1, <4>2
      <3>6. h[k] = t
        BY <1>2, <2>2, <2>3, <2>5, <2>7, <3>1 DEF InTime
      <3>7. Good(h[k], k)
        BY <3>3, <3>4, <3>5, <3>6
      <3> QED
        BY <2>1, <2>2, <3>7
    <2>8. CASE ~InTime(p, e)
      <3>1. h[k] = s
        BY <1>2, <2>2, <2>3, <2>5, <2>8 DEF InTime
      <3>2. Good(s, k)
        BY <2>2, <2>4, <2>5, <2>8
      <3>3. Good(h[k], k)
        BY <3>1, <3>2
      <3> QED
        BY <2>1, <2>2, <3>3
    <2> QED
      BY <2>7, <2>8
  <1>5. n \in I
    <2> HIDE DEF I
    <2> QED
      BY <1>3, <1>4, Reaches
  <1>6. Good(Within(p, events), n)
    BY <1>2, <1>5
  <1>7. Within(p, events) \in Seq(Responses)
    BY <1>6
  <1>8. ASSUME NEW e
        PROVE  e \in ToSet(Within(p, events)) <=> e \in {x \in ToSet(events) : InTime(p, x)}
    <2>1. ASSUME e \in ToSet(Within(p, events))
          PROVE  e \in ToSet(events) /\ InTime(p, e)
      <3>1. PICK i \in DOMAIN Within(p, events) : e = Within(p, events)[i]
        BY <2>1 DEF ToSet
      <3>2. PICK j \in 1..n : e = events[j] /\ InTime(p, events[j])
        BY <1>6, <3>1
      <3> QED
        BY <1>1, <3>2 DEF ToSet
    <2>2. ASSUME e \in ToSet(events), InTime(p, e)
          PROVE  e \in ToSet(Within(p, events))
      <3>1. PICK j \in 1..n : e = events[j]
        BY <1>1, <2>2 DEF ToSet
      <3>2. PICK i \in DOMAIN Within(p, events) : e = Within(p, events)[i]
        BY <1>6, <2>2, <3>1
      <3> QED
        BY <3>2 DEF ToSet
    <2> QED
      BY <2>1, <2>2
  <1>9. ToSet(Within(p, events)) = {x \in ToSet(events) : InTime(p, x)}
    BY <1>8, Zenon
  <1> QED
    BY <1>7, <1>9

\* Each event once, in the order in which they first came.
FirstOfEach(events, n, kept, l, pos) ==
    /\ kept \in Seq(Responses) /\ DOMAIN kept = 1..l
    /\ \A i \in 1..l : kept[i] = events[pos[i]]
    /\ \A i, j \in 1..l : i < j => pos[i] < pos[j]
    /\ \A j \in 1..n : \E i \in 1..l : kept[i] = events[j] /\ pos[i] <= j

\* DeduplicateEvents keeps the first of each event, in order.
LEMMA DedupIs ==
    ASSUME NEW events \in Seq(Responses), NEW n \in Nat, DOMAIN events = 1..n
    PROVE  \E l \in Nat : \E pos \in [1..l -> 1..n] :
             FirstOfEach(events, n, DeduplicateEvents(events), l, pos)
  <1>a. PICK h : DedupSteps(events, n, h)
    BY DedupFold
  <1>2. /\ h[0] = << >> /\ h[n] = DeduplicateEvents(events)
        /\ \A k \in 1..n : h[k] = IF Contains(h[k - 1], events[k]) THEN h[k - 1]
                                 ELSE Append(h[k - 1], events[k])
    BY <1>a DEF DedupSteps
  <1> DEFINE Good(s, k, l, pos) ==
               /\ s \in Seq(Responses) /\ DOMAIN s = 1..l
               /\ \A i \in 1..l : s[i] = events[pos[i]]
               /\ \A i, j \in 1..l : i < j => pos[i] < pos[j]
               /\ \A j \in 1..k : \E i \in 1..l : s[i] = events[j] /\ pos[i] <= j
             I == {k \in 0..n : \E l \in Nat : \E pos \in [1..l -> 1..k] : Good(h[k], k, l, pos)}
  <1>3. 0 \in I
    <2>1. [i \in 1..0 |-> 0] \in [1..0 -> 1..0]
      OBVIOUS
    <2>2. Good(h[0], 0, 0, [i \in 1..0 |-> 0])
      BY <1>2
    <2>3. 0 \in 0..n /\ 0 \in Nat
      OBVIOUS
    <2> HIDE DEF Good
    <2> QED
      BY <2>1, <2>2, <2>3
  <1>4. ASSUME NEW m \in 0..(n - 1), m \in I
        PROVE  m + 1 \in I
    <2>1. PICK k : k = m + 1
      OBVIOUS
    <2>2. k \in 1..n /\ k - 1 = m /\ 1..k = (1..m) \union {k} /\ \A j \in 1..m : j < k /\ j \in 1..k
      BY <2>1
    <2>3. PICK s : s = h[m]
      OBVIOUS
    <2>a. PICK l \in Nat : \E pos \in [1..l -> 1..m] : Good(s, m, l, pos)
      BY <1>4, <2>3
    <2>4. PICK pos \in [1..l -> 1..m] : Good(s, m, l, pos)
      BY <2>a
    <2>5. PICK e : e = events[k]
      OBVIOUS
    <2>6. e \in Responses
      BY <2>2, <2>5
    <2>7. Len(s) = l
      BY <2>4
    <2>8. CASE Contains(s, e)
      <3>1. h[k] = s
        BY <1>2, <2>2, <2>3, <2>5, <2>8
      <3>2. pos \in [1..l -> 1..k]
        BY <2>2
      <3>3. PICK i \in 1..l : s[i] = e
        BY <2>7, <2>8 DEF Contains
      <3>4. pos[i] \in 1..m /\ pos[i] <= k
        BY <2>2
      <3>5. Good(s, k, l, pos)
        <4>1. ASSUME NEW j \in 1..k
              PROVE  \E ii \in 1..l : s[ii] = events[j] /\ pos[ii] <= j
          BY <2>2, <2>4, <2>5, <3>3, <3>4
        <4> QED
          BY <2>4, <4>1
      <3> HIDE DEF Good
      <3>6. \E ll \in Nat : \E po \in [1..ll -> 1..k] : Good(h[k], k, ll, po)
        BY <3>1, <3>2, <3>5
      <3> QED
        BY <2>1, <2>2, <3>6
    <2>9. CASE ~Contains(s, e)
      <3>1. PICK t : t = Append(s, e)
        OBVIOUS
      <3>2. h[k] = t
        BY <1>2, <2>2, <2>3, <2>5, <2>9, <3>1
      <3>3. PICK q : q = l + 1
        OBVIOUS
      <3>4. q \in Nat /\ 1..q = (1..l) \union {q} /\ q \notin 1..l /\ \A i \in 1..l : i < q
        BY <3>3
      <3>5. t \in Seq(Responses) /\ DOMAIN t = 1..q /\ t[q] = e
            /\ \A i \in 1..l : t[i] = s[i]
        BY <2>4, <2>6, <2>7, <3>1, <3>3
      <3> DEFINE po == [i \in 1..q |-> IF i = q THEN k ELSE pos[i]]
      <3>6. po \in [1..q -> 1..k] /\ po[q] = k /\ \A i \in 1..l : po[i] = pos[i] /\ pos[i] \in 1..m
        BY <2>2, <3>4
      <3> HIDE DEF po
      <3>7. \A i \in 1..q : t[i] = events[po[i]]
        BY <2>4, <2>5, <3>4, <3>5, <3>6
      <3>8. ASSUME NEW i \in 1..q, NEW j \in 1..q, i < j
            PROVE  po[i] < po[j]
        <4>0. q \in Nat
          BY <3>4
        <4>a. i # q
          BY <3>8, <4>0
        <4>1. i # q /\ i \in 1..l
          BY <3>4, <4>a
        <4>2. po[i] = pos[i] /\ pos[i] \in 1..m
          BY <3>6, <4>1
        <4>3. pos[i] < k
          BY <2>2, <4>2
        <4> QED
          <5>1. CASE j = q
            BY <3>6, <4>2, <4>3, <5>1
          <5>2. CASE j \in 1..l
            BY <2>4, <3>6, <3>8, <4>1, <4>2, <5>2
          <5> QED
            BY <3>4, <5>1, <5>2
      <3>9. ASSUME NEW j \in 1..k
            PROVE  \E i \in 1..q : t[i] = events[j] /\ po[i] <= j
        <4>1. CASE j = k
          <5>1. q \in 1..q /\ t[q] = events[j] /\ po[q] = j /\ j \in Int
            <6>1. k \in Int
              BY <2>2
            <6>2. q \in 1..q
              BY <3>4, Zenon
            <6> QED
              BY <2>5, <3>5, <3>6, <4>1, <6>1, <6>2
          <5>2. po[q] <= j
            BY <5>1
          <5> QED
            BY <5>1, <5>2
        <4>2. CASE j \in 1..m
          <5>1. PICK i \in 1..l : s[i] = events[j] /\ pos[i] <= j
            BY <2>4, <4>2
          <5> QED
            BY <3>4, <3>5, <3>6, <5>1
        <4> QED
          BY <2>2, <4>1, <4>2
      <3>10. Good(t, k, q, po)
        BY <3>5, <3>7, <3>8, <3>9
      <3> HIDE DEF Good
      <3>11. \E ll \in Nat : \E po2 \in [1..ll -> 1..k] : Good(h[k], k, ll, po2)
        BY <3>2, <3>4, <3>6, <3>10
      <3> QED
        BY <2>1, <2>2, <3>11
    <2> QED
      BY <2>8, <2>9
  <1>5. n \in I
    <2> HIDE DEF I
    <2> QED
      BY <1>3, <1>4, Reaches
  <1>6. PICK l \in Nat : \E pos \in [1..l -> 1..n] : Good(DeduplicateEvents(events), n, l, pos)
    <2> HIDE DEF Good
    <2> QED
      BY <1>2, <1>5
  <1>7. PICK pos \in [1..l -> 1..n] : Good(DeduplicateEvents(events), n, l, pos)
    BY <1>6
  <1>8. FirstOfEach(events, n, DeduplicateEvents(events), l, pos)
    BY <1>7 DEF FirstOfEach
  <1> QED
    BY <1>8, Zenon

\* What the relays sent are responses.
Arrivals == arrived \in Seq(Responses)

\* Repetitions do not change what is latest.
LEMMA LatestSame ==
    ASSUME NEW events \in Seq(Responses)
    PROVE  GetLatestReplaceable(DeduplicateEvents(events)) = GetLatestReplaceable(events)
  <1>1. PICK n \in Nat : DOMAIN events = 1..n
    OBVIOUS
  <1>2. PICK d : d = DeduplicateEvents(events)
    OBVIOUS
  <1>3. PICK l \in Nat : \E pos \in [1..l -> 1..n] : FirstOfEach(events, n, d, l, pos)
    BY <1>1, <1>2, DedupIs
  <1>a. PICK pos \in [1..l -> 1..n] : FirstOfEach(events, n, d, l, pos)
    BY <1>3
  <1>4. /\ d \in Seq(Responses) /\ DOMAIN d = 1..l
        /\ \A i \in 1..l : d[i] = events[pos[i]] /\ pos[i] \in 1..n
        /\ \A i, j \in 1..l : i < j => pos[i] < pos[j]
        /\ \A j \in 1..n : \E i \in 1..l : d[i] = events[j] /\ pos[i] <= j
    BY <1>a DEF FirstOfEach
  <1>5. {d[i].pubkey : i \in DOMAIN d} = {events[i].pubkey : i \in DOMAIN events}
    <2>1. \A i \in 1..l : \E j \in 1..n : d[i] = events[j]
      BY <1>4
    <2>2. \A j \in 1..n : \E i \in 1..l : d[i] = events[j]
      BY <1>4
    <2>3. ASSUME NEW x
          PROVE  x \in {d[i].pubkey : i \in DOMAIN d} <=> x \in {events[i].pubkey : i \in DOMAIN events}
      <3>1. ASSUME x \in {d[i].pubkey : i \in DOMAIN d}
            PROVE  x \in {events[i].pubkey : i \in DOMAIN events}
        <4>1. PICK i \in 1..l : x = d[i].pubkey
          BY <1>4, <3>1
        <4>2. PICK j \in 1..n : d[i] = events[j]
          BY <2>1
        <4> QED
          BY <1>1, <4>1, <4>2
      <3>2. ASSUME x \in {events[i].pubkey : i \in DOMAIN events}
            PROVE  x \in {d[i].pubkey : i \in DOMAIN d}
        <4>1. PICK j \in 1..n : x = events[j].pubkey
          BY <1>1, <3>2
        <4>2. PICK i \in 1..l : d[i] = events[j]
          BY <2>2
        <4> QED
          BY <1>4, <4>1, <4>2
      <3> QED
        BY <3>1, <3>2
    <2> QED
      BY <2>3, Zenon
  <1>6. ASSUME NEW voter \in {events[i].pubkey : i \in DOMAIN events}
        PROVE  LatestOf(d)[voter] = LatestOf(events)[voter]
    <2>a. PICK a \in 1..n : IsLatest(events, n, voter, a)
      BY <1>1, LatestIs
    <2>1. /\ events[a].pubkey = voter /\ LatestOf(events)[voter] = events[a]
          /\ \A j \in 1..n : events[j].pubkey = voter =>
                  /\ events[j].createdAt <= events[a].createdAt
                  /\ j < a => events[j].createdAt < events[a].createdAt
      BY <2>a DEF IsLatest
    <2>b. PICK b \in 1..l : IsLatest(d, l, voter, b)
      <3>1. voter \in {d[i].pubkey : i \in DOMAIN d}
        BY <1>5
      <3> QED
        BY <3>1, <1>4, LatestIs
    <2>2. /\ d[b].pubkey = voter /\ LatestOf(d)[voter] = d[b]
          /\ \A j \in 1..l : d[j].pubkey = voter =>
                  /\ d[j].createdAt <= d[b].createdAt
                  /\ j < b => d[j].createdAt < d[b].createdAt
      BY <2>b DEF IsLatest
    <2>3. PICK c \in 1..l : d[c] = events[a] /\ pos[c] <= a
      BY <1>4
    <2>4. pos[b] \in 1..n /\ pos[c] \in 1..n /\ d[b] = events[pos[b]] /\ d[c] = events[pos[c]]
      BY <1>4
    <2>5. \A i \in 1..n : events[i].createdAt \in Int
      <3>1. \A i \in 1..n : events[i] \in Responses
        BY <1>1
      <3> QED
        BY <3>1 DEF Responses
    <2>6. PICK x \in 1..n, y \in 1..n : x = pos[b] /\ y = pos[c]
      BY <2>4
    <2>7. events[x].pubkey = voter /\ events[y] = events[a]
      BY <2>2, <2>3, <2>4, <2>6
    <2>8. events[a].createdAt <= events[x].createdAt
      BY <2>1, <2>2, <2>3, <2>4, <2>6
    <2>9. ~(x < a) /\ ~(y < a) /\ y <= a
      <3>1. PICK p, q : p = events[x].createdAt /\ q = events[a].createdAt
        OBVIOUS
      <3>2. p \in Int /\ q \in Int /\ q <= p /\ events[y].createdAt = q
        BY <2>5, <2>7, <2>8, <3>1
      <3>3. x < a => p < q
        BY <2>1, <2>7, <3>1
      <3>4. y < a => q < q
        BY <2>1, <2>7, <3>1, <3>2
      <3>5. y <= a
        BY <2>3, <2>6
      <3> QED
        BY <3>2, <3>3, <3>4, <3>5
    <2>10. y = a
      BY <2>9
    <2>11. events[x].createdAt <= events[a].createdAt
      BY <2>1, <2>7
    <2>12. ~(c < b)
      <3>1. c < b => d[c].createdAt < d[b].createdAt
        BY <2>1, <2>2, <2>3
      <3> QED
        BY <2>3, <2>4, <2>5, <2>6, <2>11, <3>1
    <2>13. b = c \/ x < y
      BY <1>4, <2>6, <2>12
    <2>14. x = y
      BY <2>6, <2>9, <2>10, <2>13
    <2> QED
      BY <2>1, <2>2, <2>4, <2>6, <2>7, <2>14
  <1>7. DOMAIN LatestOf(d) = {d[i].pubkey : i \in DOMAIN d}
        /\ DOMAIN LatestOf(events) = {events[i].pubkey : i \in DOMAIN events}
        /\ LatestOf(d) = [v \in DOMAIN LatestOf(d) |-> LatestOf(d)[v]]
        /\ LatestOf(events) = [v \in DOMAIN LatestOf(events) |-> LatestOf(events)[v]]
    BY Zenon DEF LatestOf
  <1>8. LatestOf(d) = LatestOf(events)
    <2>1. PICK f, g : f = LatestOf(d) /\ g = LatestOf(events)
      OBVIOUS
    <2>2. DOMAIN f = DOMAIN g /\ \A v \in DOMAIN g : f[v] = g[v]
      BY <1>5, <1>6, <1>7, <2>1
    <2>3. f = [v \in DOMAIN f |-> f[v]] /\ g = [v \in DOMAIN g |-> g[v]]
      BY <1>7, <2>1
    <2>4. f = g
      BY <2>2, <2>3
    <2> QED
      BY <2>1, <2>4
  <1> QED
    BY <1>2, <1>8 DEF GetLatestReplaceable

\* The count of an option, by the responses and not by their order.
LEMMA CountIs ==
    ASSUME Arrivals, NoTies, NEW o \in Options
    PROVE  CountResults(poll, arrived)[o] =
             Cardinality({v \in Voters : \E e \in ToSet(arrived) :
                 /\ e.pubkey = v /\ (poll.until # NoEnd => e.createdAt <= poll.until)
                 /\ \A f \in ToSet(arrived) :
                      (f.pubkey = v /\ (poll.until # NoEnd => f.createdAt <= poll.until)) =>
                          f.createdAt <= e.createdAt
                 /\ o \in Chosen(poll, e)})
  <1>1. PICK w : w = Within(poll, arrived)
    OBVIOUS
  <1>2. w \in Seq(Responses) /\ ToSet(w) = {e \in ToSet(arrived) : InTime(poll, e)}
    BY <1>1, WithinIs DEF Arrivals
  <1>3. PICK n \in Nat : DOMAIN w = 1..n
    BY <1>2
  <1>4. PICK latest : latest = LatestOf(w)
    OBVIOUS
  <1>5. DOMAIN latest = {w[i].pubkey : i \in DOMAIN w}
    BY <1>4 DEF LatestOf
  <1>6. \A i \in 1..n : w[i] \in ToSet(w) /\ w[i] \in Responses
    BY <1>2, <1>3 DEF ToSet
  <1>7. \A e \in ToSet(w) : \E i \in 1..n : e = w[i]
    BY <1>3 DEF ToSet
  <1>8. \A e, f \in ToSet(arrived) : (e.pubkey = f.pubkey /\ e.createdAt = f.createdAt) => e = f
    BY DEF NoTies, ToSet
  <1>9. \A e \in ToSet(w) : e \in Responses /\ e.pubkey \in Voters /\ e.createdAt \in Int
    BY <1>6, <1>7 DEF Responses
  <1>10. ASSUME NEW v \in DOMAIN latest
         PROVE  /\ latest[v] \in ToSet(w) /\ latest[v].pubkey = v
                /\ \A f \in ToSet(w) : f.pubkey = v => f.createdAt <= latest[v].createdAt
    <2>1. v \in {w[i].pubkey : i \in DOMAIN w}
      BY <1>5
    <2>2. PICK a \in 1..n : IsLatest(w, n, v, a)
      BY <1>2, <1>3, <2>1, LatestIs
    <2> QED
      BY <1>4, <1>6, <1>7, <2>2 DEF IsLatest
  <1> DEFINE Best(v, e) ==
               /\ e.pubkey = v
               /\ \A f \in ToSet(w) : f.pubkey = v => f.createdAt <= e.createdAt
  <1>11. ASSUME NEW v
         PROVE  v \in {x \in DOMAIN latest : o \in Chosen(poll, latest[x])} <=>
                v \in {x \in Voters : \E e \in ToSet(w) : Best(x, e) /\ o \in Chosen(poll, e)}
    <2>1. ASSUME v \in DOMAIN latest, o \in Chosen(poll, latest[v])
          PROVE  v \in Voters /\ \E e \in ToSet(w) : Best(v, e) /\ o \in Chosen(poll, e)
      BY <1>9, <1>10, <2>1
    <2>2. ASSUME NEW e \in ToSet(w), Best(v, e), o \in Chosen(poll, e)
          PROVE  v \in DOMAIN latest /\ o \in Chosen(poll, latest[v])
      <3>1. v \in DOMAIN latest
        BY <1>3, <1>5, <1>7, <2>2
      <3>2. latest[v] \in ToSet(w) /\ latest[v].pubkey = v /\ e.createdAt <= latest[v].createdAt
            /\ latest[v].createdAt <= e.createdAt
        BY <1>10, <2>2, <3>1
      <3>3. PICK g : g = latest[v]
        OBVIOUS
      <3>4. g.createdAt \in Int /\ e.createdAt \in Int
        BY <1>9, <3>2, <3>3
      <3>5. g.createdAt = e.createdAt
        BY <3>2, <3>3, <3>4
      <3>6. g \in ToSet(arrived) /\ e \in ToSet(arrived) /\ g.pubkey = e.pubkey
        BY <1>2, <2>2, <3>2, <3>3
      <3>7. g = e
        BY <1>8, <3>5, <3>6
      <3> QED
        BY <2>2, <3>1, <3>3, <3>7
    <2> HIDE DEF Best
    <2> QED
      BY <2>1, <2>2
  <1>12. {x \in DOMAIN latest : o \in Chosen(poll, latest[x])} =
         {x \in Voters : \E e \in ToSet(w) : Best(x, e) /\ o \in Chosen(poll, e)}
    BY <1>11, Zenon
  <1>13. CountResults(poll, arrived)[o] =
         Cardinality({x \in DOMAIN latest : o \in Chosen(poll, latest[x])})
    BY <1>1, <1>4 DEF CountResults
  <1>14. ASSUME NEW x
         PROVE  (\E e \in ToSet(w) : Best(x, e) /\ o \in Chosen(poll, e)) <=>
                \E e \in ToSet(arrived) :
                 /\ e.pubkey = x /\ (poll.until # NoEnd => e.createdAt <= poll.until)
                 /\ \A f \in ToSet(arrived) :
                      (f.pubkey = x /\ (poll.until # NoEnd => f.createdAt <= poll.until)) =>
                          f.createdAt <= e.createdAt
                 /\ o \in Chosen(poll, e)
    BY <1>2 DEF InTime
  <1>15. {x \in Voters : \E e \in ToSet(w) : Best(x, e) /\ o \in Chosen(poll, e)} =
         {v \in Voters : \E e \in ToSet(arrived) :
                 /\ e.pubkey = v /\ (poll.until # NoEnd => e.createdAt <= poll.until)
                 /\ \A f \in ToSet(arrived) :
                      (f.pubkey = v /\ (poll.until # NoEnd => f.createdAt <= poll.until)) =>
                          f.createdAt <= e.createdAt
                 /\ o \in Chosen(poll, e)}
    <2> HIDE DEF Best
    <2> QED
      BY <1>14, Zenon
  <1> HIDE DEF Best
  <1> QED
    BY <1>12, <1>13, <1>15

\* Both properties of the responses.
LEMMA VotesFree ==
    ASSUME Arrivals
    PROVE  CountIsOrderFree /\ LatestOfDistinct
  <1>1. LatestOfDistinct
    BY LatestSame DEF LatestOfDistinct, Arrivals
  <1>2. CountIsOrderFree
    BY CountIs DEF CountIsOrderFree
  <1> QED
    BY <1>1, <1>2

\* Every step keeps what came a sequence of responses.
LEMMA SelectArrivals ==
    /\ SelectInit => Arrivals
    /\ Arrivals /\ SelectNext => Arrivals'
    /\ Arrivals /\ UNCHANGED selectVars => Arrivals'
  <1>1. SelectInit => Arrivals
    BY DEF SelectInit, Arrivals
  <1>2. ASSUME Arrivals, NEW response \in Responses, ResponseArrives(response)
        PROVE  Arrivals'
    BY <1>2 DEF ResponseArrives, Arrivals
  <1>3. Arrivals /\ UNCHANGED selectVars => Arrivals'
    BY DEF Arrivals, selectVars
  <1> QED
    BY <1>1, <1>2, <1>3 DEF SelectNext

-----------------------------------------------------------------------------
(* Negentropy                                                                *)

-----------------------------------------------------------------------------
(* The order of items and bounds *)

\* compareUint8Array is a strict order: no bytes are before themselves.
LEMMA BytesIrreflexive ==
    ASSUME NEW a \in Seq(Nat)
    PROVE  ~BytesBefore(a, a)
  BY DEF BytesBefore

\* Before what is before is before.
LEMMA BytesTransitive ==
    ASSUME NEW a \in Seq(Nat), NEW b \in Seq(Nat), NEW c \in Seq(Nat),
           BytesBefore(a, b), BytesBefore(b, c)
    PROVE  BytesBefore(a, c)
  <1>1. PICK i \in DOMAIN b : /\ \A j \in 1..(i - 1) : j \in DOMAIN a /\ a[j] = b[j]
                              /\ i \in DOMAIN a => a[i] < b[i]
    BY DEF BytesBefore
  <1>2. PICK k \in DOMAIN c : /\ \A j \in 1..(k - 1) : j \in DOMAIN b /\ b[j] = c[j]
                              /\ k \in DOMAIN b => b[k] < c[k]
    BY DEF BytesBefore
  <1>l. PICK m \in Nat, n \in Nat : DOMAIN b = 1..m /\ DOMAIN c = 1..n
    OBVIOUS
  <1>3. i \in 1..m /\ k \in 1..n
    BY <1>l
  <1>4. CASE i < k
    <2>0. i \in 1..(k - 1) /\ i \in 1..n
      BY <1>3, <1>4, <1>l
    <2>1. i \in DOMAIN c /\ b[i] = c[i]
      BY <1>2, <1>l, <2>0
    <2>2. \A j \in 1..(i - 1) : j \in DOMAIN a /\ a[j] = c[j]
      BY <1>1, <1>2, <1>3, <1>4
    <2> QED
      BY <1>1, <2>1, <2>2 DEF BytesBefore
  <1>5. CASE i = k
    <2>1. \A j \in 1..(i - 1) : j \in DOMAIN a /\ a[j] = c[j]
      BY <1>1, <1>2, <1>5
    <2>2. i \in DOMAIN a => a[i] < c[i]
      BY <1>1, <1>2, <1>5
    <2> QED
      BY <1>5, <2>1, <2>2 DEF BytesBefore
  <1>6. CASE k < i
    <2>1. \A j \in 1..(k - 1) : j \in DOMAIN a /\ a[j] = c[j]
      <3>1. \A j \in 1..(k - 1) : j \in 1..(i - 1)
        BY <1>3, <1>6, <1>l
      <3> QED
        BY <1>1, <1>2, <3>1
    <2>2. k \in DOMAIN a /\ a[k] = b[k] /\ k \in DOMAIN b
      <3>1. k \in 1..(i - 1) /\ k \in 1..m
        BY <1>3, <1>6, <1>l
      <3> QED
        BY <1>1, <1>l, <3>1
    <2> QED
      BY <1>2, <2>1, <2>2 DEF BytesBefore
  <1> QED
    BY <1>3, <1>4, <1>5, <1>6

\* Of different bytes one is before the other.
LEMMA BytesTotal ==
    ASSUME NEW a \in Seq(Nat), NEW b \in Seq(Nat), a # b
    PROVE  BytesBefore(a, b) \/ BytesBefore(b, a)
  <1> DEFINE I == {i \in Nat \ {0} : ~(i \in DOMAIN a /\ i \in DOMAIN b /\ a[i] = b[i])}
  <1>1. PICK m \in Nat : Len(a) = m /\ DOMAIN a = 1..m
    OBVIOUS
  <1>2. PICK n \in Nat : Len(b) = n /\ DOMAIN b = 1..n
    OBVIOUS
  <1>3. m + 1 \in I
    BY <1>1
  <1>4. PICK i \in I : \A j \in I : i <= j
    <2>1. I \subseteq Nat /\ I # {}
      BY <1>3
    <2> HIDE DEF I
    <2> QED
      BY <2>1, LeastNumber
  <1>5. \A j \in 1..(i - 1) : j \in DOMAIN a /\ j \in DOMAIN b /\ a[j] = b[j]
    BY <1>4
  <1>6. CASE i \in DOMAIN b /\ (i \in DOMAIN a => a[i] < b[i])
    BY <1>5, <1>6 DEF BytesBefore
  <1>7. CASE i \in DOMAIN a /\ (i \in DOMAIN b => b[i] < a[i])
    BY <1>5, <1>7 DEF BytesBefore
  <1>8. CASE i \notin DOMAIN a /\ i \notin DOMAIN b
    <2>1. m = i - 1 /\ n = i - 1
      BY <1>1, <1>2, <1>5, <1>8
    <2>2. \A j \in 1..m : a[j] = b[j]
      BY <1>5, <2>1
    <2> QED
      BY <1>1, <1>2, <2>1, <2>2
  <1>9. i \in DOMAIN a /\ i \in DOMAIN b => a[i] \in Nat /\ b[i] \in Nat /\ a[i] # b[i]
    BY <1>4
  <1> QED
    BY <1>6, <1>7, <1>8, <1>9

\* The timestamps of bounds: those of items, and infinity; the first bound and the last.
Times == (0..(2 ^ (VarIntBits - 1) - 2)) \union {Infinity}
Bounds == [timestamp : Times, id : Seq(Nat)]
Start == Bound(0, << >>)
End == Bound(Infinity, << >>)

\* Infinity is after every timestamp.
LEMMA TimesAre ==
    ASSUME NegentropyAssumption
    PROVE  /\ Infinity \in Nat /\ Times \subseteq Nat /\ \A t \in Times : t <= Infinity
           /\ \A t \in Times : t # Infinity => t < Infinity
  <1>1. PICK h : h = 2 ^ (VarIntBits - 1)
    OBVIOUS
  <1>2. h \in Nat \ {0} /\ Infinity = 2 * h
    BY <1>1 DEF NegentropyAssumption, Infinity
  <1> QED
    BY <1>1, <1>2 DEF Times

\* An item is a bound, before the last one.
LEMMA ItemIsBound ==
    ASSUME NegentropyAssumption, NEW i \in Ids
    PROVE  /\ ItemOf(i) \in Bounds /\ Before(ItemOf(i), End)
           /\ ItemOf(i).timestamp = TimeOf[i] /\ ItemOf(i).id = BytesOf[i]
  <1>1. TimeOf[i] \in 0..(2 ^ (VarIntBits - 1) - 2) /\ BytesOf[i] \in Seq(Nat)
    <2>1. TimeOf \in [Ids -> 0..(2 ^ (VarIntBits - 1) - 2)]
      BY DEF NegentropyAssumption
    <2>2. BytesOf[i] \in Seq(Nat)
      BY DEF NegentropyAssumption
    <2> QED
      BY <2>1, <2>2
  <1>2. TimeOf[i] \in Times /\ TimeOf[i] < Infinity
    <2>1. PICK h : h = 2 ^ (VarIntBits - 1)
      OBVIOUS
    <2>2. h \in Nat \ {0} /\ Infinity = 2 * h /\ TimeOf[i] \in 0..(h - 2)
      BY <1>1, <2>1 DEF NegentropyAssumption, Infinity
    <2>3. TimeOf[i] < Infinity
      BY <2>2
    <2> QED
      BY <1>1, <2>3 DEF Times
  <1> QED
    BY <1>1, <1>2 DEF ItemOf, Bound, Bounds, Before, End

\* itemCompare is a strict order of bounds too.
LEMMA BeforeIrreflexive ==
    ASSUME NegentropyAssumption, NEW a \in Bounds
    PROVE  ~Before(a, a)
  <1>1. a.timestamp \in Nat /\ a.id \in Seq(Nat)
    BY TimesAre DEF Bounds
  <1> QED
    BY <1>1, BytesIrreflexive DEF Before

\* Before what is before is before, of bounds.
LEMMA BeforeTransitive ==
    ASSUME NegentropyAssumption, NEW a \in Bounds, NEW b \in Bounds, NEW c \in Bounds,
           Before(a, b), Before(b, c)
    PROVE  Before(a, c)
  <1>1. /\ a.timestamp \in Nat /\ a.id \in Seq(Nat) /\ b.timestamp \in Nat /\ b.id \in Seq(Nat)
        /\ c.timestamp \in Nat /\ c.id \in Seq(Nat)
    BY TimesAre DEF Bounds
  <1>2. BytesBefore(a.id, b.id) /\ BytesBefore(b.id, c.id) => BytesBefore(a.id, c.id)
    BY <1>1, BytesTransitive
  <1> QED
    BY <1>1, <1>2 DEF Before

\* Of different bounds one is before the other.
LEMMA BeforeTotal ==
    ASSUME NegentropyAssumption, NEW a \in Bounds, NEW b \in Bounds, a # b
    PROVE  Before(a, b) \/ Before(b, a)
  <1>1. a.timestamp \in Nat /\ a.id \in Seq(Nat) /\ b.timestamp \in Nat /\ b.id \in Seq(Nat)
    BY TimesAre DEF Bounds
  <1>2. a.timestamp = b.timestamp => a.id # b.id
    <2>1. a = [timestamp |-> a.timestamp, id |-> a.id] /\ b = [timestamp |-> b.timestamp, id |-> b.id]
      BY DEF Bounds
    <2> QED
      BY <2>1
  <1>3. a.id # b.id => BytesBefore(a.id, b.id) \/ BytesBefore(b.id, a.id)
    BY <1>1, BytesTotal
  <1> QED
    BY <1>1, <1>2, <1>3 DEF Before

\* What is not after b is before what is after b.
LEMMA BeforeThrough ==
    ASSUME NegentropyAssumption, NEW a \in Bounds, NEW b \in Bounds, NEW c \in Bounds
    PROVE  /\ Before(a, b) /\ ~Before(c, b) => Before(a, c)
           /\ ~Before(b, a) /\ Before(b, c) => Before(a, c)
           /\ ~Before(b, a) /\ ~Before(c, b) => ~Before(c, a)
  <1>1. Before(a, b) /\ ~Before(c, b) => Before(a, c)
    BY BeforeTotal, BeforeTransitive
  <1>2. ~Before(b, a) /\ Before(b, c) => Before(a, c)
    BY BeforeTotal, BeforeTransitive
  <1>3. ~Before(b, a) /\ ~Before(c, b) => ~Before(c, a)
    <2> SUFFICES ASSUME ~Before(b, a), ~Before(c, b), Before(c, a)
                 PROVE  FALSE
      OBVIOUS
    <2>1. Before(b, c) \/ b = c
      BY BeforeTotal
    <2> QED
      BY <2>1, BeforeTransitive
  <1> QED
    BY <1>1, <1>2, <1>3

\* No bound is before the first.
LEMMA NothingBeforeStart ==
    ASSUME NegentropyAssumption, NEW a \in Bounds
    PROVE  ~Before(a, Start) /\ Start \in Bounds
  <1>1. a.timestamp \in Nat /\ Start.timestamp = 0 /\ Start.id = << >>
    BY TimesAre DEF Bounds, Start, Bound
  <1>2. ~BytesBefore(a.id, << >>)
    BY DEF BytesBefore
  <1>3. ~Before(a, Start)
    BY <1>1, <1>2 DEF Before
  <1>4. 0 \in Times /\ << >> \in Seq(Nat)
    <2>1. PICK h : h = 2 ^ (VarIntBits - 1)
      OBVIOUS
    <2>2. h \in Nat \ {0, 1}
      BY <2>1 DEF NegentropyAssumption
    <2>3. 0 \in 0..(h - 2)
      BY <2>2
    <2> QED
      BY <2>1, <2>3 DEF Times
  <1> QED
    BY <1>3, <1>4 DEF Bounds, Start, Bound

\* How many items of X come before i: the index at which seal puts it.
Rank(X, i) == Cardinality({j \in X : Before(ItemOf(j), ItemOf(i))})

\* storage lists X in order.
IsStorage(storage, X) ==
    /\ storage \in Seq(X) /\ \A i \in X : \E k \in DOMAIN storage : storage[k] = i
    /\ \A k, l \in DOMAIN storage : k < l => Before(ItemOf(storage[k]), ItemOf(storage[l]))

\* The bytes of ids tell items of one timestamp apart.
LEMMA ItemsDiffer ==
    ASSUME NegentropyAssumption, NEW i \in Ids, NEW j \in Ids, i # j
    PROVE  Before(ItemOf(i), ItemOf(j)) \/ Before(ItemOf(j), ItemOf(i))
  <1>1. ItemOf(i) \in Bounds /\ ItemOf(j) \in Bounds
    BY ItemIsBound
  <1>2. ItemOf(i) # ItemOf(j)
    <2>1. BytesOf[i] # BytesOf[j]
      BY DEF NegentropyAssumption
    <2> QED
      BY <2>1, ItemIsBound
  <1> QED
    BY <1>1, <1>2, BeforeTotal

\* A later item has more items before it.
LEMMA RankGrows ==
    ASSUME NegentropyAssumption, NEW X \in SUBSET Ids, IsFiniteSet(X),
           NEW i \in X, NEW j \in X, Before(ItemOf(i), ItemOf(j))
    PROVE  Rank(X, i) < Rank(X, j)
  <1> DEFINE A == {k \in X : Before(ItemOf(k), ItemOf(i))}
             B == {k \in X : Before(ItemOf(k), ItemOf(j))}
  <1>1. A \subseteq B
    BY ItemIsBound, BeforeTransitive
  <1>2. i \in B /\ i \notin A
    BY ItemIsBound, BeforeIrreflexive
  <1>3. IsFiniteSet(B)
    <2>1. B \in SUBSET X
      OBVIOUS
    <2> QED
      BY <2>1, FS_Subset
  <1>4. IsFiniteSet(A) /\ Cardinality(A) <= Cardinality(B) /\ (Cardinality(B) = Cardinality(A) => B = A)
    <2>1. A \in SUBSET B
      BY <1>1
    <2> HIDE DEF A, B
    <2> QED
      BY <1>3, <2>1, FS_Subset
  <1>5. Cardinality(A) \in Nat /\ Cardinality(B) \in Nat
    BY <1>3, <1>4, FS_CardinalityType
  <1>6. Cardinality(A) # Cardinality(B)
    BY <1>2, <1>4
  <1>7. Cardinality(A) < Cardinality(B)
    <2> HIDE DEF A, B
    <2> QED
      BY <1>4, <1>5, <1>6
  <1> QED
    BY <1>7 DEF Rank

\* Each index is the rank of exactly one item.
LEMMA RankIs ==
    ASSUME NegentropyAssumption, NEW X \in SUBSET Ids, IsFiniteSet(X)
    PROVE  /\ Cardinality(X) \in Nat
           /\ \A i \in X : Rank(X, i) \in 0..(Cardinality(X) - 1)
           /\ \A i, j \in X : Rank(X, i) = Rank(X, j) => i = j
           /\ \A k \in 0..(Cardinality(X) - 1) : \E i \in X : Rank(X, i) = k
  <1>0. PICK n : n = Cardinality(X)
    OBVIOUS
  <1>1. n \in Nat
    BY <1>0, FS_CardinalityType
  <1>2. ASSUME NEW i \in X
        PROVE  Rank(X, i) \in 0..(n - 1)
    <2> DEFINE A == {k \in X : Before(ItemOf(k), ItemOf(i))}
    <2>1. A \in SUBSET X /\ i \notin A
      BY ItemIsBound, BeforeIrreflexive
    <2>2. IsFiniteSet(A) /\ Cardinality(A) <= n /\ (n = Cardinality(A) => X = A)
      <3> HIDE DEF A
      <3> QED
        BY <1>0, <2>1, FS_Subset
    <2>3. Cardinality(A) \in Nat /\ Cardinality(A) # n
      BY <2>1, <2>2, FS_CardinalityType
    <2>4. Cardinality(A) \in 0..(n - 1)
      <3> HIDE DEF A
      <3> QED
        BY <1>1, <2>2, <2>3
    <2> QED
      BY <2>4 DEF Rank
  <1>3. ASSUME NEW i \in X, NEW j \in X, Rank(X, i) = Rank(X, j)
        PROVE  i = j
    <2> SUFFICES ASSUME i # j PROVE FALSE
      OBVIOUS
    <2>1. Rank(X, i) < Rank(X, j) \/ Rank(X, j) < Rank(X, i)
      BY ItemsDiffer, RankGrows
    <2>2. Rank(X, i) \in Int /\ Rank(X, j) \in Int
      BY <1>1, <1>2
    <2> QED
      BY <1>3, <2>1, <2>2
  <1> DEFINE f == [i \in X |-> Rank(X, i)]
  <1>4. f \in Injection(X, 0..(n - 1))
    <2>1. f \in [X -> 0..(n - 1)]
      BY <1>2
    <2>2. \A i, j \in X : f[i] = f[j] => i = j
      BY <1>3
    <2> HIDE DEF f
    <2> QED
      BY <2>1, <2>2, Fun_IsInj
  <1>5. IsFiniteSet(0..(n - 1)) /\ Cardinality(0..(n - 1)) = n
    <2>1. 0 \in Int /\ n - 1 \in Int
      BY <1>1
    <2>2. IsFiniteSet(0..(n - 1)) /\ Cardinality(0..(n - 1)) = IF 0 > n - 1 THEN 0 ELSE (n - 1) - 0 + 1
      BY <2>1, FS_Interval
    <2> QED
      BY <1>1, <2>2
  <1>6. f \in Surjection(X, 0..(n - 1))
    <2> HIDE DEF f
    <2> QED
      BY <1>0, <1>4, <1>5, FS_Injection
  <1>7. \A k \in 0..(n - 1) : \E i \in X : f[i] = k
    <2> HIDE DEF f
    <2> QED
      BY <1>6 DEF Surjection
  <1> QED
    BY <1>0, <1>1, <1>2, <1>3, <1>7

\* seal sorts what a side holds.
LEMMA SealedIs ==
    ASSUME NegentropyAssumption, NEW side \in Sides, items \in [Sides -> Storages]
    PROVE  IsStorage(Sealed(side), items[side])
  <1>1. PICK X : X = items[side]
    OBVIOUS
  <1>2. X \in SUBSET Ids /\ IsFiniteSet(X)
    BY <1>1 DEF NegentropyAssumption
  <1>3. PICK n \in Nat : n = Cardinality(X)
    BY <1>2, RankIs
  <1>4. /\ \A i \in X : Rank(X, i) \in 0..(n - 1)
        /\ \A i, j \in X : Rank(X, i) = Rank(X, j) => i = j
        /\ \A k \in 0..(n - 1) : \E i \in X : Rank(X, i) = k
    BY <1>2, <1>3, RankIs
  <1>5. PICK s : s = Sealed(side)
    OBVIOUS
  <1>6. s = [k \in 1..n |-> CHOOSE i \in X : Rank(X, i) = k - 1]
    BY <1>1, <1>3, <1>5 DEF Sealed, Rank
  <1>7. \A k \in 1..n : s[k] \in X /\ Rank(X, s[k]) = k - 1
    <2>1. ASSUME NEW k \in 1..n
          PROVE  s[k] \in X /\ Rank(X, s[k]) = k - 1
      <3>1. \E i \in X : Rank(X, i) = k - 1
        BY <1>4
      <3>2. s[k] = CHOOSE i \in X : Rank(X, i) = k - 1
        BY <1>6
      <3> QED
        BY <3>1, <3>2
    <2> QED
      BY <2>1
  <1>8. DOMAIN s = 1..n /\ s \in Seq(X)
    BY <1>6, <1>7
  <1>9. ASSUME NEW i \in X
        PROVE  \E k \in DOMAIN s : s[k] = i
    <2>1. PICK k : k = Rank(X, i) + 1
      OBVIOUS
    <2>2. k \in 1..n /\ k - 1 = Rank(X, i)
      BY <1>4, <2>1
    <2>3. s[k] = i
      BY <1>4, <1>7, <2>2
    <2> QED
      BY <1>8, <2>2, <2>3
  <1>10. ASSUME NEW k \in 1..n, NEW l \in 1..n, k < l
         PROVE  Before(ItemOf(s[k]), ItemOf(s[l]))
    <2>1. s[k] \in X /\ s[l] \in X /\ s[k] \in Ids /\ s[l] \in Ids /\ Rank(X, s[k]) < Rank(X, s[l])
          /\ Rank(X, s[k]) \in Int /\ Rank(X, s[l]) \in Int
      BY <1>2, <1>7, <1>10
    <2>2. PICK i \in X, j \in X : i = s[k] /\ j = s[l]
      BY <2>1
    <2>3. i # j /\ ~(Rank(X, j) < Rank(X, i))
      BY <2>1, <2>2
    <2>4. ~Before(ItemOf(j), ItemOf(i))
      BY <1>2, <2>3, RankGrows
    <2> QED
      BY <1>2, <2>2, <2>3, <2>4, ItemsDiffer
  <1> QED
    BY <1>1, <1>5, <1>8, <1>9, <1>10 DEF IsStorage

\* The first u items of storage are those before b.
IsCut(storage, u, b) ==
    /\ u \in 0..Len(storage)
    /\ \A i \in 1..Len(storage) : Before(ItemOf(storage[i]), b) <=> i <= u

\* Item i is in the range that begins at b0 and ends before b.
InSpan(i, b0, b) == ~Before(ItemOf(i), b0) /\ Before(ItemOf(i), b)

\* The items of X in that range.
Between(X, b0, b) == {i \in X : InSpan(i, b0, b)}

\* A storage as the lemmas on it take it.
HasStorage(storage, X) == NegentropyAssumption /\ X \in SUBSET Ids /\ IsStorage(storage, X)

\* What the lemmas below use of a sealed storage.
LEMMA StorageIs ==
    ASSUME NEW storage, NEW X, HasStorage(storage, X)
    PROVE  /\ Len(storage) \in Nat /\ DOMAIN storage = 1..Len(storage)
           /\ \A i \in 1..Len(storage) : storage[i] \in X /\ storage[i] \in Ids /\ ItemOf(storage[i]) \in Bounds
           /\ \A i \in X : \E k \in 1..Len(storage) : storage[k] = i
           /\ \A k, l \in 1..Len(storage) : k < l => Before(ItemOf(storage[k]), ItemOf(storage[l]))
  <1>1. storage \in Seq(X) /\ X \in SUBSET Ids
    BY DEF HasStorage, IsStorage
  <1>2. Len(storage) \in Nat /\ DOMAIN storage = 1..Len(storage)
        /\ \A i \in 1..Len(storage) : storage[i] \in X /\ storage[i] \in Ids
    BY <1>1
  <1>3. \A i \in Ids : ItemOf(i) \in Bounds
    BY ItemIsBound DEF HasStorage
  <1> QED
    BY <1>2, <1>3 DEF HasStorage, IsStorage

\* Every bound cuts a sealed storage somewhere.
LEMMA CutExists ==
    ASSUME NEW storage, NEW X, HasStorage(storage, X), NEW b \in Bounds
    PROVE  \E u \in 0..Len(storage) : IsCut(storage, u, b)
  <1>1. PICK n \in Nat : n = Len(storage)
    BY StorageIs
  <1> DEFINE I == {k \in 1..(n + 1) : k = n + 1 \/ ~Before(ItemOf(storage[k]), b)}
  <1>2. PICK x \in I : \A y \in I : x <= y
    <2>1. I \subseteq Nat /\ n + 1 \in I
      OBVIOUS
    <2> HIDE DEF I
    <2> QED
      BY <2>1, LeastNumber
  <1>3. PICK u : u = x - 1
    OBVIOUS
  <1>4. x \in 1..(n + 1) /\ u \in 0..n /\ x = u + 1
    BY <1>3
  <1>5. ASSUME NEW i \in 1..n, i <= u
        PROVE  Before(ItemOf(storage[i]), b)
    <2>1. i \notin I
      BY <1>2, <1>4, <1>5
    <2> QED
      BY <2>1
  <1>6. ASSUME NEW i \in 1..n, ~(i <= u)
        PROVE  ~Before(ItemOf(storage[i]), b)
    <2>1. x \in 1..n /\ ~Before(ItemOf(storage[x]), b) /\ (x = i \/ x < i)
      BY <1>2, <1>4, <1>6
    <2>2. x < i => Before(ItemOf(storage[x]), ItemOf(storage[i]))
      BY <1>1, <2>1, StorageIs
    <2>3. ItemOf(storage[x]) \in Bounds /\ ItemOf(storage[i]) \in Bounds
      BY <1>1, <2>1, StorageIs
    <2> QED
      BY <2>1, <2>2, <2>3, BeforeTransitive DEF HasStorage
  <1> QED
    BY <1>1, <1>4, <1>5, <1>6 DEF IsCut

\* A later bound cuts at a later index.
LEMMA CutsGrow ==
    ASSUME NEW storage, NEW X, HasStorage(storage, X), NEW b \in Bounds, NEW c \in Bounds,
           NEW u, NEW v, IsCut(storage, u, b), IsCut(storage, v, c)
    PROVE  /\ ~Before(c, b) => u <= v
           /\ u < v => Before(b, c)
  <1>1. PICK n \in Nat : n = Len(storage)
    BY StorageIs
  <1>2. u \in 0..n /\ v \in 0..n
    BY <1>1 DEF IsCut
  <1>3. ASSUME u < v
        PROVE  Before(b, c)
    <2>1. v \in 1..n /\ ~(v <= u) /\ v <= v
      BY <1>2, <1>3
    <2>2. ~Before(ItemOf(storage[v]), b) /\ Before(ItemOf(storage[v]), c)
      BY <1>1, <2>1 DEF IsCut
    <2>3. ItemOf(storage[v]) \in Bounds
      BY <1>1, <2>1, StorageIs
    <2> QED
      BY <2>2, <2>3, BeforeThrough DEF HasStorage
  <1>4. ASSUME ~Before(c, b), v < u
        PROVE  FALSE
    <2>1. u \in 1..n /\ ~(u <= v) /\ u <= u
      BY <1>2, <1>4
    <2>2. ~Before(ItemOf(storage[u]), c) /\ Before(ItemOf(storage[u]), b)
      BY <1>1, <2>1 DEF IsCut
    <2>3. ItemOf(storage[u]) \in Bounds
      BY <1>1, <2>1, StorageIs
    <2> QED
      BY <1>4, <2>2, <2>3, BeforeThrough DEF HasStorage
  <1> QED
    BY <1>2, <1>3, <1>4

\* findLowerBound finds where a bound cuts, from any earlier bound on.
LEMMA LowerBoundIsCut ==
    ASSUME NEW storage, NEW X, HasStorage(storage, X), NEW b0 \in Bounds, NEW b \in Bounds,
           NEW l, IsCut(storage, l, b0), ~Before(b, b0)
    PROVE  IsCut(storage, FindLowerBound(storage, l, b), b) /\ l <= FindLowerBound(storage, l, b)
  <1>1. PICK n \in Nat : n = Len(storage)
    BY StorageIs
  <1>2. PICK u \in 0..n : IsCut(storage, u, b)
    BY <1>1, CutExists
  <1>3. l <= u /\ l \in 0..n /\ u \in l..n
    <2>1. l <= u
      BY <1>2, CutsGrow
    <2>2. l \in 0..n
      BY <1>1 DEF IsCut
    <2> QED
      BY <2>1, <2>2
  <1> DEFINE P(v) == /\ \A i \in (l + 1)..v : Before(ItemOf(storage[i]), b)
                     /\ v < n => ~Before(ItemOf(storage[v + 1]), b)
  <1>4. P(u)
    <2>1. \A i \in (l + 1)..u : i \in 1..n /\ i <= u
      BY <1>3
    <2>2. \A i \in (l + 1)..u : Before(ItemOf(storage[i]), b)
      BY <1>1, <1>2, <2>1 DEF IsCut
    <2>3. u < n => u + 1 \in 1..n /\ ~(u + 1 <= u)
      OBVIOUS
    <2>4. u < n => ~Before(ItemOf(storage[u + 1]), b)
      BY <1>1, <1>2, <2>3 DEF IsCut
    <2> QED
      BY <2>2, <2>4
  <1>5. \A v \in l..n : P(v) => v = u
    <2> SUFFICES ASSUME NEW v \in l..n, P(v)
                 PROVE  v = u
      OBVIOUS
    <2>0. v \in 0..n
      BY <1>3
    <2>1. ~(v < u)
      <3> SUFFICES ASSUME v < u PROVE FALSE
        OBVIOUS
      <3>1. v + 1 \in 1..n /\ v + 1 <= u /\ v < n
        BY <2>0
      <3> QED
        BY <1>1, <1>2, <3>1 DEF IsCut
    <2>2. ~(u < v)
      <3> SUFFICES ASSUME u < v PROVE FALSE
        OBVIOUS
      <3>1. u + 1 \in (l + 1)..v /\ u + 1 \in 1..n /\ ~(u + 1 <= u)
        BY <1>3, <2>0
      <3> QED
        BY <1>1, <1>2, <3>1 DEF IsCut
    <2> QED
      BY <2>0, <2>1, <2>2
  <1>6. FindLowerBound(storage, l, b) = CHOOSE v \in l..n : P(v)
    BY <1>1 DEF FindLowerBound
  <1>7. FindLowerBound(storage, l, b) = u
    <2> HIDE DEF P
    <2> QED
      BY <1>3, <1>4, <1>5, <1>6
  <1> QED
    BY <1>2, <1>3, <1>7

\* The indices between two cuts hold the items between their bounds.
LEMMA IdsInIsSpan ==
    ASSUME NEW storage, NEW X, HasStorage(storage, X), NEW b0, NEW b,
           NEW l, IsCut(storage, l, b0), NEW u, IsCut(storage, u, b)
    PROVE  IdsIn(storage, l, u) = Between(X, b0, b)
  <1>1. PICK n \in Nat : n = Len(storage)
    BY StorageIs
  <1>2. l \in 0..n /\ u \in 0..n
    BY <1>1 DEF IsCut
  <1>3. \A k \in 1..n : storage[k] \in X /\ (InSpan(storage[k], b0, b) <=> k \in (l + 1)..u)
    <2> SUFFICES ASSUME NEW k \in 1..n
                 PROVE  storage[k] \in X /\ (InSpan(storage[k], b0, b) <=> k \in (l + 1)..u)
      OBVIOUS
    <2>1. storage[k] \in X
      BY <1>1, StorageIs
    <2>2. (Before(ItemOf(storage[k]), b0) <=> k <= l) /\ (Before(ItemOf(storage[k]), b) <=> k <= u)
      BY <1>1 DEF IsCut
    <2>3. k \in (l + 1)..u <=> ~(k <= l) /\ k <= u
      BY <1>2
    <2> QED
      BY <2>1, <2>2, <2>3 DEF InSpan
  <1>4. \A i \in X : \E k \in 1..n : storage[k] = i
    BY <1>1, StorageIs
  <1>5. \A k \in (l + 1)..u : k \in 1..n
    BY <1>2
  <1>6. ASSUME NEW i
        PROVE  i \in IdsIn(storage, l, u) <=> i \in Between(X, b0, b)
    BY <1>3, <1>4, <1>5 DEF IdsIn, Between
  <1> QED
    BY <1>6, Zenon

\* The first bound cuts at index 0, the last behind all items.
LEMMA EndCuts ==
    ASSUME NEW storage, NEW X, HasStorage(storage, X)
    PROVE  IsCut(storage, 0, Start) /\ IsCut(storage, Len(storage), End)
  <1>1. PICK n \in Nat : n = Len(storage)
    BY StorageIs
  <1>2. \A k \in 1..n : ~Before(ItemOf(storage[k]), Start) /\ Before(ItemOf(storage[k]), End)
    BY <1>1, StorageIs, ItemIsBound, NothingBeforeStart DEF HasStorage
  <1> QED
    BY <1>1, <1>2 DEF IsCut

\* getMinimalBound of two neighbours cuts between them.
LEMMA MinimalBoundIsCut ==
    ASSUME NEW storage, NEW X, HasStorage(storage, X), NEW e \in 1..(Len(storage) - 1)
    PROVE  /\ MinimalBound(storage[e], storage[e + 1]) \in Bounds
           /\ IsCut(storage, e, MinimalBound(storage[e], storage[e + 1]))
  <1>1. PICK n \in Nat : n = Len(storage)
    BY StorageIs
  <1>2. PICK p, c : p = storage[e] /\ c = storage[e + 1]
    OBVIOUS
  <1>3. e \in 1..n /\ e + 1 \in 1..n /\ e < e + 1
    BY <1>1
  <1>4. p \in Ids /\ c \in Ids /\ Before(ItemOf(p), ItemOf(c))
        /\ ItemOf(p) \in Bounds /\ ItemOf(c) \in Bounds
    BY <1>1, <1>2, <1>3, StorageIs
  <1>5. PICK b : b = MinimalBound(p, c)
    OBVIOUS
  <1>6. /\ TimeOf[p] \in Nat /\ TimeOf[c] \in Nat /\ TimeOf[c] \in Times
        /\ BytesOf[p] \in Seq(Nat) /\ BytesOf[c] \in Seq(Nat)
        /\ (TimeOf[p] < TimeOf[c] \/ (TimeOf[p] = TimeOf[c] /\ BytesBefore(BytesOf[p], BytesOf[c])))
    <2>1. /\ ItemOf(p).timestamp = TimeOf[p] /\ ItemOf(p).id = BytesOf[p]
          /\ ItemOf(c).timestamp = TimeOf[c] /\ ItemOf(c).id = BytesOf[c]
      BY <1>4, ItemIsBound DEF HasStorage
    <2>2. ItemOf(p).timestamp \in Times /\ ItemOf(c).timestamp \in Times
          /\ ItemOf(p).id \in Seq(Nat) /\ ItemOf(c).id \in Seq(Nat)
      BY <1>4 DEF Bounds
    <2>3. TimeOf[p] \in Nat /\ TimeOf[c] \in Nat
      BY <2>1, <2>2, TimesAre DEF HasStorage
    <2> QED
      BY <1>4, <2>1, <2>2, <2>3 DEF Before
  <1>7. b \in Bounds /\ Before(ItemOf(p), b) /\ ~Before(ItemOf(c), b)
    <2>1. CASE TimeOf[c] # TimeOf[p]
      <3>1. b = Bound(TimeOf[c], << >>)
        BY <1>5, <2>1 DEF MinimalBound
      <3>2. b.timestamp = TimeOf[c] /\ b.id = << >> /\ b \in Bounds
        BY <1>6, <3>1 DEF Bound, Bounds
      <3>3. ~BytesBefore(ItemOf(c).id, << >>)
        BY DEF BytesBefore
      <3> QED
        BY <1>4, <1>6, <2>1, <3>2, <3>3, ItemIsBound DEF Before, HasStorage
    <2>2. CASE TimeOf[c] = TimeOf[p]
      <3> DEFINE differs == {i \in DOMAIN BytesOf[c] : BytesOf[c][i] # BytesOf[p][i]}
                 first == CHOOSE i \in differs : \A j \in differs : i <= j
      <3>1. b = Bound(TimeOf[c], SubSeq(BytesOf[c], 1, first))
        BY <1>5, <2>2, Zenon DEF MinimalBound
      <3>2. PICK x, y : x = BytesOf[p] /\ y = BytesOf[c]
        OBVIOUS
      <3>3. PICK m \in Nat : Len(y) = m /\ Len(x) = m /\ DOMAIN x = 1..m /\ DOMAIN y = 1..m
        <4>1. Len(BytesOf[p]) = Len(BytesOf[c])
          BY <1>4 DEF NegentropyAssumption, HasStorage
        <4> QED
          BY <1>6, <3>2, <4>1
      <3>4. PICK i \in 1..m : (\A j \in 1..(i - 1) : j \in DOMAIN x /\ x[j] = y[j]) /\ x[i] < y[i]
        <4>1. BytesBefore(x, y)
          BY <1>6, <2>2, <3>2
        <4> QED
          BY <3>3, <4>1 DEF BytesBefore
      <3>5. \A j \in 1..m : x[j] \in Nat /\ y[j] \in Nat
        BY <1>6, <3>2, <3>3
      <3>6. i \in differs /\ \A j \in differs : i <= j
        <4>1. i \in differs
          BY <3>2, <3>3, <3>4, <3>5
        <4>2. ASSUME NEW j \in differs
              PROVE  i <= j
          <5>1. j \in 1..m /\ x[j] # y[j]
            BY <3>2, <3>3
          <5>2. ~(j \in 1..(i - 1))
            BY <3>4, <5>1
          <5> QED
            BY <5>1, <5>2
        <4> QED
          BY <4>1, <4>2
      <3>7. first = i
        <4>1. \A k \in differs : (\A j \in differs : k <= j) => k = i
          <5> SUFFICES ASSUME NEW k \in differs, \A j \in differs : k <= j
                       PROVE  k = i
            OBVIOUS
          <5>1. k \in 1..m /\ k <= i /\ i <= k
            BY <3>2, <3>3, <3>6
          <5> QED
            BY <5>1
        <4> HIDE DEF differs
        <4> QED
          BY <3>6, <4>1
      <3>8. PICK z : z = SubSeq(y, 1, i)
        OBVIOUS
      <3>9. z \in Seq(Nat) /\ DOMAIN z = 1..i /\ \A j \in 1..i : z[j] = y[j]
        <4>1. \A j \in 1..i : j \in 1..m
          OBVIOUS
        <4>2. z = [j \in 1..i |-> y[j]]
          BY <1>6, <3>2, <3>3, <3>8
        <4> QED
          BY <3>5, <4>1, <4>2
      <3>10. BytesBefore(x, z)
        <4>1. i \in DOMAIN z /\ x[i] < z[i]
          BY <3>4, <3>9
        <4>2. \A j \in 1..(i - 1) : j \in DOMAIN x /\ x[j] = z[j]
          BY <3>4, <3>9
        <4> QED
          BY <4>1, <4>2 DEF BytesBefore
      <3>11. ~BytesBefore(y, z)
        <4>1. \A j \in 1..i : j \in DOMAIN y /\ z[j] = y[j] /\ ~(y[j] < z[j])
          BY <3>3, <3>5, <3>9
        <4> QED
          BY <3>9, <4>1 DEF BytesBefore
      <3>12. b = Bound(TimeOf[c], z)
        BY <3>1, <3>2, <3>7, <3>8
      <3>13. b.timestamp = TimeOf[c] /\ b.id = z /\ b \in Bounds
        BY <1>6, <3>9, <3>12 DEF Bound, Bounds
      <3> HIDE DEF differs, first
      <3> QED
        BY <1>4, <1>6, <2>2, <3>2, <3>10, <3>11, <3>13, ItemIsBound DEF Before, HasStorage
    <2> QED
      BY <2>1, <2>2
  <1>8. ASSUME NEW k \in 1..n
        PROVE  Before(ItemOf(storage[k]), b) <=> k <= e
    <2>1. ItemOf(storage[k]) \in Bounds
      BY <1>1, StorageIs
    <2>2. CASE k <= e
      <3>1. k = e \/ Before(ItemOf(storage[k]), ItemOf(p))
        BY <1>1, <1>2, <1>3, <2>2, StorageIs
      <3> QED
        BY <1>2, <1>4, <1>7, <2>1, <2>2, <3>1, BeforeTransitive DEF HasStorage
    <2>3. CASE ~(k <= e)
      <3>1. k = e + 1 \/ Before(ItemOf(c), ItemOf(storage[k]))
        <4>1. k = e + 1 \/ e + 1 < k
          BY <1>3, <2>3
        <4> QED
          BY <1>1, <1>2, <1>3, <4>1, StorageIs
      <3>2. ~Before(ItemOf(storage[k]), b)
        BY <1>2, <1>4, <1>7, <2>1, <3>1, BeforeTransitive DEF HasStorage
      <3> QED
        BY <2>3, <3>2
    <2> QED
      BY <2>2, <2>3
  <1>9. e \in 0..n
    BY <1>3
  <1> QED
    BY <1>1, <1>2, <1>5, <1>7, <1>8, <1>9 DEF IsCut

\* The bounds of ranges: at infinity there is only one.
Reach == {b \in Bounds : b.timestamp = Infinity => b = End}

\* The ranges that sides send.
Ranges == [bound : Reach, mode : {"Skip", "Fingerprint", "IdList"}, ids : SUBSET Ids]

\* Where range k of Z begins, if Z begins at b0; and where Z ends.
From(b0, Z, k) == IF k = 1 THEN b0 ELSE Z[k - 1].bound
UpTo(b0, Z) == IF Z = << >> THEN b0 ELSE Z[Len(Z)].bound

\* What range r from b0 on, sent by a side that holds S to one that holds T, says of S: after
\* one answer that was cut off, its last fingerprint may say less, but not what T would agree
\* to by mistake.
Fair(r, b0, S, T, c) ==
    /\ r.mode = "IdList" => /\ r.ids \subseteq Between(S, b0, r.bound)
                            /\ peerIs = "object" => r.ids = Between(S, b0, r.bound)
    /\ r.mode = "Fingerprint" /\ c = 0 => r.ids = Between(S, b0, r.bound) /\ r.ids # {}
    /\ r.mode = "Fingerprint" /\ c = 1 => \/ r.ids = Between(S, b0, r.bound)
                                          \/ r.ids # Between(T, b0, r.bound)

\* The ranges of a message, each from the bound of the one before it.
Run(Z, b0, S, T, c) ==
    /\ Z \in Seq(Ranges)
    /\ \A k \in 1..Len(Z) : /\ ~Before(Z[k].bound, From(b0, Z, k))
                            /\ Fair(Z[k], From(b0, Z, k), S, T, c)

\* A range of Z that says something takes in item d.
Covered(d, b0, Z) ==
    \E k \in 1..Len(Z) : Z[k].mode # "Skip" /\ InSpan(d, From(b0, Z, k), Z[k].bound)

\* No such bound is after the last one.
LEMMA ReachIs ==
    ASSUME NegentropyAssumption
    PROVE  /\ Start \in Reach /\ End \in Reach
           /\ \A b \in Reach : b \in Bounds /\ ~Before(End, b)
  <1>1. Start \in Bounds /\ Start.timestamp = 0
    BY TimesAre DEF Bounds, Start, Bound, Times
  <1>2. End \in Bounds /\ End.timestamp = Infinity
    BY TimesAre DEF Bounds, End, Bound, Times
  <1>3. Infinity # 0 /\ Infinity \in Nat
    <2>1. 0 \in Times /\ 0 # Infinity
      BY DEF Times, NegentropyAssumption, Infinity
    <2> QED
      BY <2>1, TimesAre
  <1>4. ASSUME NEW b \in Reach
        PROVE  b \in Bounds /\ ~Before(End, b)
    <2>1. b \in Bounds /\ (b.timestamp = Infinity => b = End)
      BY DEF Reach
    <2>2. CASE b = End
      BY <2>1, <2>2, BeforeIrreflexive
    <2>3. CASE b.timestamp # Infinity
      <3>1. b.timestamp \in Nat /\ b.timestamp < Infinity
        BY <2>1, <2>3, TimesAre DEF Bounds
      <3> QED
        BY <1>2, <1>3, <2>1, <3>1 DEF Before
    <2> QED
      BY <2>1, <2>2, <2>3
  <1> QED
    BY <1>1, <1>2, <1>3, <1>4 DEF Reach

\* What a range says when no answer was cut off is true after any number of cuts.
LEMMA FairIsFair ==
    ASSUME NEW r, NEW b0, NEW S, NEW T, NEW c, Fair(r, b0, S, T, 0)
    PROVE  Fair(r, b0, S, T, c)
  BY DEF Fair

\* The same of all ranges of a message.
LEMMA RunIsRun ==
    ASSUME NEW Z, NEW b0, NEW S, NEW T, NEW c, Run(Z, b0, S, T, 0)
    PROVE  Run(Z, b0, S, T, c)
  BY FairIsFair DEF Run

\* A message of no ranges says nothing.
LEMMA RunOfNone ==
    ASSUME NEW b0, NEW S, NEW T, NEW c
    PROVE  Run(<< >>, b0, S, T, c) /\ UpTo(b0, << >>) = b0
  BY DEF Run, UpTo

\* A message of one range covers what the range spans.
LEMMA RunOfOne ==
    ASSUME NEW r \in Ranges, NEW b0, NEW S, NEW T, NEW c,
           ~Before(r.bound, b0), Fair(r, b0, S, T, c)
    PROVE  /\ Run(<<r>>, b0, S, T, c) /\ UpTo(b0, <<r>>) = r.bound
           /\ \A d : Covered(d, b0, <<r>>) <=> r.mode # "Skip" /\ InSpan(d, b0, r.bound)
  <1>1. PICK z : z = <<r>>
    OBVIOUS
  <1>2. z \in Seq(Ranges) /\ Len(z) = 1 /\ z[1] = r /\ z # << >> /\ 1..Len(z) = {1}
    BY <1>1
  <1>3. From(b0, z, 1) = b0
    BY DEF From
  <1>4. Run(z, b0, S, T, c)
    BY <1>2, <1>3 DEF Run
  <1>5. UpTo(b0, z) = r.bound
    BY <1>2 DEF UpTo
  <1>6. \A d : Covered(d, b0, z) <=> r.mode # "Skip" /\ InSpan(d, b0, r.bound)
    BY <1>2, <1>3 DEF Covered
  <1> QED
    BY <1>1, <1>4, <1>5, <1>6

\* Two messages, the second from where the first ends, make one.
LEMMA RunConcat ==
    ASSUME NEW A, NEW B, NEW b0, NEW S, NEW T, NEW c,
           Run(A, b0, S, T, c), Run(B, UpTo(b0, A), S, T, c)
    PROVE  /\ Run(A \o B, b0, S, T, c) /\ UpTo(b0, A \o B) = UpTo(UpTo(b0, A), B)
           /\ \A d : Covered(d, b0, A) \/ Covered(d, UpTo(b0, A), B) => Covered(d, b0, A \o B)
  <1>1. A \in Seq(Ranges) /\ B \in Seq(Ranges)
    BY DEF Run
  <1>2. PICK m, n, z : m = Len(A) /\ n = Len(B) /\ z = A \o B
    OBVIOUS
  <1>3. /\ m \in Nat /\ n \in Nat /\ z \in Seq(Ranges) /\ Len(z) = m + n
        /\ \A k \in 1..m : z[k] = A[k]
        /\ \A k \in 1..n : z[m + k] = B[k]
        /\ (A = << >> <=> m = 0) /\ (B = << >> <=> n = 0) /\ (z = << >> <=> m + n = 0)
    BY <1>1, <1>2
  <1>4. ASSUME NEW k \in 1..m
        PROVE  z[k] = A[k] /\ From(b0, z, k) = From(b0, A, k)
    <2>1. k # 1 => k - 1 \in 1..m
      BY <1>3
    <2> QED
      BY <1>3, <2>1 DEF From
  <1>5. ASSUME NEW k \in 1..n
        PROVE  z[m + k] = B[k] /\ From(b0, z, m + k) = From(UpTo(b0, A), B, k)
    <2>1. CASE k = 1 /\ m = 0
      BY <1>3, <2>1 DEF From, UpTo
    <2>2. CASE k = 1 /\ m # 0
      <3>1. m + k # 1 /\ m + k - 1 = m /\ m \in 1..m
        BY <1>3, <2>2
      <3>2. From(b0, z, m + k) = z[m].bound
        BY <3>1 DEF From
      <3> QED
        BY <1>2, <1>3, <2>2, <3>1, <3>2 DEF From, UpTo
    <2>3. CASE k # 1
      <3>1. m + k # 1 /\ m + k - 1 = m + (k - 1) /\ k - 1 \in 1..n
        BY <1>3, <2>3
      <3>2. z[m + k - 1] = B[k - 1]
        BY <1>3, <3>1
      <3> QED
        BY <1>3, <2>3, <3>1, <3>2 DEF From
    <2> QED
      BY <2>1, <2>2, <2>3
  <1>6. \A k \in 1..Len(z) : k \in 1..m \/ (k - m \in 1..n /\ k = m + (k - m))
    BY <1>3
  <1>7. Run(z, b0, S, T, c)
    <2>1. ASSUME NEW k \in 1..Len(z)
          PROVE  ~Before(z[k].bound, From(b0, z, k)) /\ Fair(z[k], From(b0, z, k), S, T, c)
      <3>1. CASE k \in 1..m
        BY <1>2, <1>4, <3>1 DEF Run
      <3>2. CASE k \notin 1..m
        <4>1. PICK j \in 1..n : k = m + j
          BY <1>6, <3>2
        <4> QED
          BY <1>2, <1>5, <4>1 DEF Run
      <3> QED
        BY <3>1, <3>2
    <2> QED
      BY <1>3, <2>1 DEF Run
  <1>8. UpTo(b0, z) = UpTo(UpTo(b0, A), B)
    <2>1. CASE n = 0
      BY <1>2, <1>3, <2>1 DEF UpTo
    <2>2. CASE n # 0
      <3>1. z[m + n] = B[n] /\ z # << >> /\ B # << >>
        BY <1>3, <2>2
      <3> QED
        BY <1>2, <1>3, <3>1 DEF UpTo
    <2> QED
      BY <2>1, <2>2
  <1>9. ASSUME NEW d, Covered(d, b0, A)
        PROVE  Covered(d, b0, z)
    <2>1. PICK k \in 1..m : A[k].mode # "Skip" /\ InSpan(d, From(b0, A, k), A[k].bound)
      BY <1>2, <1>9 DEF Covered
    <2>2. k \in 1..Len(z)
      BY <1>3
    <2> QED
      BY <1>4, <2>1, <2>2 DEF Covered
  <1>10. ASSUME NEW d, Covered(d, UpTo(b0, A), B)
         PROVE  Covered(d, b0, z)
    <2>1. PICK k \in 1..n : B[k].mode # "Skip" /\ InSpan(d, From(UpTo(b0, A), B, k), B[k].bound)
      BY <1>2, <1>10 DEF Covered
    <2>2. m + k \in 1..Len(z)
      BY <1>3
    <2> QED
      BY <1>5, <2>1, <2>2 DEF Covered
  <1> QED
    BY <1>2, <1>7, <1>8, <1>9, <1>10

\* The bounds of a message do not decrease.
LEMMA RunGrows ==
    ASSUME NegentropyAssumption, NEW Z, NEW b0 \in Reach, NEW S, NEW T, NEW c, Run(Z, b0, S, T, c)
    PROVE  /\ \A k \in 1..Len(Z) : From(b0, Z, k) \in Reach /\ Z[k] \in Ranges /\ Z[k].bound \in Reach
           /\ \A k \in 1..Len(Z) : \A j \in 1..k : ~Before(From(b0, Z, k), From(b0, Z, j))
           /\ UpTo(b0, Z) \in Reach
  <1>1. PICK n \in Nat : n = Len(Z)
    BY DEF Run
  <1>2. \A k \in 1..n : Z[k] \in Ranges /\ Z[k].bound \in Reach
    <2>1. \A k \in 1..n : Z[k] \in Ranges
      BY <1>1 DEF Run
    <2> QED
      BY <2>1 DEF Ranges
  <1>3. \A k \in 1..n : From(b0, Z, k) \in Reach
    <2>1. ASSUME NEW k \in 1..n
          PROVE  From(b0, Z, k) \in Reach
      <3>1. k # 1 => k - 1 \in 1..n
        OBVIOUS
      <3> QED
        BY <1>2, <3>1 DEF From
    <2> QED
      BY <2>1
  <1>4. UpTo(b0, Z) \in Reach
    <2>1. Z # << >> => n \in 1..n
      BY <1>1 DEF Run
    <2> QED
      BY <1>1, <1>2, <2>1 DEF UpTo
  <1> DEFINE I == {k \in 0..n : \A j \in 1..k : ~Before(From(b0, Z, k), From(b0, Z, j))}
  <1>5. 0 \in I
    OBVIOUS
  <1>6. ASSUME NEW k \in 0..(n - 1), k \in I
        PROVE  k + 1 \in I
    <2>1. PICK m : m = k + 1
      OBVIOUS
    <2>2. m \in 1..n /\ k = m - 1
      BY <2>1
    <2>3. ASSUME NEW j \in 1..m
          PROVE  ~Before(From(b0, Z, m), From(b0, Z, j))
      <3>1. CASE j = m
        BY <1>3, <2>2, <3>1, BeforeIrreflexive, ReachIs
      <3>2. CASE j # m
        <4>1. j \in 1..k /\ k \in 1..n /\ m # 1
          BY <2>2, <3>2
        <4>2. ~Before(From(b0, Z, k), From(b0, Z, j))
          BY <1>6, <4>1
        <4>3. From(b0, Z, m) = Z[k].bound
          BY <2>2, <4>1 DEF From
        <4>4. ~Before(Z[k].bound, From(b0, Z, k))
          BY <1>1, <4>1 DEF Run
        <4>5. j \in 1..n
          BY <4>1
        <4>6. /\ From(b0, Z, j) \in Bounds /\ From(b0, Z, k) \in Bounds
              /\ From(b0, Z, m) \in Bounds
          BY <1>3, <2>2, <4>1, <4>5, ReachIs
        <4> QED
          BY <4>2, <4>3, <4>4, <4>6, BeforeThrough
      <3> QED
        BY <3>1, <3>2
    <2> QED
      BY <2>1, <2>2, <2>3
  <1>7. \A k \in 0..n : k \in I
    <2> HIDE DEF I
    <2> QED
      BY <1>5, <1>6, Reaches
  <1>8. \A k \in 1..n : \A j \in 1..k : ~Before(From(b0, Z, k), From(b0, Z, j))
    <2>1. \A k \in 1..n : k \in 0..n
      OBVIOUS
    <2> QED
      BY <1>7, <2>1
  <1> QED
    BY <1>1, <1>2, <1>3, <1>4, <1>8

\* A message without skips covers all items up to its end.
LEMMA RunCovers ==
    ASSUME NEW Z \in Seq(Ranges), NEW b0, \A k \in 1..Len(Z) : Z[k].mode # "Skip",
           NEW d, InSpan(d, b0, UpTo(b0, Z)), Z # << >>
    PROVE  Covered(d, b0, Z)
  <1>1. PICK n \in Nat : n = Len(Z) /\ n \in 1..n
    OBVIOUS
  <1> DEFINE I == {k \in 1..n : Before(ItemOf(d), Z[k].bound)}
  <1>2. n \in I
    BY <1>1 DEF UpTo, InSpan
  <1>3. PICK k \in I : \A j \in I : k <= j
    <2>1. I \subseteq Nat
      OBVIOUS
    <2> HIDE DEF I
    <2> QED
      BY <1>2, <2>1, LeastNumber
  <1>4. ~Before(ItemOf(d), From(b0, Z, k))
    <2>1. CASE k = 1
      BY <2>1 DEF From, InSpan
    <2>2. CASE k # 1
      <3>1. k - 1 \in 1..n /\ k - 1 \notin I
        BY <1>3, <2>2
      <3> QED
        BY <2>2, <3>1 DEF From
    <2> QED
      BY <2>1, <2>2
  <1>5. k \in 1..Len(Z) /\ Before(ItemOf(d), Z[k].bound)
    BY <1>1
  <1> QED
    BY <1>4, <1>5 DEF Covered, InSpan

\* Bucket i of n items from index l on, in B buckets, ends at EndOf(l, n, B, i).
EndOf(l, n, B, i) == l + i * (n \div B) + (IF i < n % B THEN i ELSE n % B)

\* The ends of the buckets increase from the lower index to the upper one.
LEMMA EndsGrow ==
    ASSUME NEW l \in Nat, NEW B \in Nat \ {0}, NEW n \in Nat, n >= 2 * B
    PROVE  /\ EndOf(l, n, B, 0) = l /\ EndOf(l, n, B, B) = l + n
           /\ \A i \in 0..B : EndOf(l, n, B, i) \in Nat
           /\ \A i \in 1..B : EndOf(l, n, B, i - 1) < EndOf(l, n, B, i)
           /\ \A i \in 1..B : i # B => EndOf(l, n, B, i) < l + n
  <1>1. PICK q, m : q = n \div B /\ m = n % B
    OBVIOUS
  <1>2. q \in Nat /\ m \in 0..(B - 1) /\ n = B * q + m
    BY <1>1
  <1>3. q >= 2
    <2> SUFFICES ASSUME q \in 0..1 PROVE FALSE
      BY <1>2
    <2>1. q = 0 \/ q = 1
      OBVIOUS
    <2>2. B * q <= B
      BY <2>1
    <2> QED
      BY <1>2, <2>2
  <1> DEFINE E(i) == l + i * q + (IF i < m THEN i ELSE m)
  <1>4. \A i : EndOf(l, n, B, i) = E(i)
    BY <1>1 DEF EndOf
  <1>5. E(0) = l /\ E(B) = l + n
    <2>1. 0 * q = 0
      BY <1>2
    <2> QED
      BY <1>2, <2>1
  <1>6. \A i \in 0..B : i * q \in Nat
    BY <1>2
  <1>7. \A i \in 0..B : E(i) \in Nat
    BY <1>2, <1>6
  <1>8. ASSUME NEW i \in 1..B
        PROVE  E(i - 1) < E(i)
    <2>1. (i - 1) * q = i * q - q
      BY <1>2
    <2>2. PICK x : x = i * q
      OBVIOUS
    <2>3. x \in Nat
      BY <1>6, <2>2
    <2> QED
      BY <1>2, <1>3, <2>1, <2>2, <2>3
  <1>9. ASSUME NEW i \in 1..B, i # B
        PROVE  E(i) < l + n
    <2>1. PICK j : j = B - i
      OBVIOUS
    <2>2. j \in Nat \ {0} /\ B = i + j
      BY <1>9, <2>1
    <2>3. B * q = i * q + j * q
      BY <1>2, <2>2
    <2>4. j * q >= q
      <3>1. PICK k \in Nat : j = k + 1
        BY <2>2
      <3>2. j * q = k * q + q /\ k * q \in Nat
        BY <1>2, <3>1
      <3> QED
        BY <1>2, <3>2
    <2>5. PICK x, y : x = i * q /\ y = j * q
      OBVIOUS
    <2>6. x \in Nat /\ y \in Nat
      BY <1>2, <2>2, <2>5
    <2>7. n = x + y + m /\ y >= q
      BY <1>2, <2>3, <2>4, <2>5
    <2> QED
      BY <1>2, <1>3, <2>5, <2>6, <2>7
  <1> HIDE DEF E
  <1> QED
    BY <1>4, <1>5, <1>7, <1>8, <1>9

\* What a range of index l to u that ends at b is split into.
BucketOf(storage, l, u, b, i) ==
    Fingerprint(IF EndOf(l, u - l, Buckets, i) = u THEN b
                ELSE MinimalBound(storage[EndOf(l, u - l, Buckets, i)],
                                  storage[EndOf(l, u - l, Buckets, i) + 1]),
                IdsIn(storage, EndOf(l, u - l, Buckets, i - 1), EndOf(l, u - l, Buckets, i)))

\* splitRange by its cases.
LEMMA SplitIs ==
    ASSUME NEW storage, NEW l, NEW u, NEW b
    PROVE  SplitRange(storage, l, u, b) =
             IF u - l < 2 * Buckets THEN <<IdList(b, IdsIn(storage, l, u))>>
             ELSE [i \in 1..Buckets |-> BucketOf(storage, l, u, b, i)]
  BY DEF SplitRange, BucketOf, EndOf

\* getMinimalBound has the timestamp of an item, never infinity.
LEMMA MinimalBoundReaches ==
    ASSUME NEW storage, NEW X, HasStorage(storage, X), NEW e \in 1..(Len(storage) - 1)
    PROVE  MinimalBound(storage[e], storage[e + 1]) \in Reach
  <1>1. PICK b : b = MinimalBound(storage[e], storage[e + 1])
    OBVIOUS
  <1>2. b \in Bounds
    BY <1>1, MinimalBoundIsCut
  <1>3. b.timestamp = TimeOf[storage[e + 1]]
    BY <1>1 DEF MinimalBound, Bound
  <1>4. storage[e + 1] \in Ids
    <2>1. PICK n \in Nat : n = Len(storage)
      BY StorageIs
    <2>2. e + 1 \in 1..n
      BY <2>1
    <2> QED
      BY <2>1, <2>2, StorageIs
  <1>5. TimeOf[storage[e + 1]] # Infinity
    <2>1. NegentropyAssumption
      BY DEF HasStorage
    <2>2. PICK h : h = 2 ^ (VarIntBits - 1)
      OBVIOUS
    <2>3. TimeOf[storage[e + 1]] \in 0..(h - 2)
      BY <1>4, <2>1, <2>2 DEF NegentropyAssumption
    <2>4. h \in Nat \ {0} /\ Infinity = 2 * h
      BY <2>1, <2>2 DEF NegentropyAssumption, Infinity
    <2> QED
      BY <2>3, <2>4
  <1> QED
    BY <1>1, <1>2, <1>3, <1>5 DEF Reach

\* Z says of X all that there is from b0 to b.
Tells(Z, b0, b, X) ==
    /\ Z # << >> /\ UpTo(b0, Z) = b
    /\ \A T : Run(Z, b0, X, T, 0)
    /\ \A d : InSpan(d, b0, b) => Covered(d, b0, Z)

\* splitRange tells all of the range that it splits.
LEMMA SplitTells ==
    ASSUME NEW storage, NEW X, HasStorage(storage, X), NEW b0 \in Reach, NEW b \in Reach,
           ~Before(b, b0), NEW l, IsCut(storage, l, b0), NEW u, IsCut(storage, u, b)
    PROVE  Tells(SplitRange(storage, l, u, b), b0, b, X)
  <1>1. PICK n \in Nat : n = Len(storage)
    BY StorageIs
  <1>2. NegentropyAssumption /\ X \in SUBSET Ids /\ b0 \in Bounds /\ b \in Bounds
    BY ReachIs DEF HasStorage
  <1>3. l \in 0..n /\ u \in 0..n /\ l <= u
    <2>1. l <= u
      BY <1>2, CutsGrow
    <2> QED
      BY <1>1, <2>1 DEF IsCut
  <1>4. PICK Z : Z = SplitRange(storage, l, u, b)
    OBVIOUS
  <1>5. Buckets \in Nat \ {0, 1}
    BY <1>2 DEF NegentropyAssumption
  <1>6. CASE u - l < 2 * Buckets
    <2>1. PICK r : r = IdList(b, IdsIn(storage, l, u))
      OBVIOUS
    <2>2. Z = <<r>>
      BY <1>4, <1>6, <2>1, SplitIs
    <2>3. r.bound = b /\ r.mode = "IdList" /\ r.ids = Between(X, b0, b)
      BY <2>1, IdsInIsSpan DEF IdList
    <2>4. r \in Ranges
      <3>1. Between(X, b0, b) \in SUBSET Ids
        BY <1>2 DEF Between
      <3>2. IdsIn(storage, l, u) \in SUBSET Ids
        BY <3>1, IdsInIsSpan
      <3> QED
        BY <2>1, <3>2 DEF Ranges, IdList
    <2>5. ASSUME NEW T
          PROVE  Fair(r, b0, X, T, 0)
      BY <2>3 DEF Fair
    <2>6. ASSUME NEW T
          PROVE  Run(<<r>>, b0, X, T, 0)
      BY <2>3, <2>4, <2>5, RunOfOne
    <2>7. UpTo(b0, <<r>>) = b /\ \A d : InSpan(d, b0, b) => Covered(d, b0, <<r>>)
      BY <2>3, <2>4, <2>5, RunOfOne
    <2>8. <<r>> # << >>
      OBVIOUS
    <2> QED
      BY <1>4, <2>2, <2>6, <2>7, <2>8 DEF Tells
  <1>7. CASE ~(u - l < 2 * Buckets)
    <2>1. PICK B, w : B = Buckets /\ w = u - l
      OBVIOUS
    <2>2. B \in Nat \ {0, 1} /\ w \in Nat /\ w >= 2 * B /\ u = l + w
      BY <1>3, <1>5, <1>7, <2>1
    <2>3. PICK E : E = [i \in 0..B |-> EndOf(l, w, B, i)]
      OBVIOUS
    <2>4. /\ E[0] = l /\ E[B] = u
          /\ \A i \in 0..B : E[i] \in Nat
          /\ \A i \in 1..B : i - 1 \in 0..B /\ E[i - 1] < E[i]
          /\ \A i \in 1..B : i # B => E[i] < u
      <3>1. l \in Nat /\ B \in Nat \ {0}
        BY <1>3, <2>2
      <3>2. /\ EndOf(l, w, B, 0) = l /\ EndOf(l, w, B, B) = l + w
            /\ \A i \in 0..B : EndOf(l, w, B, i) \in Nat
            /\ \A i \in 1..B : EndOf(l, w, B, i - 1) < EndOf(l, w, B, i)
            /\ \A i \in 1..B : i # B => EndOf(l, w, B, i) < l + w
        BY <2>2, <3>1, EndsGrow
      <3>3. 0 \in 0..B /\ B \in 0..B /\ \A i \in 1..B : i \in 0..B /\ i - 1 \in 0..B
        BY <3>1
      <3> QED
        BY <2>2, <2>3, <3>2, <3>3
    <2> DEFINE bd(i) == IF E[i] = u THEN b ELSE MinimalBound(storage[E[i]], storage[E[i] + 1])
    <2>5. \A i \in 1..B : BucketOf(storage, l, u, b, i) = Fingerprint(bd(i), IdsIn(storage, E[i - 1], E[i]))
      <3>1. \A i \in 1..B : i \in 0..B /\ i - 1 \in 0..B
        BY <2>2
      <3> QED
        BY <2>1, <2>3, <3>1 DEF BucketOf
    <2>6. Z = [i \in 1..B |-> Fingerprint(bd(i), IdsIn(storage, E[i - 1], E[i]))]
      <3>1. Z = [i \in 1..B |-> BucketOf(storage, l, u, b, i)]
        BY <1>4, <1>7, <2>1, SplitIs
      <3> HIDE DEF bd
      <3> QED
        BY <2>5, <3>1
    <2>7. ASSUME NEW i \in 1..B
          PROVE  bd(i) \in Reach /\ IsCut(storage, E[i], bd(i))
      <3>1. CASE E[i] = u
        BY <3>1
      <3>2. CASE E[i] # u
        <4>1. i # B
          BY <2>4, <3>2
        <4>2. E[i] \in 1..(Len(storage) - 1)
          <5>1. E[i - 1] \in Nat /\ E[i] \in Nat /\ E[i - 1] < E[i] /\ E[i] < u
            BY <2>2, <2>4, <4>1
          <5> QED
            BY <1>1, <1>3, <5>1
        <4> QED
          BY <3>2, <4>2, MinimalBoundIsCut, MinimalBoundReaches
      <3> QED
        BY <3>1, <3>2
    <2>8. ASSUME NEW i \in 1..B
          PROVE  Z[i].bound = bd(i) /\ Z[i].mode = "Fingerprint" /\ Z[i].ids = IdsIn(storage, E[i - 1], E[i])
      <3> HIDE DEF bd
      <3> QED
        BY <2>6 DEF Fingerprint
    <2>9. ASSUME NEW i \in 1..B
          PROVE  From(b0, Z, i) \in Bounds /\ IsCut(storage, E[i - 1], From(b0, Z, i))
      <3>1. CASE i = 1
        BY <1>2, <2>4, <3>1 DEF From
      <3>2. CASE i # 1
        <4>1. i - 1 \in 1..B
          BY <2>2, <3>2
        <4>2. From(b0, Z, i) = bd(i - 1)
          BY <2>8, <3>2, <4>1 DEF From
        <4> HIDE DEF bd
        <4> QED
          BY <1>2, <2>7, <4>1, <4>2, ReachIs
      <3> QED
        BY <3>1, <3>2
    <2> HIDE DEF bd
    <2>10. ASSUME NEW i \in 1..B
           PROVE  /\ ~Before(Z[i].bound, From(b0, Z, i))
                  /\ Z[i].ids = Between(X, From(b0, Z, i), Z[i].bound) /\ Z[i].ids # {}
                  /\ Z[i] \in Ranges
      <3>1. PICK f, g : f = From(b0, Z, i) /\ g = bd(i)
        OBVIOUS
      <3>2. PICK v, x : v = E[i - 1] /\ x = E[i]
        OBVIOUS
      <3>3. f \in Bounds /\ IsCut(storage, v, f) /\ g \in Bounds /\ IsCut(storage, x, g)
        BY <1>2, <2>7, <2>9, <3>1, <3>2, ReachIs
      <3>4. v \in Nat /\ x \in Nat /\ v < x
        BY <2>2, <2>4, <3>2
      <3>5. Before(f, g)
        BY <3>3, <3>4, CutsGrow
      <3>6. ~Before(g, f)
        BY <1>2, <3>3, <3>5, BeforeTransitive, BeforeIrreflexive
      <3>7. IdsIn(storage, v, x) = Between(X, f, g)
        BY <3>3, IdsInIsSpan
      <3>8. IdsIn(storage, v, x) # {}
        <4>1. storage[x] \in IdsIn(storage, v, x)
          BY <3>4 DEF IdsIn
        <4> QED
          BY <4>1
      <3>9. Z[i].bound = g /\ Z[i].ids = IdsIn(storage, v, x)
        BY <2>8, <3>1, <3>2
      <3>10. Z[i] \in Ranges
        <4>1. Z[i] = Fingerprint(g, IdsIn(storage, v, x))
          BY <2>6, <3>1, <3>2
        <4>2. IdsIn(storage, v, x) \in SUBSET Ids
          BY <1>2, <3>7 DEF Between
        <4>3. g \in Reach
          BY <2>7, <3>1
        <4> QED
          BY <4>1, <4>2, <4>3 DEF Fingerprint, Ranges
      <3> QED
        BY <3>1, <3>6, <3>7, <3>8, <3>9, <3>10
    <2>11. Z \in Seq(Ranges) /\ Len(Z) = B /\ Z # << >>
      <3>1. Z \in [1..B -> Ranges]
        BY <2>6, <2>10
      <3> QED
        BY <2>2, <3>1
    <2>12. ASSUME NEW T
           PROVE  Run(Z, b0, X, T, 0)
      <3>1. ASSUME NEW i \in 1..B
            PROVE  Fair(Z[i], From(b0, Z, i), X, T, 0)
        BY <2>8, <2>10 DEF Fair
      <3> QED
        BY <2>10, <2>11, <3>1 DEF Run
    <2>13. UpTo(b0, Z) = b
      <3>1. B \in 1..B
        BY <2>2
      <3>2. Z[B].bound = bd(B)
        BY <2>8, <3>1
      <3> QED
        BY <2>4, <2>11, <3>2 DEF UpTo, bd
    <2>14. ASSUME NEW d, InSpan(d, b0, b)
           PROVE  Covered(d, b0, Z)
      <3>1. \A k \in 1..Len(Z) : Z[k].mode # "Skip"
        BY <2>8, <2>11
      <3> QED
        BY <2>11, <2>13, <2>14, <3>1, RunCovers
    <2> QED
      BY <1>4, <2>11, <2>12, <2>13, <2>14 DEF Tells
  <1> QED
    BY <1>6, <1>7

\* Ranges as they are encoded: the timestamp is a difference.
Coded == [bound : [timestamp : Int, id : Seq(Nat)],
          mode : {"Skip", "Fingerprint", "IdList"}, ids : SUBSET Ids]

\* The range that decodeMessage reads when it has read those before it.
Decoded(kept, r) ==
    [r EXCEPT !.bound.timestamp =
       DecodeTimestamp(@, IF kept = << >> THEN 0 ELSE Last(kept).bound.timestamp)]

\* DecodeMessage, range by range.
DecodeSteps(coded, n, h) ==
    /\ h[0] = << >> /\ h[n] = DecodeMessage(coded)
    /\ \A k \in 1..n : h[k] = Append(h[k - 1], Decoded(h[k - 1], coded[k]))

\* A timestamp is decoded to some integer.
LEMMA DecodesToNumbers ==
    ASSUME NegentropyAssumption, NEW x \in Int, NEW last \in Int
    PROVE  DecodeTimestamp(x, last) \in Int
  <1>1. PICK h : h = 2 ^ (VarIntBits - 1)
    OBVIOUS
  <1>2. h \in Nat /\ 2 ^ VarIntBits = 2 * h
    BY <1>1 DEF NegentropyAssumption
  <1>3. PICK y, i : y = DecodeVarInt(x) /\ i = Infinity
    OBVIOUS
  <1>4. y \in Int /\ i \in Int
    BY <1>1, <1>2, <1>3 DEF DecodeVarInt, Infinity
  <1>5. DecodeTimestamp(x, last) = IF y = 0 \/ last = i THEN i ELSE y - 1 + last
    BY <1>3 DEF DecodeTimestamp
  <1> QED
    BY <1>4, <1>5

\* A decoded range is a range.
LEMMA DecodedIsCoded ==
    ASSUME NegentropyAssumption, NEW kept \in Seq(Coded), NEW r \in Coded
    PROVE  Decoded(kept, r) \in Coded
  <1>1. PICK last : last = IF kept = << >> THEN 0 ELSE Last(kept).bound.timestamp
    OBVIOUS
  <1>2. last \in Int
    <2>1. CASE kept = << >>
      BY <1>1, <2>1
    <2>2. CASE kept # << >>
      <3>1. Last(kept) \in Coded
        BY <2>2 DEF Last
      <3> QED
        BY <1>1, <2>2, <3>1 DEF Coded
    <2> QED
      BY <2>1, <2>2
  <1>3. PICK t : t = DecodeTimestamp(r.bound.timestamp, last)
    OBVIOUS
  <1>4. t \in Int
    <2>1. r.bound.timestamp \in Int
      BY DEF Coded
    <2> QED
      BY <1>2, <1>3, <2>1, DecodesToNumbers
  <1>5. Decoded(kept, r) = [r EXCEPT !.bound.timestamp = t]
    BY <1>1, <1>3 DEF Decoded
  <1> QED
    BY <1>4, <1>5 DEF Coded

\* The fold of DecodeMessage exists for any message.
LEMMA DecodeFold ==
    ASSUME NegentropyAssumption, NEW coded \in Seq(Coded), NEW n \in Nat, DOMAIN coded = 1..n
    PROVE  \E h : DecodeSteps(coded, n, h)
  <1> DEFINE A == Seq(Coded)
             Op(kept, e) == Append(kept, Decoded(kept, e))
             F == [x \in (1..n) \X A |-> Op(x[2], coded[x[1]])]
             It(g) == [s \in SUBSET (1..n) |-> IF s = {} THEN << >>
                                              ELSE Op(g[s \ {Max(s)}], coded[Max(s)])]
  <1>1. \A k \in 1..n : coded[k] \in Coded
    OBVIOUS
  <1>2. \A k \in 1..n, a \in A : Op(a, coded[k]) \in A
    BY <1>1, DecodedIsCoded
  <1>3. F \in [(1..n) \X A -> A]
    <2> HIDE DEF Op, A
    <2> QED
      BY <1>2
  <1>4. << >> \in A
    OBVIOUS
  <1>5. PICK g \in [SUBSET (1..n) -> A] :
          \A s \in SUBSET (1..n) :
            g[s] = IF s = {} THEN << >> ELSE F[<<Max(s), g[s \ {Max(s)}]>>]
    <2> HIDE DEF F, A
    <2> QED
      <3>1. HasFold(n, A, << >>, F)
        BY <1>3, <1>4, FoldExists
      <3> QED
        BY <3>1, Zenon DEF HasFold
  <1>6. g = It(g)
    <2> HIDE DEF Op, A
    <2>1. ASSUME NEW s \in SUBSET (1..n), s # {}
          PROVE  g[s] = Op(g[s \ {Max(s)}], coded[Max(s)])
      <3>1. Max(s) \in 1..n
        BY <2>1, MaxOf
      <3>2. g[s \ {Max(s)}] \in A
        OBVIOUS
      <3>3. F[<<Max(s), g[s \ {Max(s)}]>>] = Op(g[s \ {Max(s)}], coded[Max(s)])
        BY <3>1, <3>2
      <3> QED
        BY <1>5, <2>1, <3>3
    <2> HIDE DEF F
    <2>2. \A s \in SUBSET (1..n) :
            g[s] = IF s = {} THEN << >> ELSE Op(g[s \ {Max(s)}], coded[Max(s)])
      BY <1>5, <2>1
    <2> QED
      BY <2>2
  <1>7. PICK f : f = (CHOOSE x : x = It(x))
    OBVIOUS
  <1>8. f = It(f)
    <2> HIDE DEF It
    <2> QED
      BY <1>6, <1>7
  <1>a. ASSUME NEW s \in SUBSET (1..n), s # {}
        PROVE  f[s] = Op(f[s \ {Max(s)}], coded[Max(s)])
    <2> HIDE DEF Op
    <2> QED
      BY <1>a, <1>8
  <1>9. DecodeMessage(coded) = f[1..n]
    BY <1>7 DEF DecodeMessage, FoldLeft, MapThenFoldSet, Decoded
  <1> DEFINE h == [k \in 0..n |-> f[1..k]]
  <1>10. h[0] = << >>
    BY <1>8
  <1>11. ASSUME NEW k \in 1..n
         PROVE  h[k] = Op(h[k - 1], coded[k])
    <2> HIDE DEF Op
    <2>1. Max(1..k) = k /\ (1..k) \ {k} = 1..(k - 1) /\ k - 1 \in 0..n
      BY MaxOfFirst
    <2>a. 1..k \in SUBSET (1..n) /\ 1..k # {}
      <3>1. k \in 1..k /\ \A j \in 1..k : j \in 1..n
        OBVIOUS
      <3> QED
        BY <3>1, Zenon
    <2>2. f[1..k] = Op(f[(1..k) \ {Max(1..k)}], coded[Max(1..k)])
      BY <1>a, <2>a
    <2>3. h[k] = f[1..k] /\ h[k - 1] = f[1..(k - 1)]
      BY <2>1
    <2> HIDE DEF h
    <2> QED
      BY <2>1, <2>2, <2>3
  <1>12. h[n] = f[1..n]
    OBVIOUS
  <1> HIDE DEF h
  <1>13. DecodeSteps(coded, n, h)
    BY <1>9, <1>10, <1>11, <1>12 DEF DecodeSteps
  <1> QED
    BY <1>13, Zenon

\* encodeTimestampOut and decodeTimestampIn are inverse, if timestamps do not decrease.
LEMMA TimestampIsRead ==
    ASSUME NegentropyAssumption, NEW t \in Times, NEW last \in Times, last <= t
    PROVE  /\ EncodeTimestamp(t, last) \in Int
           /\ DecodeTimestamp(EncodeTimestamp(t, last), last) = t
  <1>1. PICK h, i : h = 2 ^ (VarIntBits - 1) /\ i = Infinity
    OBVIOUS
  <1>2. /\ h \in Nat \ {0, 1} /\ i = 2 * h /\ 2 ^ VarIntBits = i
        /\ t \in (0..(h - 2)) \union {i} /\ last \in (0..(h - 2)) \union {i}
    BY <1>1 DEF NegentropyAssumption, Infinity, Times
  <1>3. PICK x : x = EncodeTimestamp(t, last)
    OBVIOUS
  <1>4. CASE t = i \/ last = i
    <2>1. t = i
      BY <1>2, <1>4
    <2>2. x = 0
      BY <1>1, <1>3, <1>4 DEF EncodeTimestamp
    <2>3. DecodeVarInt(x) = 0
      BY <1>1, <1>2, <2>2 DEF DecodeVarInt
    <2>4. DecodeTimestamp(x, last) = i
      BY <1>1, <2>3 DEF DecodeTimestamp
    <2> QED
      BY <1>3, <2>1, <2>2, <2>4
  <1>5. CASE t # i /\ last # i
    <2>1. t \in 0..(h - 2) /\ last \in 0..(h - 2) /\ t - last + 1 \in 1..(h - 1)
      BY <1>2, <1>5
    <2>2. x = (t - last + 1) % i
      BY <1>1, <1>2, <1>3, <1>5 DEF EncodeTimestamp, EncodeVarInt
    <2>3. PICK y : y = t - last + 1
      OBVIOUS
    <2>4. y \in 1..(h - 1) /\ i \in Nat \ {0} /\ y < i
      BY <1>2, <2>1, <2>3
    <2>5. y % i = y
      BY <2>4
    <2>6. x = y
      BY <2>2, <2>3, <2>5
    <2>7. DecodeVarInt(x) = x /\ x # 0
      BY <1>1, <2>4, <2>6 DEF DecodeVarInt
    <2>8. DecodeTimestamp(x, last) = x - 1 + last
      BY <1>1, <1>5, <2>7 DEF DecodeTimestamp
    <2>9. x - 1 + last = t
      BY <2>1, <2>3, <2>6
    <2> QED
      BY <1>3, <2>1, <2>6, <2>3, <2>8, <2>9
  <1> QED
    BY <1>4, <1>5

\* What one side encodes the other decodes.
LEMMA MessageIsRead ==
    ASSUME NegentropyAssumption, NEW R, NEW S, NEW T, NEW c, Run(R, Start, S, T, c)
    PROVE  DecodeMessage(EncodeMessage(R, 0)) = R
  <1>1. PICK n \in Nat : n = Len(R) /\ DOMAIN R = 1..n
    BY DEF Run
  <1>2. PICK coded : coded = EncodeMessage(R, 0)
    OBVIOUS
  <1> DEFINE last(k) == IF k = 1 THEN 0 ELSE R[k - 1].bound.timestamp
             code(k) == EncodeTimestamp(R[k].bound.timestamp, last(k))
  <1>3. \A k \in 1..n : /\ R[k] \in Ranges /\ R[k].bound \in Reach
                        /\ R[k].bound \in Bounds /\ From(Start, R, k) \in Bounds
    BY <1>1, ReachIs, RunGrows
  <1>4. ASSUME NEW k \in 1..n
        PROVE  /\ R[k].bound.timestamp \in Times /\ last(k) \in Times
               /\ last(k) <= R[k].bound.timestamp
    <2>1. R[k].bound.timestamp \in Times /\ From(Start, R, k).timestamp \in Times
      BY <1>3 DEF Bounds
    <2>2. From(Start, R, k).timestamp = last(k)
      BY DEF From, Start, Bound
    <2>3. ~Before(R[k].bound, From(Start, R, k))
      BY <1>1 DEF Run
    <2>4. ~(R[k].bound.timestamp < From(Start, R, k).timestamp)
      BY <2>3 DEF Before
    <2>5. R[k].bound.timestamp \in Nat /\ From(Start, R, k).timestamp \in Nat
      BY <2>1, TimesAre
    <2> QED
      BY <2>1, <2>2, <2>4, <2>5
  <1>5. ASSUME NEW k \in 1..n
        PROVE  code(k) \in Int /\ DecodeTimestamp(code(k), last(k)) = R[k].bound.timestamp
    <2> HIDE DEF last
    <2> QED
      BY <1>4, TimestampIsRead
  <1>6. coded = [k \in 1..n |-> [R[k] EXCEPT !.bound.timestamp = code(k)]]
    BY <1>1, <1>2 DEF EncodeMessage
  <1> HIDE DEF code
  <1>7. ASSUME NEW k \in 1..n
        PROVE  /\ coded[k] \in Coded /\ coded[k].bound.timestamp = code(k)
               /\ \A t : [coded[k] EXCEPT !.bound.timestamp = t] = [R[k] EXCEPT !.bound.timestamp = t]
    <2>1. coded[k] = [R[k] EXCEPT !.bound.timestamp = code(k)]
      BY <1>6
    <2>2. R[k] \in Ranges /\ R[k].bound \in Bounds
      BY <1>3
    <2>3. R[k] = [bound |-> R[k].bound, mode |-> R[k].mode, ids |-> R[k].ids]
      BY <2>2 DEF Ranges
    <2>4. R[k].bound = [timestamp |-> R[k].bound.timestamp, id |-> R[k].bound.id]
          /\ R[k].bound.id \in Seq(Nat)
      BY <2>2 DEF Bounds
    <2>5. R[k].mode \in {"Skip", "Fingerprint", "IdList"} /\ R[k].ids \in SUBSET Ids
      BY <2>2 DEF Ranges
    <2>6. coded[k] = [bound |-> [timestamp |-> code(k), id |-> R[k].bound.id],
                      mode |-> R[k].mode, ids |-> R[k].ids]
      BY <2>1, <2>3, <2>4
    <2>7. ASSUME NEW t
          PROVE  [coded[k] EXCEPT !.bound.timestamp = t] = [R[k] EXCEPT !.bound.timestamp = t]
      BY <2>3, <2>4, <2>6
    <2>8. code(k) \in Int
      BY <1>5
    <2>9. coded[k] \in Coded
      <3>1. PICK x, y, m, d : x = code(k) /\ y = R[k].bound.id /\ m = R[k].mode /\ d = R[k].ids
        OBVIOUS
      <3>2. coded[k] = [bound |-> [timestamp |-> x, id |-> y], mode |-> m, ids |-> d]
        BY <2>6, <3>1
      <3>3. x \in Int /\ y \in Seq(Nat) /\ m \in {"Skip", "Fingerprint", "IdList"} /\ d \in SUBSET Ids
        BY <2>4, <2>5, <2>8, <3>1
      <3> QED
        BY <3>2, <3>3 DEF Coded
    <2>10. coded[k].bound.timestamp = code(k)
      BY <2>6
    <2> QED
      BY <2>7, <2>9, <2>10, Zenon
  <1>8. coded \in Seq(Coded) /\ DOMAIN coded = 1..n
    <2>1. coded \in [1..n -> Coded]
      BY <1>6, <1>7
    <2> QED
      BY <2>1
  <1>9. PICK h : DecodeSteps(coded, n, h)
    <2> HIDE DEF code, last
    <2> QED
      BY <1>1, <1>8, DecodeFold
  <1> DEFINE Read(s, k) == s \in Seq(Ranges) /\ Len(s) = k /\ \A i \in 1..k : s[i] = R[i]
             I == {k \in 0..n : Read(h[k], k)}
  <1>10. 0 \in I
    <2>1. h[0] = << >>
      BY <1>9 DEF DecodeSteps
    <2>2. Read(<< >>, 0)
      OBVIOUS
    <2>3. Read(h[0], 0) /\ 0 \in 0..n
      BY <2>1, <2>2
    <2> HIDE DEF Read
    <2> QED
      BY <2>3
  <1>11. ASSUME NEW k \in 0..(n - 1), k \in I
         PROVE  k + 1 \in I
    <2>1. PICK m, s : m = k + 1 /\ s = h[k]
      OBVIOUS
    <2>2. m \in 1..n /\ k = m - 1 /\ Read(s, k)
      BY <1>11, <2>1
    <2>3. h[m] = Append(s, Decoded(s, coded[m]))
      BY <1>9, <2>1, <2>2 DEF DecodeSteps
    <2>4. (IF s = << >> THEN 0 ELSE Last(s).bound.timestamp) = last(m)
      <3>1. CASE m = 1
        <4>1. s = << >>
          BY <2>2, <3>1
        <4> QED
          BY <3>1, <4>1
      <3>2. CASE m # 1
        <4>1. s # << >> /\ Len(s) = m - 1 /\ m - 1 \in 1..k
          BY <2>2, <3>2
        <4>2. Last(s) = R[m - 1]
          BY <2>2, <4>1 DEF Last
        <4> QED
          BY <3>2, <4>1, <4>2
      <3> QED
        BY <3>1, <3>2
    <2> HIDE DEF last
    <2>5. Decoded(s, coded[m]) = [coded[m] EXCEPT !.bound.timestamp = R[m].bound.timestamp]
      <3>1. PICK e, t : e = coded[m] /\ t = R[m].bound.timestamp
        OBVIOUS
      <3>2. DecodeTimestamp(e.bound.timestamp, last(m)) = t
        BY <1>5, <1>7, <2>2, <3>1
      <3>3. Decoded(s, e) = [e EXCEPT !.bound.timestamp = t]
        BY <2>4, <3>2 DEF Decoded
      <3> QED
        BY <3>1, <3>3
    <2>6. Decoded(s, coded[m]) = R[m]
      <3>1. R[m] \in Ranges /\ R[m].bound \in Bounds
        BY <1>3, <2>2
      <3>2. [R[m] EXCEPT !.bound.timestamp = R[m].bound.timestamp] = R[m]
        BY <3>1 DEF Ranges, Bounds
      <3> QED
        BY <1>7, <2>2, <2>5, <3>2
    <2>7. Read(h[m], m)
      <3>1. PICK e : e = R[m]
        OBVIOUS
      <3>2. e \in Ranges /\ h[m] = Append(s, e)
        BY <1>3, <2>2, <2>3, <2>6, <3>1
      <3> QED
        BY <2>2, <3>1, <3>2
    <2> QED
      BY <2>1, <2>2, <2>7
  <1>12. n \in I
    <2>1. \A k \in 0..n : k \in I
      <3> HIDE DEF I
      <3> QED
        BY <1>10, <1>11, Reaches
    <2> QED
      BY <2>1
  <1>13. Read(h[n], n)
    BY <1>12
  <1>14. h[n] = R
    <2>1. PICK s : s = h[n]
      OBVIOUS
    <2>2. R \in Seq(Ranges) /\ s \in Seq(Ranges) /\ Len(s) = Len(R)
      BY <1>1, <1>13, <2>1 DEF Run
    <2>3. \A i \in 1..Len(s) : s[i] = R[i]
      BY <1>1, <1>13, <2>1
    <2> QED
      BY <2>1, <2>2, <2>3, SeqEqual
  <1> QED
    BY <1>2, <1>9, <1>14 DEF DecodeSteps

\* g is what FoldLeft defines of ReconcileRange on the first m ranges.
Folds(storage, base, R, m, g) ==
    g = [s \in SUBSET (1..m) |->
           IF s = {} THEN base ELSE ReconcileRange(storage, g[s \ {Max(s)}], R[Max(s)])]

\* The fold of Reconciled has its function for a message of any length.
LEMMA ReconcileFolds ==
    ASSUME NEW storage, NEW base, NEW R, NEW n \in Nat
    PROVE  \E g : Folds(storage, base, R, n, g)
  <1> DEFINE I == {m \in 0..n : \E g : Folds(storage, base, R, m, g)}
  <1>1. 0 \in I
    <2>1. PICK g : g = [s \in SUBSET (1..0) |-> base]
      OBVIOUS
    <2>2. \A s \in SUBSET (1..0) : s = {}
      OBVIOUS
    <2>3. g = [s \in SUBSET (1..0) |->
                 IF s = {} THEN base ELSE ReconcileRange(storage, g[s \ {Max(s)}], R[Max(s)])]
      BY <2>1, <2>2
    <2>4. Folds(storage, base, R, 0, g)
      BY <2>3 DEF Folds
    <2> QED
      BY <2>4
  <1>2. ASSUME NEW k \in 0..(n - 1), k \in I
        PROVE  k + 1 \in I
    <2>1. PICK g : Folds(storage, base, R, k, g)
      BY <1>2
    <2>2. PICK j : j = k + 1
      OBVIOUS
    <2>3. j \in 1..n /\ 1..j = (1..k) \union {j} /\ j \notin 1..k
      BY <2>2
    <2>4. PICK h : h = [s \in SUBSET (1..j) |->
                          IF j \in s THEN ReconcileRange(storage, g[s \ {j}], R[j]) ELSE g[s]]
      OBVIOUS
    <2>5. \A s \in SUBSET (1..k) :
            g[s] = IF s = {} THEN base ELSE ReconcileRange(storage, g[s \ {Max(s)}], R[Max(s)])
      BY <2>1 DEF Folds
    <2>6. ASSUME NEW s \in SUBSET (1..j)
          PROVE  h[s] = IF s = {} THEN base
                        ELSE ReconcileRange(storage, h[s \ {Max(s)}], R[Max(s)])
      <3>1. CASE j \in s
        <4>1. Max(s) = j
          <5>1. j \in Nat /\ s # {}
            BY <2>3, <3>1
          <5>2. Max(s) \in s /\ \A y \in s : Max(s) >= y
            BY <5>1, MaxOf
          <5>3. PICK x : x = Max(s)
            OBVIOUS
          <5>4. x \in 1..j /\ x >= j
            BY <5>2, <5>3, <3>1
          <5> QED
            BY <5>1, <5>3, <5>4
        <4>2. PICK t : t = s \ {j}
          OBVIOUS
        <4>3. t \in SUBSET (1..j) /\ j \notin t
          BY <4>2
        <4>4. h[t] = g[t]
          BY <2>4, <4>3
        <4>5. h[s] = ReconcileRange(storage, g[t], R[j])
          BY <2>4, <3>1, <4>2
        <4> QED
          BY <3>1, <4>1, <4>2, <4>4, <4>5
      <3>2. CASE j \notin s /\ s # {}
        <4>1. s \in SUBSET (1..k)
          BY <2>3, <3>2
        <4>2. PICK t : t = s \ {Max(s)}
          OBVIOUS
        <4>3. t \in SUBSET (1..j) /\ j \notin t
          BY <3>2, <4>2
        <4>4. h[t] = g[t] /\ h[s] = g[s]
          BY <2>4, <3>2, <4>3
        <4> QED
          BY <2>5, <3>2, <4>1, <4>2, <4>4
      <3>3. CASE s = {}
        <4>1. s \in SUBSET (1..k) /\ j \notin s
          BY <3>3
        <4> QED
          BY <2>4, <2>5, <3>3, <4>1
      <3> QED
        BY <3>1, <3>2, <3>3
    <2>7. h = [s \in SUBSET (1..j) |->
                 IF s = {} THEN base ELSE ReconcileRange(storage, h[s \ {Max(s)}], R[Max(s)])]
      BY <2>4, <2>6
    <2>8. Folds(storage, base, R, j, h)
      BY <2>7 DEF Folds
    <2>9. j \in 0..n
      BY <2>3
    <2> QED
      BY <2>2, <2>8, <2>9
  <1>3. n \in I
    <2>1. \A k \in 0..n : k \in I
      <3> HIDE DEF I
      <3> QED
        BY <1>1, <1>2, Reaches
    <2> QED
      BY <2>1
  <1> QED
    BY <1>3

\* What reconcile begins with.
Blank(side) ==
    [prevIndex |-> 0, prevBound |-> Bound(0, << >>), skip |-> FALSE, stopped |-> FALSE,
     output |-> << >>, have |-> have[side], need |-> need[side]]

\* h[k] is what reconcile has done after k ranges.
ReconcileSteps(side, R, n, h) ==
    /\ h[0] = Blank(side) /\ h[n] = Reconciled(side, R)
    /\ \A k \in 1..n : h[k] = ReconcileRange(Sealed(side), h[k - 1], R[k])

\* Reconciled, range by range.
LEMMA ReconcileInSteps ==
    ASSUME NEW side, NEW R, NEW n \in Nat, DOMAIN R = 1..n
    PROVE  \E h : ReconcileSteps(side, R, n, h)
  <1> DEFINE base == Blank(side)
             st == Sealed(side)
             It(g) == [s \in SUBSET (1..n) |->
                         IF s = {} THEN base ELSE ReconcileRange(st, g[s \ {Max(s)}], R[Max(s)])]
  <1>1. PICK g : Folds(st, base, R, n, g)
    <2> HIDE DEF base, st
    <2> QED
      BY ReconcileFolds
  <1>2. g = It(g)
    BY <1>1, Zenon DEF Folds
  <1>3. PICK f : f = (CHOOSE x : x = It(x))
    OBVIOUS
  <1>4. f = It(f)
    <2> HIDE DEF It
    <2> QED
      BY <1>2, <1>3
  <1>5. Reconciled(side, R) = f[1..n]
    BY <1>3 DEF Reconciled, FoldLeft, MapThenFoldSet, Blank
  <1> HIDE DEF base, st
  <1>6. ASSUME NEW s \in SUBSET (1..n), s # {}
        PROVE  f[s] = ReconcileRange(st, f[s \ {Max(s)}], R[Max(s)])
    BY <1>4, <1>6
  <1> DEFINE h == [k \in 0..n |-> f[1..k]]
  <1>7. h[0] = base
    <2>1. f[{}] = base
      <3>1. {} \in SUBSET (1..n)
        OBVIOUS
      <3> QED
        BY <1>4, <3>1
    <2>2. 1..0 = {} /\ 0 \in 0..n
      OBVIOUS
    <2> QED
      BY <2>1, <2>2
  <1>8. ASSUME NEW k \in 1..n
        PROVE  h[k] = ReconcileRange(st, h[k - 1], R[k])
    <2>1. Max(1..k) = k /\ (1..k) \ {k} = 1..(k - 1) /\ k - 1 \in 0..n
      BY MaxOfFirst
    <2>2. 1..k \in SUBSET (1..n) /\ 1..k # {}
      <3>1. k \in 1..k /\ \A j \in 1..k : j \in 1..n
        OBVIOUS
      <3> QED
        BY <3>1, Zenon
    <2>3. f[1..k] = ReconcileRange(st, f[(1..k) \ {Max(1..k)}], R[Max(1..k)])
      BY <1>6, <2>2
    <2>4. h[k] = f[1..k] /\ h[k - 1] = f[1..(k - 1)]
      BY <2>1
    <2> HIDE DEF h
    <2> QED
      BY <2>1, <2>3, <2>4
  <1>9. h[n] = f[1..n]
    OBVIOUS
  <1> HIDE DEF h
  <1>10. ReconcileSteps(side, R, n, h)
    BY <1>5, <1>7, <1>8, <1>9 DEF ReconcileSteps, base, st
  <1> QED
    BY <1>10, Zenon

\* The local variables of reconcile's loop.
States == [prevIndex : Nat, prevBound : Reach, skip : BOOLEAN, stopped : BOOLEAN,
           output : Seq(Ranges), have : SUBSET Ids, need : SUBSET Ids]

\* The local names of ReconcileRange.
Upper(storage, s, r) == FindLowerBound(storage, s.prevIndex, r.bound)
Ours(storage, s, r) == IdsIn(storage, s.prevIndex, Upper(storage, s, r))
Differs(storage, s, r) == r.mode = "Fingerprint" /\ r.ids # Ours(storage, s, r)
Answer(storage, s, r) ==
    IF ~Differs(storage, s, r) THEN << >>
    ELSE (IF s.skip THEN <<Skip(s.prevBound)>> ELSE << >>)
           \o SplitRange(storage, s.prevIndex, Upper(storage, s, r), r.bound)
\* The answer does not fit in the frame.
CutOff(storage, s, r) == Length(s.output \o Answer(storage, s, r)) > MaxFrame

\* What a range adds to have and need, and what it leaves of the loop's other variables.
Adds(storage, s, r, t) ==
    /\ t.have = IF r.mode = "IdList" THEN s.have \union (Ours(storage, s, r) \ r.ids) ELSE s.have
    /\ t.need = IF r.mode = "IdList" THEN s.need \union (r.ids \ Ours(storage, s, r)) ELSE s.need

\* A step of the loop in which it is not stopped: range r is read in s, which leads to t.
IsStep(storage, s, r, t) ==
    /\ Adds(storage, s, r, t)
    /\ CutOff(storage, s, r) =>
         /\ t.stopped = TRUE /\ t.prevIndex = s.prevIndex /\ t.prevBound = s.prevBound
         /\ t.skip = s.skip
         /\ t.output = Append(s.output, Fingerprint(End,
                         IdsIn(storage, Upper(storage, s, r), Len(storage))))
    /\ ~CutOff(storage, s, r) =>
         /\ t.stopped = FALSE /\ t.prevIndex = Upper(storage, s, r) /\ t.prevBound = r.bound
         /\ t.skip = ~Differs(storage, s, r)
         /\ t.output = s.output \o Answer(storage, s, r)
    /\ t = [prevIndex |-> t.prevIndex, prevBound |-> t.prevBound, skip |-> t.skip,
            stopped |-> t.stopped, output |-> t.output, have |-> t.have, need |-> t.need]

\* One range of the loop, by its cases.
LEMMA RangeIs ==
    ASSUME NEW storage, NEW s \in States, NEW r, ~s.stopped,
           NEW t, t = ReconcileRange(storage, s, r)
    PROVE  IsStep(storage, s, r, t)
  <1>1. PICK pi, pb, sk, out, hv, nd :
          s = [prevIndex |-> pi, prevBound |-> pb, skip |-> sk, stopped |-> FALSE,
               output |-> out, have |-> hv, need |-> nd]
    BY DEF States
  <1>2. s.prevIndex = pi /\ s.prevBound = pb /\ s.skip = sk /\ s.output = out /\ s.have = hv /\ s.need = nd
    BY <1>1
  <1>3. PICK up, ours, o, hv2, nd2, df, co :
          /\ up = Upper(storage, s, r) /\ ours = Ours(storage, s, r)
          /\ o = Answer(storage, s, r)
          /\ df = Differs(storage, s, r)
          /\ co = CutOff(storage, s, r)
          /\ hv2 = (IF r.mode = "IdList" THEN hv \union (ours \ r.ids) ELSE hv)
          /\ nd2 = (IF r.mode = "IdList" THEN nd \union (r.ids \ ours) ELSE nd)
    OBVIOUS
  <1>4. PICK told : told = [s EXCEPT !.have = hv2, !.need = nd2]
    OBVIOUS
  <1>5. told = [prevIndex |-> pi, prevBound |-> pb, skip |-> sk, stopped |-> FALSE,
               output |-> out, have |-> hv2, need |-> nd2]
    BY <1>1, <1>4
  <1>6. t = IF CutOff(storage, s, r)
            THEN [told EXCEPT !.stopped = TRUE,
                    !.output = Append(@, Fingerprint(Bound(Infinity, << >>),
                                             IdsIn(storage, up, Len(storage))))]
            ELSE [told EXCEPT !.output = @ \o o, !.skip = ~Differs(storage, s, r),
                      !.prevIndex = up, !.prevBound = r.bound]
    <2>1. told = [s EXCEPT !.have = IF r.mode = "IdList" THEN @ \union (ours \ r.ids) ELSE @,
                           !.need = IF r.mode = "IdList" THEN @ \union (r.ids \ ours) ELSE @]
      BY <1>1, <1>2, <1>3, <1>4
    <2> QED
      BY <2>1, <1>3 DEF ReconcileRange, Upper, Ours, Differs, Answer, CutOff
  <1>7. PICK fp : fp = Fingerprint(End, IdsIn(storage, up, Len(storage)))
    OBVIOUS
  <1>8. CASE CutOff(storage, s, r)
    <2>1. t = [told EXCEPT !.stopped = TRUE, !.output = Append(@, fp)]
      BY <1>6, <1>7, <1>8 DEF End
    <2>2. t = [prevIndex |-> pi, prevBound |-> pb, skip |-> sk, stopped |-> TRUE,
               output |-> Append(out, fp), have |-> hv2, need |-> nd2]
      BY <1>5, <2>1
    <2>3. Adds(storage, s, r, t)
      BY <1>2, <1>3, <2>2 DEF Adds
    <2>4. /\ t.stopped = TRUE /\ t.prevIndex = pi /\ t.prevBound = pb /\ t.skip = sk
          /\ t.output = Append(out, fp) /\ t.have = hv2 /\ t.need = nd2
      BY <2>2
    <2>5. t = [prevIndex |-> t.prevIndex, prevBound |-> t.prevBound, skip |-> t.skip,
               stopped |-> t.stopped, output |-> t.output, have |-> t.have, need |-> t.need]
      BY <2>2, <2>4, Zenon
    <2>6. fp = Fingerprint(End, IdsIn(storage, Upper(storage, s, r), Len(storage)))
      BY <1>3, <1>7, Zenon
    <2>7. t.output = Append(s.output, Fingerprint(End,
                         IdsIn(storage, Upper(storage, s, r), Len(storage))))
      BY <1>2, <2>4, <2>6, Zenon
    <2> QED
      BY <1>2, <1>8, <2>3, <2>4, <2>5, <2>7, Zenon DEF IsStep
  <1>9. CASE ~CutOff(storage, s, r)
    <2>1. PICK nf : nf = ~Differs(storage, s, r)
      OBVIOUS
    <2>2. t = [told EXCEPT !.output = @ \o o, !.skip = nf, !.prevIndex = up, !.prevBound = r.bound]
      BY <1>6, <1>9, <2>1
    <2>3. t = [prevIndex |-> up, prevBound |-> r.bound, skip |-> nf, stopped |-> FALSE,
               output |-> out \o o, have |-> hv2, need |-> nd2]
      BY <1>5, <2>2
    <2>4. Adds(storage, s, r, t)
      BY <1>2, <1>3, <2>3 DEF Adds
    <2>5. /\ t.stopped = FALSE /\ t.prevIndex = up /\ t.prevBound = r.bound /\ t.skip = nf
          /\ t.output = out \o o /\ t.have = hv2 /\ t.need = nd2
      BY <2>3
    <2>6. t = [prevIndex |-> t.prevIndex, prevBound |-> t.prevBound, skip |-> t.skip,
               stopped |-> t.stopped, output |-> t.output, have |-> t.have, need |-> t.need]
      BY <2>3, <2>5, Zenon
    <2>7. t.output = s.output \o Answer(storage, s, r) /\ t.prevIndex = Upper(storage, s, r)
      BY <1>2, <1>3, <2>5, Zenon
    <2>8. t.skip = ~Differs(storage, s, r)
      BY <2>1, <2>5
    <2> QED
      BY <1>9, <2>4, <2>5, <2>6, <2>7, <2>8, Zenon DEF IsStep
  <1> QED
    BY <1>8, <1>9

\* Before the loop of reconcile reads range m of R, its output says of X what it has read.
AtRange(storage, X, Y, c, R, s, m) ==
    /\ s \in States
    /\ ~s.stopped =>
         /\ s.prevBound = From(Start, R, m) /\ IsCut(storage, s.prevIndex, s.prevBound)
         /\ ~(Length(s.output) > MaxFrame)
         /\ ~Before(s.prevBound, UpTo(Start, s.output))
         /\ ~s.skip => UpTo(Start, s.output) = s.prevBound
         /\ Run(s.output, Start, X, Y, 0)
    /\ s.stopped => Run(s.output, Start, X, Y, IF c = 2 THEN 2 ELSE c + 1)

\* Z says what is in output, and of the items between b0 and b.
Extends(Z, output, X, Y, b0, b) ==
    /\ Run(Z, Start, X, Y, 0) /\ UpTo(Start, Z) = b
    /\ \A d : InSpan(d, b0, b) => Covered(d, Start, Z)
    /\ \A d : Covered(d, Start, output) => Covered(d, Start, Z)

\* An answer tells all of its range, from where the output ends.
LEMMA AnswerExtends ==
    ASSUME NEW storage, NEW X, HasStorage(storage, X), NEW Y, NEW c, NEW R, NEW s, NEW m,
           AtRange(storage, X, Y, c, R, s, m), ~s.stopped,
           NEW r \in Ranges, ~Before(r.bound, s.prevBound), Differs(storage, s, r)
    PROVE  Extends(s.output \o Answer(storage, s, r), s.output, X, Y, s.prevBound, r.bound)
  <1>1. PICK out, pb, b, l, u, e :
          /\ out = s.output /\ pb = s.prevBound /\ b = r.bound /\ l = s.prevIndex
          /\ u = Upper(storage, s, r) /\ e = UpTo(Start, out)
    OBVIOUS
  <1>2. /\ NegentropyAssumption /\ pb \in Reach /\ b \in Reach /\ pb \in Bounds /\ b \in Bounds
        /\ Start \in Reach
    <2>1. NegentropyAssumption
      BY DEF HasStorage
    <2>2. pb \in Reach /\ b \in Reach
      BY <1>1 DEF AtRange, States, Ranges
    <2> QED
      BY <2>1, <2>2, ReachIs
  <1>3. /\ Run(out, Start, X, Y, 0) /\ IsCut(storage, l, pb) /\ ~Before(pb, e)
        /\ (~s.skip => e = pb) /\ ~Before(b, pb)
    BY <1>1 DEF AtRange
  <1>4. IsCut(storage, u, b)
    BY <1>1, <1>2, <1>3, LowerBoundIsCut DEF Upper
  <1>5. PICK Z : Z = SplitRange(storage, l, u, b)
    OBVIOUS
  <1>6. Tells(Z, pb, b, X)
    BY <1>2, <1>3, <1>4, <1>5, SplitTells
  <1>7. /\ Run(Z, pb, X, Y, 0) /\ UpTo(pb, Z) = b
        /\ \A d : InSpan(d, pb, b) => Covered(d, pb, Z)
    BY <1>6 DEF Tells
  <1>8. PICK P : P = IF s.skip THEN <<Skip(pb)>> ELSE << >>
    OBVIOUS
  <1>9. Run(P, e, X, Y, 0) /\ UpTo(e, P) = pb
    <2>1. CASE s.skip
      <3>1. PICK sk : sk = Skip(pb)
        OBVIOUS
      <3>2. sk \in Ranges /\ sk.bound = pb /\ sk.mode = "Skip"
        BY <1>2, <3>1 DEF Skip, Ranges
      <3>3. Fair(sk, e, X, Y, 0)
        BY <3>2 DEF Fair
      <3>4. Run(<<sk>>, e, X, Y, 0) /\ UpTo(e, <<sk>>) = pb
        BY <1>3, <3>2, <3>3, RunOfOne
      <3> QED
        BY <1>8, <2>1, <3>1, <3>4
    <2>2. CASE ~s.skip
      BY <1>3, <1>8, <2>2, RunOfNone
    <2> QED
      BY <2>1, <2>2
  <1>10. PICK Q : Q = P \o Z
    OBVIOUS
  <1>11. /\ Run(Q, e, X, Y, 0) /\ UpTo(e, Q) = b
         /\ \A d : InSpan(d, pb, b) => Covered(d, e, Q)
    <2>1. /\ Run(P \o Z, e, X, Y, 0) /\ UpTo(e, P \o Z) = UpTo(UpTo(e, P), Z)
          /\ \A d : Covered(d, e, P) \/ Covered(d, UpTo(e, P), Z) => Covered(d, e, P \o Z)
      BY <1>7, <1>9, RunConcat
    <2> QED
      BY <1>7, <1>9, <1>10, <2>1
  <1>12. Extends(out \o Q, out, X, Y, pb, b)
    <2>1. /\ Run(out \o Q, Start, X, Y, 0) /\ UpTo(Start, out \o Q) = UpTo(UpTo(Start, out), Q)
          /\ \A d : Covered(d, Start, out) \/ Covered(d, UpTo(Start, out), Q) =>
                      Covered(d, Start, out \o Q)
      BY <1>1, <1>3, <1>11, RunConcat
    <2> QED
      BY <1>1, <1>11, <2>1 DEF Extends
  <1>13. Answer(storage, s, r) = Q
    BY <1>1, <1>5, <1>8, <1>10 DEF Answer
  <1> QED
    BY <1>1, <1>12, <1>13

\* An item that is not before a bound is before the last.
LEMMA ItemsEnd ==
    ASSUME NegentropyAssumption, NEW d \in Ids, NEW a \in Bounds, NEW b \in Bounds, ~Before(b, a),
           ~Before(ItemOf(d), b)
    PROVE  InSpan(d, a, End)
  <1>1. ItemOf(d) \in Bounds /\ Before(ItemOf(d), End)
    BY ItemIsBound
  <1>2. ~Before(ItemOf(d), a)
    BY <1>1, BeforeThrough
  <1> QED
    BY <1>1, <1>2 DEF InSpan

\* Z says what is in output, and that something is left from pb on.
LeavesRest(Z, output, X, Y, c, pb) ==
    /\ Run(Z, Start, X, Y, IF c = 2 THEN 2 ELSE c + 1)
    /\ \A d \in Ids : ~Before(ItemOf(d), pb) => Covered(d, Start, Z)
    /\ \A d : Covered(d, Start, output) => Covered(d, Start, Z)

\* An answer that was cut off says by its last range that something is left.
LEMMA CutOffTells ==
    ASSUME NEW storage, NEW X, HasStorage(storage, X), NEW Y \in SUBSET Ids, NEW c \in 0..2,
           NEW R, NEW s, NEW m, AtRange(storage, X, Y, c, R, s, m), ~s.stopped,
           NEW r \in Ranges, ~Before(r.bound, s.prevBound), Fair(r, s.prevBound, Y, X, c),
           CutOff(storage, s, r),
           NEW Z, Z = Append(s.output, Fingerprint(End,
                               IdsIn(storage, Upper(storage, s, r), Len(storage))))
    PROVE  LeavesRest(Z, s.output, X, Y, c, s.prevBound)
  <1>1. PICK out, pb, b, u, e, x :
          /\ out = s.output /\ pb = s.prevBound /\ b = r.bound
          /\ u = Upper(storage, s, r) /\ e = UpTo(Start, out)
          /\ x = IF c = 2 THEN 2 ELSE c + 1
    OBVIOUS
  <1>2. /\ NegentropyAssumption /\ pb \in Reach /\ b \in Reach /\ pb \in Bounds /\ b \in Bounds
        /\ Start \in Reach /\ End \in Reach /\ End \in Bounds
    <2>1. NegentropyAssumption
      BY DEF HasStorage
    <2>2. pb \in Reach /\ b \in Reach
      BY <1>1 DEF AtRange, States, Ranges
    <2> QED
      BY <2>1, <2>2, ReachIs
  <1>3. /\ Run(out, Start, X, Y, 0) /\ IsCut(storage, s.prevIndex, pb) /\ ~Before(pb, e)
        /\ ~Before(b, pb) /\ ~(Length(out) > MaxFrame)
    BY <1>1 DEF AtRange
  <1>4. e \in Reach /\ e \in Bounds /\ ~Before(End, e)
    BY <1>1, <1>2, <1>3, RunGrows, ReachIs
  <1>5. IsCut(storage, u, b) /\ IsCut(storage, Len(storage), End)
    <2>1. IsCut(storage, u, b)
      BY <1>1, <1>2, <1>3, LowerBoundIsCut DEF Upper
    <2> QED
      BY <2>1, EndCuts
  <1>6. PICK fp : fp = Fingerprint(End, IdsIn(storage, u, Len(storage)))
    OBVIOUS
  <1>7. IdsIn(storage, u, Len(storage)) = Between(X, b, End)
    BY <1>5, IdsInIsSpan
  <1>8. fp \in Ranges /\ fp.bound = End /\ fp.mode = "Fingerprint" /\ fp.ids = Between(X, b, End)
    <2>1. Between(X, b, End) \in SUBSET Ids
      BY DEF Between, HasStorage
    <2>2. PICK i : i = Between(X, b, End)
      OBVIOUS
    <2>3. fp = Fingerprint(End, i) /\ i \in SUBSET Ids
      BY <1>6, <1>7, <2>1, <2>2
    <2> QED
      BY <1>2, <2>2, <2>3 DEF Fingerprint, Ranges
  <1>9. Differs(storage, s, r)
    <2> SUFFICES ASSUME ~Differs(storage, s, r) PROVE FALSE
      OBVIOUS
    <2>1. Answer(storage, s, r) = << >>
      BY DEF Answer
    <2>2. out \in Seq(Ranges)
      BY <1>3 DEF Run
    <2>3. out \o << >> = out
      BY <2>2
    <2> QED
      BY <1>1, <1>3, <2>1, <2>3 DEF CutOff
  <1>10. Fair(fp, e, X, Y, x)
    <2>1. x \in 1..2
      BY <1>1
    <2>2. ASSUME x = 1
          PROVE  fp.ids # Between(Y, e, End)
      <3>1. c = 0
        BY <1>1, <2>2
      <3>2. r.ids = Between(Y, pb, b) /\ r.ids # {}
        BY <1>1, <1>9, <3>1 DEF Fair, Differs
      <3>3. PICK j : j \in r.ids
        BY <3>2
      <3>4. j \in Y /\ j \in Ids /\ ~Before(ItemOf(j), pb) /\ Before(ItemOf(j), b)
        BY <3>2, <3>3 DEF Between, InSpan
      <3>5. InSpan(j, e, End)
        BY <1>2, <1>3, <1>4, <3>4, ItemsEnd
      <3>6. j \in Between(Y, e, End) /\ j \notin Between(X, b, End)
        BY <3>4, <3>5 DEF Between, InSpan
      <3> QED
        BY <1>8, <3>6
    <2> QED
      BY <1>8, <2>1, <2>2 DEF Fair
  <1>11. PICK F : F = <<fp>>
    OBVIOUS
  <1>12. Run(F, e, X, Y, x) /\ \A d : Covered(d, e, F) <=> InSpan(d, e, End)
    <2>1. /\ Run(<<fp>>, e, X, Y, x)
          /\ \A d : Covered(d, e, <<fp>>) <=> fp.mode # "Skip" /\ InSpan(d, e, fp.bound)
      BY <1>4, <1>8, <1>10, RunOfOne
    <2> QED
      BY <1>8, <1>11, <2>1
  <1>13. Run(out, Start, X, Y, x)
    BY <1>3, RunIsRun
  <1>14. /\ Run(out \o F, Start, X, Y, x)
         /\ \A d : Covered(d, Start, out) \/ Covered(d, e, F) => Covered(d, Start, out \o F)
    BY <1>1, <1>12, <1>13, RunConcat
  <1>15. Z = out \o F
    <2>1. out \in Seq(Ranges)
      BY <1>3 DEF Run
    <2>2. Append(out, fp) = out \o <<fp>>
      BY <1>8, <2>1
    <2> QED
      BY <1>1, <1>6, <1>11, <2>2
  <1>16. ASSUME NEW d \in Ids, ~Before(ItemOf(d), pb)
         PROVE  Covered(d, Start, Z)
    <2>1. InSpan(d, e, End)
      BY <1>2, <1>3, <1>4, <1>16, ItemsEnd
    <2> QED
      BY <1>12, <1>14, <1>15, <2>1
  <1>17. Run(Z, Start, X, Y, x)
    BY <1>14, <1>15
  <1>18. \A d : Covered(d, Start, out) => Covered(d, Start, Z)
    BY <1>14, <1>15
  <1> QED
    BY <1>1, <1>16, <1>17, <1>18 DEF LeavesRest

\* What the lemmas on a step of the loop are about.
IsReading(storage, X, Y, c, R) ==
    /\ HasStorage(storage, X) /\ Y \in SUBSET Ids /\ c \in 0..2
    /\ Run(R, Start, Y, X, c)

\* The range that is read begins at the bound where the range before it ended.
LEMMA RangeRead ==
    ASSUME NEW storage, NEW X, NEW Y, NEW c, NEW R, IsReading(storage, X, Y, c, R), NEW s,
           NEW m \in 1..Len(R), AtRange(storage, X, Y, c, R, s, m), ~s.stopped,
           NEW r, r = R[m]
    PROVE  /\ r \in Ranges /\ r.bound \in Reach /\ s.prevBound \in Reach
           /\ ~Before(r.bound, s.prevBound) /\ Fair(r, s.prevBound, Y, X, c)
           /\ IsCut(storage, Upper(storage, s, r), r.bound)
           /\ Ours(storage, s, r) = Between(X, s.prevBound, r.bound)
           /\ s.prevBound = From(Start, R, m)
  <1>1. NegentropyAssumption /\ HasStorage(storage, X) /\ Run(R, Start, Y, X, c)
    BY DEF IsReading, HasStorage
  <1>2. s.prevBound = From(Start, R, m) /\ s.prevBound \in Reach
        /\ IsCut(storage, s.prevIndex, s.prevBound)
    BY DEF AtRange, States
  <1>3. r \in Ranges /\ r.bound \in Reach
    BY <1>1, ReachIs, RunGrows
  <1>4. ~Before(r.bound, s.prevBound) /\ Fair(r, s.prevBound, Y, X, c)
    BY <1>1, <1>2 DEF Run
  <1>5. s.prevBound \in Bounds /\ r.bound \in Bounds
    BY <1>1, <1>2, <1>3, ReachIs
  <1>6. IsCut(storage, Upper(storage, s, r), r.bound)
    <2>1. PICK l, pb, b : l = s.prevIndex /\ pb = s.prevBound /\ b = r.bound
      OBVIOUS
    <2>2. IsCut(storage, FindLowerBound(storage, l, b), b)
      BY <1>1, <1>2, <1>4, <1>5, <2>1, LowerBoundIsCut
    <2> QED
      BY <2>1, <2>2 DEF Upper
  <1>7. Ours(storage, s, r) = Between(X, s.prevBound, r.bound)
    <2>1. PICK l, pb, b, u : l = s.prevIndex /\ pb = s.prevBound /\ b = r.bound /\ u = Upper(storage, s, r)
      OBVIOUS
    <2>2. IdsIn(storage, l, u) = Between(X, pb, b)
      BY <1>1, <1>2, <1>6, <2>1, IdsInIsSpan
    <2> QED
      BY <2>1, <2>2 DEF Ours
  <1> QED
    BY <1>2, <1>3, <1>4, <1>6, <1>7

\* What happens to the output: it stays, is extended, or is cut off.
LEMMA AtRangeStep ==
    ASSUME NEW storage, NEW X, NEW Y, NEW c, NEW R, IsReading(storage, X, Y, c, R), NEW s,
           NEW m \in 1..Len(R), AtRange(storage, X, Y, c, R, s, m),
           NEW t, t = ReconcileRange(storage, s, R[m])
    PROVE  AtRange(storage, X, Y, c, R, t, m + 1)
  <1>1. CASE s.stopped
    <2>1. t = s
      BY <1>1 DEF ReconcileRange
    <2> QED
      BY <1>1, <2>1 DEF AtRange
  <1>2. CASE ~s.stopped
    <2>1. PICK r, u : r = R[m] /\ u = Upper(storage, s, r)
      OBVIOUS
    <2>2. /\ r \in Ranges /\ r.bound \in Reach /\ s.prevBound \in Reach
          /\ ~Before(r.bound, s.prevBound) /\ Fair(r, s.prevBound, Y, X, c)
          /\ IsCut(storage, u, r.bound)
          /\ Ours(storage, s, r) = Between(X, s.prevBound, r.bound)
      BY <1>2, <2>1, RangeRead
    <2>3. /\ NegentropyAssumption /\ HasStorage(storage, X) /\ X \in SUBSET Ids
          /\ Y \in SUBSET Ids /\ c \in 0..2
      BY DEF IsReading, HasStorage
    <2>4. s \in States
      BY DEF AtRange
    <2>5. t = ReconcileRange(storage, s, r)
      BY <2>1
    <2>5a. IsStep(storage, s, r, t)
      BY <1>2, <2>4, <2>5, RangeIs
    <2>6. /\ Adds(storage, s, r, t)
          /\ t = [prevIndex |-> t.prevIndex, prevBound |-> t.prevBound, skip |-> t.skip,
                  stopped |-> t.stopped, output |-> t.output, have |-> t.have, need |-> t.need]
      BY <2>5a DEF IsStep
    <2>7. t.have \in SUBSET Ids /\ t.need \in SUBSET Ids
      <3>1. s.have \in SUBSET Ids /\ s.need \in SUBSET Ids /\ r.ids \in SUBSET Ids
        BY <2>2, <2>4 DEF States, Ranges
      <3>2. Ours(storage, s, r) \in SUBSET Ids
        BY <2>2, <2>3 DEF Between
      <3> QED
        BY <2>6, <3>1, <3>2 DEF Adds
    <2>8. s.prevIndex \in Nat /\ s.skip \in BOOLEAN /\ u \in Nat
      <3>1. Len(storage) \in Nat
        BY <2>3, StorageIs
      <3>2. u \in Nat
        BY <2>2, <3>1 DEF IsCut
      <3> QED
        BY <2>4, <3>2 DEF States
    <2>9. CASE CutOff(storage, s, r)
      <3>1. /\ t.stopped = TRUE /\ t.prevIndex = s.prevIndex /\ t.prevBound = s.prevBound
            /\ t.skip = s.skip
            /\ t.output = Append(s.output, Fingerprint(End,
                            IdsIn(storage, Upper(storage, s, r), Len(storage))))
        BY <2>5a, <2>9 DEF IsStep
      <3>2. Run(t.output, Start, X, Y, IF c = 2 THEN 2 ELSE c + 1)
        <4>1. PICK Z : Z = t.output
          OBVIOUS
        <4>2. LeavesRest(Z, s.output, X, Y, c, s.prevBound)
          BY <1>2, <2>2, <2>3, <2>9, <3>1, <4>1, CutOffTells
        <4> QED
          BY <4>1, <4>2 DEF LeavesRest
      <3>3. t.output \in Seq(Ranges)
        BY <3>2 DEF Run
      <3>4. t \in States
        <4>1. PICK pi, pb, sk, st, out, hv, nd :
                /\ pi = t.prevIndex /\ pb = t.prevBound /\ sk = t.skip /\ st = t.stopped
                /\ out = t.output /\ hv = t.have /\ nd = t.need
          OBVIOUS
        <4>2. t = [prevIndex |-> pi, prevBound |-> pb, skip |-> sk, stopped |-> st,
                   output |-> out, have |-> hv, need |-> nd]
          BY <2>6, <4>1
        <4>3. /\ pi \in Nat /\ pb \in Reach /\ sk \in BOOLEAN /\ st \in BOOLEAN
              /\ out \in Seq(Ranges) /\ hv \in SUBSET Ids /\ nd \in SUBSET Ids
          BY <2>2, <2>7, <2>8, <3>1, <3>3, <4>1
        <4> QED
          BY <4>2, <4>3 DEF States
      <3> QED
        BY <3>1, <3>2, <3>4 DEF AtRange
    <2>10. CASE ~CutOff(storage, s, r)
      <3>1. /\ t.stopped = FALSE /\ t.prevIndex = u /\ t.prevBound = r.bound
            /\ t.skip = ~Differs(storage, s, r)
            /\ t.output = s.output \o Answer(storage, s, r)
        BY <2>1, <2>5a, <2>10 DEF IsStep
      <3>2. From(Start, R, m + 1) = r.bound
        <4>1. m \in Nat /\ m + 1 # 1 /\ m + 1 - 1 = m
          BY DEF IsReading, Run
        <4> QED
          BY <2>1, <4>1 DEF From
      <3>3. ~(Length(t.output) > MaxFrame)
        BY <2>10, <3>1 DEF CutOff
      <3>4. /\ ~Before(r.bound, UpTo(Start, t.output))
            /\ ~t.skip => UpTo(Start, t.output) = r.bound
            /\ Run(t.output, Start, X, Y, 0)
        <4>1. CASE Differs(storage, s, r)
          <5>1. Extends(t.output, s.output, X, Y, s.prevBound, r.bound)
            BY <1>2, <2>2, <2>3, <3>1, <4>1, AnswerExtends
          <5>2. UpTo(Start, t.output) = r.bound /\ Run(t.output, Start, X, Y, 0)
            BY <5>1 DEF Extends
          <5>3. ~Before(r.bound, r.bound)
            BY <2>2, <2>3, ReachIs, BeforeIrreflexive
          <5> QED
            BY <5>2, <5>3
        <4>2. CASE ~Differs(storage, s, r)
          <5>1. t.skip /\ t.output = s.output
            <6>1. s.output \in Seq(Ranges)
              BY <2>4 DEF States
            <6>2. Answer(storage, s, r) = << >>
              BY <4>2 DEF Answer
            <6> QED
              <7>1. t.skip = TRUE
                BY <3>1, <4>2
              <7>2. s.output \o << >> = s.output
                BY <6>1
              <7> QED
                BY <3>1, <6>2, <7>1, <7>2
          <5>2. Run(s.output, Start, X, Y, 0) /\ ~Before(s.prevBound, UpTo(Start, s.output))
            BY <1>2 DEF AtRange
          <5>3. UpTo(Start, s.output) \in Reach
            BY <2>3, <5>2, RunGrows, ReachIs
          <5>4. ~Before(r.bound, UpTo(Start, s.output))
            <6>1. PICK a, b, d : a = UpTo(Start, s.output) /\ b = s.prevBound /\ d = r.bound
              OBVIOUS
            <6>2. a \in Bounds /\ b \in Bounds /\ d \in Bounds /\ ~Before(b, a) /\ ~Before(d, b)
              BY <2>2, <2>3, <5>2, <5>3, <6>1, ReachIs
            <6> QED
              BY <2>3, <6>1, <6>2, BeforeThrough
          <5> QED
            BY <5>1, <5>2, <5>4
        <4> QED
          BY <4>1, <4>2
      <3>5. t \in States
        <4>1. PICK pi, pb, sk, st, out, hv, nd :
                /\ pi = t.prevIndex /\ pb = t.prevBound /\ sk = t.skip /\ st = t.stopped
                /\ out = t.output /\ hv = t.have /\ nd = t.need
          OBVIOUS
        <4>2. t = [prevIndex |-> pi, prevBound |-> pb, skip |-> sk, stopped |-> st,
                   output |-> out, have |-> hv, need |-> nd]
          BY <2>6, <4>1
        <4>3. out \in Seq(Ranges)
          BY <3>4, <4>1 DEF Run
        <4>4. /\ pi \in Nat /\ pb \in Reach /\ sk \in BOOLEAN /\ st \in BOOLEAN
              /\ hv \in SUBSET Ids /\ nd \in SUBSET Ids
          BY <2>2, <2>7, <2>8, <3>1, <4>1
        <4> QED
          BY <4>2, <4>3, <4>4 DEF States
      <3> QED
        BY <2>2, <3>1, <3>2, <3>3, <3>4, <3>5 DEF AtRange
    <2> QED
      BY <2>9, <2>10
  <1> QED
    BY <1>1, <1>2

\* The side that holds X was told only of items that one side lacks.
Exact(X, Y, hv, nd) == nd \subseteq Y \ X /\ (peerIs = "object" => hv \subseteq X \ Y)

\* Before range m is read, or when the answer was cut off, every difference in the ranges
\* that were read is known or is left to the answer.
Told(X, Y, c, R, s, m) ==
    peerIs = "object" /\ c < 2 =>
      \A d \in (X \ Y) \union (Y \ X) : \A j \in 1..Len(R) :
        (j < m \/ s.stopped) /\ R[j].mode # "Skip" /\ InSpan(d, From(Start, R, j), R[j].bound) =>
           d \in s.have \union s.need \/ Covered(d, Start, s.output)

\* Reading a range tells of no id on which the sides agree, and forgets none.
LEMMA ExactStep ==
    ASSUME NEW storage, NEW X, NEW Y, NEW c, NEW R, IsReading(storage, X, Y, c, R), NEW s,
           NEW m \in 1..Len(R), AtRange(storage, X, Y, c, R, s, m),
           Exact(X, Y, s.have, s.need), NEW t, t = ReconcileRange(storage, s, R[m])
    PROVE  Exact(X, Y, t.have, t.need) /\ s.have \subseteq t.have /\ s.need \subseteq t.need
  <1>1. CASE s.stopped
    <2>1. t = s
      BY <1>1 DEF ReconcileRange
    <2> QED
      BY <2>1
  <1>2. CASE ~s.stopped
    <2>1. PICK r : r = R[m]
      OBVIOUS
    <2>2. Fair(r, s.prevBound, Y, X, c) /\ Ours(storage, s, r) = Between(X, s.prevBound, r.bound)
      BY <1>2, <2>1, RangeRead
    <2>3. s \in States
      BY DEF AtRange
    <2>4. IsStep(storage, s, r, t)
      BY <1>2, <2>1, <2>3, RangeIs
    <2>5. Adds(storage, s, r, t)
      BY <2>4 DEF IsStep
    <2>6. CASE r.mode # "IdList"
      <3>1. t.have = s.have /\ t.need = s.need
        BY <2>5, <2>6 DEF Adds
      <3> QED
        BY <3>1
    <2>7. CASE r.mode = "IdList"
      <3>1. PICK ours, theirs, ids :
              /\ ours = Between(X, s.prevBound, r.bound) /\ theirs = Between(Y, s.prevBound, r.bound)
              /\ ids = r.ids
        OBVIOUS
      <3>2. t.have = s.have \union (ours \ ids) /\ t.need = s.need \union (ids \ ours)
        BY <2>2, <2>5, <2>7, <3>1 DEF Adds
      <3>3. ids \subseteq theirs /\ (peerIs = "object" => ids = theirs)
        BY <2>2, <2>7, <3>1 DEF Fair
      <3>4. /\ \A i \in ours : i \in X /\ (i \in Y => i \in theirs)
            /\ \A i \in theirs : i \in Y /\ (i \in X => i \in ours)
        BY <3>1 DEF Between
      <3>5. ids \ ours \subseteq Y \ X /\ (peerIs = "object" => ours \ ids \subseteq X \ Y)
        BY <3>3, <3>4
      <3> QED
        BY <3>2, <3>5 DEF Exact
    <2> QED
      BY <2>6, <2>7
  <1> QED
    BY <1>1, <1>2

\* Reading a range leaves no difference of it unknown and unanswered.
LEMMA ToldStep ==
    ASSUME NEW storage, NEW X, NEW Y, NEW c, NEW R, IsReading(storage, X, Y, c, R), NEW s,
           NEW m \in 1..Len(R), AtRange(storage, X, Y, c, R, s, m),
           Exact(X, Y, s.have, s.need), Told(X, Y, c, R, s, m),
           NEW t, t = ReconcileRange(storage, s, R[m])
    PROVE  Told(X, Y, c, R, t, m + 1)
  <1>1. CASE s.stopped
    <2>1. t = s
      BY <1>1 DEF ReconcileRange
    <2> QED
      BY <1>1, <2>1 DEF Told
  <1>2. CASE ~s.stopped
    <2>1. PICK r, pb : r = R[m] /\ pb = s.prevBound
      OBVIOUS
    <2>2. /\ r \in Ranges /\ r.bound \in Reach /\ pb \in Reach
          /\ ~Before(r.bound, pb) /\ Fair(r, pb, Y, X, c)
          /\ Ours(storage, s, r) = Between(X, pb, r.bound)
          /\ pb = From(Start, R, m)
      BY <1>2, <2>1, RangeRead
    <2>a. r \in Ranges /\ ~Before(r.bound, s.prevBound) /\ Fair(r, s.prevBound, Y, X, c)
      BY <2>1, <2>2
    <2>3. s \in States
      BY DEF AtRange
    <2>4. IsStep(storage, s, r, t)
      BY <1>2, <2>1, <2>3, RangeIs
    <2>5. /\ NegentropyAssumption /\ HasStorage(storage, X) /\ X \in SUBSET Ids
          /\ Y \in SUBSET Ids /\ c \in 0..2 /\ Run(R, Start, Y, X, c)
      BY DEF IsReading, HasStorage
    <2>6. s.have \subseteq t.have /\ s.need \subseteq t.need
      BY <2>1, ExactStep
    <2>7. SUFFICES ASSUME peerIs = "object", c < 2, NEW d \in (X \ Y) \union (Y \ X),
                          NEW j \in 1..Len(R), j < m + 1 \/ t.stopped, R[j].mode # "Skip",
                          InSpan(d, From(Start, R, j), R[j].bound)
                   PROVE  d \in t.have \union t.need \/ Covered(d, Start, t.output)
      BY DEF Told
    <2>8. d \in Ids
      BY <2>5
    <2>9. m \in Nat /\ j \in Nat /\ Len(R) \in Nat
      BY <2>5 DEF Run
    <2>10. CASE CutOff(storage, s, r)
      <3>1. PICK Z : Z = t.output
        OBVIOUS
      <3>2. Z = Append(s.output, Fingerprint(End, IdsIn(storage, Upper(storage, s, r), Len(storage))))
        BY <2>4, <2>10, <3>1 DEF IsStep
      <3>3. LeavesRest(Z, s.output, X, Y, c, s.prevBound)
        BY <1>2, <2>a, <2>5, <2>10, <3>2, CutOffTells
      <3>4. CASE j < m
        <4>1. d \in s.have \union s.need \/ Covered(d, Start, s.output)
          BY <2>7, <3>4 DEF Told
        <4> QED
          BY <2>6, <3>1, <3>3, <4>1 DEF LeavesRest
      <3>5. CASE ~(j < m)
        <4>1. m \in 1..j
          BY <2>9, <3>5
        <4>2. ~Before(From(Start, R, j), pb) /\ From(Start, R, j) \in Bounds /\ pb \in Bounds
          BY <2>2, <2>5, <4>1, RunGrows, ReachIs
        <4>3. ~Before(ItemOf(d), From(Start, R, j)) /\ ItemOf(d) \in Bounds
          BY <2>5, <2>7, <2>8, ItemIsBound DEF InSpan
        <4>4. ~Before(ItemOf(d), pb)
          BY <2>5, <4>2, <4>3, BeforeThrough
        <4> QED
          BY <2>1, <2>8, <3>1, <3>3, <4>4 DEF LeavesRest
      <3> QED
        BY <3>4, <3>5
    <2>11. CASE ~CutOff(storage, s, r)
      <3>1. t.stopped = FALSE /\ t.output = s.output \o Answer(storage, s, r)
        BY <2>4, <2>11 DEF IsStep
      <3>2. j < m \/ j = m
        BY <2>7, <2>9, <3>1
      <3>3. ASSUME Differs(storage, s, r)
            PROVE  Extends(t.output, s.output, X, Y, pb, r.bound)
        <4>1. Extends(s.output \o Answer(storage, s, r), s.output, X, Y, s.prevBound, r.bound)
          BY <1>2, <2>a, <2>5, <3>3, AnswerExtends
        <4> QED
          BY <2>1, <3>1, <4>1
      <3>4. CASE j < m
        <4>1. d \in s.have \union s.need \/ Covered(d, Start, s.output)
          BY <2>7, <3>4 DEF Told
        <4>2. CASE Differs(storage, s, r)
          BY <2>6, <3>3, <4>1, <4>2 DEF Extends
        <4>3. CASE ~Differs(storage, s, r)
          <5>1. t.output = s.output
            <6>1. s.output \in Seq(Ranges)
              BY <2>3 DEF States
            <6>2. Answer(storage, s, r) = << >>
              BY <4>3 DEF Answer
            <6>3. s.output \o << >> = s.output
              BY <6>1
            <6> QED
              BY <3>1, <6>2, <6>3
          <5> QED
            BY <2>6, <4>1, <5>1
        <4> QED
          BY <4>2, <4>3
      <3>5. CASE j = m
        <4>1. r.mode # "Skip" /\ InSpan(d, pb, r.bound)
          BY <2>1, <2>2, <2>7, <3>5
        <4>2. PICK ours, theirs, ids :
                /\ ours = Between(X, pb, r.bound) /\ theirs = Between(Y, pb, r.bound)
                /\ ids = r.ids
          OBVIOUS
        <4>3. (d \in ours <=> d \in X) /\ (d \in theirs <=> d \in Y)
          BY <4>1, <4>2 DEF Between
        <4>4. ours # theirs
          BY <4>3
        <4>5. CASE r.mode = "IdList"
          <5>1. ids = theirs
            BY <2>2, <2>7, <4>2, <4>5 DEF Fair
          <5>2. Adds(storage, s, r, t)
            BY <2>4 DEF IsStep
          <5>3. t.have = s.have \union (ours \ ids) /\ t.need = s.need \union (ids \ ours)
            BY <2>2, <4>2, <4>5, <5>2 DEF Adds
          <5> QED
            BY <4>3, <5>1, <5>3
        <4>6. CASE r.mode = "Fingerprint"
          <5>1. c = 0 \/ c = 1
            BY <2>5, <2>7
          <5>2. ids = theirs \/ ids # ours
            BY <2>2, <4>2, <4>6, <5>1 DEF Fair
          <5>3. Differs(storage, s, r)
            BY <2>2, <4>2, <4>4, <4>6, <5>2 DEF Differs
          <5>4. Extends(t.output, s.output, X, Y, pb, r.bound)
            BY <3>3, <5>3
          <5> QED
            BY <4>1, <5>4 DEF Extends
        <4> QED
          BY <2>2, <4>1, <4>5, <4>6 DEF Ranges
      <3> QED
        BY <3>2, <3>4, <3>5
    <2> QED
      BY <2>10, <2>11
  <1> QED
    BY <1>1, <1>2

\* A message of no ranges has length 0.
LEMMA LengthOfNone == Length(<< >>) = 0
  <1> DEFINE It(g) == [s \in SUBSET (1..0) |->
                         IF s = {} THEN 0
                         ELSE g[s \ {Max(s)}]
                              + (IF << >>[Max(s)].mode = "Skip" THEN 1
                                 ELSE IF << >>[Max(s)].mode = "Fingerprint" THEN 2
                                 ELSE 1 + Cardinality(<< >>[Max(s)].ids))]
  <1>1. \A s \in SUBSET (1..0) : s = {}
    OBVIOUS
  <1>2. PICK g : g = [s \in SUBSET (1..0) |-> 0]
    OBVIOUS
  <1>3. g = It(g)
    BY <1>1, <1>2
  <1>4. PICK f : f = (CHOOSE x : x = It(x))
    OBVIOUS
  <1>5. f = It(f)
    <2> HIDE DEF It
    <2> QED
      BY <1>3, <1>4
  <1>6. f[{}] = 0
    <2>1. {} \in SUBSET (1..0)
      OBVIOUS
    <2> QED
      BY <1>5, <2>1
  <1>7. DOMAIN << >> = 1..0 /\ 1..0 = {}
    OBVIOUS
  <1>8. Length(<< >>) = f[1..0]
    BY <1>4, <1>7 DEF Length, FoldLeft, MapThenFoldSet
  <1> QED
    BY <1>6, <1>7, <1>8

\* What a whole reconcile has said and told when it has read R.
Concluded(X, Y, c, R, s, hv, nd) ==
    /\ s \in States
    /\ Run(s.output, Start, X, Y, IF s.stopped THEN IF c = 2 THEN 2 ELSE c + 1 ELSE 0)
    /\ Exact(X, Y, s.have, s.need) /\ hv \subseteq s.have /\ nd \subseteq s.need
    /\ Told(X, Y, c, R, s, Len(R) + 1)

\* So does reading a whole message.
LEMMA ReconcileTells ==
    ASSUME NegentropyAssumption, NEW side \in Sides, items \in [Sides -> Storages],
           NEW X, X = items[side], NEW Y, Y = items[Other(side)], NEW c \in 0..2,
           NEW R, Run(R, Start, Y, X, c),
           have[side] \in SUBSET Ids, need[side] \in SUBSET Ids,
           Exact(X, Y, have[side], need[side])
    PROVE  Concluded(X, Y, c, R, Reconciled(side, R), have[side], need[side])
  <1>1. PICK n \in Nat : n = Len(R) /\ DOMAIN R = 1..n
    BY DEF Run
  <1>2. PICK st : st = Sealed(side)
    OBVIOUS
  <1>3. X \in SUBSET Ids /\ Y \in SUBSET Ids
    <2>1. items[side] \in Storages /\ items[Other(side)] \in Storages
      BY DEF Other, Sides
    <2> QED
      BY <2>1 DEF NegentropyAssumption
  <1>4. IsReading(st, X, Y, c, R)
    <2>1. IsStorage(st, X)
      BY <1>2, SealedIs
    <2> QED
      BY <1>3, <2>1 DEF IsReading, HasStorage
  <1>5. PICK h : ReconcileSteps(side, R, n, h)
    BY <1>1, ReconcileInSteps
  <1> DEFINE Good(s, k) ==
               /\ AtRange(st, X, Y, c, R, s, k + 1)
               /\ Exact(X, Y, s.have, s.need) /\ Told(X, Y, c, R, s, k + 1)
               /\ have[side] \subseteq s.have /\ need[side] \subseteq s.need
             I == {k \in 0..n : Good(h[k], k)}
  <1>6. 0 \in I
    <2>1. PICK s : s = h[0]
      OBVIOUS
    <2>2. s = [prevIndex |-> 0, prevBound |-> Start, skip |-> FALSE, stopped |-> FALSE,
               output |-> << >>, have |-> have[side], need |-> need[side]]
      BY <1>5, <2>1 DEF ReconcileSteps, Blank, Start
    <2>3. /\ s.prevIndex = 0 /\ s.prevBound = Start /\ s.skip = FALSE /\ s.stopped = FALSE
          /\ s.output = << >> /\ s.have = have[side] /\ s.need = need[side]
      BY <2>2
    <2>4. Start \in Reach /\ Start \in Bounds /\ ~Before(Start, Start)
      BY ReachIs, BeforeIrreflexive
    <2>5. s \in States
      <3>1. PICK hv, nd, b : hv = have[side] /\ nd = need[side] /\ b = Start
        OBVIOUS
      <3>2. s = [prevIndex |-> 0, prevBound |-> b, skip |-> FALSE, stopped |-> FALSE,
                 output |-> << >>, have |-> hv, need |-> nd]
        BY <2>2, <3>1
      <3>3. hv \in SUBSET Ids /\ nd \in SUBSET Ids /\ b \in Reach /\ << >> \in Seq(Ranges)
        BY <2>4, <3>1
      <3> QED
        BY <3>2, <3>3 DEF States
    <2>6. AtRange(st, X, Y, c, R, s, 1)
      <3>1. From(Start, R, 1) = Start
        BY DEF From
      <3>2. IsCut(st, 0, Start)
        BY <1>4, EndCuts DEF IsReading
      <3>3. Run(<< >>, Start, X, Y, 0) /\ UpTo(Start, << >>) = Start
        BY RunOfNone
      <3>4. ~(Length(<< >>) > MaxFrame)
        BY LengthOfNone DEF NegentropyAssumption
      <3> QED
        BY <2>3, <2>4, <2>5, <3>1, <3>2, <3>3, <3>4 DEF AtRange
    <2>7. Told(X, Y, c, R, s, 1)
      <3>1. \A j \in 1..Len(R) : ~(j < 1 \/ s.stopped)
        BY <2>3
      <3> QED
        BY <3>1 DEF Told
    <2>8. Good(s, 0)
      BY <2>3, <2>6, <2>7
    <2> HIDE DEF Good
    <2> QED
      BY <2>1, <2>8
  <1>7. ASSUME NEW k \in 0..(n - 1), k \in I
        PROVE  k + 1 \in I
    <2>1. PICK m, s, t : m = k + 1 /\ s = h[k] /\ t = h[m]
      OBVIOUS
    <2>2. m \in 1..n /\ k = m - 1 /\ m \in 0..n /\ m \in 1..Len(R)
      BY <1>1, <2>1
    <2>3. /\ AtRange(st, X, Y, c, R, s, m)
          /\ Exact(X, Y, s.have, s.need) /\ Told(X, Y, c, R, s, m)
          /\ have[side] \subseteq s.have /\ need[side] \subseteq s.need
      BY <1>7, <2>1
    <2>4. t = ReconcileRange(st, s, R[m])
      BY <1>2, <1>5, <2>1, <2>2 DEF ReconcileSteps
    <2>5. AtRange(st, X, Y, c, R, t, m + 1)
      BY <1>4, <2>2, <2>3, <2>4, AtRangeStep
    <2>6. Exact(X, Y, t.have, t.need) /\ s.have \subseteq t.have /\ s.need \subseteq t.need
      BY <1>4, <2>2, <2>3, <2>4, ExactStep
    <2>7. Told(X, Y, c, R, t, m + 1)
      BY <1>4, <2>2, <2>3, <2>4, ToldStep
    <2>8. Good(t, m)
      BY <2>3, <2>5, <2>6, <2>7
    <2> HIDE DEF Good
    <2> QED
      BY <2>1, <2>2, <2>8
  <1>8. n \in I
    <2>1. \A k \in 0..n : k \in I
      <3> HIDE DEF I
      <3> QED
        BY <1>6, <1>7, Reaches
    <2> QED
      BY <2>1
  <1>9. PICK s : s = h[n] /\ s = Reconciled(side, R)
    BY <1>5 DEF ReconcileSteps
  <1>10. /\ AtRange(st, X, Y, c, R, s, n + 1)
         /\ Exact(X, Y, s.have, s.need) /\ Told(X, Y, c, R, s, n + 1)
         /\ have[side] \subseteq s.have /\ need[side] \subseteq s.need
    BY <1>8, <1>9
  <1>11. s \in States /\ Run(s.output, Start, X, Y, IF s.stopped THEN IF c = 2 THEN 2 ELSE c + 1 ELSE 0)
    BY <1>10 DEF AtRange
  <1>12. Concluded(X, Y, c, R, s, have[side], need[side])
    BY <1>1, <1>10, <1>11 DEF Concluded
  <1> QED
    BY <1>9, <1>12

\* The ids that one side lacks.
Difference == (items["client"] \ items["peer"]) \union (items["peer"] \ items["client"])
KnownIds == have["client"] \union have["peer"] \union need["client"] \union need["peer"]

\* The message in flight is R, from the side that does not receive it.
IsSent(R) ==
    /\ message = EncodeMessage(R, 0)
    /\ \E S, T, c : /\ S = items[Other(receiver)] /\ T = items[receiver] /\ c = cuts
                    /\ Run(R, Start, S, T, c)

\* Every difference is known or in a range that R says something of.
IsLeft(R) ==
    peerIs = "object" /\ cuts < 2 => \A d \in Difference : d \in KnownIds \/ Covered(d, Start, R)

\* The callbacks of both sides were given only differences.
CallsExact ==
    \A side \in Sides : Exact(items[side], items[Other(side)], have[side], need[side])

\* What holds of the first exchange of an object.
Reconciling ==
    /\ cuts \in 0..2
    /\ have \in [Sides -> SUBSET Ids] /\ need \in [Sides -> SUBSET Ids]
    /\ CallsExact
    /\ receiver \in Sides \union {"nobody"}
    /\ \E R : /\ receiver = "nobody" => R = << >>
              /\ receiver \in Sides => IsSent(R)
              /\ IsLeft(R)

\* Before the first initiate.
NotStarted ==
    /\ receiver = "nobody" /\ lastTimestampOut = 0
    /\ have = [s \in Sides |-> {}] /\ need = [s \in Sides |-> {}]

\* The invariant. A second initiate of one object may code its bounds wrongly, so nothing is
\* said of what follows it.
NegInv ==
    /\ items \in [Sides -> Storages] /\ initiates \in Nat
    /\ initiates = 0 => NotStarted
    /\ initiates = 1 => Reconciling

\* What ranges say does not change with the message in flight.
LEMMA RunStays ==
    ASSUME NEW Z, NEW b0, NEW S, NEW T, NEW c, Run(Z, b0, S, T, c), peerIs' = peerIs
    PROVE  Run(Z, b0, S, T, c)'
  <1>1. ASSUME NEW r, NEW b, Fair(r, b, S, T, c)
        PROVE  Fair(r, b, S, T, c)'
    BY <1>1 DEF Fair
  <1> QED
    BY <1>1 DEF Run

\* The two sides.
LEMMA OthersAre ==
    /\ Other("client") = "peer" /\ Other("peer") = "client" /\ Sides = {"client", "peer"}
    /\ "client" # "peer" /\ "nobody" \notin Sides
    /\ \A side \in Sides : Other(side) \in Sides /\ Other(Other(side)) = side /\ Other(side) # side
  BY DEF Other, Sides

\* A side's reading leaves what is known and what is to be said to the answer.
LEMMA DifferenceIs ==
    ASSUME NEW side \in Sides, items \in [Sides -> Storages], have \in [Sides -> SUBSET Ids],
           need \in [Sides -> SUBSET Ids], NEW X, X = items[side], NEW Y, Y = items[Other(side)]
    PROVE  /\ Difference = (X \ Y) \union (Y \ X)
           /\ KnownIds = have[side] \union need[side] \union have[Other(side)] \union need[Other(side)]
  <1>1. CASE side = "client"
    <2>1. Other(side) = "peer"
      BY <1>1, OthersAre
    <2> QED
      BY <1>1, <2>1 DEF Difference, KnownIds
  <1>2. CASE side = "peer"
    <2>1. Other(side) = "client"
      BY <1>2, OthersAre
    <2> QED
      BY <1>2, <2>1 DEF Difference, KnownIds
  <1> QED
    BY <1>1, <1>2, OthersAre

\* It holds at first.
LEMMA NegInvInit == NegentropyAssumption /\ NegInit => NegInv
  BY DEF NegInit, NegInv, NotStarted

\* initiate tells all of what the client holds.
LEMMA InitiateTells ==
    ASSUME NegentropyAssumption, NegInv, initiates = 0, Initiate
    PROVE  Reconciling'
  <1>1. /\ items \in [Sides -> Storages] /\ receiver = "nobody" /\ lastTimestampOut = 0
        /\ have = [s \in Sides |-> {}] /\ need = [s \in Sides |-> {}]
    BY DEF NegInv, NotStarted
  <1>2. PICK X, Y, st : X = items["client"] /\ Y = items["peer"] /\ st = Sealed("client")
    OBVIOUS
  <1>3. HasStorage(st, X) /\ Y \in SUBSET Ids
    <2>1. IsStorage(Sealed("client"), items["client"])
      BY <1>1, OthersAre, SealedIs
    <2>2. X \in Storages /\ Y \in Storages
      BY <1>1, <1>2, OthersAre
    <2> QED
      BY <1>2, <2>1, <2>2 DEF HasStorage, NegentropyAssumption
  <1>4. PICK R : R = SplitRange(st, 0, Len(st), End)
    OBVIOUS
  <1>5. R # << >> /\ Run(R, Start, X, Y, 0) /\ \A d : InSpan(d, Start, End) => Covered(d, Start, R)
    <2>1. IsCut(st, 0, Start) /\ IsCut(st, Len(st), End)
      BY <1>3, EndCuts
    <2>2. Start \in Reach /\ End \in Reach /\ ~Before(End, Start)
      BY ReachIs, NothingBeforeStart
    <2>3. Tells(R, Start, End, X)
      BY <1>3, <1>4, <2>1, <2>2, SplitTells
    <2> QED
      BY <2>3 DEF Tells
  <1>6. /\ message' = EncodeMessage(R, 0) /\ receiver' = "peer" /\ cuts' = 0 /\ peerIs' = peerIs
        /\ items' = items /\ have' = have /\ need' = need
    BY <1>1, <1>2, <1>4 DEF Initiate, End
  <1>7. IsSent(R)'
    <2>1. Run(R, Start, X, Y, 0)'
      BY <1>5, <1>6, RunStays
    <2>2. X = items'[Other(receiver')] /\ Y = items'[receiver']
      BY <1>2, <1>6, OthersAre
    <2> QED
      BY <1>6, <2>1, <2>2 DEF IsSent
  <1>8. IsLeft(R)'
    <2>1. ASSUME NEW d \in Difference
          PROVE  Covered(d, Start, R)
      <3>1. d \in Ids
        BY <1>2, <1>3 DEF HasStorage, Difference
      <3>2. InSpan(d, Start, End)
        BY <3>1, ItemIsBound, NothingBeforeStart DEF InSpan
      <3> QED
        BY <1>5, <3>2
    <2>2. Difference' = Difference
      BY <1>6 DEF Difference
    <2> QED
      BY <2>1, <2>2 DEF IsLeft
  <1>9. CallsExact'
    <2>1. ASSUME NEW side \in Sides
          PROVE  Exact(items[side], items[Other(side)], {}, {})
      BY DEF Exact
    <2>2. \A side \in Sides : have'[side] = {} /\ need'[side] = {}
      BY <1>1, <1>6
    <2> QED
      BY <1>6, <2>2 DEF CallsExact, Exact
  <1>10. have' \in [Sides -> SUBSET Ids] /\ need' \in [Sides -> SUBSET Ids] /\ cuts' \in 0..2
    BY <1>1, <1>6
  <1> QED
    BY <1>6, <1>7, <1>8, <1>9, <1>10, OthersAre DEF Reconciling

\* The relay's list is of ids that it holds.
LEMMA AnswerTells ==
    ASSUME NegentropyAssumption, NegInv, initiates = 1, RelayAnswers
    PROVE  Reconciling'
  <1>1. /\ items \in [Sides -> Storages] /\ Reconciling
        /\ peerIs = "relay" /\ receiver = "peer"
        /\ peerIs' = peerIs /\ items' = items /\ have' = have /\ need' = need /\ cuts' = cuts
    BY DEF NegInv, RelayAnswers
  <1>2. /\ cuts' \in 0..2
        /\ have' \in [Sides -> SUBSET Ids] /\ need' \in [Sides -> SUBSET Ids]
    BY <1>1 DEF Reconciling
  <1>3. CallsExact'
    BY <1>1 DEF Reconciling, CallsExact, Exact
  <1>4. peerIs' # "object"
    BY <1>1
  <1>5. CASE message[1].mode = "IdList"
    <2>1. PICK X, Y, c, ids : /\ X = items["peer"] /\ Y = items["client"] /\ c = cuts
                              /\ ids = items["peer"] \ message[1].ids
      OBVIOUS
    <2>2. PICK r : r = IdList(End, ids)
      OBVIOUS
    <2>3. r.bound = End /\ r.mode = "IdList" /\ r.ids = ids
      BY <2>2 DEF IdList
    <2>4. message' = EncodeMessage(<<r>>, 0) /\ receiver' = "client"
      BY <1>5, <2>1, <2>2 DEF RelayAnswers, End
    <2>5. X \in SUBSET Ids
      BY <1>1, <2>1, OthersAre DEF NegentropyAssumption
    <2>6. ids \subseteq Between(X, Start, End)
      <3>1. \A i \in X : InSpan(i, Start, End)
        BY <2>5, ItemIsBound, NothingBeforeStart DEF InSpan
      <3> QED
        BY <2>1, <3>1 DEF Between
    <2>7. Run(<<r>>, Start, X, Y, c)
      <3>1. r \in Ranges
        <4>1. End \in Reach /\ ids \in SUBSET Ids
          BY <2>1, <2>5, ReachIs
        <4> QED
          BY <2>2, <4>1 DEF IdList, Ranges
      <3>2. ~Before(r.bound, Start)
        BY <2>3, ReachIs, NothingBeforeStart
      <3>3. Fair(r, Start, X, Y, c)
        BY <1>1, <2>3, <2>6 DEF Fair
      <3> QED
        BY <3>1, <3>2, <3>3, RunOfOne
    <2>8. IsSent(<<r>>)'
      <3>1. Run(<<r>>, Start, X, Y, c)'
        BY <1>1, <2>7, RunStays
      <3>2. X = items'[Other(receiver')] /\ Y = items'[receiver'] /\ c = cuts'
        BY <1>1, <2>1, <2>4, OthersAre
      <3> QED
        BY <2>4, <3>1, <3>2 DEF IsSent
    <2>9. IsLeft(<<r>>)'
      BY <1>4 DEF IsLeft
    <2> QED
      BY <1>2, <1>3, <2>4, <2>8, <2>9, OthersAre DEF Reconciling
  <1>6. CASE message[1].mode # "IdList"
    <2>1. receiver' = "nobody"
      BY <1>6 DEF RelayAnswers
    <2>2. IsLeft(<< >>)'
      BY <1>4 DEF IsLeft
    <2> QED
      BY <1>2, <1>3, <2>1, <2>2, OthersAre DEF Reconciling
  <1> QED
    BY <1>5, <1>6

\* The receiver reads what was sent; what it has told and answers covers every difference.
LEMMA ReconcileKeeps ==
    ASSUME NegentropyAssumption, NegInv, initiates = 1, NEW side \in Sides, Reconcile(side)
    PROVE  Reconciling'
  <1>1. /\ items \in [Sides -> Storages] /\ Reconciling /\ receiver = side
        /\ peerIs' = peerIs /\ items' = items
    BY DEF NegInv, Reconcile
  <1>2. /\ cuts \in 0..2 /\ CallsExact
        /\ have \in [Sides -> SUBSET Ids] /\ need \in [Sides -> SUBSET Ids]
    BY <1>1 DEF Reconciling
  <1>3. PICK R : IsSent(R) /\ IsLeft(R)
    BY <1>1 DEF Reconciling
  <1>4. PICK X, Y, c : /\ X = items[side] /\ Y = items[Other(side)] /\ c = cuts
                       /\ Run(R, Start, Y, X, c)
    BY <1>1, <1>3 DEF IsSent
  <1>5. DecodeMessage(message) = R
    BY <1>3, <1>4, MessageIsRead DEF IsSent
  <1>6. PICK s : s = Reconciled(side, R)
    OBVIOUS
  <1>7. PICK hv, nd : hv = have[side] /\ nd = need[side]
    OBVIOUS
  <1>8. Concluded(X, Y, c, R, s, hv, nd)
    <2>1. Exact(X, Y, have[side], need[side])
      BY <1>2, <1>4 DEF CallsExact
    <2>2. have[side] \in SUBSET Ids /\ need[side] \in SUBSET Ids /\ c \in 0..2
      BY <1>2, <1>4
    <2>3. Concluded(X, Y, c, R, Reconciled(side, R), have[side], need[side])
      BY <1>1, <1>4, <2>1, <2>2, ReconcileTells
    <2> QED
      BY <1>6, <1>7, <2>3
  <1>9. /\ have' = [have EXCEPT ![side] = s.have] /\ need' = [need EXCEPT ![side] = s.need]
        /\ message' = EncodeMessage(s.output, 0)
        /\ receiver' = IF s.output = << >> THEN "nobody" ELSE Other(side)
        /\ cuts' = IF cuts = 2 THEN 2 ELSE IF s.stopped THEN cuts + 1 ELSE 0
    BY <1>5, <1>6 DEF Reconcile
  <1>10. PICK Z, c1 : Z = s.output /\ c1 = cuts'
    OBVIOUS
  <1>11. s.have \in SUBSET Ids /\ s.need \in SUBSET Ids /\ s.stopped \in BOOLEAN
    BY <1>8 DEF Concluded, States
  <1>12. c1 \in 0..2 /\ (c1 < 2 => c < 2)
    BY <1>2, <1>4, <1>9, <1>10
  <1>13. Run(Z, Start, X, Y, c1)
    <2>1. CASE s.stopped
      <3>1. Run(s.output, Start, X, Y, IF c = 2 THEN 2 ELSE c + 1)
        BY <1>8, <2>1 DEF Concluded
      <3>2. c1 = IF c = 2 THEN 2 ELSE c + 1
        BY <1>4, <1>9, <1>10, <2>1
      <3> QED
        BY <1>10, <3>1, <3>2
    <2>2. CASE ~s.stopped
      <3>1. Run(s.output, Start, X, Y, 0)
        BY <1>8, <2>2 DEF Concluded
      <3> QED
        BY <1>10, <3>1, RunIsRun
    <2> QED
      BY <2>1, <2>2
  <1>14. /\ have'[side] = s.have /\ have'[Other(side)] = have[Other(side)]
         /\ need'[side] = s.need /\ need'[Other(side)] = need[Other(side)]
         /\ have' \in [Sides -> SUBSET Ids] /\ need' \in [Sides -> SUBSET Ids]
    BY <1>2, <1>9, <1>11, OthersAre
  <1>15. CallsExact'
    <2>1. Exact(X, Y, s.have, s.need)
      BY <1>8 DEF Concluded
    <2>2. Exact(Y, X, have[Other(side)], need[Other(side)])
      BY <1>2, <1>4, OthersAre DEF CallsExact
    <2>3. ASSUME NEW z \in Sides
          PROVE  Exact(items[z], items[Other(z)], have'[z], need'[z])
      <3>1. CASE z = side
        BY <1>4, <1>14, <2>1, <3>1
      <3>2. CASE z # side
        <4>1. z = Other(side) /\ Other(z) = side
          BY <3>2, OthersAre
        <4> QED
          BY <1>4, <1>14, <2>2, <4>1
      <3> QED
        BY <3>1, <3>2
    <2> QED
      BY <1>1, <2>3 DEF CallsExact, Exact
  <1>16. Z # << >> => IsSent(Z)'
    <2>1. SUFFICES ASSUME Z # << >>
                   PROVE  IsSent(Z)'
      OBVIOUS
    <2>2. Run(Z, Start, X, Y, c1)'
      BY <1>1, <1>13, RunStays
    <2>3. receiver' = Other(side)
      BY <1>9, <1>10, <2>1
    <2>4. X = items'[Other(receiver')] /\ Y = items'[receiver'] /\ c1 = cuts'
      BY <1>1, <1>4, <1>10, <2>3, OthersAre
    <2>5. message' = EncodeMessage(Z, 0)
      BY <1>9, <1>10
    <2> QED
      BY <2>2, <2>4, <2>5 DEF IsSent
  <1>17. IsLeft(Z)'
    <2>1. ASSUME peerIs = "object", c1 < 2, NEW d \in Difference
          PROVE  d \in KnownIds' \/ Covered(d, Start, Z)
      <3>1. d \in KnownIds \/ Covered(d, Start, R)
        BY <1>3, <1>4, <1>12, <2>1 DEF IsLeft
      <3>2. KnownIds = have[side] \union need[side] \union have[Other(side)] \union need[Other(side)]
        BY <1>1, <1>2, DifferenceIs
      <3>3. KnownIds' = s.have \union s.need \union have[Other(side)] \union need[Other(side)]
        <4>1. CASE side = "client"
          BY <1>14, <4>1, OthersAre DEF KnownIds
        <4>2. CASE side = "peer"
          BY <1>14, <4>2, OthersAre DEF KnownIds
        <4> QED
          BY <4>1, <4>2, OthersAre
      <3>4. CASE d \in KnownIds
        <4>1. have[side] \subseteq s.have /\ need[side] \subseteq s.need
          BY <1>7, <1>8 DEF Concluded
        <4> QED
          BY <3>2, <3>3, <3>4, <4>1
      <3>5. CASE Covered(d, Start, R)
        <4>1. PICK j \in 1..Len(R) : R[j].mode # "Skip" /\ InSpan(d, From(Start, R, j), R[j].bound)
          BY <3>5 DEF Covered
        <4>2. j < Len(R) + 1
          BY <1>4 DEF Run
        <4>3. d \in (X \ Y) \union (Y \ X)
          BY <1>1, <1>2, <1>4, <2>1, DifferenceIs
        <4>4. d \in s.have \union s.need \/ Covered(d, Start, s.output)
          <5>1. Told(X, Y, c, R, s, Len(R) + 1)
            BY <1>8 DEF Concluded
          <5> QED
            BY <1>12, <2>1, <4>1, <4>2, <4>3, <5>1 DEF Told
        <4> QED
          BY <1>10, <3>3, <4>4
      <3> QED
        BY <3>1, <3>4, <3>5
    <2>2. Difference' = Difference
      BY <1>1 DEF Difference
    <2> QED
      BY <1>1, <1>10, <2>1, <2>2 DEF IsLeft
  <1>18. /\ cuts' \in 0..2 /\ receiver' \in Sides \union {"nobody"}
         /\ receiver' = "nobody" => Z = << >>
         /\ receiver' \in Sides => Z # << >>
    BY <1>9, <1>10, <1>12, OthersAre
  <1> QED
    BY <1>14, <1>15, <1>16, <1>17, <1>18 DEF Reconciling

\* Every step keeps it.
LEMMA NegInvStep ==
    ASSUME NegentropyAssumption, NegInv, [NegNext]_negVars
    PROVE  NegInv'
  <1>0. items \in [Sides -> Storages] /\ initiates \in Nat
    BY DEF NegInv
  <1>1. CASE UNCHANGED negVars
    <2>1. /\ peerIs' = peerIs /\ items' = items /\ message' = message /\ receiver' = receiver
          /\ have' = have /\ need' = need /\ lastTimestampOut' = lastTimestampOut
          /\ initiates' = initiates /\ cuts' = cuts
      BY <1>1 DEF negVars
    <2>2. NotStarted => NotStarted'
      BY <2>1 DEF NotStarted
    <2>3. ASSUME Reconciling
          PROVE  Reconciling'
      <3>1. PICK R : /\ receiver = "nobody" => R = << >>
                     /\ receiver \in Sides => IsSent(R)
                     /\ IsLeft(R)
        BY <2>3 DEF Reconciling
      <3>2. ASSUME IsSent(R)
            PROVE  IsSent(R)'
        <4>1. PICK S, T, c : /\ S = items[Other(receiver)] /\ T = items[receiver] /\ c = cuts
                             /\ Run(R, Start, S, T, c)
          BY <3>2 DEF IsSent
        <4>2. Run(R, Start, S, T, c)'
          BY <2>1, <4>1, RunStays
        <4> QED
          BY <2>1, <3>2, <4>1, <4>2 DEF IsSent
      <3>3. IsLeft(R)'
        BY <2>1, <3>1 DEF IsLeft, Difference, KnownIds
      <3>4. CallsExact'
        BY <2>1, <2>3 DEF Reconciling, CallsExact, Exact
      <3> QED
        BY <2>1, <2>3, <3>1, <3>2, <3>3, <3>4 DEF Reconciling
    <2> QED
      BY <2>1, <2>2, <2>3 DEF NegInv
  <1>2. CASE Initiate
    <2>1. items' = items /\ initiates' = initiates + 1
      BY <1>2 DEF Initiate
    <2>2. initiates' # 0 /\ initiates' \in Nat /\ (initiates' = 1 => initiates = 0)
      BY <1>0, <2>1
    <2>3. initiates = 0 => Reconciling'
      BY <1>2, InitiateTells
    <2> QED
      BY <1>0, <2>1, <2>2, <2>3 DEF NegInv
  <1>3. CASE RelayAnswers
    <2>1. items' = items /\ initiates' = initiates /\ initiates # 0
      BY <1>3 DEF RelayAnswers, NegInv, NotStarted
    <2>2. initiates = 1 => Reconciling'
      BY <1>3, AnswerTells
    <2> QED
      BY <1>0, <2>1, <2>2 DEF NegInv
  <1>4. ASSUME NEW side \in Sides, Reconcile(side)
        PROVE  NegInv'
    <2>1. items' = items /\ initiates' = initiates /\ initiates # 0
      BY <1>4, OthersAre DEF Reconcile, NegInv, NotStarted
    <2>2. initiates = 1 => Reconciling'
      BY <1>4, ReconcileKeeps
    <2> QED
      BY <1>0, <2>1, <2>2 DEF NegInv
  <1> QED
    BY <1>1, <1>2, <1>3, <1>4 DEF NegNext

\* What holds when it is over.
LEMMA NegInvTells == NegInv => CallbacksAreExact /\ DifferencesKnown
  <1> SUFFICES ASSUME NegInv, initiates = 1
               PROVE  CallbacksAreExact /\ DifferencesKnown
    BY DEF CallbacksAreExact, DifferencesKnown
  <1>1. Reconciling
    BY DEF NegInv
  <1>2. \A side \in Sides : Exact(items[side], items[Other(side)], have[side], need[side])
    BY <1>1 DEF Reconciling, CallsExact
  <1>3. /\ \A side \in Sides : need[side] \subseteq items[Other(side)] \ items[side]
        /\ peerIs = "object" => \A side \in Sides : have[side] \subseteq items[side] \ items[Other(side)]
    BY <1>2 DEF Exact
  <1>4. CallbacksAreExact
    BY <1>3, OthersAre DEF CallbacksAreExact, NeedIsExact, HaveIsExact, OnlyHere
  <1>5. ASSUME receiver = "nobody", peerIs = "object", cuts < 2
        PROVE  DifferencesAreKnown
    <2>1. PICK R : R = << >> /\ IsLeft(R)
      BY <1>1, <1>5 DEF Reconciling
    <2>2. \A d \in Difference : d \in KnownIds
      <3>1. \A d : ~Covered(d, Start, R)
        BY <2>1 DEF Covered
      <3> QED
        BY <1>5, <2>1, <3>1 DEF IsLeft
    <2>3. /\ need["client"] \subseteq items["peer"] \ items["client"]
          /\ need["peer"] \subseteq items["client"] \ items["peer"]
          /\ have["client"] \subseteq items["client"] \ items["peer"]
          /\ have["peer"] \subseteq items["peer"] \ items["client"]
      BY <1>3, <1>5, OthersAre
    <2>4. /\ OnlyHere("client") = items["client"] \ items["peer"]
          /\ OnlyHere("peer") = items["peer"] \ items["client"]
      BY OthersAre DEF OnlyHere
    <2> QED
      BY <2>2, <2>3, <2>4 DEF DifferencesAreKnown, Difference, KnownIds
  <1> QED
    BY <1>4, <1>5 DEF DifferencesKnown

-----------------------------------------------------------------------------
(* Chunks                                                                    *)

\* FlattenSeq, sequence by sequence.
FlattenSteps(seqs, n, h) ==
    /\ h[0] = << >> /\ \A k \in 1..n : h[k] = h[k - 1] \o seqs[k]
    /\ n # 0 => h[n] = FlattenSeq(seqs)

\* Its recursive function exists for any number of sequences.
LEMMA FlattenInSteps ==
    ASSUME NEW S, NEW n \in Nat, NEW seqs \in [1..n -> Seq(S)]
    PROVE  \E h \in [0..n -> Seq(S)] : FlattenSteps(seqs, n, h)
  <1> DEFINE Good(m, h) == h[0] = << >> /\ \A k \in 1..m : h[k] = h[k - 1] \o seqs[k]
             I == {m \in 0..n : \E h \in [0..m -> Seq(S)] : Good(m, h)}
  <1>1. 0 \in I
    <2>1. [k \in 0..0 |-> << >>] \in [0..0 -> Seq(S)]
      OBVIOUS
    <2>2. Good(0, [k \in 0..0 |-> << >>])
      OBVIOUS
    <2>3. 0 \in 0..n
      OBVIOUS
    <2> HIDE DEF Good
    <2> QED
      BY <2>1, <2>2, <2>3
  <1>2. ASSUME NEW m \in 0..(n - 1), m \in I
        PROVE  m + 1 \in I
    <2>1. PICK h \in [0..m -> Seq(S)] : Good(m, h)
      BY <1>2
    <2>2. PICK j, q : j = m + 1 /\ q = h[m] \o seqs[j]
      OBVIOUS
    <2>3. j \in 1..n /\ j \in 0..n /\ j \notin 0..m /\ q \in Seq(S)
      <3>1. j \in 1..n /\ j \in 0..n /\ j \notin 0..m
        BY <2>2
      <3>2. h[m] \in Seq(S) /\ seqs[j] \in Seq(S)
        BY <3>1
      <3> QED
        BY <2>2, <3>1, <3>2
    <2> DEFINE g == [k \in 0..j |-> IF k = j THEN q ELSE h[k]]
    <2>4. g \in [0..j -> Seq(S)]
      BY <2>2, <2>3
    <2>5. Good(j, g)
      <3>1. g[0] = << >>
        BY <2>1, <2>2, <2>3
      <3>2. ASSUME NEW k \in 1..j
            PROVE  g[k] = g[k - 1] \o seqs[k]
        <4>1. k - 1 \in 0..m /\ k \in 0..j /\ k - 1 \in 0..j /\ k - 1 # j
          BY <2>2, <2>3
        <4>2. g[k - 1] = h[k - 1]
          BY <4>1
        <4>3. CASE k = j
          BY <2>2, <2>3, <4>1, <4>2, <4>3
        <4>4. CASE k # j
          <5>1. k \in 1..m
            BY <2>2, <4>4
          <5>2. h[k] = h[k - 1] \o seqs[k] /\ g[k] = h[k]
            BY <2>1, <4>1, <4>4, <5>1
          <5> QED
            BY <4>2, <5>2
        <4> QED
          BY <4>3, <4>4
      <3> HIDE DEF g
      <3> QED
        BY <3>1, <3>2
    <2> HIDE DEF Good, g
    <2> QED
      BY <2>2, <2>3, <2>4, <2>5
  <1>3. n \in I
    <2>1. \A k \in 0..n : k \in I
      <3> HIDE DEF I
      <3> QED
        BY <1>1, <1>2, Reaches
    <2>2. n \in 0..n
      OBVIOUS
    <2> HIDE DEF I
    <2> QED
      BY <2>1, <2>2
  <1>4. PICK h \in [0..n -> Seq(S)] : Good(n, h)
    BY <1>3
  <1>5. ASSUME n # 0
        PROVE  h[n] = FlattenSeq(seqs)
    <2> DEFINE It(f) == [i \in 1..n |-> IF i = 1 THEN seqs[i] ELSE f[i - 1] \o seqs[i]]
    <2>1. PICK g : g = [i \in 1..n |-> h[i]]
      OBVIOUS
    <2>2. g = It(g)
      <3>1. ASSUME NEW i \in 1..n
            PROVE  g[i] = IF i = 1 THEN seqs[i] ELSE g[i - 1] \o seqs[i]
        <4>1. h[i] = h[i - 1] \o seqs[i]
          BY <1>4
        <4>2. CASE i = 1
          <5>0. h[0] = << >> /\ i - 1 = 0
            BY <1>4, <4>2
          <5>1. h[i] = << >> \o seqs[i] /\ seqs[i] \in Seq(S)
            BY <4>1, <5>0
          <5> QED
            BY <2>1, <4>2, <5>1
        <4>3. CASE i # 1
          <5>1. i - 1 \in 1..n
            BY <4>3
          <5> QED
            BY <2>1, <4>1, <4>3, <5>1
        <4> QED
          BY <4>2, <4>3
      <3> QED
        BY <2>1, <3>1
    <2>3. PICK f : f = (CHOOSE x : x = It(x))
      OBVIOUS
    <2>4. f = It(f)
      <3> HIDE DEF It
      <3> QED
        BY <2>2, <2>3
    <2>5. Len(seqs) = n /\ DOMAIN seqs = 1..n
      OBVIOUS
    <2>6. FlattenSeq(seqs) = f[n]
      BY <1>5, <2>3, <2>5 DEF FlattenSeq
    <2> DEFINE J == {k \in 0..n : k = 0 \/ f[k] = g[k]}
    <2>7. 0 \in J
      OBVIOUS
    <2>8. ASSUME NEW k \in 0..(n - 1), k \in J
          PROVE  k + 1 \in J
      <3>1. PICK j : j = k + 1
        OBVIOUS
      <3>2. j \in 1..n /\ j \in 0..n /\ j - 1 = k
        BY <3>1
      <3>3. f[j] = IF j = 1 THEN seqs[j] ELSE f[j - 1] \o seqs[j]
        BY <2>4, <3>2
      <3>4. g[j] = IF j = 1 THEN seqs[j] ELSE g[j - 1] \o seqs[j]
        BY <2>2, <3>2
      <3>5. f[j] = g[j]
        BY <2>8, <3>1, <3>2, <3>3, <3>4
      <3> QED
        BY <3>1, <3>2, <3>5
    <2>9. \A k \in 0..n : k \in J
      <3> HIDE DEF J
      <3> QED
        BY <2>7, <2>8, Reaches
    <2>10. f[n] = g[n]
      BY <1>5, <2>9
    <2> QED
      BY <1>5, <2>1, <2>6, <2>10
  <1> QED
    BY <1>4, <1>5 DEF FlattenSteps

\* A chunk with the bytes hi and lo of its index, payload P and flag f.
IsChunk(c, hi, lo, P, f) ==
    /\ IndexOf(c) = hi * ByteRange + lo /\ PayloadOf(c) = P /\ Last(c) = f
    /\ c \in Seq(Nat) /\ Len(c) >= 3

\* What the parts of a chunk are.
LEMMA ChunkIs ==
    ASSUME NEW hi \in Nat, NEW lo \in Nat, NEW P \in Seq(Nat), NEW f \in Nat
    PROVE  IsChunk(<<hi, lo>> \o P \o <<f>>, hi, lo, P, f)
  <1>0. PICK c : c = <<hi, lo>> \o P \o <<f>>
    OBVIOUS
  <1>1. PICK n \in Nat : n = Len(P)
    OBVIOUS
  <1>2. PICK a : a = <<hi, lo>> \o P
    OBVIOUS
  <1>3. a \in Seq(Nat) /\ Len(a) = n + 2 /\ a[1] = hi /\ a[2] = lo /\ \A i \in 1..n : a[i + 2] = P[i]
    <2>1. PICK h : h = <<hi, lo>>
      OBVIOUS
    <2>2. h \in Seq(Nat) /\ Len(h) = 2 /\ h[1] = hi /\ h[2] = lo
      BY <2>1
    <2>3. a = h \o P
      BY <1>2, <2>1
    <2>4. /\ a \in Seq(Nat) /\ Len(a) = Len(h) + Len(P)
          /\ \A i \in 1..(Len(h) + Len(P)) : a[i] = IF i <= Len(h) THEN h[i] ELSE P[i - Len(h)]
      BY <2>2, <2>3, ConcatProperties
    <2>5. Len(a) = n + 2 /\ \A i \in 1..(n + 2) : a[i] = IF i <= 2 THEN h[i] ELSE P[i - 2]
      <3>1. Len(h) + Len(P) = n + 2
        BY <1>1, <2>2
      <3> QED
        BY <2>2, <2>4, <3>1
    <2>6. 1 \in 1..(n + 2) /\ 2 \in 1..(n + 2)
      OBVIOUS
    <2>7. a[1] = hi /\ a[2] = lo
      BY <2>2, <2>5, <2>6
    <2>8. ASSUME NEW i \in 1..n
          PROVE  a[i + 2] = P[i]
      <3>1. i + 2 \in 1..(n + 2) /\ ~(i + 2 <= 2) /\ (i + 2) - 2 = i
        OBVIOUS
      <3> QED
        BY <2>5, <3>1
    <2> QED
      BY <2>4, <2>5, <2>7, <2>8
  <1>4. c = a \o <<f>>
    BY <1>0, <1>2
  <1>5. /\ c \in Seq(Nat) /\ Len(c) = n + 3 /\ c[n + 3] = f
        /\ \A i \in 1..(n + 2) : c[i] = a[i]
    <2>1. PICK t : t = <<f>>
      OBVIOUS
    <2>2. t \in Seq(Nat) /\ Len(t) = 1 /\ t[1] = f
      BY <2>1
    <2>3. /\ c \in Seq(Nat) /\ Len(c) = Len(a) + Len(t)
          /\ \A i \in 1..(Len(a) + Len(t)) : c[i] = IF i <= Len(a) THEN a[i] ELSE t[i - Len(a)]
      BY <1>3, <1>4, <2>1, <2>2, ConcatProperties
    <2>4. Len(a) + Len(t) = n + 3
      BY <1>3, <2>2
    <2>5. c[n + 3] = t[1]
      <3>1. PICK j : j = n + 3
        OBVIOUS
      <3>2. j \in 1..(n + 3) /\ ~(j <= Len(a)) /\ j - Len(a) = 1
        BY <1>3, <3>1
      <3>3. c[j] = t[j - Len(a)]
        BY <2>3, <2>4, <3>2
      <3> QED
        BY <3>1, <3>2, <3>3
    <2>6. \A i \in 1..(n + 2) : c[i] = a[i]
      <3>1. \A i \in 1..(n + 2) : i \in 1..(n + 3) /\ i <= Len(a)
        BY <1>3
      <3> QED
        BY <2>3, <2>4, <3>1
    <2> QED
      BY <2>2, <2>3, <2>4, <2>5, <2>6
  <1>6. c[1] = hi /\ c[2] = lo
    <2>1. 1 \in 1..(n + 2) /\ 2 \in 1..(n + 2)
      OBVIOUS
    <2> QED
      BY <1>3, <1>5, <2>1
  <1>7. PayloadOf(c) = P
    <2>1. PICK s : s = SubSeq(c, 3, n + 2)
      OBVIOUS
    <2>2. s \in Seq(Nat) /\ Len(s) = n
      BY <1>5, <2>1
    <2>3. ASSUME NEW i \in 1..n
          PROVE  s[i] = P[i]
      <3>1. s[i] = c[i + 2] /\ i + 2 \in 1..(n + 2)
        BY <1>5, <2>1
      <3> QED
        BY <1>3, <1>5, <3>1
    <2>4. s = P
      BY <1>1, <2>2, <2>3, SeqEqual
    <2>5. Head2 + 1 = 3 /\ Len(c) - Tail1 = n + 2
      BY <1>5 DEF Head2, Tail1
    <2> QED
      BY <2>1, <2>4, <2>5 DEF PayloadOf
  <1>8. Last(c) = f
    BY <1>5 DEF Last
  <1>9. IndexOf(c) = hi * ByteRange + lo
    BY <1>6 DEF IndexOf
  <1>10. Len(c) >= 3
    BY <1>5
  <1>11. IsChunk(c, hi, lo, P, f)
    BY <1>5, <1>7, <1>8, <1>9, <1>10 DEF IsChunk
  <1> QED
    BY <1>0, <1>11

\* A number below the square of ByteRange is told by two bytes.
LEMMA IndexIsTold ==
    ASSUME ChunksAssumption, NEW x \in Nat, x < ByteRange * ByteRange
    PROVE  /\ (x \div ByteRange) % ByteRange \in Nat /\ x % ByteRange \in Nat
           /\ ((x \div ByteRange) % ByteRange) * ByteRange + (x % ByteRange) = x
  <1>1. PICK b, q, r : b = ByteRange /\ q = x \div b /\ r = x % b
    OBVIOUS
  <1>2. b \in Nat \ {0}
    BY <1>1 DEF ChunksAssumption
  <1>3. q \in Nat /\ r \in 0..(b - 1) /\ x = b * q + r
    BY <1>1, <1>2
  <1>4. q < b
    <2> SUFFICES ASSUME q >= b PROVE FALSE
      BY <1>2, <1>3
    <2>1. b * q >= b * b
      BY <1>2, <1>3
    <2>2. b * b \in Nat /\ b * q \in Nat
      BY <1>2, <1>3
    <2> QED
      BY <1>1, <1>3, <2>1, <2>2
  <1>5. q % b = q
    BY <1>2, <1>3, <1>4
  <1>6. q * b = b * q
    BY <1>2, <1>3
  <1> QED
    BY <1>1, <1>3, <1>5, <1>6

\* F cuts bytes into n chunks, the k-th of which ends with byte e[k].
CutsUp(F, bytes, n, e) ==
    /\ n \in Nat \ {0} /\ DOMAIN F = 1..n /\ Len(F) = n
    /\ e[0] = 0 /\ e[n] = Len(bytes)
    /\ \A k \in 1..n : /\ e[k - 1] \in Nat /\ e[k] \in Nat
                       /\ e[k - 1] <= e[k] /\ e[k] <= Len(bytes)
                       /\ F[k] \in Seq(Nat) /\ IndexOf(F[k]) = k - 1
                       /\ PayloadOf(F[k]) = SubSeq(bytes, e[k - 1] + 1, e[k])
    /\ Last(F[n]) = 1

\* A chunk takes at least one byte.
LEMMA PayloadSizeIs ==
    ASSUME ChunksAssumption, NEW asked \in ChunkSizes
    PROVE  PayloadSize(asked) \in Nat \ {0}
  <1>1. asked \in Nat /\ MinChunk \in Nat /\ MaxChunk \in Nat
    BY DEF ChunksAssumption
  <1>2. PICK z : z = IF asked > MaxChunk THEN MaxChunk ELSE IF asked < MinChunk THEN MinChunk ELSE asked
    OBVIOUS
  <1>3. z \in Nat
    BY <1>1, <1>2
  <1>4. PayloadSize(asked) = IF z - 2 - 1 < 1 THEN 1 ELSE z - 2 - 1
    BY <1>2 DEF PayloadSize, Head2, Tail1
  <1> QED
    BY <1>3, <1>4

\* n pieces of s bytes take in l bytes, and no fewer do.
Enough(l, s, n) ==
    /\ n \in Nat \ {0} /\ l <= n * s /\ \A k \in 1..n : k = 1 \/ (k - 1) * s < l
    /\ \A b \in Nat \ {0} : l <= s * b => n <= b

\* The number of chunks, rounded up.
LEMMA CountIsEnough ==
    ASSUME NEW l \in Nat, NEW s \in Nat \ {0}
    PROVE  Enough(l, s, IF l = 0 THEN 1 ELSE (l + s - 1) \div s)
  <1>0. PICK n : n = IF l = 0 THEN 1 ELSE (l + s - 1) \div s
    OBVIOUS
  <1>1. ASSUME l = 0 PROVE Enough(l, s, n)
    <2>1. n = 1 /\ 1 * s = s
      BY <1>0, <1>1
    <2> QED
      BY <1>1, <2>1 DEF Enough
  <1>2. ASSUME l # 0 PROVE Enough(l, s, n)
    <2>1. PICK a, r : a = l + s - 1 /\ r = a % s
      OBVIOUS
    <2>2. a \in Nat /\ n = a \div s
      BY <1>0, <1>2, <2>1
    <2>3. n \in Nat /\ r \in 0..(s - 1) /\ a = s * n + r
      BY <2>1, <2>2
    <2>4. n # 0
      <3> SUFFICES ASSUME n = 0 PROVE FALSE
        OBVIOUS
      <3>1. s * n = 0
        OBVIOUS
      <3> QED
        BY <1>2, <2>1, <2>3, <3>1
    <2>5. s * n \in Nat /\ n * s = s * n
      BY <2>3
    <2>6. l <= n * s /\ n * s < l + s
      BY <1>2, <2>1, <2>3, <2>5
    <2>7. ASSUME NEW k \in 1..n
          PROVE  k = 1 \/ (k - 1) * s < l
      <3>1. (k - 1) * s <= (n - 1) * s
        BY <2>3
      <3>2. (n - 1) * s = n * s - s /\ (k - 1) * s \in Nat
        BY <2>3
      <3> QED
        BY <2>5, <2>6, <3>1, <3>2
    <2>8. ASSUME NEW b \in Nat \ {0}, l <= s * b
          PROVE  n <= b
      <3> SUFFICES ASSUME n >= b + 1 PROVE FALSE
        BY <2>3
      <3>1. s * n >= s * (b + 1) /\ s * (b + 1) = s * b + s /\ s * b \in Nat
        BY <2>3
      <3> QED
        BY <2>5, <2>6, <2>8, <3>1
    <2> QED
      BY <2>3, <2>4, <2>6, <2>7, <2>8 DEF Enough
  <1>3. Enough(l, s, n)
    BY <1>1, <1>2
  <1> QED
    BY <1>0, <1>3

\* Fragment cuts the bytes of a message into numbered chunks.
LEMMA FragmentCuts ==
    ASSUME ChunksAssumption, NEW m \in Messages, NEW asked \in ChunkSizes
    PROVE  \E n, e : CutsUp(Fragment(m, asked), Deflated[m], n, e)
  <1>1. PICK bytes, l, size, n, b :
          /\ bytes = Deflated[m] /\ l = Len(bytes) /\ size = PayloadSize(asked) /\ b = ByteRange
          /\ n = IF bytes = << >> THEN 1 ELSE (Len(bytes) + size - 1) \div size
    OBVIOUS
  <1>2. /\ b \in Nat \ {0} /\ bytes \in Seq(Nat) /\ l \in Nat /\ (bytes = << >> <=> l = 0)
        /\ size \in Nat \ {0} /\ l <= (size * b) * b
    <2>1. bytes \in Seq(0..(b - 1)) /\ l <= (size * b) * b /\ b \in Nat \ {0}
      BY <1>1 DEF ChunksAssumption
    <2>2. bytes \in Seq(Nat)
      <3>1. 0..(b - 1) \subseteq Nat
        BY <2>1
      <3> QED
        BY <2>1, <3>1
    <2> QED
      BY <1>1, <2>1, <2>2, PayloadSizeIs
  <1>3. /\ n \in Nat \ {0} /\ l <= n * size /\ n <= b * b
        /\ \A k \in 1..n : k = 1 \/ (k - 1) * size < l
    <2>1. n = IF l = 0 THEN 1 ELSE (l + size - 1) \div size
      BY <1>1, <1>2
    <2>2. b * b \in Nat \ {0} /\ l <= size * (b * b)
      <3>1. (size * b) * b = size * (b * b)
        BY <1>2
      <3>2. b * b \in Nat \ {0}
        BY <1>2
      <3> QED
        BY <1>2, <3>1, <3>2
    <2>3. PICK bb : bb = b * b
      OBVIOUS
    <2>4. /\ n \in Nat \ {0} /\ l <= n * size /\ \A k \in 1..n : k = 1 \/ (k - 1) * size < l
          /\ \A c \in Nat \ {0} : l <= size * c => n <= c
      BY <1>2, <2>1, CountIsEnough DEF Enough
    <2>5. n <= bb
      BY <2>2, <2>3, <2>4
    <2> QED
      BY <2>3, <2>4, <2>5
  <1>4. PICK e : e = [k \in 0..n |-> IF k * size < l THEN k * size ELSE l]
    OBVIOUS
  <1>5. e[0] = 0 /\ e[n] = l
    <2>1. 0 * size = 0 /\ 0 \in 0..n /\ n \in 0..n /\ ~(n * size < l)
      BY <1>2, <1>3
    <2> QED
      BY <1>2, <1>4, <2>1
  <1>6. ASSUME NEW k \in 1..n
        PROVE  /\ e[k - 1] \in Nat /\ e[k] \in Nat /\ e[k - 1] = (k - 1) * size
               /\ e[k - 1] <= e[k] /\ e[k] <= l
               /\ e[k] = IF k * size < l THEN k * size ELSE l
    <2>1. k \in 0..n /\ k - 1 \in 0..n /\ k \in Nat /\ k - 1 \in Nat
      BY <1>3
    <2>2. (k - 1) * size \in Nat /\ k * size \in Nat /\ (k - 1) * size <= k * size
      BY <1>2, <2>1
    <2>3. e[k] = IF k * size < l THEN k * size ELSE l
      BY <1>4, <2>1
    <2>4. e[k - 1] = (k - 1) * size
      <3>1. e[k - 1] = IF (k - 1) * size < l THEN (k - 1) * size ELSE l
        BY <1>4, <2>1
      <3>2. CASE k = 1
        <4>1. (k - 1) * size = 0
          BY <1>2, <3>2
        <4> QED
          BY <1>5, <3>2, <4>1
      <3>3. CASE k # 1
        BY <1>3, <3>1, <3>3
      <3> QED
        BY <3>2, <3>3
    <2>5. (k - 1) * size <= l
      <3>1. CASE k = 1
        <4>1. (k - 1) * size = 0
          BY <1>2, <3>1
        <4> QED
          BY <1>2, <4>1
      <3>2. CASE k # 1
        BY <1>2, <1>3, <2>2, <3>2
      <3> QED
        BY <3>1, <3>2
    <2> QED
      BY <1>2, <2>2, <2>3, <2>4, <2>5
  <1>7. PICK F : F = Fragment(m, asked)
    OBVIOUS
  <1> DEFINE flag(k) == IF e[k] >= l THEN 1 ELSE 0
  <1>8. F = [k \in 1..n |-> <<((k - 1) \div b) % b, (k - 1) % b>>
                               \o SubSeq(bytes, (k - 1) * size + 1, IF k * size < l THEN k * size ELSE l)
                               \o <<IF (IF k * size < l THEN k * size ELSE l) >= l THEN 1 ELSE 0>>]
    BY <1>1, <1>7 DEF Fragment
  <1>9. ASSUME NEW k \in 1..n
        PROVE  /\ F[k] \in Seq(Nat) /\ IndexOf(F[k]) = k - 1
               /\ PayloadOf(F[k]) = SubSeq(bytes, e[k - 1] + 1, e[k]) /\ Last(F[k]) = flag(k)
    <2>1. PICK P, f, hi, lo : /\ P = SubSeq(bytes, e[k - 1] + 1, e[k]) /\ f = flag(k)
                              /\ hi = ((k - 1) \div b) % b /\ lo = (k - 1) % b
      OBVIOUS
    <2>2. F[k] = <<hi, lo>> \o P \o <<f>>
      <3>1. e[k - 1] = (k - 1) * size /\ e[k] = IF k * size < l THEN k * size ELSE l
        BY <1>6
      <3> QED
        BY <1>8, <2>1, <3>1
    <2>3. k - 1 \in Nat /\ k - 1 < b * b
      BY <1>2, <1>3
    <2>4. hi \in Nat /\ lo \in Nat /\ hi * b + lo = k - 1
      BY <1>1, <2>1, <2>3, IndexIsTold
    <2>5. P \in Seq(Nat)
      <3>1. e[k - 1] \in Nat /\ e[k] \in Nat /\ e[k] <= l
        BY <1>6
      <3>2. PICK s, t : s = e[k - 1] + 1 /\ t = e[k]
        OBVIOUS
      <3>3. s \in Int /\ t \in Int /\ s >= 1 /\ t <= l
        BY <3>1, <3>2
      <3>4. ASSUME NEW i \in s..t
            PROVE  bytes[i] \in Nat
        <4>1. i \in 1..Len(bytes)
          BY <1>1, <1>2, <3>3
        <4> QED
          BY <1>2, <4>1
      <3> QED
        BY <2>1, <3>2, <3>3, <3>4, SubSeqProperties
    <2>6. f \in Nat
      BY <2>1
    <2>7. /\ IndexOf(F[k]) = hi * b + lo /\ PayloadOf(F[k]) = P /\ Last(F[k]) = f
          /\ F[k] \in Seq(Nat)
      <3>1. PICK c : c = F[k]
        OBVIOUS
      <3>2. c = <<hi, lo>> \o P \o <<f>>
        BY <2>2, <3>1
      <3>3. /\ IndexOf(c) = hi * ByteRange + lo /\ PayloadOf(c) = P /\ Last(c) = f
            /\ c \in Seq(Nat)
        BY <2>4, <2>5, <2>6, <3>2, ChunkIs DEF IsChunk
      <3> QED
        BY <1>1, <3>1, <3>3
    <2> QED
      BY <2>1, <2>4, <2>7
  <1>10. Last(F[n]) = 1
    <2>1. n \in 1..n /\ flag(n) = 1
      BY <1>2, <1>3, <1>5
    <2> QED
      BY <1>9, <2>1
  <1>11. DOMAIN F = 1..n /\ Len(F) = n
    BY <1>3, <1>8
  <1>12. CutsUp(F, bytes, n, e)
    BY <1>1, <1>3, <1>5, <1>6, <1>9, <1>10, <1>11 DEF CutsUp
  <1> QED
    BY <1>1, <1>7, <1>12

\* The chunk at place i of r is the x[i]-th of F, and every chunk of F has its place.
Shuffles(r, F, n, x) ==
    /\ n \in Nat \ {0} /\ DOMAIN F = 1..n /\ DOMAIN r = 1..n /\ x \in [1..n -> 1..n]
    /\ \A k \in 1..n : IndexOf(F[k]) = k - 1
    /\ \A i \in 1..n : r[i] = F[x[i]]
    /\ \A k \in 1..n : \E i \in 1..n : x[i] = k

\* The same chunks, as many, are in some order.
LEMMA ShuffleIs ==
    ASSUME NEW F, NEW r, NEW n \in Nat \ {0}, DOMAIN F = 1..n, DOMAIN r = 1..n,
           \A k \in 1..n : IndexOf(F[k]) = k - 1,
           ToSet(r) = ToSet(F)
    PROVE  \E x : Shuffles(r, F, n, x)
  <1>1. PICK x : x = [i \in 1..n |-> CHOOSE k \in 1..n : r[i] = F[k]]
    OBVIOUS
  <1>2. \A i \in 1..n : \E k \in 1..n : r[i] = F[k]
    <2>1. \A i \in 1..n : r[i] \in ToSet(F)
      BY DEF ToSet
    <2> QED
      BY <2>1 DEF ToSet
  <1>3. \A i \in 1..n : x[i] \in 1..n /\ r[i] = F[x[i]]
    BY <1>1, <1>2
  <1>4. x \in [1..n -> 1..n]
    BY <1>1, <1>3
  <1>5. ASSUME NEW k \in 1..n
        PROVE  \E i \in 1..n : x[i] = k
    <2>1. F[k] \in ToSet(r)
      BY DEF ToSet
    <2>2. PICK i \in 1..n : r[i] = F[k]
      BY <2>1 DEF ToSet
    <2>3. IndexOf(F[x[i]]) = x[i] - 1 /\ IndexOf(F[k]) = k - 1 /\ F[x[i]] = F[k]
      BY <1>3, <2>2
    <2>4. x[i] \in 1..n
      BY <1>3
    <2>5. x[i] = k
      BY <2>3, <2>4
    <2> QED
      BY <2>5
  <1>6. Shuffles(r, F, n, x)
    BY <1>3, <1>4, <1>5 DEF Shuffles
  <1> QED
    BY <1>6

\* No chunk is there twice.
LEMMA ShuffleInjective ==
    ASSUME NEW F, NEW r, NEW n, NEW x, Shuffles(r, F, n, x)
    PROVE  \A i, j \in 1..n : x[i] = x[j] => i = j
  <1>1. n \in Nat /\ 1 \in Int /\ n \in Int
    BY DEF Shuffles
  <1>2. IsFiniteSet(1..n)
    BY <1>1, FS_Interval
  <1>3. x \in Surjection(1..n, 1..n)
    BY DEF Shuffles, Surjection
  <1>4. x \in Injection(1..n, 1..n)
    BY <1>2, <1>3, FS_SurjSameCardinalityImpliesInj
  <1> QED
    BY <1>4 DEF Injection, IsInjective

\* As many chunks precede the one at place i as have a smaller index.
LEMMA PlaceIs ==
    ASSUME NEW F, NEW r, NEW n, NEW x, Shuffles(r, F, n, x), NEW i \in 1..n
    PROVE  Cardinality({j \in DOMAIN r : Precedes(r, j, i)}) = x[i] - 1
  <1>1. PICK A, B : A = {j \in 1..n : x[j] < x[i]} /\ B = 1..(x[i] - 1)
    OBVIOUS
  <1>2. /\ n \in Nat /\ DOMAIN r = 1..n
        /\ \A j \in 1..n : x[j] \in 1..n /\ IndexOf(r[j]) = x[j] - 1
    BY DEF Shuffles
  <1>3. \A j \in 1..n : Precedes(r, j, i) <=> x[j] < x[i]
    <2> TAKE j \in 1..n
    <2>1. /\ x[j] \in Int /\ x[i] \in Int /\ IndexOf(r[j]) = x[j] - 1 /\ IndexOf(r[i]) = x[i] - 1
      BY <1>2
    <2>2. x[i] = x[j] => i = j
      BY ShuffleInjective
    <2>3. i \in Int /\ j \in Int
      OBVIOUS
    <2> QED
      BY <2>1, <2>2, <2>3 DEF Precedes
  <1>4. {j \in DOMAIN r : Precedes(r, j, i)} = A
    BY <1>1, <1>2, <1>3
  <1>5. x[i] - 1 \in Nat /\ x[i] \in 1..n
    BY <1>2
  <1>6. IsFiniteSet(B) /\ Cardinality(B) = x[i] - 1
    <2>1. PICK b : b = x[i] - 1
      OBVIOUS
    <2>2. b \in Nat /\ B = 1..b
      BY <1>1, <1>5, <2>1
    <2>3. IsFiniteSet(1..b) /\ Cardinality(1..b) = b
      BY <2>2, FS_Interval
    <2> QED
      BY <2>1, <2>2, <2>3
  <1>7. IsFiniteSet(A)
    <2>1. IsFiniteSet(1..n)
      BY <1>2, FS_Interval
    <2>2. A \subseteq 1..n
      BY <1>1
    <2> QED
      BY <2>1, <2>2, FS_Subset
  <1>8. ExistsBijection(A, B)
    <2>1. PICK f : f = [j \in A |-> x[j]]
      OBVIOUS
    <2>2. f \in [A -> B]
      BY <1>1, <1>2, <1>5, <2>1
    <2>3. \A j, k \in A : f[j] = f[k] => j = k
      BY <1>1, <2>1, ShuffleInjective
    <2>4. ASSUME NEW k \in B
          PROVE  \E j \in A : f[j] = k
      <3>1. k \in 1..n /\ k < x[i]
        BY <1>1, <1>2, <1>5
      <3>2. PICK j \in 1..n : x[j] = k
        BY <3>1 DEF Shuffles
      <3>3. j \in A
        BY <1>1, <3>1, <3>2
      <3> QED
        BY <2>1, <3>2, <3>3
    <2>5. f \in Injection(A, B)
      BY <2>2, <2>3 DEF Injection, IsInjective
    <2>6. f \in Surjection(A, B)
      BY <2>2, <2>4 DEF Surjection
    <2> QED
      BY <2>5, <2>6 DEF ExistsBijection, Bijection
  <1>9. Cardinality(A) = Cardinality(B)
    BY <1>7, <1>8, FS_Bijection
  <1> QED
    BY <1>4, <1>6, <1>9

\* Sorting puts them back.
LEMMA SortedIs ==
    ASSUME NEW F, NEW r, NEW n, NEW x, Shuffles(r, F, n, x)
    PROVE  DOMAIN Sorted(r) = 1..n /\ \A k \in 1..n : Sorted(r)[k] = F[k]
  <1>1. DOMAIN r = 1..n /\ n \in Nat /\ \A i \in 1..n : x[i] \in 1..n /\ r[i] = F[x[i]]
    BY DEF Shuffles
  <1> DEFINE Place(i) == Cardinality({j \in DOMAIN r : Precedes(r, j, i)})
  <1>2. \A i \in 1..n : Place(i) = x[i] - 1
    BY PlaceIs
  <1>3. Sorted(r) = [k \in 1..n |-> r[CHOOSE i \in 1..n : Place(i) = k - 1]]
    BY <1>1 DEF Sorted
  <1> HIDE DEF Place
  <1>4. ASSUME NEW k \in 1..n
        PROVE  Sorted(r)[k] = F[k]
    <2>1. PICK j \in 1..n : x[j] = k
      BY DEF Shuffles
    <2>2. PICK i : i = CHOOSE j0 \in 1..n : Place(j0) = k - 1
      OBVIOUS
    <2>3. Place(j) = k - 1
      BY <1>2, <2>1
    <2>4. i \in 1..n /\ Place(i) = k - 1
      BY <2>2, <2>3
    <2>5. x[i] = k
      <3>1. x[i] - 1 = k - 1 /\ x[i] \in 1..n
        BY <1>1, <1>2, <2>4
      <3> QED
        BY <3>1
    <2>6. Sorted(r)[k] = r[i]
      BY <1>3, <2>2
    <2> QED
      BY <1>1, <2>4, <2>5, <2>6
  <1> QED
    BY <1>3, <1>4

\* Two neighbouring parts of a sequence, one after the other.
LEMMA PartsJoin ==
    ASSUME NEW S, NEW s \in Seq(S), NEW a \in Nat, NEW b \in Nat, a <= b, b <= Len(s)
    PROVE  SubSeq(s, 1, a) \o SubSeq(s, a + 1, b) = SubSeq(s, 1, b)
  <1>1. PICK p, q, w : p = SubSeq(s, 1, a) /\ q = SubSeq(s, a + 1, b) /\ w = SubSeq(s, 1, b)
    OBVIOUS
  <1>2. p \in Seq(S) /\ Len(p) = a /\ \A i \in 1..a : p[i] = s[i]
    BY <1>1
  <1>3. q \in Seq(S) /\ Len(q) = b - a /\ \A i \in 1..(b - a) : q[i] = s[a + i]
    <2>1. PICK c : c = a + 1
      OBVIOUS
    <2>2. c \in Nat \ {0} /\ q = SubSeq(s, c, b)
      BY <1>1, <2>1
    <2>3. q \in Seq(S) /\ Len(q) = (b - c) + 1 /\ \A i \in 1..((b - c) + 1) : q[i] = s[(c + i) - 1]
      BY <2>1, <2>2
    <2>4. (b - c) + 1 = b - a /\ \A i \in 1..(b - a) : (c + i) - 1 = a + i
      BY <2>1
    <2> QED
      BY <2>3, <2>4
  <1>4. w \in Seq(S) /\ Len(w) = b /\ \A i \in 1..b : w[i] = s[i]
    BY <1>1
  <1>5. /\ p \o q \in Seq(S) /\ Len(p \o q) = Len(p) + Len(q)
        /\ \A i \in 1..(Len(p) + Len(q)) : (p \o q)[i] = IF i <= Len(p) THEN p[i] ELSE q[i - Len(p)]
    BY <1>2, <1>3, ConcatProperties
  <1>6. Len(p) + Len(q) = b
    BY <1>2, <1>3
  <1>7. ASSUME NEW i \in 1..b
        PROVE  (p \o q)[i] = w[i]
    <2>1. (p \o q)[i] = IF i <= a THEN p[i] ELSE q[i - a]
      BY <1>2, <1>5, <1>6
    <2>2. CASE i <= a
      <3>1. i \in 1..a
        BY <2>2
      <3> QED
        BY <1>2, <1>4, <2>1, <2>2, <3>1
    <2>3. CASE ~(i <= a)
      <3>1. i - a \in 1..(b - a) /\ a + (i - a) = i
        BY <2>3
      <3>2. q[i - a] = s[i]
        BY <1>3, <3>1
      <3> QED
        BY <1>4, <2>1, <2>3, <3>2
    <2> QED
      BY <2>2, <2>3
  <1>8. p \o q = w
    <2>1. p \o q \in Seq(S) /\ Len(p \o q) = b
      BY <1>5, <1>6
    <2> QED
      BY <1>4, <1>7, <2>1, SeqEqual
  <1> QED
    BY <1>1, <1>8

\* The payloads of the chunks of a message are its bytes.
LEMMA PayloadsAre ==
    ASSUME NEW S, NEW bytes \in Seq(S), NEW F, NEW n, NEW e, CutsUp(F, bytes, n, e)
    PROVE  FlattenSeq([k \in 1..n |-> PayloadOf(F[k])]) = bytes
  <1>1. PICK seqs : seqs = [k \in 1..n |-> PayloadOf(F[k])]
    OBVIOUS
  <1>2. /\ n \in Nat \ {0} /\ e[0] = 0 /\ e[n] = Len(bytes)
        /\ \A k \in 1..n : /\ e[k - 1] \in Nat /\ e[k] \in Nat
                           /\ e[k - 1] <= e[k] /\ e[k] <= Len(bytes)
                           /\ seqs[k] = SubSeq(bytes, e[k - 1] + 1, e[k])
    BY <1>1 DEF CutsUp
  <1>3. \A k \in 1..n : seqs[k] \in Seq(S)
    <2> TAKE k \in 1..n
    <2>1. PICK s, t : s = e[k - 1] + 1 /\ t = e[k]
      OBVIOUS
    <2>2. s \in Int /\ t \in Int /\ s >= 1 /\ t <= Len(bytes)
      BY <1>2, <2>1
    <2>3. ASSUME NEW i \in s..t
          PROVE  bytes[i] \in S
      <3>1. i \in 1..Len(bytes)
        BY <2>2
      <3> QED
        BY <3>1
    <2>4. SubSeq(bytes, s, t) \in Seq(S)
      BY <2>2, <2>3, SubSeqProperties
    <2>5. seqs[k] = SubSeq(bytes, s, t)
      BY <1>2, <2>1
    <2> QED
      BY <2>4, <2>5
  <1>4. seqs \in [1..n -> Seq(S)]
    BY <1>1, <1>3
  <1>5. PICK h \in [0..n -> Seq(S)] : FlattenSteps(seqs, n, h)
    BY <1>2, <1>4, FlattenInSteps
  <1>6. /\ h[0] = << >> /\ h[n] = FlattenSeq(seqs)
        /\ \A k \in 1..n : h[k] = h[k - 1] \o seqs[k]
    BY <1>2, <1>5 DEF FlattenSteps
  <1> DEFINE I == {k \in 0..n : h[k] = SubSeq(bytes, 1, e[k])}
  <1>7. 0 \in I
    <2>1. SubSeq(bytes, 1, 0) = << >>
      OBVIOUS
    <2> QED
      BY <1>2, <1>6, <2>1
  <1>8. ASSUME NEW k \in 0..(n - 1), k \in I
        PROVE  k + 1 \in I
    <2>1. PICK j : j = k + 1
      OBVIOUS
    <2>2. j \in 1..n /\ j \in 0..n /\ j - 1 = k
      BY <1>2, <2>1
    <2>3. h[j] = h[k] \o seqs[j]
      BY <1>6, <2>2
    <2>4. PICK a, b : a = e[k] /\ b = e[j]
      OBVIOUS
    <2>5. a \in Nat /\ b \in Nat /\ a <= b /\ b <= Len(bytes) /\ seqs[j] = SubSeq(bytes, a + 1, b)
      BY <1>2, <2>2, <2>4
    <2>6. h[k] = SubSeq(bytes, 1, a)
      BY <1>8, <2>4
    <2>7. h[j] = SubSeq(bytes, 1, b)
      BY <2>3, <2>5, <2>6, PartsJoin
    <2> QED
      BY <2>1, <2>2, <2>4, <2>7
  <1>9. h[n] = SubSeq(bytes, 1, Len(bytes))
    <2>1. \A k \in 0..n : k \in I
      <3>1. n \in Nat
        BY <1>2
      <3> HIDE DEF I
      <3> QED
        BY <1>7, <1>8, <3>1, Reaches
    <2>2. n \in 0..n
      BY <1>2
    <2> QED
      BY <1>2, <2>1, <2>2
  <1>10. SubSeq(bytes, 1, Len(bytes)) = bytes
    OBVIOUS
  <1> QED
    BY <1>1, <1>6, <1>9, <1>10

\* The chunks of one message, each once and in any order, give the message.
LEMMA ReadInAnyOrder ==
    ASSUME ChunksAssumption, NEW m \in Messages, NEW asked \in ChunkSizes, NEW S,
           NEW r \in Seq(S), Len(r) = Len(Fragment(m, asked)), ToSet(r) = ToSet(Fragment(m, asked))
    PROVE  Reassemble(r) = m
  <1>1. PICK F, bytes, n, e : F = Fragment(m, asked) /\ bytes = Deflated[m] /\ CutsUp(F, bytes, n, e)
    BY FragmentCuts
  <1>2. /\ n \in Nat \ {0} /\ DOMAIN F = 1..n /\ DOMAIN r = 1..n
        /\ \A k \in 1..n : IndexOf(F[k]) = k - 1
    BY <1>1 DEF CutsUp
  <1>3. PICK x : Shuffles(r, F, n, x)
    BY <1>1, <1>2, ShuffleIs
  <1>4. PICK sorted : sorted = Sorted(r)
    OBVIOUS
  <1>5. DOMAIN sorted = 1..n /\ \A k \in 1..n : sorted[k] = F[k]
    BY <1>3, <1>4, SortedIs
  <1>6. ~\E i \in DOMAIN sorted : IndexOf(sorted[i]) # i - 1
    BY <1>2, <1>5
  <1>7. Last(Last(sorted)) = 1
    <2>1. sorted = [k \in 1..n |-> sorted[k]]
      BY <1>4, <1>5, <1>2 DEF Sorted
    <2>2. Len(sorted) = n
      BY <1>2, <2>1
    <2>3. Last(sorted) = F[n]
      BY <1>2, <1>5, <2>2 DEF Last
    <2> QED
      BY <1>1, <2>3 DEF CutsUp
  <1>8. FlattenSeq([i \in DOMAIN sorted |-> PayloadOf(sorted[i])]) = bytes
    <2>1. [i \in DOMAIN sorted |-> PayloadOf(sorted[i])] = [k \in 1..n |-> PayloadOf(F[k])]
      BY <1>5
    <2>2. bytes \in Seq(0..(ByteRange - 1))
      BY <1>1 DEF ChunksAssumption
    <2>3. FlattenSeq([k \in 1..n |-> PayloadOf(F[k])]) = bytes
      BY <1>1, <2>2, PayloadsAre
    <2> QED
      BY <2>1, <2>3
  <1>9. Inflate(bytes) = m
    <2>1. \A k \in Messages : Deflated[k] = bytes => k = m
      BY <1>1 DEF ChunksAssumption
    <2> QED
      BY <1>1, <2>1 DEF Inflate
  <1>10. r # << >>
    BY <1>2
  <1> QED
    BY <1>4, <1>6, <1>7, <1>8, <1>9, <1>10 DEF Reassemble

\* What arrives is chunks, and what was sent are messages.
ChunksArrive ==
    /\ air \subseteq Seq(Nat) /\ received \in Seq(Seq(Nat)) /\ sentMessages \subseteq Messages

\* Every step keeps it.
LEMMA ChunksStep ==
    ASSUME ChunksAssumption
    PROVE  /\ ChunksInit => ChunksArrive
           /\ ChunksArrive /\ [ChunksNext]_chunkVars => ChunksArrive'
  <1>1. ChunksInit => ChunksArrive
    BY DEF ChunksInit, ChunksArrive
  <1>2. ASSUME ChunksArrive, [ChunksNext]_chunkVars
        PROVE  ChunksArrive'
    <2>1. CASE UNCHANGED chunkVars
      BY <1>2, <2>1 DEF ChunksArrive, chunkVars
    <2>2. ASSUME NEW msg \in Messages, NEW asked \in ChunkSizes, SendChunks(msg, asked)
          PROVE  ChunksArrive'
      <3>1. PICK F, n, e : F = Fragment(msg, asked) /\ CutsUp(F, Deflated[msg], n, e)
        BY FragmentCuts
      <3>2. ToSet(F) \subseteq Seq(Nat)
        <4>1. DOMAIN F = 1..n /\ \A k \in 1..n : F[k] \in Seq(Nat)
          BY <3>1 DEF CutsUp
        <4> QED
          BY <4>1 DEF ToSet
      <3>3. air' = air \union ToSet(F) /\ received' = received /\ sentMessages' = sentMessages \union {msg}
        BY <2>2, <3>1 DEF SendChunks
      <3> QED
        BY <1>2, <3>2, <3>3 DEF ChunksArrive
    <2>3. ASSUME NEW chunk \in air, ReceiveChunk(chunk)
          PROVE  ChunksArrive'
      <3>1. /\ received' = Append(received, chunk) /\ air' = air /\ sentMessages' = sentMessages
            /\ chunk \in Seq(Nat) /\ received \in Seq(Seq(Nat))
        BY <1>2, <2>3 DEF ReceiveChunk, ChunksArrive
      <3>2. received' \in Seq(Seq(Nat))
        BY <3>1, AppendProperties
      <3> QED
        BY <1>2, <3>1, <3>2 DEF ChunksArrive
    <2> QED
      BY <1>2, <2>1, <2>2, <2>3 DEF ChunksNext
  <1> QED
    BY <1>1, <1>2

\* Both together.
LEMMA ChunksRead ==
    ASSUME ChunksAssumption, ChunksArrive
    PROVE  AnyOrderIsRead
  <1>1. ASSUME NEW m \in sentMessages, NEW asked \in ChunkSizes,
               Len(received) = Len(Fragment(m, asked)),
               ToSet(received) = ToSet(Fragment(m, asked))
        PROVE  Reassemble(received) = m
    <2>1. m \in Messages /\ received \in Seq(Seq(Nat))
      BY DEF ChunksArrive
    <2> QED
      BY <1>1, <2>1, ReadInAnyOrder
  <1> QED
    BY <1>1 DEF AnyOrderIsRead
=============================================================================
