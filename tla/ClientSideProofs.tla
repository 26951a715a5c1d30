--------------------------- MODULE ClientSideProofs ---------------------------
(****************************************************************************)
(* The safety properties of the client's parts, for any number of relays,   *)
(* calls, devices and sessions: an inductive invariant of each part, with   *)
(* the one of SimplePool from SimplePoolProofs, and the properties of       *)
(* MCClientSide from their conjunction.                                     *)
(****************************************************************************)
EXTENDS MCClientSide, SimplePoolProofs

-----------------------------------------------------------------------------
(* Nip77Sync                                                                 *)

SyncMessages == [type : {"NEG-OPEN", "NEG-MSG", "NEG-CLOSE", "NEG-ERR"}, ids : SUBSET SyncIds]
SyncStates == [step : {"idle", "waiting", "answered", "empty"}, result : SUBSET SyncIds]

\* A session that is not open has no messages, and the relay does not know it.
NotOpened(s) ==
    syncs[s].step = "idle" => toRelay[s] = <<>> /\ toClient[s] = <<>> /\ s \notin negSessions

\* These ids are a true answer to the list of session s.
TrueAnswer(s, ids) ==
    /\ always[s] \ LocalIds[s] \subseteq ids
    /\ ids \subseteq ever[s] \ LocalIds[s]

\* The first message that the client will read answers the NEG-OPEN, whatever was sent
\* after it, and what the relay holds lies between the two histories until it is read.
FirstIsTrue(s) ==
    syncs[s].step = "waiting" =>
        /\ always[s] \subseteq held /\ held \subseteq ever[s]
        /\ IF toClient[s] = <<>>
           THEN /\ toRelay[s] # <<>>
                /\ Head(toRelay[s]).type = "NEG-OPEN" /\ Head(toRelay[s]).ids = LocalIds[s]
           ELSE Head(toClient[s]).type = "NEG-MSG" => TrueAnswer(s, Head(toClient[s]).ids)

\* After its end a session sends nothing more than the NEG-CLOSE that ends it.
CloseIsLast(s) ==
    syncs[s].step \in {"answered", "empty"} =>
        IF toRelay[s] = <<>> THEN s \notin negSessions ELSE Last(toRelay[s]).type = "NEG-CLOSE"

AnsweredTells(s) == syncs[s].step = "answered" => TrueAnswer(s, syncs[s].result)

SessionInv(s) == NotOpened(s) /\ FirstIsTrue(s) /\ CloseIsLast(s) /\ AnsweredTells(s)
SyncInv == SyncTypeOK /\ \A s \in Sessions : SessionInv(s)

\* The shape of the state, with the records named.
LEMMA SyncTypes ==
    SyncTypeOK <=> /\ held \subseteq SyncIds /\ negSessions \subseteq Sessions
                   /\ toRelay \in [Sessions -> Seq(SyncMessages)]
                   /\ toClient \in [Sessions -> Seq(SyncMessages)]
                   /\ syncs \in [Sessions -> SyncStates]
                   /\ always \in [Sessions -> SUBSET SyncIds]
                   /\ ever \in [Sessions -> SUBSET SyncIds]
  BY DEF SyncTypeOK, SyncMessages, SyncStates

\* The ends of a queue after a message is put in it.
LEMMA AppendEnds ==
    ASSUME NEW S, NEW q \in Seq(S), NEW x \in S
    PROVE  /\ Append(q, x) \in Seq(S) /\ Append(q, x) # <<>> /\ Last(Append(q, x)) = x
           /\ Head(Append(q, x)) = IF q = <<>> THEN x ELSE Head(q)
  <1>1. /\ Append(q, x) \in Seq(S) /\ Len(Append(q, x)) = Len(q) + 1
        /\ Append(q, x)[Len(q) + 1] = x
    OBVIOUS
  <1>2. Append(q, x) # <<>>
    BY <1>1
  <1>3. Head(Append(q, x)) = IF q = <<>> THEN x ELSE Head(q)
    OBVIOUS
  <1> QED
    BY <1>1, <1>2, <1>3 DEF Last

\* The ends of a queue after a message is taken from it.
LEMMA TailEnds ==
    ASSUME NEW S, NEW q \in Seq(S), q # <<>>
    PROVE  /\ Head(q) \in S /\ Tail(q) \in Seq(S)
           /\ IF Tail(q) = <<>> THEN Last(q) = Head(q) ELSE Last(Tail(q)) = Last(q)
  <1>1. /\ Head(q) \in S /\ Tail(q) \in Seq(S) /\ Len(q) \in Nat /\ Len(q) > 0
        /\ Head(q) = q[1]
    OBVIOUS
  <1>t. Len(Tail(q)) = Len(q) - 1
    BY <1>1
  <1>2. PICK t \in Seq(S) : t = Tail(q) /\ Len(t) = Len(q) - 1
    BY <1>1, <1>t, Zenon
  <1>3. CASE t = <<>>
    <2>1. Len(t) = 0
      BY <1>3
    <2>2. Len(q) = 1
      BY <1>1, <1>2, <2>1
    <2> QED
      BY <1>1, <1>2, <1>3, <2>2 DEF Last
  <1>4. CASE t # <<>>
    <2>1. Len(q) > 1
      BY <1>1, <1>2, <1>4
    <2>2. t[Len(q) - 1] = q[Len(q)]
      BY <1>1, <1>2, <2>1
    <2> QED
      BY <1>1, <1>2, <1>4, <2>2 DEF Last
  <1> QED
    BY <1>3, <1>4

\* The step is one of session s, which it takes to these queues, state and histories,
Moves(s, r, c, y, a, e) ==
    /\ held' = held /\ negSessions' \subseteq Sessions
    /\ negSessions' \ {s} = negSessions \ {s}
    /\ toRelay' = [toRelay EXCEPT ![s] = r] /\ toClient' = [toClient EXCEPT ![s] = c]
    /\ syncs' = [syncs EXCEPT ![s] = y]
    /\ always' = [always EXCEPT ![s] = a] /\ ever' = [ever EXCEPT ![s] = e]

\* which fit together.
Fits(s, r, c, y, a, e) ==
    /\ y.step = "idle" => r = <<>> /\ c = <<>> /\ s \notin negSessions'
    /\ y.step = "waiting" =>
         /\ a \subseteq held /\ held \subseteq e
         /\ IF c = <<>>
            THEN r # <<>> /\ Head(r).type = "NEG-OPEN" /\ Head(r).ids = LocalIds[s]
            ELSE Head(c).type = "NEG-MSG" =>
                   /\ a \ LocalIds[s] \subseteq Head(c).ids
                   /\ Head(c).ids \subseteq e \ LocalIds[s]
    /\ y.step \in {"answered", "empty"} =>
         IF r = <<>> THEN s \notin negSessions' ELSE Last(r).type = "NEG-CLOSE"
    /\ y.step = "answered" => /\ a \ LocalIds[s] \subseteq y.result
                              /\ y.result \subseteq e \ LocalIds[s]

\* Such a step leaves the other sessions alone.
LEMMA OneSession ==
    ASSUME SyncInv, NEW s \in Sessions,
           NEW r \in Seq(SyncMessages), NEW c \in Seq(SyncMessages), NEW y \in SyncStates,
           NEW a \in SUBSET SyncIds, NEW e \in SUBSET SyncIds,
           Moves(s, r, c, y, a, e), Fits(s, r, c, y, a, e)
    PROVE  SyncInv'
  <1>1. /\ held \subseteq SyncIds /\ negSessions \subseteq Sessions
        /\ toRelay \in [Sessions -> Seq(SyncMessages)]
        /\ toClient \in [Sessions -> Seq(SyncMessages)]
        /\ syncs \in [Sessions -> SyncStates]
        /\ always \in [Sessions -> SUBSET SyncIds] /\ ever \in [Sessions -> SUBSET SyncIds]
    BY SyncTypes DEF SyncInv
  <1>2. SyncTypeOK'
    BY <1>1 DEF Moves, SyncTypeOK, SyncMessages, SyncStates
  <1>3. /\ toRelay'[s] = r /\ toClient'[s] = c /\ syncs'[s] = y /\ always'[s] = a
        /\ ever'[s] = e /\ held' = held
    BY <1>1 DEF Moves
  <1>4. SessionInv(s)'
    BY <1>3 DEF Fits, SessionInv, NotOpened, FirstIsTrue, CloseIsLast, AnsweredTells, TrueAnswer
  <1>5. ASSUME NEW t \in Sessions, t # s
        PROVE  SessionInv(t)'
    <2>1. /\ toRelay'[t] = toRelay[t] /\ toClient'[t] = toClient[t] /\ syncs'[t] = syncs[t]
          /\ always'[t] = always[t] /\ ever'[t] = ever[t] /\ held' = held
          /\ (t \in negSessions') = (t \in negSessions)
      BY <1>1, <1>5 DEF Moves
    <2>2. SessionInv(t)
      BY DEF SyncInv
    <2> QED
      BY <2>1, <2>2 DEF SessionInv, NotOpened, FirstIsTrue, CloseIsLast, AnsweredTells, TrueAnswer
  <1> QED
    BY <1>2, <1>4, <1>5 DEF SyncInv

\* No step of a reconcile breaks the invariant.
LEMMA SyncStep == SyncAssumption /\ SyncInv /\ [SyncNext]_syncVars => SyncInv'
  <1> SUFFICES ASSUME SyncAssumption, SyncInv, [SyncNext]_syncVars
               PROVE  SyncInv'
    OBVIOUS
  <1>1. /\ held \subseteq SyncIds /\ negSessions \subseteq Sessions
        /\ toRelay \in [Sessions -> Seq(SyncMessages)]
        /\ toClient \in [Sessions -> Seq(SyncMessages)]
        /\ syncs \in [Sessions -> SyncStates]
        /\ always \in [Sessions -> SUBSET SyncIds] /\ ever \in [Sessions -> SUBSET SyncIds]
    BY SyncTypes DEF SyncInv
  <1>2. ASSUME NEW s \in Sessions
        PROVE  /\ SessionInv(s) /\ LocalIds[s] \in SUBSET SyncIds
               /\ toRelay[s] \in Seq(SyncMessages) /\ toClient[s] \in Seq(SyncMessages)
               /\ syncs[s] \in SyncStates /\ always[s] \in SUBSET SyncIds
               /\ ever[s] \in SUBSET SyncIds
    BY <1>1 DEF SyncInv, SyncAssumption
  <1>3. ASSUME NEW s \in Sessions, SyncOpen(s)
        PROVE  SyncInv'
    <2> DEFINE m == [type |-> "NEG-OPEN", ids |-> LocalIds[s]]
               y == [syncs[s] EXCEPT !.step = "waiting"]
               r == Append(toRelay[s], m)
    <2>1. m \in SyncMessages /\ m.type = "NEG-OPEN" /\ m.ids = LocalIds[s]
      BY <1>2 DEF SyncMessages
    <2>2. y \in SyncStates /\ y.step = "waiting"
      BY <1>2 DEF SyncStates
    <2>3. toRelay[s] = <<>> /\ toClient[s] = <<>>
      BY <1>2, <1>3 DEF SyncOpen, SessionInv, NotOpened
    <2> HIDE DEF m, y
    <2>4. r \in Seq(SyncMessages) /\ r # <<>> /\ Head(r) = m
      BY <1>2, <2>1, <2>3, AppendEnds
    <2>5. /\ toRelay' = [toRelay EXCEPT ![s] = r] /\ syncs' = [syncs EXCEPT ![s] = y]
          /\ always' = [always EXCEPT ![s] = held] /\ ever' = [ever EXCEPT ![s] = held]
          /\ UNCHANGED <<held, toClient, negSessions>>
      BY <1>3 DEF SyncOpen, Send, m, y
    <2> HIDE DEF r
    <2>6. Moves(s, r, toClient[s], y, held, held)
      BY <1>1, <2>5 DEF Moves
    <2>7. Fits(s, r, toClient[s], y, held, held)
      BY <2>1, <2>2, <2>3, <2>4 DEF Fits
    <2> QED
      BY <1>1, <1>2, <2>2, <2>4, <2>6, <2>7, OneSession
  <1>4. ASSUME NEW s \in Sessions, NEW ids \in SUBSET SyncIds, SyncSend(s, ids)
        PROVE  SyncInv'
    <2> DEFINE m == [type |-> "NEG-MSG", ids |-> ids]
               r == Append(toRelay[s], m)
    <2>1. m \in SyncMessages
      BY DEF SyncMessages
    <2>2. /\ toRelay' = [toRelay EXCEPT ![s] = r]
          /\ UNCHANGED <<held, toClient, negSessions, syncs, always, ever>>
      BY <1>4 DEF SyncSend, Send
    <2> HIDE DEF m
    <2>3. r \in Seq(SyncMessages) /\ r # <<>> /\ (toRelay[s] # <<>> => Head(r) = Head(toRelay[s]))
      BY <1>2, <2>1, AppendEnds
    <2> HIDE DEF r
    <2>4. Moves(s, r, toClient[s], syncs[s], always[s], ever[s])
      BY <1>1, <2>2 DEF Moves
    <2>5. syncs[s].step = "waiting"
      BY <1>4 DEF SyncSend
    <2>6. Fits(s, r, toClient[s], syncs[s], always[s], ever[s])
      BY <1>2, <2>3, <2>5 DEF Fits, SessionInv, FirstIsTrue, TrueAnswer
    <2> QED
      BY <1>2, <2>3, <2>4, <2>6, OneSession
  <1>5. ASSUME NEW s \in Sessions, RelayNeg(s)
        PROVE  SyncInv'
    <2> DEFINE m == Head(toRelay[s])
               missing == [type |-> "NEG-MSG", ids |-> held \ m.ids]
               noSession == [type |-> "NEG-ERR", ids |-> {}]
               x == IF s \in negSessions' THEN missing ELSE noSession
               r == Tail(toRelay[s])
               c == Append(toClient[s], x)
    <2>1. /\ toRelay[s] # <<>> /\ m.type \in {"NEG-OPEN", "NEG-MSG"}
          /\ negSessions' = IF m.type = "NEG-OPEN" THEN negSessions \union {s} ELSE negSessions
          /\ toClient' = [toClient EXCEPT ![s] = c] /\ toRelay' = [toRelay EXCEPT ![s] = r]
          /\ UNCHANGED <<held, syncs, always, ever>>
      BY <1>5 DEF RelayNeg
    <2>2. /\ m \in SyncMessages /\ r \in Seq(SyncMessages)
          /\ IF r = <<>> THEN Last(toRelay[s]) = m ELSE Last(r) = Last(toRelay[s])
      BY <1>2, <2>1, TailEnds
    <2>3. /\ x \in SyncMessages
          /\ m.type = "NEG-OPEN" => x.type = "NEG-MSG" /\ x.ids = held \ m.ids
      BY <1>1, <2>1 DEF SyncMessages
    <2> HIDE DEF m, x, missing, noSession
    <2>4. /\ c \in Seq(SyncMessages) /\ c # <<>>
          /\ Head(c) = IF toClient[s] = <<>> THEN x ELSE Head(toClient[s])
      BY <1>2, <2>3, AppendEnds
    <2> HIDE DEF c, r
    <2>5. Moves(s, r, c, syncs[s], always[s], ever[s])
      BY <1>1, <2>1 DEF Moves
    <2>6. syncs[s].step # "idle"
      BY <1>2, <2>1 DEF SessionInv, NotOpened
    <2>7. CASE syncs[s].step = "waiting"
      <3>1. /\ always[s] \subseteq held /\ held \subseteq ever[s]
            /\ IF toClient[s] = <<>> THEN m.type = "NEG-OPEN" /\ m.ids = LocalIds[s]
               ELSE Head(toClient[s]).type = "NEG-MSG" => TrueAnswer(s, Head(toClient[s]).ids)
        BY <1>2, <2>7 DEF SessionInv, FirstIsTrue, m
      <3>2. Head(c).type = "NEG-MSG" => TrueAnswer(s, Head(c).ids)
        <4>1. CASE toClient[s] = <<>>
          BY <2>3, <2>4, <3>1, <4>1 DEF TrueAnswer
        <4>2. CASE toClient[s] # <<>>
          BY <2>4, <3>1, <4>2
        <4> QED
          BY <4>1, <4>2
      <3>3. Fits(s, r, c, syncs[s], always[s], ever[s])
        BY <2>4, <2>7, <3>1, <3>2 DEF Fits, TrueAnswer
      <3> QED
        BY <1>2, <2>2, <2>4, <2>5, <3>3, OneSession
    <2>8. CASE syncs[s].step \in {"answered", "empty"}
      <3>1. Last(toRelay[s]).type = "NEG-CLOSE"
        BY <1>2, <2>1, <2>8 DEF SessionInv, CloseIsLast
      <3>2. r # <<>> /\ Last(r).type = "NEG-CLOSE"
        BY <2>1, <2>2, <3>1
      <3>3. Fits(s, r, c, syncs[s], always[s], ever[s])
        BY <1>2, <2>8, <3>2 DEF Fits, SessionInv, AnsweredTells, TrueAnswer
      <3> QED
        BY <1>2, <2>2, <2>4, <2>5, <3>3, OneSession
    <2> QED
      BY <1>2, <2>6, <2>7, <2>8 DEF SyncStates
  <1>6. ASSUME NEW s \in Sessions, RelayNegClose(s)
        PROVE  SyncInv'
    <2> DEFINE r == Tail(toRelay[s])
    <2>1. /\ toRelay[s] # <<>> /\ Head(toRelay[s]).type = "NEG-CLOSE"
          /\ negSessions' = negSessions \ {s} /\ toRelay' = [toRelay EXCEPT ![s] = r]
          /\ UNCHANGED <<held, toClient, syncs, always, ever>>
      BY <1>6 DEF RelayNegClose
    <2>2. /\ r \in Seq(SyncMessages)
          /\ r # <<>> => Last(r) = Last(toRelay[s])
      BY <1>2, <2>1, TailEnds
    <2> HIDE DEF r
    <2>3. Moves(s, r, toClient[s], syncs[s], always[s], ever[s])
      BY <1>1, <2>1 DEF Moves
    <2>4. /\ syncs[s].step # "idle"
          /\ syncs[s].step = "waiting" => toClient[s] # <<>>
      BY <1>2, <2>1 DEF SessionInv, NotOpened, FirstIsTrue
    <2>5. Fits(s, r, toClient[s], syncs[s], always[s], ever[s])
      BY <1>2, <2>1, <2>2, <2>4
      DEF Fits, SessionInv, FirstIsTrue, CloseIsLast, AnsweredTells, TrueAnswer
    <2> QED
      BY <1>2, <2>2, <2>3, <2>5, OneSession
  \* The end of a call, by its answer or its timeout.
  <1>7. ASSUME NEW s \in Sessions, NEW y \in SyncStates, NEW c \in Seq(SyncMessages),
               y.step \in {"answered", "empty"},
               y.step = "answered" => TrueAnswer(s, y.result),
               syncs' = [syncs EXCEPT ![s] = y], toClient' = [toClient EXCEPT ![s] = c],
               Send(s, "NEG-CLOSE", {}), UNCHANGED <<held, negSessions, always, ever>>
        PROVE  SyncInv'
    <2> DEFINE m == [type |-> "NEG-CLOSE", ids |-> {}]
               r == Append(toRelay[s], m)
    <2>1. m \in SyncMessages /\ m.type = "NEG-CLOSE"
      BY DEF SyncMessages
    <2>2. toRelay' = [toRelay EXCEPT ![s] = r]
      BY <1>7 DEF Send
    <2> HIDE DEF m
    <2>3. r \in Seq(SyncMessages) /\ r # <<>> /\ Last(r) = m
      BY <1>2, <2>1, AppendEnds
    <2> HIDE DEF r
    <2>4. Moves(s, r, c, y, always[s], ever[s])
      BY <1>1, <1>7, <2>2 DEF Moves
    <2>5. Fits(s, r, c, y, always[s], ever[s])
      BY <1>7, <2>1, <2>3 DEF Fits, TrueAnswer
    <2> QED
      BY <1>2, <1>7, <2>3, <2>4, <2>5, OneSession
  <1>8. ASSUME NEW s \in Sessions, SyncAnswered(s)
        PROVE  SyncInv'
    <2> DEFINE y == IF Head(toClient[s]).type = "NEG-MSG"
                    THEN [step |-> "answered", result |-> Head(toClient[s]).ids]
                    ELSE [step |-> "empty", result |-> {}]
    <2>1. toClient[s] # <<>> /\ syncs[s].step = "waiting"
      BY <1>8 DEF SyncAnswered
    <2>2. Head(toClient[s]) \in SyncMessages /\ Tail(toClient[s]) \in Seq(SyncMessages)
      BY <1>2, <2>1, TailEnds
    <2>3. Head(toClient[s]).type = "NEG-MSG" => TrueAnswer(s, Head(toClient[s]).ids)
      BY <1>2, <2>1 DEF SessionInv, FirstIsTrue
    <2>4. /\ y \in SyncStates /\ y.step \in {"answered", "empty"}
          /\ y.step = "answered" => TrueAnswer(s, y.result)
      BY <2>2, <2>3 DEF SyncStates, SyncMessages
    <2>5. /\ syncs' = [syncs EXCEPT ![s] = y]
          /\ toClient' = [toClient EXCEPT ![s] = Tail(toClient[s])]
          /\ Send(s, "NEG-CLOSE", {}) /\ UNCHANGED <<held, negSessions, always, ever>>
      BY <1>8 DEF SyncAnswered
    <2> HIDE DEF y
    <2> QED
      BY <1>7, <2>2, <2>4, <2>5
  <1>9. ASSUME NEW s \in Sessions, SyncTimeout(s)
        PROVE  SyncInv'
    <2> DEFINE y == [step |-> "empty", result |-> {}]
    <2>1. y \in SyncStates /\ y.step = "empty"
      BY DEF SyncStates
    <2>2. /\ syncs' = [syncs EXCEPT ![s] = y]
          /\ toClient' = [toClient EXCEPT ![s] = toClient[s]]
          /\ Send(s, "NEG-CLOSE", {}) /\ UNCHANGED <<held, negSessions, always, ever>>
      BY <1>1, <1>9 DEF SyncTimeout
    <2> HIDE DEF y
    <2> QED
      BY <1>2, <1>7, <2>1, <2>2
  <1>10. ASSUME NEW s \in Sessions, SyncLate(s)
         PROVE  SyncInv'
    <2> DEFINE c == Tail(toClient[s])
    <2>1. /\ toClient[s] # <<>> /\ syncs[s].step \in {"answered", "empty"}
          /\ toClient' = [toClient EXCEPT ![s] = c]
          /\ UNCHANGED <<held, toRelay, negSessions, syncs, always, ever>>
      BY <1>10 DEF SyncLate
    <2>2. c \in Seq(SyncMessages)
      BY <1>2, <2>1, TailEnds
    <2> HIDE DEF c
    <2>3. Moves(s, toRelay[s], c, syncs[s], always[s], ever[s])
      BY <1>1, <2>1 DEF Moves
    <2>4. Fits(s, toRelay[s], c, syncs[s], always[s], ever[s])
      BY <1>2, <2>1 DEF Fits, SessionInv, CloseIsLast, AnsweredTells, TrueAnswer
    <2> QED
      BY <1>2, <2>2, <2>3, <2>4, OneSession
  <1>11. ASSUME NEW new \in SUBSET SyncIds, HeldChanges(new)
         PROVE  SyncInv'
    <2>1. SyncTypeOK'
      BY <1>1, <1>11 DEF HeldChanges, SyncTypeOK, SyncMessages, SyncStates
    <2>2. ASSUME NEW s \in Sessions
          PROVE  SessionInv(s)'
      <3>1. /\ held' = new
            /\ always'[s] = IF syncs[s].step = "waiting" THEN always[s] \intersect new ELSE always[s]
            /\ ever'[s] = IF syncs[s].step = "waiting" THEN ever[s] \union new ELSE ever[s]
            /\ UNCHANGED <<toRelay, toClient, negSessions, syncs>>
        BY <1>11 DEF HeldChanges, Running
      <3>2. CASE syncs[s].step = "waiting"
        BY <1>2, <3>1, <3>2
        DEF SessionInv, NotOpened, FirstIsTrue, CloseIsLast, AnsweredTells, TrueAnswer
      <3>3. CASE syncs[s].step # "waiting"
        BY <1>2, <3>1, <3>3
        DEF SessionInv, NotOpened, FirstIsTrue, CloseIsLast, AnsweredTells, TrueAnswer
      <3> QED
        BY <3>2, <3>3
    <2> QED
      BY <2>1, <2>2 DEF SyncInv
  <1>12. CASE UNCHANGED syncVars
    BY <1>12 DEF syncVars, SyncInv, SyncTypeOK, SessionInv, NotOpened, FirstIsTrue, CloseIsLast,
                 AnsweredTells, TrueAnswer
  <1>13. ASSUME NEW id \in SyncIds \ held, HeldChanges(held \union {id})
         PROVE  SyncInv'
    BY <1>1, <1>11, <1>13
  <1>14. ASSUME NEW id \in held, HeldChanges(held \ {id})
         PROVE  SyncInv'
    BY <1>1, <1>11, <1>14
  <1> QED
    BY <1>3, <1>4, <1>5, <1>6, <1>8, <1>9, <1>10, <1>12, <1>13, <1>14 DEF SyncNext

\* Before the first call it holds.
LEMMA SyncStart == SyncAssumption /\ SyncInit => SyncInv
  <1> SUFFICES ASSUME SyncAssumption, SyncInit PROVE SyncInv
    OBVIOUS
  <1>1. [step |-> "idle", result |-> {}] \in SyncStates
    BY DEF SyncStates
  <1>2. SyncTypeOK
    BY <1>1, SyncTypes DEF SyncInit
  <1> QED
    BY <1>2 DEF SyncInit, SyncInv, SessionInv, NotOpened, FirstIsTrue, CloseIsLast, AnsweredTells

\* It says what is checked of Nip77Sync.
LEMMA SyncSafe == SyncInv => SyncTypeOK /\ AnsweredIsDifference /\ SessionsEnd
  BY DEF SyncInv, SessionInv, CloseIsLast, AnsweredTells, TrueAnswer, AnsweredIsDifference,
         SessionsEnd

-----------------------------------------------------------------------------
(* ReplaceableLists                                                          *)

ListContents == [ListEntries -> Modes \union {NoMode}]
Versions == [created_at : 0..MaxListTime, id : ListIds, list : ListContents]
CallRecords ==
    [step : {"idle", "asked", "answered", "publishing"}, add : BOOLEAN,
     entry : ListEntries \union {NoMode}, mode : Modes \union {NoMode},
     list : ListContents, at : 0..MaxListTime, id : ListIds \union {0}]

\* A call that runs is about an entry and a mode, and what it publishes has an id.
CallsTyped ==
    /\ devices \in [Devices -> CallRecords]
    /\ \A d \in Busy : devices[d].entry \in ListEntries /\ devices[d].mode \in Modes
    /\ \A d \in Devices : devices[d].step = "publishing" => devices[d].id \in ListIds

OneCall == \A d, e \in Busy : d = e

\* What a call has read is what is stored still, and what it publishes is made of that.
ReadIsStored ==
    \A d \in Devices :
        /\ devices[d].step = "answered" => devices[d].list = Stored
        /\ devices[d].step = "publishing" => devices[d].list = Changed(devices[d], Stored)

CallsTakeTurns ==
    \/ disturbed
    \/ OneCall /\ ReadIsStored /\ Stored = said

ListsInv == ListsTypeOK /\ CallsTyped /\ CallsTakeTurns

\* The stored list is a list.
LEMMA StoredTyped ==
    ASSUME ListsTypeOK
    PROVE  /\ Stored \in ListContents /\ EmptyList \in ListContents /\ said \in ListContents
           /\ version = NoVersion \/ version \in Versions
  BY DEF ListsTypeOK, Stored, EmptyList, ListContents, Versions

\* What a call makes of the list that the caller knows of is what the caller is told then:
\* of follows too, which have one mode.
LEMMA ChangedIsAsked ==
    ASSUME ListsAssumption, said \in ListContents, NEW c \in CallRecords,
           c.entry \in ListEntries, c.mode \in Modes, NEW list \in ListContents
    PROVE  /\ Changed(c, list) \in ListContents /\ AsAsked(c) \in ListContents
           /\ list = said => Changed(c, list) = AsAsked(c)
  <1>1. Changed(c, list) \in ListContents /\ AsAsked(c) \in ListContents
    BY DEF Changed, AsAsked, ListContents
  <1>2. ASSUME list = said
        PROVE  Changed(c, list) = AsAsked(c)
    <2>1. CASE ~(c.add /\ IsFollowList /\ said[c.entry] # NoMode)
      BY <1>2, <2>1 DEF Changed, AsAsked
    <2>2. CASE c.add /\ IsFollowList /\ said[c.entry] # NoMode
      <3>1. said[c.entry] \in Modes
        BY <2>2 DEF ListContents
      <3>2. said[c.entry] = c.mode
        BY <2>2, <3>1 DEF ListsAssumption
      <3>3. [said EXCEPT ![c.entry] = c.mode] = said
        BY <3>2 DEF ListContents
      <3> QED
        BY <1>2, <2>2, <3>3 DEF Changed, AsAsked
    <2> QED
      BY <2>1, <2>2
  <1> QED
    BY <1>1, <1>2

\* A change of one field or another keeps the record of a call.
LEMMA CallChange ==
    ASSUME ListsAssumption, NEW c \in CallRecords, NEW list \in ListContents,
           NEW at \in 0..MaxListTime, NEW id \in ListIds
    PROVE  /\ NoCallYet \in CallRecords /\ NoCallYet.step = "idle"
           /\ LET a == [c EXCEPT !.step = "answered", !.list = list]
                  p == [c EXCEPT !.step = "publishing", !.list = list, !.at = at, !.id = id]
              IN  /\ a \in CallRecords /\ a.step = "answered" /\ a.list = list
                  /\ a.entry = c.entry /\ a.mode = c.mode
                  /\ p \in CallRecords /\ p.step = "publishing" /\ p.list = list /\ p.id = id
                  /\ p.entry = c.entry /\ p.mode = c.mode /\ p.add = c.add
  <1>1. EmptyList \in ListContents
    BY DEF EmptyList, ListContents
  <1>2. 0 \in 0..MaxListTime
    BY DEF ListsAssumption
  <1>3. NoCallYet \in CallRecords /\ NoCallYet.step = "idle"
    BY <1>1, <1>2 DEF NoCallYet, CallRecords
  <1> QED
    BY <1>3 DEF CallRecords

\* A step of one call keeps the shape of the state.
LEMMA CallMoves ==
    ASSUME ListsInv, NEW d \in Devices, NEW n \in CallRecords, devices' = [devices EXCEPT ![d] = n],
           n.step # "idle" => n.entry \in ListEntries /\ n.mode \in Modes,
           n.step = "publishing" => n.id \in ListIds,
           version' = NoVersion \/ version' \in Versions,
           usedIds' \subseteq ListIds, listClock' = listClock, said' \in ListContents,
           disturbed' \in BOOLEAN
    PROVE  /\ ListsTypeOK' /\ CallsTyped'
           /\ devices'[d] = n /\ \A e \in Devices \ {d} : devices'[e] = devices[e]
           /\ Busy' \subseteq Busy \union {d} /\ (d \in Busy' <=> n.step # "idle")
  <1>1. /\ devices \in [Devices -> CallRecords]
        /\ \A e \in Busy : devices[e].entry \in ListEntries /\ devices[e].mode \in Modes
        /\ \A e \in Devices : devices[e].step = "publishing" => devices[e].id \in ListIds
    BY DEF ListsInv, CallsTyped
  <1>2. devices' \in [Devices -> CallRecords]
    BY <1>1
  <1>3. devices'[d] = n /\ \A e \in Devices \ {d} : devices'[e] = devices[e]
    BY <1>1
  <1>4. Busy' \subseteq Busy \union {d} /\ (d \in Busy' <=> n.step # "idle")
    BY <1>3 DEF Busy
  <1>5. CallsTyped'
    <2>1. \A e \in Busy' : devices'[e].entry \in ListEntries /\ devices'[e].mode \in Modes
      BY <1>1, <1>3, <1>4 DEF Busy
    <2>2. \A e \in Devices : devices'[e].step = "publishing" => devices'[e].id \in ListIds
      BY <1>1, <1>3
    <2> QED
      BY <1>2, <2>1, <2>2 DEF CallsTyped
  <1>6. ListsTypeOK'
    <2>1. \A e \in Devices :
            /\ devices'[e].step \in {"idle", "asked", "answered", "publishing"}
            /\ devices'[e].list \in [ListEntries -> Modes \union {NoMode}]
            /\ devices'[e].at \in 0..MaxListTime
      BY <1>2 DEF CallRecords, ListContents
    <2>2. listClock' \in 0..MaxListTime
      BY DEF ListsInv, ListsTypeOK
    <2> QED
      BY <2>1, <2>2 DEF ListsTypeOK, Versions, ListContents
  <1> QED
    BY <1>3, <1>4, <1>5, <1>6

\* What follows the read of a list, whether it was answered or not.
LEMMA ProceedsSafe ==
    ASSUME ListsAssumption, ListsInv, NEW d \in Devices, NEW list \in ListContents, NEW id \in ListIds,
           devices[d].step \in {"asked", "answered"}, Proceeds(d, list, id),
           disturbed' \in BOOLEAN, disturbed => disturbed', ~disturbed' => list = Stored,
           UNCHANGED <<version, listClock>>
    PROVE  ListsInv'
  <1> DEFINE c == devices[d]
             p == [c EXCEPT !.step = "publishing", !.list = Changed(c, list), !.at = listClock,
                            !.id = id]
  <1>1. /\ Stored \in ListContents /\ said \in ListContents
        /\ version = NoVersion \/ version \in Versions
        /\ usedIds \subseteq ListIds /\ listClock \in 0..MaxListTime
    BY StoredTyped DEF ListsInv, ListsTypeOK
  <1>2. c \in CallRecords /\ d \in Busy /\ c.entry \in ListEntries /\ c.mode \in Modes
    BY DEF ListsInv, CallsTyped, Busy
  <1>3. Stored' = Stored
    BY DEF Stored
  <1>4. /\ Changed(c, list) \in ListContents /\ AsAsked(c) \in ListContents
        /\ list = said => Changed(c, list) = AsAsked(c)
    BY <1>1, <1>2, ChangedIsAsked
  <1>5. /\ NoCallYet \in CallRecords /\ NoCallYet.step = "idle"
        /\ p \in CallRecords /\ p.step = "publishing" /\ p.list = Changed(c, list) /\ p.id = id
        /\ p.entry = c.entry /\ p.mode = c.mode /\ p.add = c.add
    <2>1. PICK w \in ListContents : w = Changed(c, list)
      BY <1>4
    <2>2. PICK k \in CallRecords : k = c
      BY <1>2
    <2>3. p = [k EXCEPT !.step = "publishing", !.list = w, !.at = listClock, !.id = id]
      BY <2>1, <2>2
    <2> HIDE DEF p, c
    <2>4. NoCallYet \in CallRecords /\ NoCallYet.step = "idle"
      BY <1>1, <2>1, <2>2, CallChange
    <2>5. /\ p \in CallRecords /\ p.step = "publishing" /\ p.list = w /\ p.id = id
          /\ p.entry = k.entry /\ p.mode = k.mode /\ p.add = k.add
      BY <1>1, <2>3 DEF CallRecords
    <2> QED
      BY <2>1, <2>2, <2>4, <2>5
  <1>6. IF Changed(c, list) = list
        THEN devices' = [devices EXCEPT ![d] = NoCallYet] /\ said' = AsAsked(c) /\ usedIds' = usedIds
        ELSE devices' = [devices EXCEPT ![d] = p] /\ said' = said
             /\ usedIds' = usedIds \union {id}
    BY DEF Proceeds
  <1>7. Changed(p, Stored) = Changed(c, Stored)
    BY <1>5 DEF Changed
  <1> HIDE DEF c, p
  <1>8. ~disturbed' => OneCall /\ ReadIsStored /\ Stored = said /\ list = Stored
    BY DEF ListsInv, CallsTakeTurns
  <1>9. CASE Changed(c, list) = list
    <2>1. /\ ListsTypeOK' /\ CallsTyped' /\ \A e \in Devices \ {d} : devices'[e] = devices[e]
          /\ devices'[d] = NoCallYet /\ Busy' \subseteq Busy \union {d} /\ d \notin Busy'
      BY <1>1, <1>4, <1>5, <1>6, <1>9, CallMoves
    <2>2. ASSUME ~disturbed'
          PROVE  OneCall' /\ ReadIsStored' /\ (Stored = said)'
      <3>1. \A e \in Devices \ {d} : devices[e].step = "idle"
        BY <1>2, <1>8, <2>2 DEF OneCall, Busy
      <3>2. \A e \in Devices : devices'[e].step = "idle"
        BY <1>5, <2>1, <3>1
      <3>3. OneCall' /\ ReadIsStored'
        BY <3>2 DEF OneCall, ReadIsStored, Busy
      <3>4. Stored' = said'
        BY <1>3, <1>4, <1>6, <1>8, <1>9, <2>2
      <3> QED
        BY <3>3, <3>4
    <2> QED
      BY <2>1, <2>2 DEF ListsInv, CallsTakeTurns
  <1>10. CASE Changed(c, list) # list
    <2>0. devices' = [devices EXCEPT ![d] = p] /\ said' = said /\ usedIds' \subseteq ListIds
      BY <1>1, <1>6, <1>10
    <2>1. /\ ListsTypeOK' /\ CallsTyped' /\ \A e \in Devices \ {d} : devices'[e] = devices[e]
          /\ devices'[d] = p
      BY <1>1, <1>2, <1>5, <2>0, CallMoves
    <2>2. ASSUME ~disturbed'
          PROVE  OneCall' /\ ReadIsStored' /\ (Stored = said)'
      <3>1. \A e \in Devices \ {d} : devices[e].step = "idle"
        BY <1>2, <1>8, <2>2 DEF OneCall, Busy
      <3>2. \A e \in Devices \ {d} : devices'[e].step = "idle"
        BY <2>1, <3>1
      <3>3. OneCall'
        BY <3>2 DEF OneCall, Busy
      <3>4. p.list = Changed(p, Stored)
        BY <1>5, <1>7, <1>8, <2>2
      <3>5. ReadIsStored'
        <4>1. ASSUME NEW e \in Devices
              PROVE  /\ devices'[e].step = "answered" => devices'[e].list = Stored'
                     /\ devices'[e].step = "publishing" =>
                            devices'[e].list = Changed(devices'[e], Stored')
          <5>1. CASE e = d
            BY <1>3, <1>5, <2>1, <3>4, <5>1
          <5>2. CASE e # d
            BY <3>2, <5>2
          <5> QED
            BY <5>1, <5>2
        <4> QED
          BY <4>1 DEF ReadIsStored, Changed
      <3>6. Stored' = said'
        BY <1>3, <1>8, <2>0, <2>2
      <3> QED
        BY <3>3, <3>5, <3>6
    <2> QED
      BY <2>1, <2>2 DEF ListsInv, CallsTakeTurns
  <1> QED
    BY <1>9, <1>10

\* No step of the lists breaks the invariant.
LEMMA ListsStep == ListsAssumption /\ ListsInv /\ [ListsNext]_listVars => ListsInv'
  <1> SUFFICES ASSUME ListsAssumption, ListsInv, [ListsNext]_listVars
               PROVE  ListsInv'
    OBVIOUS
  <1>1. /\ Stored \in ListContents /\ EmptyList \in ListContents /\ said \in ListContents
        /\ version = NoVersion \/ version \in Versions
        /\ usedIds \subseteq ListIds /\ listClock \in 0..MaxListTime /\ disturbed \in BOOLEAN
    BY StoredTyped DEF ListsInv, ListsTypeOK
  <1>2. /\ devices \in [Devices -> CallRecords] /\ CallsTakeTurns
        /\ \A d \in Devices : devices[d].step # "idle" =>
              devices[d].entry \in ListEntries /\ devices[d].mode \in Modes
        /\ \A d \in Devices : devices[d].step = "publishing" => devices[d].id \in ListIds
    BY DEF ListsInv, CallsTyped, Busy
  <1>3. NoCallYet \in CallRecords /\ NoCallYet.step = "idle"
    <2>1. 0 \in 0..MaxListTime
      BY DEF ListsAssumption
    <2> QED
      BY <1>1, <2>1 DEF NoCallYet, CallRecords
  <1>4. ASSUME NEW d \in Devices, NEW add \in BOOLEAN, NEW x \in ListEntries, NEW m \in Modes,
               BeginChange(d, add, x, m)
        PROVE  ListsInv'
    <2> DEFINE n == [NoCallYet EXCEPT !.step = "asked", !.add = add, !.entry = x, !.mode = m]
    <2>1. n \in CallRecords /\ n.step = "asked" /\ n.entry = x /\ n.mode = m
      BY <1>3 DEF CallRecords
    <2>2. /\ devices' = [devices EXCEPT ![d] = n] /\ disturbed' = (disturbed \/ Busy # {})
          /\ UNCHANGED <<version, usedIds, listClock, said>>
      BY <1>4 DEF BeginChange
    <2> HIDE DEF n
    <2>3. disturbed' \in BOOLEAN
      BY <1>1, <2>2
    <2>4. /\ ListsTypeOK' /\ CallsTyped' /\ devices'[d] = n
          /\ \A e \in Devices \ {d} : devices'[e] = devices[e]
      BY <1>1, <2>1, <2>2, <2>3, CallMoves
    <2>5. ASSUME ~disturbed'
          PROVE  OneCall' /\ ReadIsStored' /\ (Stored = said)'
      <3>1. ~disturbed /\ Busy = {}
        BY <2>2, <2>5
      <3>2. \A e \in Devices \ {d} : devices'[e].step = "idle"
        BY <2>4, <3>1 DEF Busy
      <3>3. \A e \in Devices : devices'[e].step \in {"idle", "asked"}
        BY <2>1, <2>4, <3>2
      <3>4. OneCall' /\ ReadIsStored'
        BY <3>2, <3>3 DEF OneCall, ReadIsStored, Busy
      <3>5. Stored' = Stored /\ said' = said /\ Stored = said
        BY <1>2, <2>2, <3>1 DEF CallsTakeTurns, Stored
      <3> QED
        BY <3>4, <3>5
    <2> QED
      BY <2>4, <2>5 DEF ListsInv, CallsTakeTurns
  <1>5. ASSUME NEW d \in Devices, RelayAnswers(d)
        PROVE  ListsInv'
    <2> DEFINE n == [devices[d] EXCEPT !.step = "answered", !.list = Stored]
    <2>1. devices[d] \in CallRecords /\ devices[d].step = "asked"
      BY <1>2, <1>5 DEF RelayAnswers
    <2>2. /\ n \in CallRecords /\ n.step = "answered" /\ n.list = Stored
          /\ n.entry = devices[d].entry /\ n.mode = devices[d].mode
      BY <1>1, <2>1 DEF CallRecords
    <2>3. /\ devices' = [devices EXCEPT ![d] = n]
          /\ UNCHANGED <<version, usedIds, listClock, said, disturbed>>
      BY <1>5 DEF RelayAnswers
    <2>4. Stored' = Stored
      BY <2>3 DEF Stored
    <2> HIDE DEF n
    <2>5. /\ ListsTypeOK' /\ CallsTyped' /\ devices'[d] = n
          /\ \A e \in Devices \ {d} : devices'[e] = devices[e]
      BY <1>1, <1>2, <2>1, <2>2, <2>3, CallMoves
    <2>6. ASSUME ~disturbed'
          PROVE  OneCall' /\ ReadIsStored' /\ (Stored = said)'
      <3>1. OneCall /\ Stored = said
        BY <1>2, <2>3, <2>6 DEF CallsTakeTurns
      <3>2. \A e \in Devices \ {d} : devices'[e].step = "idle"
        BY <2>1, <2>5, <3>1 DEF OneCall, Busy
      <3>3. OneCall' /\ ReadIsStored'
        BY <2>2, <2>4, <2>5, <3>2 DEF OneCall, ReadIsStored, Busy
      <3> QED
        BY <2>3, <2>4, <3>1, <3>3
    <2> QED
      BY <2>5, <2>6 DEF ListsInv, CallsTakeTurns
  <1>6. ASSUME NEW d \in Devices, NEW id \in ListIds, AnswerArrives(d, id)
        PROVE  ListsInv'
    <2>1. PICK list \in ListContents : list = devices[d].list
      BY <1>2 DEF CallRecords
    <2>2. /\ devices[d].step = "answered" /\ Proceeds(d, list, id)
          /\ UNCHANGED <<version, listClock, disturbed>>
      BY <1>6, <2>1 DEF AnswerArrives
    <2>3. ~disturbed' => list = Stored
      BY <1>2, <2>1, <2>2 DEF CallsTakeTurns, ReadIsStored
    <2>4. disturbed' \in BOOLEAN /\ (disturbed => disturbed')
      BY <1>1, <2>2
    <2> QED
      BY <2>2, <2>3, <2>4, ProceedsSafe
  <1>7. ASSUME NEW d \in Devices, NEW id \in ListIds, ReadTimesOut(d, id)
        PROVE  ListsInv'
    <2>1. PICK list \in ListContents : list = EmptyList
      BY <1>1
    <2>2. /\ devices[d].step \in {"asked", "answered"} /\ Proceeds(d, list, id)
          /\ disturbed' = (disturbed \/ Stored # EmptyList) /\ UNCHANGED <<version, listClock>>
      BY <1>7, <2>1 DEF ReadTimesOut
    <2>3. (~disturbed' => list = Stored) /\ disturbed' \in BOOLEAN /\ (disturbed => disturbed')
      BY <1>1, <2>1, <2>2
    <2> QED
      BY <2>2, <2>3, ProceedsSafe
  <1>8. ASSUME NEW d \in Devices, ListPublished(d)
        PROVE  ListsInv'
    <2> DEFINE c == devices[d]
               e == [created_at |-> c.at, id |-> c.id, list |-> c.list]
    <2>1. /\ c.step = "publishing"
          /\ version' = IF version = NoVersion \/ ShouldReplace(e, version) THEN e ELSE version
          /\ said' = AsAsked(c)
          /\ disturbed' = (disturbed \/ (version # NoVersion /\ version.created_at >= c.at))
          /\ devices' = [devices EXCEPT ![d] = NoCallYet]
          /\ UNCHANGED <<usedIds, listClock>>
      BY <1>8 DEF ListPublished
    <2>2. /\ c \in CallRecords /\ c.entry \in ListEntries /\ c.mode \in Modes /\ c.id \in ListIds
          /\ c.at \in 0..MaxListTime /\ c.list \in ListContents
      BY <1>2, <2>1 DEF CallRecords
    <2>3. /\ e \in Versions /\ e.list = c.list /\ e.created_at = c.at
      BY <2>2 DEF Versions
    <2>4. /\ AsAsked(c) \in ListContents
          /\ Stored = said => Changed(c, Stored) = AsAsked(c)
      BY <1>1, <2>2, ChangedIsAsked
    <2>5. disturbed' \in BOOLEAN
      BY <1>1, <2>1
    <2>6. version' = NoVersion \/ version' \in Versions
      BY <1>1, <2>1, <2>3
    <2>o. ~disturbed => c.list = Changed(c, Stored)
      BY <1>2, <2>1 DEF CallsTakeTurns, ReadIsStored
    <2> HIDE DEF e, c
    <2>7. /\ ListsTypeOK' /\ CallsTyped' /\ devices'[d] = NoCallYet
          /\ \A f \in Devices \ {d} : devices'[f] = devices[f]
      BY <1>1, <1>3, <2>1, <2>4, <2>5, <2>6, CallMoves
    <2>8. ASSUME ~disturbed'
          PROVE  OneCall' /\ ReadIsStored' /\ (Stored = said)'
      <3>1. ~disturbed /\ ~(version # NoVersion /\ version.created_at >= c.at)
        BY <2>1, <2>8, Zenon
      <3>2. OneCall /\ Stored = said /\ c.list = Changed(c, Stored)
        BY <1>2, <2>o, <3>1 DEF CallsTakeTurns
      <3>3. \A f \in Devices : devices'[f].step = "idle"
        BY <1>3, <2>1, <2>7, <3>2 DEF OneCall, Busy, c
      <3>4. OneCall' /\ ReadIsStored'
        BY <3>3 DEF OneCall, ReadIsStored, Busy
      <3>5. version' = e
        <4>1. CASE version = NoVersion
          BY <2>1, <4>1
        <4>2. CASE version # NoVersion
          <5>1. version.created_at \in 0..MaxListTime /\ MaxListTime \in Nat
            BY <1>1, <4>2 DEF Versions, ListsAssumption
          <5>2. e.created_at > version.created_at
            BY <2>2, <2>3, <3>1, <4>2, <5>1
          <5> QED
            BY <2>1, <5>2 DEF ShouldReplace
        <4> QED
          BY <4>1, <4>2
      <3>6. e # NoVersion
        BY <2>3 DEF ListsAssumption, Versions, ListContents
      <3>7. Stored' = e.list
        BY <3>5, <3>6 DEF Stored
      <3>8. Stored' = said'
        BY <2>1, <2>3, <2>4, <3>2, <3>7
      <3> QED
        BY <3>4, <3>8
    <2> QED
      BY <2>7, <2>8 DEF ListsInv, CallsTakeTurns
  <1>9. ASSUME NEW d \in Devices, ChangeFails(d)
        PROVE  ListsInv'
    <2>1. /\ devices[d].step # "idle" /\ devices' = [devices EXCEPT ![d] = NoCallYet]
          /\ UNCHANGED <<version, usedIds, listClock, said, disturbed>>
      BY <1>9 DEF ChangeFails
    <2>2. /\ ListsTypeOK' /\ CallsTyped' /\ devices'[d] = NoCallYet
          /\ \A f \in Devices \ {d} : devices'[f] = devices[f]
      BY <1>1, <1>3, <2>1, CallMoves
    <2>3. ASSUME ~disturbed'
          PROVE  OneCall' /\ ReadIsStored' /\ (Stored = said)'
      <3>1. OneCall /\ Stored = said
        BY <1>2, <2>1, <2>3 DEF CallsTakeTurns
      <3>2. \A f \in Devices : devices'[f].step = "idle"
        BY <1>3, <2>1, <2>2, <3>1 DEF OneCall, Busy
      <3>3. OneCall' /\ ReadIsStored'
        BY <3>2 DEF OneCall, ReadIsStored, Busy
      <3>4. Stored' = said'
        BY <2>1, <3>1 DEF Stored
      <3> QED
        BY <3>3, <3>4
    <2> QED
      BY <2>2, <2>3 DEF ListsInv, CallsTakeTurns
  <1>10. CASE ListTick \/ UNCHANGED listVars
    <2>1. /\ UNCHANGED <<version, usedIds, devices, said, disturbed>>
          /\ \/ listClock' = listClock
             \/ listClock < MaxListTime /\ listClock' = listClock + 1
      BY <1>10 DEF ListTick, listVars
    <2>2. listClock' \in 0..MaxListTime
      BY <1>1, <2>1 DEF ListsAssumption
    <2>t. ListsTypeOK'
      BY <2>1, <2>2 DEF ListsInv, ListsTypeOK
    <2>3. ListsTypeOK' /\ CallsTyped'
      BY <2>1, <2>t DEF ListsInv, CallsTyped, Busy
    <2>4. CallsTakeTurns'
      BY <1>2, <2>1 DEF CallsTakeTurns, OneCall, ReadIsStored, Stored, Busy, Changed
    <2> QED
      BY <2>3, <2>4 DEF ListsInv
  <1> QED
    BY <1>4, <1>5, <1>6, <1>7, <1>8, <1>9, <1>10 DEF ListsNext

\* No list and no call satisfy it.
LEMMA ListsStart == ListsAssumption /\ ListsInit => ListsInv
  <1> SUFFICES ASSUME ListsAssumption, ListsInit PROVE ListsInv
    OBVIOUS
  <1>1. EmptyList \in ListContents /\ 0 \in 0..MaxListTime
    BY DEF EmptyList, ListContents, ListsAssumption
  <1>2. NoCallYet \in CallRecords /\ NoCallYet.step = "idle"
    BY <1>1 DEF NoCallYet, CallRecords
  <1>3. /\ \A d \in Devices : devices[d] = NoCallYet
        /\ devices \in [Devices -> CallRecords]
    BY <1>2 DEF ListsInit
  <1>4. CallsTyped
    BY <1>2, <1>3 DEF CallsTyped, Busy
  <1>5. CallsTakeTurns
    BY <1>2, <1>3 DEF ListsInit, CallsTakeTurns, OneCall, ReadIsStored, Busy, Stored
  <1>6. ListsTypeOK
    BY <1>1, <1>2, <1>3 DEF ListsInit, ListsTypeOK, ListContents, CallRecords
  <1> QED
    BY <1>4, <1>5, <1>6 DEF ListsInv

-----------------------------------------------------------------------------
(* WrapperRelay                                                              *)

SocketRecords == [socket : {"free", "connecting", "open", "ending", "closing", "closed"},
                  promise : {"none", "pending", "resolved", "rejected"}]

\* The socket that the object uses is open, or its relay is ending it, whatever happened to
\* the others; and a promise is pending as long as its socket connects.
SocketInUseIsOpen == ws # NoWs => wsState[ws].socket \in {"open", "ending"}
PendingIsConnecting ==
    \A s \in RelaySockets : wsState[s].promise = "pending" => wsState[s].socket = "connecting"

ConnectionInv ==
    /\ status \in {"disconnected", "connecting", "connected", "error"}
    /\ ws \in RelaySockets \union {NoWs} /\ connectionPromise \in RelaySockets \union {NoWs}
    /\ wsState \in [RelaySockets -> SocketRecords]
    /\ SocketInUseIsOpen /\ PendingIsConnecting /\ ConnectedHasSocket /\ PromiseIsPending

CallerInv ==
    /\ subscriptions \subseteq RelaySubs
    /\ subState \in [RelaySubs -> {"idle", "open", "eose", "told", "closed"}]
    /\ asked \in [RelaySockets -> SUBSET RelaySubs]
    /\ resolver \in RelayPosts \union {NoWs}
    /\ relayPosts \in [RelayPosts -> {"idle", "sent", "resolved", "rejected"}]
    /\ unanswered \in [RelaySockets -> SUBSET RelayPosts]
    /\ acknowledged \in BOOLEAN
    /\ MapIsOpen /\ ResolverWaits

WrapperInv == ConnectionInv /\ UnusedHadRival /\ CallerInv

\* One socket goes to another state.
LEMMA SocketMoves ==
    ASSUME wsState \in [RelaySockets -> SocketRecords], NEW s \in RelaySockets,
           NEW n \in SocketRecords, wsState' = [wsState EXCEPT ![s] = n]
    PROVE  /\ wsState' \in [RelaySockets -> SocketRecords] /\ wsState'[s] = n
           /\ \A t \in RelaySockets \ {s} : wsState'[t] = wsState[t]
  OBVIOUS

\* The object never uses, nor waits for, a socket it cannot.
LEMMA ConnectionStep ==
    ASSUME WrapperAssumption, ConnectionInv, [WrapperNext]_wrapperVars
    PROVE  ConnectionInv'
  <1>1. /\ status \in {"disconnected", "connecting", "connected", "error"}
        /\ ws \in RelaySockets \union {NoWs} /\ connectionPromise \in RelaySockets \union {NoWs}
        /\ wsState \in [RelaySockets -> SocketRecords] /\ NoWs \notin RelaySockets
        /\ SocketInUseIsOpen /\ PendingIsConnecting /\ ConnectedHasSocket /\ PromiseIsPending
    BY DEF ConnectionInv, WrapperAssumption
  <1>2. ASSUME NEW s \in RelaySockets
        PROVE  /\ wsState[s] \in SocketRecords
               /\ Settled(s, "resolved") \in {"none", "resolved", "rejected"}
               /\ Settled(s, "rejected") \in {"none", "resolved", "rejected"}
    BY <1>1 DEF Settled, SocketRecords
  <1>3. ASSUME NEW s \in RelaySockets, RelayConnect(s)
        PROVE  ConnectionInv'
    <2> DEFINE n == [socket |-> "connecting", promise |-> "pending"]
    <2>1. n \in SocketRecords /\ n.socket = "connecting" /\ n.promise = "pending"
      BY DEF SocketRecords
    <2>2. /\ wsState[s].socket = "free" /\ status' = "connecting" /\ connectionPromise' = s
          /\ wsState' = [wsState EXCEPT ![s] = n] /\ ws' = ws
      BY <1>3 DEF RelayConnect
    <2> HIDE DEF n
    <2>3. /\ wsState' \in [RelaySockets -> SocketRecords] /\ wsState'[s] = n
          /\ \A t \in RelaySockets \ {s} : wsState'[t] = wsState[t]
      BY <1>1, <2>1, <2>2, SocketMoves
    <2>4. ws # s
      BY <1>1, <2>2 DEF SocketInUseIsOpen
    <2> QED
      BY <1>1, <2>1, <2>2, <2>3, <2>4
      DEF ConnectionInv, SocketInUseIsOpen, PendingIsConnecting, ConnectedHasSocket, PromiseIsPending
  <1>4. ASSUME NEW s \in RelaySockets, ConnectTimeout(s)
        PROVE  ConnectionInv'
    <2> DEFINE n == [wsState[s] EXCEPT !.promise = "rejected"]
    <2>1. n \in SocketRecords /\ n.socket = wsState[s].socket /\ n.promise = "rejected"
      BY <1>2 DEF SocketRecords
    <2>2. /\ wsState' = [wsState EXCEPT ![s] = n] /\ status' = "error" /\ ws' = ws
          /\ connectionPromise' = NoWs
      BY <1>4 DEF ConnectTimeout
    <2> HIDE DEF n
    <2>3. /\ wsState' \in [RelaySockets -> SocketRecords] /\ wsState'[s] = n
          /\ \A t \in RelaySockets \ {s} : wsState'[t] = wsState[t]
      BY <1>1, <2>1, <2>2, SocketMoves
    <2> QED
      BY <1>1, <2>1, <2>2, <2>3
      DEF ConnectionInv, SocketInUseIsOpen, PendingIsConnecting, ConnectedHasSocket, PromiseIsPending
  <1>5. ASSUME NEW s \in RelaySockets, RelayOpens(s)
        PROVE  ConnectionInv'
    <2> DEFINE n == [socket |-> "open", promise |-> Settled(s, "resolved")]
    <2>1. n \in SocketRecords /\ n.socket = "open" /\ n.promise # "pending"
      BY <1>2 DEF SocketRecords
    <2>2. /\ wsState' = [wsState EXCEPT ![s] = n] /\ status' = "connected" /\ ws' = s
          /\ connectionPromise' = NoWs
      BY <1>5 DEF RelayOpens
    <2> HIDE DEF n
    <2>3. /\ wsState' \in [RelaySockets -> SocketRecords] /\ wsState'[s] = n
          /\ \A t \in RelaySockets \ {s} : wsState'[t] = wsState[t]
      BY <1>1, <2>1, <2>2, SocketMoves
    <2> QED
      BY <1>1, <2>1, <2>2, <2>3
      DEF ConnectionInv, SocketInUseIsOpen, PendingIsConnecting, ConnectedHasSocket, PromiseIsPending
  <1>e. ASSUME NEW s \in RelaySockets, RelayEnding(s)
        PROVE  ConnectionInv'
    <2> DEFINE n == [wsState[s] EXCEPT !.socket = "ending"]
    <2>1. n \in SocketRecords /\ n.socket = "ending" /\ n.promise = wsState[s].promise
      BY <1>2 DEF SocketRecords
    <2>2. /\ wsState' = [wsState EXCEPT ![s] = n] /\ wsState[s].socket = "open"
          /\ UNCHANGED <<status, ws, connectionPromise>>
      BY <1>e DEF RelayEnding
    <2> HIDE DEF n
    <2>3. /\ wsState' \in [RelaySockets -> SocketRecords] /\ wsState'[s] = n
          /\ \A t \in RelaySockets \ {s} : wsState'[t] = wsState[t]
      BY <1>1, <2>1, <2>2, SocketMoves
    <2> QED
      BY <1>1, <2>1, <2>2, <2>3
      DEF ConnectionInv, SocketInUseIsOpen, PendingIsConnecting, ConnectedHasSocket, PromiseIsPending
  <1>6. ASSUME NEW s \in RelaySockets, RelaySocketEnds(s)
        PROVE  ConnectionInv'
    <2> DEFINE n == [socket |-> "closed", promise |-> Settled(s, "rejected")]
    <2>1. n \in SocketRecords /\ n.socket = "closed" /\ n.promise # "pending"
      BY <1>2 DEF SocketRecords
    <2>2. /\ wsState' = [wsState EXCEPT ![s] = n] /\ status' = "disconnected" /\ ws' = NoWs
          /\ \/ connectionPromise' = NoWs
             \/ wsState[s].socket # "connecting" /\ connectionPromise' = connectionPromise
      BY <1>6 DEF RelaySocketEnds
    <2> HIDE DEF n
    <2>3. /\ wsState' \in [RelaySockets -> SocketRecords] /\ wsState'[s] = n
          /\ \A t \in RelaySockets \ {s} : wsState'[t] = wsState[t]
      BY <1>1, <2>1, <2>2, SocketMoves
    <2>4. connectionPromise' # s
      BY <1>1, <2>2 DEF PromiseIsPending, PendingIsConnecting
    <2> QED
      BY <1>1, <2>1, <2>2, <2>3, <2>4
      DEF ConnectionInv, SocketInUseIsOpen, PendingIsConnecting, ConnectedHasSocket, PromiseIsPending
  <1>7. CASE RelayClose
    <2>1. /\ wsState' = IF ws = NoWs THEN wsState ELSE [wsState EXCEPT ![ws].socket = "closing"]
          /\ ws' = NoWs /\ status' = "disconnected" /\ connectionPromise' = connectionPromise
      BY <1>7 DEF RelayClose
    <2>2. CASE ws = NoWs
      BY <1>1, <2>1, <2>2
      DEF ConnectionInv, SocketInUseIsOpen, PendingIsConnecting, ConnectedHasSocket, PromiseIsPending
    <2>3. CASE ws # NoWs
      <3>1. PICK s \in RelaySockets : s = ws
        BY <1>1, <2>3
      <3> DEFINE n == [wsState[s] EXCEPT !.socket = "closing"]
      <3>2. n \in SocketRecords /\ n.socket = "closing" /\ n.promise = wsState[s].promise
        BY <1>2 DEF SocketRecords
      <3>3. wsState' = [wsState EXCEPT ![s] = n]
        BY <2>1, <2>3, <3>1
      <3> HIDE DEF n
      <3>4. /\ wsState' \in [RelaySockets -> SocketRecords] /\ wsState'[s] = n
            /\ \A t \in RelaySockets \ {s} : wsState'[t] = wsState[t]
        BY <1>1, <3>2, <3>3, SocketMoves
      <3>5. wsState[s].promise # "pending"
        BY <1>1, <2>3, <3>1 DEF SocketInUseIsOpen, PendingIsConnecting
      <3> QED
        BY <1>1, <2>1, <3>2, <3>4, <3>5
        DEF ConnectionInv, SocketInUseIsOpen, PendingIsConnecting, ConnectedHasSocket, PromiseIsPending
    <2> QED
      BY <2>2, <2>3
  <1>8. CASE UNCHANGED connectionVars
    BY <1>8 DEF connectionVars, ConnectionInv, SocketInUseIsOpen, PendingIsConnecting,
                ConnectedHasSocket, PromiseIsPending
  <1>9. CASE \/ \E s \in RelaySockets :
                  \/ \E k \in RelaySubs : RelayEose(s, k) \/ RelayClosed(s, k)
                  \/ \E p \in RelayPosts, ok \in BOOLEAN : RelayOk(s, p, ok)
             \/ \E k \in RelaySubs : RelaySubscribe(k) \/ SubscriptionClose(k)
             \/ \E p \in RelayPosts : RelayPublish(p) \/ RelayPublishTimeout(p)
             \/ UNCHANGED wrapperVars
    <2>1. UNCHANGED connectionVars
      BY <1>9 DEF RelayEose, RelayClosed, RelayOk, RelaySubscribe, SubscriptionClose, RelayPublish,
                  RelayPublishTimeout, wrapperVars, connectionVars
    <2> QED
      BY <1>8, <2>1
  <1> QED
    BY <1>3, <1>4, <1>5, <1>e, <1>6, <1>7, <1>9 DEF WrapperNext

\* An open socket that the object does not use is not the only one it has made.
LEMMA UnusedStep ==
    ASSUME WrapperAssumption, ConnectionInv, UnusedHadRival, [WrapperNext]_wrapperVars
    PROVE  UnusedHadRival'
  <1>1. /\ ws \in RelaySockets \union {NoWs} /\ wsState \in [RelaySockets -> SocketRecords]
        /\ NoWs \notin RelaySockets
    BY DEF ConnectionInv, WrapperAssumption
  \* A socket other than s stays as it is; s takes the place of the one in use, or is none
  \* that close() should have ended.
  <1>2. ASSUME NEW s \in RelaySockets, NEW n, wsState' = [wsState EXCEPT ![s] = n],
               n.socket # "free",
               \/ ws' = s
               \/ ws' = ws /\ wsState[s].socket \in {"open", "ending"}
               \/ n.socket \notin {"open", "ending"}
        PROVE  UnusedHadRival'
    <2>1. wsState'[s] = n /\ \A t \in RelaySockets \ {s} : wsState'[t] = wsState[t]
      BY <1>1, <1>2
    <2>2. ASSUME NEW t \in RelaySockets \ {s}, wsState'[t].socket \in {"open", "ending"}
          PROVE  \E u \in RelaySockets \ {t} : wsState'[u].socket # "free"
      BY <1>2, <2>1
    <2>3. ASSUME wsState'[s].socket \in {"open", "ending"}, ws' # s
          PROVE  \E u \in RelaySockets \ {s} : wsState'[u].socket # "free"
      BY <1>2, <2>1, <2>3 DEF UnusedHadRival
    <2> QED
      BY <2>2, <2>3 DEF UnusedHadRival
  <1>3. ASSUME NEW s \in RelaySockets, RelayConnect(s) \/ RelayOpens(s) \/ RelaySocketEnds(s)
        PROVE  UnusedHadRival'
    <2>1. PICK x, y : /\ wsState' = [wsState EXCEPT ![s] = [socket |-> x, promise |-> y]]
                      /\ x # "free"
                      /\ ws' = s \/ x \notin {"open", "ending"}
      BY <1>3 DEF RelayConnect, RelayOpens, RelaySocketEnds
    <2> DEFINE n == [socket |-> x, promise |-> y]
    <2>2. n.socket = x /\ wsState' = [wsState EXCEPT ![s] = n]
      BY <2>1
    <2> HIDE DEF n
    <2> QED
      BY <1>2, <2>1, <2>2
  <1>4. ASSUME NEW s \in RelaySockets, RelayEnding(s) \/ ConnectTimeout(s)
        PROVE  UnusedHadRival'
    <2> DEFINE x == [wsState[s] EXCEPT !.socket = "ending"]
               y == [wsState[s] EXCEPT !.promise = "rejected"]
    <2>1. wsState[s] \in SocketRecords
      BY <1>1
    <2>2. x.socket = "ending" /\ y.socket = wsState[s].socket
      BY <2>1 DEF SocketRecords
    <2>3. \/ RelayEnding(s) /\ wsState' = [wsState EXCEPT ![s] = x] /\ wsState[s].socket = "open"
          \/ /\ wsState' = [wsState EXCEPT ![s] = y] /\ wsState[s].promise = "pending"
      BY <1>4 DEF RelayEnding, ConnectTimeout
    <2>4. ws' = ws
      BY <1>4 DEF RelayEnding, ConnectTimeout
    <2>5. wsState[s].promise = "pending" => wsState[s].socket = "connecting"
      BY DEF ConnectionInv, PendingIsConnecting
    <2> HIDE DEF x, y
    <2> QED
      BY <1>2, <2>2, <2>3, <2>4, <2>5
  <1>5. CASE RelayClose
    <2>1. CASE ws = NoWs
      BY <1>5, <2>1 DEF RelayClose, UnusedHadRival
    <2>2. CASE ws # NoWs
      <3>1. PICK s \in RelaySockets : s = ws
        BY <1>1, <2>2
      <3> DEFINE n == [wsState[s] EXCEPT !.socket = "closing"]
      <3>2. wsState[s] \in SocketRecords
        BY <1>1
      <3>3. n.socket = "closing" /\ wsState' = [wsState EXCEPT ![s] = n]
        BY <1>5, <2>2, <3>1, <3>2 DEF RelayClose, SocketRecords
      <3> HIDE DEF n
      <3> QED
        BY <1>2, <3>3
    <2> QED
      BY <2>1, <2>2
  <1>6. CASE UNCHANGED connectionVars
    BY <1>6 DEF connectionVars, UnusedHadRival
  <1>7. CASE \/ \E s \in RelaySockets :
                  \/ \E k \in RelaySubs : RelayEose(s, k) \/ RelayClosed(s, k)
                  \/ \E p \in RelayPosts, ok \in BOOLEAN : RelayOk(s, p, ok)
             \/ \E k \in RelaySubs : RelaySubscribe(k) \/ SubscriptionClose(k)
             \/ \E p \in RelayPosts : RelayPublish(p) \/ RelayPublishTimeout(p)
             \/ UNCHANGED wrapperVars
    <2>1. UNCHANGED connectionVars
      BY <1>7 DEF RelayEose, RelayClosed, RelayOk, RelaySubscribe, SubscriptionClose, RelayPublish,
                  RelayPublishTimeout, wrapperVars, connectionVars
    <2> QED
      BY <1>6, <2>1
  <1> QED
    BY <1>3, <1>4, <1>5, <1>7 DEF WrapperNext

\* The callers know what the map and the resolver say.
LEMMA CallerStep ==
    ASSUME WrapperAssumption, ConnectionInv, CallerInv, [WrapperNext]_wrapperVars
    PROVE  CallerInv'
  <1> USE DEF CallerInv, MapIsOpen, ResolverWaits
  <1>1. NoWs \notin RelayPosts /\ (Connected => ws \in RelaySockets)
    BY DEF WrapperAssumption, ConnectionInv, Connected
  <1>2. CASE UNCHANGED <<subVars, postVars>>
    BY <1>2 DEF subVars, postVars
  <1>3. ASSUME NEW s \in RelaySockets, RelayConnect(s) \/ ConnectTimeout(s) \/ RelayOpens(s)
        PROVE  CallerInv'
    BY <1>2, <1>3 DEF RelayConnect, ConnectTimeout, RelayOpens
  <1>4. ASSUME NEW s \in RelaySockets, RelaySocketEnds(s)
        PROVE  CallerInv'
    BY <1>4 DEF RelaySocketEnds
  <1>e. ASSUME NEW s \in RelaySockets, RelayEnding(s)
        PROVE  CallerInv'
    BY <1>e DEF RelayEnding
  <1>5. CASE RelayClose
    BY <1>5 DEF RelayClose
  <1>6. ASSUME NEW k \in RelaySubs, RelaySubscribe(k)
        PROVE  CallerInv'
    BY <1>1, <1>6 DEF RelaySubscribe, Carries, postVars
  <1>7. ASSUME NEW k \in RelaySubs, SubscriptionClose(k)
        PROVE  CallerInv'
    BY <1>1, <1>7 DEF SubscriptionClose, Carries, postVars
  <1>8. ASSUME NEW s \in RelaySockets, NEW k \in RelaySubs, RelayEose(s, k) \/ RelayClosed(s, k)
        PROVE  CallerInv'
    BY <1>8 DEF RelayEose, RelayClosed, postVars
  <1>9. ASSUME NEW p \in RelayPosts, RelayPublish(p)
        PROVE  CallerInv'
    BY <1>1, <1>9 DEF RelayPublish, Carries, subVars
  <1>10. ASSUME NEW s \in RelaySockets, NEW p \in RelayPosts, NEW ok \in BOOLEAN, RelayOk(s, p, ok)
         PROVE  CallerInv'
    BY <1>1, <1>10 DEF RelayOk, subVars
  <1>11. ASSUME NEW p \in RelayPosts, RelayPublishTimeout(p)
         PROVE  CallerInv'
    BY <1>11 DEF RelayPublishTimeout, subVars
  <1>12. CASE UNCHANGED wrapperVars
    BY <1>2, <1>12 DEF wrapperVars, subVars, postVars
  <1> QED
    BY <1>3, <1>4, <1>e, <1>5, <1>6, <1>7, <1>8, <1>9, <1>10, <1>11, <1>12 DEF WrapperNext

\* No step of a Relay breaks the invariant.
LEMMA WrapperStep == WrapperAssumption /\ WrapperInv /\ [WrapperNext]_wrapperVars => WrapperInv'
  BY ConnectionStep, UnusedStep, CallerStep DEF WrapperInv

\* A Relay that has done nothing satisfies it.
LEMMA WrapperStart == WrapperAssumption /\ WrapperInit => WrapperInv
  <1>1. [socket |-> "free", promise |-> "none"] \in SocketRecords
    BY DEF SocketRecords
  <1>2. ASSUME WrapperAssumption, WrapperInit
        PROVE  ConnectionInv
    BY <1>1, <1>2 DEF WrapperAssumption, WrapperInit, ConnectionInv, SocketInUseIsOpen,
                      PendingIsConnecting, ConnectedHasSocket, PromiseIsPending
  <1>3. ASSUME WrapperInit
        PROVE  CallerInv
    BY <1>3 DEF WrapperInit, CallerInv, MapIsOpen, ResolverWaits
  <1>4. ASSUME WrapperInit
        PROVE  UnusedHadRival
    BY <1>4 DEF WrapperInit, UnusedHadRival
  <1> QED
    BY <1>2, <1>3, <1>4 DEF WrapperInv

\* It says what is checked of WrapperRelay.
LEMMA WrapperSafe ==
    WrapperInv => /\ WrapperTypeOK /\ ConnectedHasSocket /\ UnusedHadRival /\ PromiseIsPending
                  /\ MapIsOpen /\ ResolverWaits
  BY DEF WrapperInv, ConnectionInv, CallerInv, WrapperTypeOK, SocketRecords

-----------------------------------------------------------------------------
(* RelayPool: the map                                                        *)

AddRecords == [step : {"idle", "creating", "connecting", "added", "present", "failed"},
               url : PoolUrls \union {NoEntry}, relays : [PoolUrls -> Adds \union {NoEntry}]]

MapTypeOK ==
    /\ relaysRef \in [PoolUrls -> Adds \union {NoEntry}]
    /\ adds \in [Adds -> AddRecords]
    /\ promised \subseteq PoolUrls /\ overlapped \in BOOLEAN

\* A copy of the map that a call has kept binds URLs as the map does.
CopiesAreOfTheirUrl ==
    \A a \in Adds, u \in PoolUrls :
        LET b == adds[a].relays[u] IN
        b # NoEntry => adds[b].url = u /\ adds[b].step = "added"

\* A copy that a call will write back is the map of now, unless a call changed it.
CopiesAreCurrent ==
    /\ \A a \in Waiting : adds[a].url \in PoolUrls
    /\ \/ overlapped
       \/ \A a \in Waiting : adds[a].relays = relaysRef

MapInv == EntriesAreOfTheirUrl /\ CopiesAreOfTheirUrl /\ CopiesAreCurrent /\ MapIsWhatCallsSay

\* What a step does to the records of the calls: other fields of another call stay.
LEMMA AddMoves ==
    ASSUME MapTypeOK, NEW a \in Adds, NEW n \in AddRecords, adds' = [adds EXCEPT ![a] = n]
    PROVE  /\ adds' \in [Adds -> AddRecords] /\ adds'[a] = n
           /\ \A b \in Adds \ {a} : adds'[b] = adds[b]
  BY DEF MapTypeOK

\* Connections that were added stay so, and the map and the copies take their bindings from
\* each other or from a connection that is added: then the bindings stay right.
LEMMA BindingsKept ==
    ASSUME PoolAssumption, MapTypeOK, MapTypeOK', EntriesAreOfTheirUrl, CopiesAreOfTheirUrl,
           \A b \in Adds : adds[b].step = "added" => adds'[b] = adds[b],
           \A u \in PoolUrls :
             \/ relaysRef'[u] \in {NoEntry, relaysRef[u]}
             \/ \E a \in Adds : relaysRef'[u] = adds[a].relays[u]
             \/ /\ relaysRef'[u] \in Adds
                /\ adds'[relaysRef'[u]].url = u /\ adds'[relaysRef'[u]].step = "added",
           \A a \in Adds, u \in PoolUrls :
             adds'[a].relays[u] \in {NoEntry, relaysRef[u], adds[a].relays[u]}
    PROVE  EntriesAreOfTheirUrl' /\ CopiesAreOfTheirUrl'
  <1>1. \A u \in PoolUrls : relaysRef[u] # NoEntry =>
          /\ relaysRef[u] \in Adds
          /\ adds[relaysRef[u]].url = u /\ adds[relaysRef[u]].step = "added"
    BY DEF MapTypeOK, EntriesAreOfTheirUrl, Listed
  <1>2. \A a \in Adds, u \in PoolUrls : adds[a].relays[u] # NoEntry =>
          /\ adds[a].relays[u] \in Adds
          /\ adds[adds[a].relays[u]].url = u /\ adds[adds[a].relays[u]].step = "added"
    BY DEF MapTypeOK, AddRecords, CopiesAreOfTheirUrl
  <1>3. ASSUME NEW u \in PoolUrls, NEW b, b # NoEntry,
               \/ b = relaysRef[u]
               \/ \E a \in Adds : b = adds[a].relays[u]
        PROVE  adds'[b].url = u /\ adds'[b].step = "added"
    <2>1. b \in Adds /\ adds[b].url = u /\ adds[b].step = "added"
      BY <1>1, <1>2, <1>3
    <2> QED
      BY <2>1
  <1>4. EntriesAreOfTheirUrl'
    <2>1. ASSUME NEW u \in PoolUrls, relaysRef'[u] # NoEntry
          PROVE  adds'[relaysRef'[u]].url = u /\ adds'[relaysRef'[u]].step = "added"
      BY <1>3, <2>1
    <2> QED
      BY <2>1 DEF EntriesAreOfTheirUrl, Listed
  <1>5. CopiesAreOfTheirUrl'
    <2>1. ASSUME NEW a \in Adds, NEW u \in PoolUrls, adds'[a].relays[u] # NoEntry
          PROVE  /\ adds'[adds'[a].relays[u]].url = u
                 /\ adds'[adds'[a].relays[u]].step = "added"
      <3>1. adds'[a].relays[u] = relaysRef[u] \/ adds'[a].relays[u] = adds[a].relays[u]
        BY <2>1
      <3> QED
        BY <1>3, <2>1, <3>1
    <2> QED
      BY <2>1 DEF CopiesAreOfTheirUrl
  <1> QED
    BY <1>4, <1>5

\* The copy a call has kept is written back with its own connection.
LEMMA WriteSafe ==
    ASSUME PoolAssumption, MapTypeOK, MapInv, NEW a \in Adds,
           adds[a].step \in {"creating", "connecting"}, Write(a)
    PROVE  MapTypeOK' /\ MapInv'
  <1> DEFINE n == [step |-> "added", url |-> adds[a].url, relays |-> EmptyMap]
  <1>1. /\ adds[a] \in AddRecords /\ relaysRef \in [PoolUrls -> Adds \union {NoEntry}]
        /\ promised \subseteq PoolUrls /\ overlapped \in BOOLEAN
    BY DEF MapTypeOK
  <1>2. PICK url \in PoolUrls : url = adds[a].url
    BY DEF MapInv, CopiesAreCurrent, Waiting
  <1>3. PICK copy \in [PoolUrls -> Adds \union {NoEntry}] : copy = adds[a].relays
    BY <1>1 DEF AddRecords
  <1>4. /\ relaysRef' = [copy EXCEPT ![url] = a] /\ adds' = [adds EXCEPT ![a] = n]
        /\ promised' = promised \union {url} /\ overlapped' = (overlapped \/ Waiting # {a})
    BY <1>2, <1>3 DEF Write
  <1>5. /\ n \in AddRecords /\ n.step = "added" /\ n.url = url
        /\ \A u \in PoolUrls : n.relays[u] = NoEntry
    BY <1>2 DEF AddRecords, EmptyMap
  <1> HIDE DEF n
  <1>6. /\ adds' \in [Adds -> AddRecords] /\ adds'[a] = n
        /\ \A b \in Adds \ {a} : adds'[b] = adds[b]
    BY <1>4, <1>5, AddMoves
  <1>7. /\ relaysRef' \in [PoolUrls -> Adds \union {NoEntry}] /\ relaysRef'[url] = a
        /\ \A u \in PoolUrls \ {url} : relaysRef'[u] = copy[u]
    BY <1>2, <1>3, <1>4
  <1>8. MapTypeOK'
    BY <1>1, <1>2, <1>4, <1>6, <1>7 DEF MapTypeOK
  <1>9. EntriesAreOfTheirUrl' /\ CopiesAreOfTheirUrl'
    <2>1. \A b \in Adds : adds[b].step = "added" => adds'[b] = adds[b]
      BY <1>6
    <2>2. ASSUME NEW u \in PoolUrls
          PROVE  \/ \E b \in Adds : relaysRef'[u] = adds[b].relays[u]
                 \/ /\ relaysRef'[u] \in Adds
                    /\ adds'[relaysRef'[u]].url = u /\ adds'[relaysRef'[u]].step = "added"
      BY <1>3, <1>5, <1>6, <1>7
    <2>3. \A b \in Adds, u \in PoolUrls :
            adds'[b].relays[u] \in {NoEntry, relaysRef[u], adds[b].relays[u]}
      BY <1>5, <1>6
    <2> QED
      BY <1>8, <2>1, <2>2, <2>3, BindingsKept DEF MapInv
  <1>10. a \in Waiting /\ Waiting' \subseteq Waiting \ {a}
    BY <1>5, <1>6 DEF Waiting
  <1>11. CopiesAreCurrent'
    <2>1. \A b \in Waiting' : adds'[b].url \in PoolUrls
      BY <1>6, <1>10 DEF MapInv, CopiesAreCurrent, Waiting
    <2>2. overlapped' \/ Waiting' = {}
      BY <1>4, <1>10
    <2> QED
      BY <2>1, <2>2 DEF CopiesAreCurrent
  <1>12. MapIsWhatCallsSay'
    <2>1. ASSUME ~overlapped'
          PROVE  Listed' = promised'
      <3>1. copy = relaysRef /\ Listed = promised
        BY <1>3, <1>4, <1>10, <2>1 DEF MapInv, CopiesAreCurrent, MapIsWhatCallsSay
      <3>2. Listed' = Listed \union {url}
        BY <1>2, <1>7, <3>1 DEF Listed, PoolAssumption
      <3> QED
        BY <1>4, <3>1, <3>2
    <2> QED
      BY <2>1 DEF MapIsWhatCallsSay
  <1> QED
    BY <1>8, <1>9, <1>11, <1>12 DEF MapInv

\* A call that changes the map knows whether another one waits with a copy.
LEMMA ShrinkSafe ==
    ASSUME PoolAssumption, MapTypeOK, MapInv, NEW gone \in SUBSET PoolUrls,
           relaysRef' = [u \in PoolUrls |-> IF u \in gone THEN NoEntry ELSE relaysRef[u]],
           adds' = adds, promised' = promised \ gone,
           overlapped' = (overlapped \/ Waiting # {})
    PROVE  MapTypeOK' /\ MapInv'
  <1>1. MapTypeOK'
    BY DEF MapTypeOK
  <1>2. EntriesAreOfTheirUrl' /\ CopiesAreOfTheirUrl'
    <2>1. \A b \in Adds : adds[b].step = "added" => adds'[b] = adds[b]
      OBVIOUS
    <2>2. \A u \in PoolUrls : relaysRef'[u] \in {NoEntry, relaysRef[u]}
      OBVIOUS
    <2>3. \A b \in Adds, u \in PoolUrls :
            adds'[b].relays[u] \in {NoEntry, relaysRef[u], adds[b].relays[u]}
      OBVIOUS
    <2> QED
      BY <1>1, <2>1, <2>2, <2>3, BindingsKept DEF MapInv
  <1>3. CopiesAreCurrent'
    BY DEF MapInv, CopiesAreCurrent, Waiting
  <1>4. MapIsWhatCallsSay'
    <2>1. Listed' = Listed \ gone
      BY DEF Listed, MapTypeOK
    <2> QED
      BY <2>1 DEF MapInv, MapIsWhatCallsSay
  <1> QED
    BY <1>1, <1>2, <1>3, <1>4 DEF MapInv

\* A call that goes on, or gives up, without writing takes nothing from the map.
LEMMA WaitSafe ==
    ASSUME PoolAssumption, MapTypeOK, MapInv, NEW a \in Adds, NEW n \in AddRecords,
           adds' = [adds EXCEPT ![a] = n], adds[a].step # "added",
           n.step \in {"creating", "connecting"} =>
             /\ n.url \in PoolUrls
             /\ n.relays = relaysRef \/ (a \in Waiting /\ n.relays = adds[a].relays),
           \A u \in PoolUrls : n.relays[u] \in {NoEntry, relaysRef[u], adds[a].relays[u]},
           UNCHANGED <<relaysRef, promised, overlapped>>
    PROVE  MapTypeOK' /\ MapInv'
  <1>1. /\ adds' \in [Adds -> AddRecords] /\ adds'[a] = n
        /\ \A b \in Adds \ {a} : adds'[b] = adds[b]
    BY AddMoves
  <1>2. MapTypeOK'
    BY <1>1 DEF MapTypeOK
  <1>3. EntriesAreOfTheirUrl' /\ CopiesAreOfTheirUrl'
    <2>1. \A b \in Adds : adds[b].step = "added" => adds'[b] = adds[b]
      BY <1>1
    <2>2. \A u \in PoolUrls : relaysRef'[u] \in {NoEntry, relaysRef[u]}
      OBVIOUS
    <2>3. \A b \in Adds, u \in PoolUrls :
            adds'[b].relays[u] \in {NoEntry, relaysRef[u], adds[b].relays[u]}
      BY <1>1
    <2> QED
      BY <1>2, <2>1, <2>2, <2>3, BindingsKept DEF MapInv
  <1>4. CopiesAreCurrent'
    <2>1. \A b \in Waiting' : b # a => b \in Waiting
      BY <1>1 DEF Waiting
    <2>2. ASSUME NEW b \in Waiting'
          PROVE  /\ adds'[b].url \in PoolUrls
                 /\ \/ overlapped
                    \/ adds'[b].relays = relaysRef
      <3>1. CASE b = a
        <4>1. n.step \in {"creating", "connecting"}
          BY <1>1, <3>1 DEF Waiting
        <4> QED
          BY <1>1, <3>1, <4>1 DEF MapInv, CopiesAreCurrent
      <3>2. CASE b # a
        <4>1. b \in Waiting /\ adds'[b] = adds[b]
          BY <1>1, <2>1, <3>2 DEF Waiting
        <4> QED
          BY <4>1 DEF MapInv, CopiesAreCurrent
      <3> QED
        BY <3>1, <3>2
    <2> QED
      BY <2>2 DEF CopiesAreCurrent
  <1>5. MapIsWhatCallsSay'
    BY DEF MapInv, MapIsWhatCallsSay, Listed
  <1> QED
    BY <1>2, <1>3, <1>4, <1>5 DEF MapInv

\* Every step of the pool keeps the map and its copies right.
LEMMA MapStep ==
    ASSUME PoolAssumption, MapTypeOK, MapInv, [PoolNext]_poolVars
    PROVE  MapTypeOK' /\ MapInv'
  <1>1. /\ relaysRef \in [PoolUrls -> Adds \union {NoEntry}]
        /\ adds \in [Adds -> AddRecords]
        /\ EmptyMap \in [PoolUrls -> Adds \union {NoEntry}]
    BY DEF MapTypeOK, EmptyMap
  <1>2. ASSUME NEW a \in Adds, NEW u \in PoolUrls, AddRelay(a, u)
        PROVE  MapTypeOK' /\ MapInv'
    <2> DEFINE n == IF relaysRef[u] # NoEntry
                    THEN [step |-> "present", url |-> u, relays |-> EmptyMap]
                    ELSE [step |-> "creating", url |-> u, relays |-> relaysRef]
    <2>1. /\ n \in AddRecords /\ n.url = u
          /\ n.step \in {"creating", "connecting"} => n.relays = relaysRef
          /\ \A v \in PoolUrls : n.relays[v] \in {NoEntry, relaysRef[v]}
      BY <1>1 DEF AddRecords, EmptyMap
    <2>2. adds' = [adds EXCEPT ![a] = n] /\ adds[a].step # "added"
      BY <1>2 DEF AddRelay
    <2>3. UNCHANGED <<relaysRef, promised, overlapped>>
      BY <1>2 DEF AddRelay
    <2> HIDE DEF n
    <2>4. n \in AddRecords
      BY <2>1
    <2>5. n.step \in {"creating", "connecting"} =>
             /\ n.url \in PoolUrls
             /\ n.relays = relaysRef \/ (a \in Waiting /\ n.relays = adds[a].relays)
      BY <2>1
    <2>6. \A v \in PoolUrls : n.relays[v] \in {NoEntry, relaysRef[v], adds[a].relays[v]}
      BY <2>1
    <2> QED
      BY <2>2, <2>3, <2>4, <2>5, <2>6, WaitSafe
  <1>3. ASSUME NEW a \in Adds, CreateConnected(a) \/ ConnectSucceeds(a)
        PROVE  MapTypeOK' /\ MapInv'
    <2>1. adds[a].step \in {"creating", "connecting"} /\ Write(a)
      BY <1>3 DEF CreateConnected, ConnectSucceeds
    <2> QED
      BY <2>1, WriteSafe
  <1>4. ASSUME NEW a \in Adds, CreateFails(a)
        PROVE  MapTypeOK' /\ MapInv'
    <2>1. CASE AutoConnect
      <3> DEFINE n == [adds[a] EXCEPT !.step = "connecting"]
      <3>1. /\ n \in AddRecords /\ n.url = adds[a].url /\ n.relays = adds[a].relays
        BY <1>1 DEF AddRecords
      <3>2. adds' = [adds EXCEPT ![a] = n] /\ adds[a].step = "creating"
        BY <1>4, <2>1 DEF CreateFails
      <3>3. UNCHANGED <<relaysRef, promised, overlapped>>
        BY <1>4, <2>1 DEF CreateFails
      <3> HIDE DEF n
      <3>4. a \in Waiting /\ adds[a].url \in PoolUrls
        BY <3>2 DEF Waiting, MapInv, CopiesAreCurrent
      <3>5. n.step \in {"creating", "connecting"} =>
               /\ n.url \in PoolUrls
               /\ n.relays = relaysRef \/ (a \in Waiting /\ n.relays = adds[a].relays)
        BY <3>1, <3>4
      <3>6. \A v \in PoolUrls : n.relays[v] \in {NoEntry, relaysRef[v], adds[a].relays[v]}
        BY <3>1
      <3>7. n \in AddRecords /\ adds[a].step # "added" /\ adds' = [adds EXCEPT ![a] = n]
        BY <3>1, <3>2
      <3> QED
        BY <3>3, <3>5, <3>6, <3>7, WaitSafe
    <2>2. CASE ~AutoConnect
      <3>1. adds[a].step \in {"creating", "connecting"} /\ Write(a)
        BY <1>4, <2>2 DEF CreateFails
      <3> QED
        BY <3>1, WriteSafe
    <2> QED
      BY <2>1, <2>2
  <1>5. ASSUME NEW a \in Adds, ConnectFails(a)
        PROVE  MapTypeOK' /\ MapInv'
    <2> DEFINE n == [step |-> "failed", url |-> adds[a].url, relays |-> EmptyMap]
    <2>1. /\ n \in AddRecords /\ n.step = "failed"
          /\ \A v \in PoolUrls : n.relays[v] = NoEntry
      BY <1>1 DEF AddRecords, EmptyMap
    <2>2. adds' = [adds EXCEPT ![a] = n] /\ adds[a].step # "added"
      BY <1>5 DEF ConnectFails
    <2>3. UNCHANGED <<relaysRef, promised, overlapped>>
      BY <1>5 DEF ConnectFails
    <2> HIDE DEF n
    <2>4. n \in AddRecords
      BY <2>1
    <2>5. n.step \in {"creating", "connecting"} =>
             /\ n.url \in PoolUrls
             /\ n.relays = relaysRef \/ (a \in Waiting /\ n.relays = adds[a].relays)
      BY <2>1
    <2>6. \A v \in PoolUrls : n.relays[v] \in {NoEntry, relaysRef[v], adds[a].relays[v]}
      BY <2>1
    <2> QED
      BY <2>2, <2>3, <2>4, <2>5, <2>6, WaitSafe
  <1>6. ASSUME NEW u \in PoolUrls, RemoveRelay(u)
        PROVE  MapTypeOK' /\ MapInv'
    <2>1. PICK gone \in SUBSET PoolUrls : gone = {u}
      OBVIOUS
    <2>2. relaysRef' = [v \in PoolUrls |-> IF v \in gone THEN NoEntry ELSE relaysRef[v]]
      BY <1>1, <1>6, <2>1 DEF RemoveRelay
    <2>3. /\ adds' = adds /\ promised' = promised \ gone
          /\ overlapped' = (overlapped \/ Waiting # {})
      BY <1>6, <2>1 DEF RemoveRelay
    <2> QED
      BY <2>2, <2>3, ShrinkSafe
  <1>7. CASE Close
    <2>1. PICK gone \in SUBSET PoolUrls : gone = PoolUrls
      OBVIOUS
    <2>2. relaysRef' = [v \in PoolUrls |-> IF v \in gone THEN NoEntry ELSE relaysRef[v]]
      BY <1>7, <2>1 DEF Close, EmptyMap
    <2>3. /\ adds' = adds /\ promised' = promised \ gone
          /\ overlapped' = (overlapped \/ Waiting # {})
      BY <1>7, <2>1 DEF Close, MapTypeOK
    <2> QED
      BY <2>2, <2>3, ShrinkSafe
  <1>8. CASE UNCHANGED <<relaysRef, adds, promised, overlapped>>
    BY <1>8 DEF MapTypeOK, MapInv, EntriesAreOfTheirUrl, CopiesAreOfTheirUrl, CopiesAreCurrent,
                MapIsWhatCallsSay, Listed, Waiting
  <1>9. ASSUME NEW a \in Adds, GoesDown(a) \/ ComesUp(a)
        PROVE  MapTypeOK' /\ MapInv'
    BY <1>8, <1>9 DEF GoesDown, ComesUp
  <1>10. ASSUME NEW k \in PoolSubs, PoolSubscribe(k) \/ PoolUnsubscribe(k)
         PROVE  MapTypeOK' /\ MapInv'
    BY <1>8, <1>10 DEF PoolSubscribe, PoolUnsubscribe
  <1>11. ASSUME NEW k \in PoolSubs, NEW a \in Adds, NEW e \in PoolEvents,
                Receive(k, a, e) \/ Merge(k, a, e)
         PROVE  MapTypeOK' /\ MapInv'
    BY <1>8, <1>11 DEF Receive, Merge
  <1>12. ASSUME NEW p \in PoolPubs, PoolPublish(p)
         PROVE  MapTypeOK' /\ MapInv'
    BY <1>8, <1>12 DEF PoolPublish
  <1>13. ASSUME NEW p \in PoolPubs, NEW a \in Adds, NEW yes \in BOOLEAN,
                Answered(p, a, yes)
         PROVE  MapTypeOK' /\ MapInv'
    BY <1>8, <1>13 DEF Answered
  <1>14. CASE UNCHANGED poolVars
    BY <1>8, <1>14 DEF poolVars
  <1> QED
    BY <1>2, <1>3, <1>4, <1>5, <1>6, <1>7, <1>9, <1>10, <1>11, <1>12, <1>13, <1>14 DEF PoolNext

-----------------------------------------------------------------------------
(* RelayPool: the merged streams                                             *)

SubRecords == [step : {"idle", "refused", "open", "closed"}, handles : SUBSET Adds,
               ended : SUBSET Adds, waiting : [Adds -> SUBSET PoolEvents],
               received : [Adds -> SUBSET PoolEvents], seen : SUBSET PoolEvents,
               delivered : Seq(PoolEvents)]

\* What the reader of a merged stream was given.
Given(d) == {d[i] : i \in DOMAIN d}

\* The filter, if there is one, has seen what it let through, once each, and what a
\* connection received and has not lost was given or waits.
SubExact(m) ==
    /\ m.seen \subseteq Given(m.delivered)
    /\ DeduplicateEvents =>
         /\ m.seen = Given(m.delivered)
         /\ \A i, j \in DOMAIN m.delivered : m.delivered[i] = m.delivered[j] => i = j
    /\ m.step = "open" =>
         \A a \in m.handles \ m.ended :
            m.received[a] = (Given(m.delivered) \intersect m.received[a]) \union m.waiting[a]

StreamsInv == merged \in [PoolSubs -> SubRecords] /\ \A k \in PoolSubs : SubExact(merged[k])

\* A stream that has given nothing is exact.
LEMMA FreshSub ==
    ASSUME NEW step \in {"idle", "refused", "open", "closed"}, NEW h \in SUBSET Adds,
           NEW none \in [Adds -> SUBSET PoolEvents], \A a \in Adds : none[a] = {},
           NEW no \in SUBSET Adds, no = {}, NEW nothing \in SUBSET PoolEvents, nothing = {},
           NEW q \in Seq(PoolEvents), q = <<>>,
           NEW m, m = [step |-> step, handles |-> h, ended |-> no, waiting |-> none,
                       received |-> none, seen |-> nothing, delivered |-> q]
    PROVE  m \in SubRecords /\ SubExact(m)
  <1>1. m \in SubRecords
    BY DEF SubRecords
  <1>2. /\ m.handles = h /\ m.ended = no /\ m.seen = nothing /\ m.delivered = q
        /\ m.waiting = none /\ m.received = none
    OBVIOUS
  <1>3. DOMAIN q = {}
    OBVIOUS
  <1>4. Given(q) = {}
    BY <1>3 DEF Given
  <1> QED
    BY <1>1, <1>2, <1>3, <1>4 DEF SubExact

\* One more element: what was given then, and no two alike when it is new.
LEMMA GivenMore ==
    ASSUME NEW d \in Seq(PoolEvents), NEW e \in PoolEvents
    PROVE  /\ Append(d, e) \in Seq(PoolEvents) /\ Given(Append(d, e)) = Given(d) \union {e}
           /\ (/\ \A i, j \in DOMAIN d : d[i] = d[j] => i = j
               /\ e \notin Given(d))
              => \A i, j \in DOMAIN Append(d, e) : Append(d, e)[i] = Append(d, e)[j] => i = j
  <1>a. Append(d, e) \in Seq(PoolEvents)
    OBVIOUS
  <1>1. PICK f \in Seq(PoolEvents) : f = Append(d, e)
    BY <1>a, Zenon
  <1>2. /\ Len(d) \in Nat /\ DOMAIN d = 1..Len(d) /\ DOMAIN f = 1..(Len(d) + 1)
        /\ f[Len(d) + 1] = e /\ \A i \in 1..Len(d) : f[i] = d[i]
    BY <1>1
  <1>3. \A i \in DOMAIN f : i \in DOMAIN d \/ i = Len(d) + 1
    BY <1>2
  <1>4. Given(f) = Given(d) \union {e}
    <2>1. ASSUME NEW x \in Given(f)
          PROVE  x \in Given(d) \union {e}
      BY <1>2, <1>3, <2>1 DEF Given
    <2>2. ASSUME NEW x \in Given(d) \union {e}
          PROVE  x \in Given(f)
      <3>1. Len(d) + 1 \in DOMAIN f /\ DOMAIN d \subseteq DOMAIN f
        BY <1>2
      <3> QED
        BY <1>2, <2>2, <3>1 DEF Given
    <2> QED
      BY <2>1, <2>2
  <1>5. ASSUME \A i, j \in DOMAIN d : d[i] = d[j] => i = j, e \notin Given(d),
               NEW i \in DOMAIN f, NEW j \in DOMAIN f, f[i] = f[j]
        PROVE  i = j
    BY <1>2, <1>3, <1>5 DEF Given
  <1> QED
    BY <1>1, <1>4, <1>5

\* An event comes in.
LEMMA ReceiveExact ==
    ASSUME NEW m \in SubRecords, SubExact(m), NEW a \in Adds, NEW e \in PoolEvents, NEW n,
           n = [m EXCEPT !.waiting[a] = @ \union {e}, !.received[a] = @ \union {e}]
    PROVE  n \in SubRecords /\ SubExact(n)
  <1>1. PICK w \in [Adds -> SUBSET PoolEvents] : w = [m.waiting EXCEPT ![a] = @ \union {e}]
    BY DEF SubRecords
  <1>2. PICK r \in [Adds -> SUBSET PoolEvents] : r = [m.received EXCEPT ![a] = @ \union {e}]
    BY DEF SubRecords
  <1>3. n = [m EXCEPT !.waiting = w, !.received = r]
    BY <1>1, <1>2 DEF SubRecords
  <1>4. /\ n \in SubRecords /\ n.waiting = w /\ n.received = r /\ n.step = m.step
        /\ n.handles = m.handles /\ n.ended = m.ended /\ n.seen = m.seen
        /\ n.delivered = m.delivered
    BY <1>3 DEF SubRecords
  <1>5. /\ m.handles \subseteq Adds /\ w[a] = m.waiting[a] \union {e}
        /\ r[a] = m.received[a] \union {e}
        /\ \A b \in Adds \ {a} : w[b] = m.waiting[b] /\ r[b] = m.received[b]
    BY <1>1, <1>2 DEF SubRecords
  <1> QED
    BY <1>4, <1>5 DEF SubExact

\* An event is pulled through the merge: new, it is given, otherwise it is dropped.
LEMMA MergeExact ==
    ASSUME NEW m \in SubRecords, SubExact(m), NEW a \in Adds, NEW e \in PoolEvents, NEW n,
           e \in m.waiting[a],
           n = [m EXCEPT !.waiting[a] = @ \ {e},
                         !.seen = IF DeduplicateEvents THEN @ \union {e} ELSE @,
                         !.delivered = IF e \in m.seen THEN @ ELSE Append(@, e)]
    PROVE  n \in SubRecords /\ SubExact(n)
  <1>1. PICK w \in [Adds -> SUBSET PoolEvents] : w = [m.waiting EXCEPT ![a] = @ \ {e}]
    BY DEF SubRecords
  <1>2. /\ m.delivered \in Seq(PoolEvents) /\ m.seen \subseteq Given(m.delivered)
        /\ DeduplicateEvents => m.seen = Given(m.delivered)
    BY DEF SubRecords, SubExact
  <1>3. PICK d \in Seq(PoolEvents) :
          d = IF e \in m.seen THEN m.delivered ELSE Append(m.delivered, e)
    BY <1>2, GivenMore
  <1>s. PICK seen \in SUBSET PoolEvents :
          seen = IF DeduplicateEvents THEN m.seen \union {e} ELSE m.seen
    BY DEF SubRecords
  <1>4. n = [m EXCEPT !.waiting = w, !.seen = seen, !.delivered = d]
    BY <1>1, <1>3, <1>s DEF SubRecords
  <1>5. /\ n \in SubRecords /\ n.waiting = w /\ n.received = m.received /\ n.step = m.step
        /\ n.handles = m.handles /\ n.ended = m.ended /\ n.seen = seen
        /\ n.delivered = d
    BY <1>4 DEF SubRecords
  <1>6. /\ Given(d) = Given(m.delivered) \union {e}
        /\ DeduplicateEvents => \A i, j \in DOMAIN d : d[i] = d[j] => i = j
    <2>1. CASE e \in m.seen
      BY <1>2, <1>3, <2>1 DEF SubExact
    <2>2. CASE e \notin m.seen
      <3>1. d = Append(m.delivered, e) /\ (DeduplicateEvents => e \notin Given(m.delivered))
        BY <1>2, <1>3, <2>2
      <3>2. DeduplicateEvents =>
              \A i, j \in DOMAIN m.delivered : m.delivered[i] = m.delivered[j] => i = j
        BY DEF SubExact
      <3> QED
        BY <1>2, <3>1, <3>2, GivenMore
    <2> QED
      BY <2>1, <2>2
  <1>t. /\ seen \subseteq Given(d)
        /\ DeduplicateEvents => seen = Given(d)
    BY <1>2, <1>6, <1>s
  <1>7. /\ m.handles \subseteq Adds /\ w[a] = m.waiting[a] \ {e}
        /\ \A b \in Adds \ {a} : w[b] = m.waiting[b]
    BY <1>1 DEF SubRecords
  <1>8. ASSUME n.step = "open", NEW b \in n.handles \ n.ended
        PROVE  n.received[b] = (Given(n.delivered) \intersect n.received[b]) \union n.waiting[b]
    <2>1. m.received[b] = (Given(m.delivered) \intersect m.received[b]) \union m.waiting[b]
      BY <1>5, <1>8 DEF SubExact
    <2>2. Given(n.delivered) = Given(m.delivered) \union {e}
      BY <1>5, <1>6
    <2> QED
      BY <1>5, <1>7, <1>8, <2>1, <2>2
  <1>9. n.seen \subseteq Given(n.delivered) /\ (DeduplicateEvents => n.seen = Given(n.delivered))
    BY <1>5, <1>t
  <1>10. DeduplicateEvents =>
           \A i, j \in DOMAIN n.delivered : n.delivered[i] = n.delivered[j] => i = j
    BY <1>5, <1>6, Zenon
  <1>11. n \in SubRecords
    BY <1>5
  <1> QED
    BY <1>8, <1>9, <1>10, <1>11, Zenon DEF SubExact

\* Connections end: their streams too, and what waits of theirs is lost.
LEMMA EndExact ==
    ASSUME NEW m \in SubRecords, SubExact(m), NEW gone \in SUBSET Adds,
           NEW ended \in SUBSET Adds, ended = m.ended \union (gone \intersect m.handles),
           NEW w \in [Adds -> SUBSET PoolEvents], \A a \in Adds \ gone : w[a] = m.waiting[a],
           NEW n, n = [m EXCEPT !.ended = ended, !.waiting = w]
    PROVE  n \in SubRecords /\ SubExact(n)
  <1>1. n \in SubRecords
    BY DEF SubRecords
  <1>2. /\ n.waiting = w /\ n.received = m.received /\ n.step = m.step
        /\ n.handles = m.handles /\ n.ended = ended /\ n.seen = m.seen
        /\ n.delivered = m.delivered
    BY DEF SubRecords
  <1>3. \A a \in m.handles \ ended : w[a] = m.waiting[a] /\ a \in m.handles \ m.ended
    BY DEF SubRecords
  <1> QED
    BY <1>1, <1>2, <1>3 DEF SubExact

\* The reader leaves.
LEMMA CloseExact ==
    ASSUME NEW m \in SubRecords, SubExact(m), NEW n,
           n = [m EXCEPT !.step = "closed", !.waiting = [a \in Adds |-> {}]]
    PROVE  n \in SubRecords /\ SubExact(n)
  <1>1. /\ n \in SubRecords /\ n.step = "closed" /\ n.seen = m.seen /\ n.delivered = m.delivered
    BY DEF SubRecords
  <1> QED
    BY <1>1 DEF SubExact

\* One subscription moves.
LEMMA OneStream ==
    ASSUME StreamsInv, NEW k \in PoolSubs, NEW n, n \in SubRecords, SubExact(n),
           merged' = [merged EXCEPT ![k] = n]
    PROVE  StreamsInv'
  <1>1. /\ merged' \in [PoolSubs -> SubRecords] /\ merged'[k] = n
        /\ \A j \in PoolSubs \ {k} : merged'[j] = merged[j]
    BY DEF StreamsInv
  <1>2. ASSUME NEW j \in PoolSubs
        PROVE  SubExact(merged'[j])
    BY <1>1 DEF StreamsInv
  <1> QED
    BY <1>1, <1>2 DEF StreamsInv, SubExact, Given

\* The streams of some connections end, in every subscription.
LEMMA ManyEnd ==
    ASSUME StreamsInv, NEW gone \in SUBSET Adds, Disconnected(gone)
    PROVE  StreamsInv'
  <1>1. ASSUME NEW k \in PoolSubs
        PROVE  merged'[k] \in SubRecords /\ SubExact(merged'[k])
    <2>1. PICK m \in SubRecords : m = merged[k] /\ SubExact(m)
      BY DEF StreamsInv
    <2>2. PICK ended \in SUBSET Adds : ended = m.ended \union (gone \intersect m.handles)
      BY DEF SubRecords
    <2>3. PICK w \in [Adds -> SUBSET PoolEvents] :
            w = [a \in Adds |-> IF a \in gone THEN {} ELSE m.waiting[a]]
      BY DEF SubRecords
    <2>4. merged'[k] = [m EXCEPT !.ended = ended, !.waiting = w]
      <3>1. merged'[k] = [merged[k] EXCEPT
                            !.ended = @ \union (gone \intersect merged[k].handles),
                            !.waiting = [a \in Adds |-> IF a \in gone THEN {} ELSE @[a]]]
        BY Zenon DEF Disconnected
      <3>2. [m EXCEPT !.ended = @ \union (gone \intersect m.handles),
                      !.waiting = [a \in Adds |-> IF a \in gone THEN {} ELSE @[a]]]
              = [m EXCEPT !.ended = ended, !.waiting = w]
        BY <2>2, <2>3, Zenon
      <3> QED
        BY <2>1, <3>1, <3>2, Zenon
    <2>5. PICK n : n = merged'[k]
      OBVIOUS
    <2>6. \A a \in Adds \ gone : w[a] = m.waiting[a]
      BY <2>3
    <2>7. n = [m EXCEPT !.ended = ended, !.waiting = w]
      BY <2>4, <2>5
    <2>8. SubExact(m)
      BY <2>1
    <2>9. ended = m.ended \union (gone \intersect m.handles)
      BY <2>2
    <2>10. n \in SubRecords /\ SubExact(n)
      BY <2>6, <2>7, <2>8, <2>9, EndExact
    <2> QED
      BY <2>5, <2>10
  <1>2. merged' \in [PoolSubs -> SubRecords]
    BY <1>1 DEF Disconnected
  <1> QED
    BY <1>1, <1>2 DEF StreamsInv, SubExact, Given

\* Every step of the pool keeps the merged streams exact.
LEMMA StreamStep ==
    ASSUME MapTypeOK, up \subseteq Adds, StreamsInv, [PoolNext]_poolVars
    PROVE  StreamsInv'
  <1>1. Entries \subseteq Adds
    BY DEF MapTypeOK, Entries, Listed
  <1>m. merged \in [PoolSubs -> SubRecords]
    BY DEF StreamsInv
  <1>2. CASE UNCHANGED merged
    BY <1>2 DEF StreamsInv, SubExact, Given
  <1>3. ASSUME NEW k \in PoolSubs, PoolSubscribe(k)
        PROVE  StreamsInv'
    <2>1. PICK none \in [Adds -> SUBSET PoolEvents] : none = [a \in Adds |-> {}]
      OBVIOUS
    <2>2. PICK no \in SUBSET Adds, nothing \in SUBSET PoolEvents : no = {} /\ nothing = {}
      OBVIOUS
    <2>3. <<>> \in Seq(PoolEvents)
      OBVIOUS
    <2>4. PICK q \in Seq(PoolEvents) : q = <<>>
      BY <2>3, Zenon
    <2>5. NoSub = [step |-> "idle", handles |-> no, ended |-> no, waiting |-> none,
                   received |-> none, seen |-> nothing, delivered |-> q]
      BY <2>1, <2>2, <2>4 DEF NoSub
    <2>6. \A a \in Adds : none[a] = {}
      BY <2>1
    <2>7. no = {} /\ nothing = {} /\ q = <<>>
      BY <2>2, <2>4
    <2>h. PICK h \in SUBSET (Entries \intersect up) :
            merged' = [merged EXCEPT ![k] =
                         IF h = {} THEN [NoSub EXCEPT !.step = "refused"]
                         ELSE [NoSub EXCEPT !.step = "open", !.handles = h]]
      BY <1>3, Zenon DEF PoolSubscribe
    <2>8. CASE h = {}
      <3>1. PICK m : m = [NoSub EXCEPT !.step = "refused"]
        OBVIOUS
      <3>2. merged' = [merged EXCEPT ![k] = m]
        BY <2>h, <2>8, <3>1, Zenon
      <3>3. m = [step |-> "refused", handles |-> no, ended |-> no, waiting |-> none,
                 received |-> none, seen |-> nothing, delivered |-> q]
        BY <2>5, <3>1
      <3>4. "refused" \in {"idle", "refused", "open", "closed"}
        OBVIOUS
      <3>5. m \in SubRecords /\ SubExact(m)
        BY <2>6, <2>7, <3>3, <3>4, FreshSub
      <3> QED
        BY <3>2, <3>5, OneStream
    <2>9. CASE h # {}
      <3>1. h \in SUBSET Adds
        BY <1>1
      <3>2. PICK x : x = [NoSub EXCEPT !.step = "open"]
        OBVIOUS
      <3>3. PICK m : m = [x EXCEPT !.handles = h]
        OBVIOUS
      <3>4. merged' = [merged EXCEPT ![k] = m]
        BY <2>h, <2>9, <3>2, <3>3, Zenon
      <3>5. x = [step |-> "open", handles |-> no, ended |-> no, waiting |-> none,
                 received |-> none, seen |-> nothing, delivered |-> q]
        BY <2>5, <3>2
      <3>6. m = [step |-> "open", handles |-> h, ended |-> no, waiting |-> none,
                 received |-> none, seen |-> nothing, delivered |-> q]
        BY <3>3, <3>5
      <3>7. "open" \in {"idle", "refused", "open", "closed"}
        OBVIOUS
      <3>8. m \in SubRecords /\ SubExact(m)
        BY <2>6, <2>7, <3>1, <3>6, <3>7, FreshSub
      <3> QED
        BY <3>4, <3>8, OneStream
    <2> QED
      BY <2>8, <2>9
  <1>4. ASSUME NEW k \in PoolSubs, NEW a \in Adds, NEW e \in PoolEvents, Receive(k, a, e)
        PROVE  StreamsInv'
    <2>1. PICK m \in SubRecords : m = merged[k] /\ SubExact(m)
      BY DEF StreamsInv
    <2>2. PICK n : n = [m EXCEPT !.waiting[a] = @ \union {e}, !.received[a] = @ \union {e}]
      OBVIOUS
    <2>3. merged' = [merged EXCEPT ![k] = n]
      BY <1>4, <1>m, <2>1, <2>2, Zenon DEF Receive
    <2>4. n \in SubRecords /\ SubExact(n)
      BY <2>1, <2>2, ReceiveExact
    <2> QED
      BY <2>3, <2>4, OneStream
  <1>5. ASSUME NEW k \in PoolSubs, NEW a \in Adds, NEW e \in PoolEvents, Merge(k, a, e)
        PROVE  StreamsInv'
    <2>1. PICK m \in SubRecords : m = merged[k] /\ SubExact(m)
      BY DEF StreamsInv
    <2>2. PICK n : n = [m EXCEPT !.waiting[a] = @ \ {e},
                                 !.seen = IF DeduplicateEvents THEN @ \union {e} ELSE @,
                                 !.delivered = IF e \in m.seen THEN @ ELSE Append(@, e)]
      OBVIOUS
    <2>3. merged' = [merged EXCEPT ![k] = n] /\ e \in m.waiting[a]
      BY <1>5, <1>m, <2>1, <2>2, Zenon DEF Merge
    <2>4. n \in SubRecords /\ SubExact(n)
      BY <2>1, <2>2, <2>3, MergeExact
    <2> QED
      BY <2>3, <2>4, OneStream
  <1>6. ASSUME NEW k \in PoolSubs, PoolUnsubscribe(k)
        PROVE  StreamsInv'
    <2>1. PICK m \in SubRecords : m = merged[k] /\ SubExact(m)
      BY DEF StreamsInv
    <2>2. PICK n : n = [m EXCEPT !.step = "closed", !.waiting = [a \in Adds |-> {}]]
      OBVIOUS
    <2>3. merged' = [merged EXCEPT ![k] = n]
      BY <1>6, <1>m, <2>1, <2>2, Zenon DEF PoolUnsubscribe
    <2>4. n \in SubRecords /\ SubExact(n)
      BY <2>1, <2>2, CloseExact
    <2> QED
      BY <2>3, <2>4, OneStream
  <1>7. ASSUME NEW u \in PoolUrls, RemoveRelay(u)
        PROVE  StreamsInv'
    <2>1. PICK gone \in SUBSET Adds : gone = {relaysRef[u]}
      BY <1>7 DEF RemoveRelay, MapTypeOK
    <2> QED
      BY <1>7, <2>1, ManyEnd DEF RemoveRelay
  <1>8. CASE Close
    BY <1>1, <1>8, ManyEnd DEF Close
  <1>9. ASSUME NEW a \in Adds, CreateConnected(a) \/ CreateFails(a) \/ ConnectSucceeds(a)
        PROVE  StreamsInv'
    BY <1>2, <1>9 DEF CreateConnected, CreateFails, ConnectSucceeds
  <1>10. ASSUME NEW a \in Adds, ConnectFails(a) \/ GoesDown(a) \/ ComesUp(a)
         PROVE  StreamsInv'
    BY <1>2, <1>10 DEF ConnectFails, GoesDown, ComesUp
  <1>11. ASSUME NEW a \in Adds, NEW u \in PoolUrls, AddRelay(a, u)
         PROVE  StreamsInv'
    BY <1>2, <1>11 DEF AddRelay
  <1>12. ASSUME NEW p \in PoolPubs, PoolPublish(p)
         PROVE  StreamsInv'
    BY <1>2, <1>12 DEF PoolPublish
  <1>13. ASSUME NEW p \in PoolPubs, NEW a \in Adds, NEW yes \in BOOLEAN,
                Answered(p, a, yes)
         PROVE  StreamsInv'
    BY <1>2, <1>13 DEF Answered
  <1>14. CASE UNCHANGED poolVars
    BY <1>2, <1>14 DEF poolVars
  <1> QED
    BY <1>3, <1>4, <1>5, <1>6, <1>7, <1>8, <1>9, <1>10, <1>11, <1>12, <1>13, <1>14 DEF PoolNext

\* What is checked of the streams.
LEMMA StreamsSafe == StreamsInv => MergedExactly
  <1>1. ASSUME StreamsInv, NEW k \in PoolSubs
        PROVE  SubExact(merged[k])
    BY <1>1 DEF StreamsInv
  <1> QED
    BY <1>1 DEF MergedExactly, SubExact, Given

-----------------------------------------------------------------------------
(* RelayPool: publishing                                                     *)

PubRecords == [step : {"idle", "waiting", "done"}, asked : SUBSET Adds, accepted : SUBSET Adds,
               failed : SUBSET Adds]

\* A relay is reported once, and a publish that has returned has them all.
PubReports(r) ==
    /\ r.accepted \intersect r.failed = {}
    /\ r.step = "done" => r.accepted \union r.failed = r.asked

RepliesInv == pubs \in [PoolPubs -> PubRecords] /\ \A p \in PoolPubs : PubReports(pubs[p])

\* One publish moves.
LEMMA OnePub ==
    ASSUME RepliesInv, NEW p \in PoolPubs, NEW n, n \in PubRecords, PubReports(n),
           pubs' = [pubs EXCEPT ![p] = n]
    PROVE  RepliesInv'
  <1>1. /\ pubs' \in [PoolPubs -> PubRecords] /\ pubs'[p] = n
        /\ \A r \in PoolPubs \ {p} : pubs'[r] = pubs[r]
    BY DEF RepliesInv
  <1>2. ASSUME NEW r \in PoolPubs
        PROVE  PubReports(pubs'[r])
    BY <1>1 DEF RepliesInv
  <1> QED
    BY <1>1, <1>2 DEF RepliesInv, PubReports

\* The answer of one more relay.
LEMMA AnswerReports ==
    ASSUME NEW r \in PubRecords, PubReports(r), NEW a \in r.asked \ (r.accepted \union r.failed),
           NEW y \in SUBSET Adds, NEW x \in SUBSET Adds,
           \/ y = r.accepted \union {a} /\ x = r.failed
           \/ y = r.accepted /\ x = r.failed \union {a},
           NEW step \in {"waiting", "done"}, step = "done" => y \union x = r.asked,
           NEW n, n = [r EXCEPT !.accepted = y, !.failed = x, !.step = step]
    PROVE  n \in PubRecords /\ PubReports(n)
  <1>1. n \in PubRecords /\ n.accepted = y /\ n.failed = x /\ n.step = step /\ n.asked = r.asked
    BY DEF PubRecords
  <1>2. y \intersect x = {}
    BY DEF PubReports
  <1> QED
    BY <1>1, <1>2 DEF PubReports

\* Every step of the pool keeps the reports true.
LEMMA ReplyStep ==
    ASSUME MapTypeOK, up \subseteq Adds, RepliesInv, [PoolNext]_poolVars
    PROVE  RepliesInv'
  <1>1. Entries \intersect up \in SUBSET Adds
    BY DEF MapTypeOK, Entries, Listed
  <1>2. CASE UNCHANGED pubs
    BY <1>2 DEF RepliesInv, PubReports
  <1>3. ASSUME NEW p \in PoolPubs, PoolPublish(p)
        PROVE  RepliesInv'
    <2> DEFINE n == IF Entries \intersect up = {} THEN [NoPub EXCEPT !.step = "done"]
                    ELSE [NoPub EXCEPT !.step = "waiting", !.asked = Entries \intersect up]
    <2>1. n \in PubRecords /\ n.accepted = {} /\ n.failed = {}
          /\ (n.step = "done" => n.asked = {})
      BY <1>1 DEF NoPub, PubRecords
    <2>2. pubs' = [pubs EXCEPT ![p] = n]
      BY <1>3 DEF PoolPublish
    <2> HIDE DEF n
    <2>3. n \in PubRecords /\ PubReports(n)
      BY <2>1 DEF PubReports
    <2> QED
      BY <2>2, <2>3, OnePub
  <1>4. ASSUME NEW p \in PoolPubs, NEW a \in Adds, NEW yes \in BOOLEAN,
               Answered(p, a, yes)
        PROVE  RepliesInv'
    <2>1. PICK r \in PubRecords : r = pubs[p] /\ PubReports(r)
      BY DEF RepliesInv
    <2>2. PICK y \in SUBSET Adds : y = IF yes THEN r.accepted \union {a} ELSE r.accepted
      BY DEF PubRecords
    <2>3. PICK x \in SUBSET Adds : x = IF yes THEN r.failed ELSE r.failed \union {a}
      BY DEF PubRecords
    <2>4. PICK step \in {"waiting", "done"} :
            step = IF y \union x = r.asked THEN "done" ELSE "waiting"
      OBVIOUS
    <2>5. PICK n : n = [r EXCEPT !.accepted = y, !.failed = x, !.step = step]
      OBVIOUS
    <2>6. PICK pub : pub = [r EXCEPT !.accepted = y, !.failed = x]
      OBVIOUS
    <2>7. pub.accepted = y /\ pub.failed = x /\ pub.asked = r.asked
          /\ n = [pub EXCEPT !.step = step]
      BY <2>5, <2>6 DEF PubRecords
    <2>8. pub = [pubs[p] EXCEPT !.accepted = IF yes THEN @ \union {a} ELSE @,
                                !.failed = IF yes THEN @ ELSE @ \union {a}]
      BY <2>1, <2>2, <2>3, <2>6 DEF PubRecords
    <2>9. /\ pubs' = [pubs EXCEPT ![p] = [pub EXCEPT !.step = IF pub.accepted \union pub.failed
                                                             = pub.asked
                                                             THEN "done" ELSE "waiting"]]
          /\ a \in pubs[p].asked \ (pubs[p].accepted \union pubs[p].failed)
      BY <1>4, <2>8 DEF Answered
    <2>10. pubs' = [pubs EXCEPT ![p] = n] /\ a \in r.asked \ (r.accepted \union r.failed)
      BY <2>1, <2>4, <2>7, <2>9
    <2>11. \/ y = r.accepted \union {a} /\ x = r.failed
           \/ y = r.accepted /\ x = r.failed \union {a}
      BY <2>2, <2>3
    <2>12. step = "done" => y \union x = r.asked
      BY <2>4
    <2>13. n \in PubRecords /\ PubReports(n)
      BY <2>1, <2>5, <2>10, <2>11, <2>12, AnswerReports
    <2> QED
      BY <2>10, <2>13, OnePub
  <1>5. ASSUME NEW a \in Adds, CreateConnected(a) \/ CreateFails(a) \/ ConnectSucceeds(a)
        PROVE  RepliesInv'
    BY <1>2, <1>5 DEF CreateConnected, CreateFails, ConnectSucceeds
  <1>6. ASSUME NEW a \in Adds, ConnectFails(a) \/ GoesDown(a) \/ ComesUp(a)
        PROVE  RepliesInv'
    BY <1>2, <1>6 DEF ConnectFails, GoesDown, ComesUp
  <1>7. ASSUME NEW a \in Adds, NEW u \in PoolUrls, AddRelay(a, u)
        PROVE  RepliesInv'
    BY <1>2, <1>7 DEF AddRelay
  <1>8. ASSUME NEW u \in PoolUrls, RemoveRelay(u)
        PROVE  RepliesInv'
    BY <1>2, <1>8 DEF RemoveRelay
  <1>9. CASE Close
    BY <1>2, <1>9 DEF Close
  <1>10. ASSUME NEW k \in PoolSubs, PoolSubscribe(k) \/ PoolUnsubscribe(k)
         PROVE  RepliesInv'
    BY <1>2, <1>10 DEF PoolSubscribe, PoolUnsubscribe
  <1>11. ASSUME NEW k \in PoolSubs, NEW a \in Adds, NEW e \in PoolEvents,
                Receive(k, a, e) \/ Merge(k, a, e)
         PROVE  RepliesInv'
    BY <1>2, <1>11 DEF Receive, Merge
  <1>12. CASE UNCHANGED poolVars
    BY <1>2, <1>12 DEF poolVars
  <1> QED
    BY <1>3, <1>4, <1>5, <1>6, <1>7, <1>8, <1>9, <1>10, <1>11, <1>12 DEF PoolNext

-----------------------------------------------------------------------------
(* RelayPool as a whole                                                      *)

PoolInv == MapTypeOK /\ up \subseteq Adds /\ MapInv /\ StreamsInv /\ RepliesInv

\* Only connections that calls have made go up.
LEMMA UpStep ==
    ASSUME up \subseteq Adds, [PoolNext]_poolVars
    PROVE  (up \subseteq Adds)'
  <1>1. CASE UNCHANGED up
    BY <1>1
  <1>2. ASSUME NEW a \in Adds, CreateConnected(a) \/ ConnectSucceeds(a) \/ ComesUp(a) \/ GoesDown(a)
        PROVE  up' \subseteq Adds
    BY <1>2 DEF CreateConnected, ConnectSucceeds, ComesUp, GoesDown
  <1>3. ASSUME NEW a \in Adds, CreateFails(a) \/ ConnectFails(a)
        PROVE  up' \subseteq Adds
    BY <1>1, <1>3 DEF CreateFails, ConnectFails
  <1>4. ASSUME NEW a \in Adds, NEW u \in PoolUrls, AddRelay(a, u)
        PROVE  up' \subseteq Adds
    BY <1>1, <1>4 DEF AddRelay
  <1>5. CASE (\E u \in PoolUrls : RemoveRelay(u)) \/ Close
    BY <1>5 DEF RemoveRelay, Close, Disconnected
  <1>6. ASSUME NEW k \in PoolSubs, PoolSubscribe(k) \/ PoolUnsubscribe(k)
        PROVE  up' \subseteq Adds
    BY <1>1, <1>6 DEF PoolSubscribe, PoolUnsubscribe
  <1>7. ASSUME NEW k \in PoolSubs, NEW a \in Adds, NEW e \in PoolEvents,
               Receive(k, a, e) \/ Merge(k, a, e)
        PROVE  up' \subseteq Adds
    BY <1>1, <1>7 DEF Receive, Merge
  <1>8. ASSUME NEW p \in PoolPubs, PoolPublish(p)
        PROVE  up' \subseteq Adds
    BY <1>1, <1>8 DEF PoolPublish
  <1>9. ASSUME NEW p \in PoolPubs, NEW a \in Adds, NEW yes \in BOOLEAN,
               Answered(p, a, yes)
        PROVE  up' \subseteq Adds
    BY <1>1, <1>9 DEF Answered
  <1>10. CASE UNCHANGED poolVars
    BY <1>1, <1>10 DEF poolVars
  <1> QED
    BY <1>2, <1>3, <1>4, <1>5, <1>6, <1>7, <1>8, <1>9, <1>10 DEF PoolNext

\* No step of the pool breaks the invariant.
LEMMA PoolStep == PoolAssumption /\ PoolInv /\ [PoolNext]_poolVars => PoolInv'
  BY MapStep, StreamStep, ReplyStep, UpStep DEF PoolInv

\* An empty pool satisfies it.
LEMMA PoolStart == PoolAssumption /\ PoolInit => PoolInv
  <1>1. ASSUME PoolAssumption, PoolInit
        PROVE  MapTypeOK /\ up \subseteq Adds
    BY <1>1 DEF PoolInit, MapTypeOK, EmptyMap, NoAdd, AddRecords
  <1>2. ASSUME PoolAssumption, PoolInit
        PROVE  MapInv
    BY <1>2 DEF PoolInit, MapInv, EntriesAreOfTheirUrl, CopiesAreOfTheirUrl, CopiesAreCurrent,
                MapIsWhatCallsSay, Listed, Waiting, EmptyMap, NoAdd
  <1>3. NoSub \in SubRecords /\ SubExact(NoSub)
    <2>1. PICK none \in [Adds -> SUBSET PoolEvents] : none = [a \in Adds |-> {}]
      OBVIOUS
    <2>2. PICK no \in SUBSET Adds, nothing \in SUBSET PoolEvents : no = {} /\ nothing = {}
      OBVIOUS
    <2>3. <<>> \in Seq(PoolEvents)
      OBVIOUS
    <2>4. PICK q \in Seq(PoolEvents) : q = <<>>
      BY <2>3, Zenon
    <2>5. NoSub = [step |-> "idle", handles |-> no, ended |-> no, waiting |-> none,
                   received |-> none, seen |-> nothing, delivered |-> q]
      BY <2>1, <2>2, <2>4 DEF NoSub
    <2>6. \A a \in Adds : none[a] = {}
      BY <2>1
    <2>7. no = {} /\ nothing = {} /\ q = <<>>
      BY <2>2, <2>4
    <2>8. "idle" \in {"idle", "refused", "open", "closed"}
      OBVIOUS
    <2> QED
      BY <2>5, <2>6, <2>7, <2>8, FreshSub
  <1>4. ASSUME PoolInit
        PROVE  StreamsInv
    BY <1>3, <1>4 DEF PoolInit, StreamsInv
  <1>5. ASSUME PoolInit
        PROVE  RepliesInv
    BY <1>5 DEF PoolInit, RepliesInv, NoPub, PubRecords, PubReports
  <1> QED
    BY <1>1, <1>2, <1>4, <1>5 DEF PoolInv

\* It says what is checked of RelayPool.
LEMMA PoolSafe ==
    PoolInv => /\ PoolTypeOK /\ MapIsWhatCallsSay /\ EntriesAreOfTheirUrl
               /\ MergedExactly /\ EveryRelayReported
  <1>1. ASSUME PoolInv
        PROVE  PoolTypeOK
    BY <1>1 DEF PoolInv, MapTypeOK, StreamsInv, RepliesInv, PoolTypeOK, AddRecords, SubRecords,
                PubRecords
  <1>2. ASSUME PoolInv
        PROVE  EveryRelayReported
    BY <1>2 DEF PoolInv, RepliesInv, PubReports, EveryRelayReported
  <1> QED
    BY <1>1, <1>2, StreamsSafe DEF PoolInv, MapInv

-----------------------------------------------------------------------------
(* The parts together                                                        *)

PartsInv == PoolInv /\ SimpleInv /\ LostHadRival /\ WrapperInv /\ ListsInv /\ SyncInv

\* A step is one of one part, and a stutter of the others.
LEMMA PartsMove ==
    [Next]_allVars => /\ [PoolNext]_poolVars /\ [SimpleNext]_simpleVars
                      /\ [WrapperNext]_wrapperVars /\ [ListsNext]_listVars
                      /\ [SyncNext]_syncVars
  <1>1. CASE Next
    BY <1>1 DEF Next
  <1>2. CASE UNCHANGED allVars
    BY <1>2 DEF allVars
  <1> QED
    BY <1>1, <1>2

\* The invariant of every part holds of every state of the client.
THEOREM PartsHold == Spec => []PartsInv
  <1>1. Init => PartsInv
    BY PoolAssumption, SimpleAssumption, WrapperAssumption, ListsAssumption, SyncAssumption,
       PoolStart, SimpleStart, RivalStart, WrapperStart, ListsStart, SyncStart DEF Init, PartsInv
  <1>2. PartsInv /\ [Next]_allVars => PartsInv'
    BY PoolAssumption, SimpleAssumption, WrapperAssumption, ListsAssumption, SyncAssumption,
       PartsMove, PoolStep, SimpleStep, RivalStep, WrapperStep, ListsStep, SyncStep DEF PartsInv
  <1> QED
    BY <1>1, <1>2, PTL DEF Spec

\* Every variable of every part keeps its type.
THEOREM ClientTypes == Spec => []ClientTypesOK
  <1>1. PartsInv => ClientTypesOK
    BY PoolSafe, WrapperSafe, SyncSafe DEF PartsInv, SimpleInv, ListsInv, ClientTypesOK
  <1> QED
    BY <1>1, PartsHold, PTL

\* The pool lists the relays that the calls which returned have left in it, as long as no
\* call changes the map while an addRelay waits for its connection.
THEOREM MapFollowsCalls == Spec => []MapIsWhatCallsSay
  <1>1. PartsInv => MapIsWhatCallsSay
    BY PoolSafe DEF PartsInv
  <1> QED
    BY <1>1, PartsHold, PTL

\* The merged stream gives an event once and loses none, whatever number of relays send it
\* and whenever they go; a publish that has returned names every relay it asked; a URL is
\* bound to a connection of its own, whatever stale copies are written back.
THEOREM PoolAccounts == Spec => []PoolAccountsForAll
  <1>1. PartsInv => PoolAccountsForAll
    BY PoolSafe DEF PartsInv, PoolAccountsForAll
  <1> QED
    BY <1>1, PartsHold, PTL

\* The late callbacks of a socket that was given up never leave a map of SimplePool, or the
\* `connected` of a Relay, naming a socket whose onclose has run or that was closed here (it
\* may name one its relay is ending, which drops what is sent); and neither object loses an
\* open socket, which no close() would ever end, but to a second one beside it.
THEOREM LateCallbacksHarmless == Spec => []SocketsAreLive
  <1>1. PartsInv => SocketsAreLive
    BY WrapperSafe DEF PartsInv, SimpleInv, LinksInv, SocketsAreLive
  <1> QED
    BY <1>1, PartsHold, PTL

\* No duplicate is given while the set of seen events remembers, no relay of a query is both
\* failed and at its end, and an entry of Relay's map is an open subscription's.
THEOREM SubscriptionsHearOnce == Spec => []HeardOnce
  <1>1. PartsInv => HeardOnce
    BY WrapperSafe DEF PartsInv, SimpleInv, AttemptsInv, DeliveryInv, HeardOnce
  <1> QED
    BY <1>1, PartsHold, PTL

\* A publish resolves only if its relay accepted the event, and a resolver in a map is the
\* one of a publish that still waits.
THEOREM PublishesResolveRightly == Spec => []ResolvedWasAnswered
  <1>1. PartsInv => ResolvedWasAnswered
    BY WrapperSafe DEF PartsInv, SimpleInv, PostsInv, ResolvedWasAnswered
  <1> QED
    BY <1>1, PartsHold, PTL

\* The stored list is what the calls that returned say, as long as no two of them overlap,
\* no read times out and no two versions are of one second.
THEOREM ListFollowsCalls == Spec => []ListIsWhatCallsSay
  <1>1. PartsInv => ListIsWhatCallsSay
    BY DEF PartsInv, ListsInv, CallsTakeTurns, ListIsWhatCallsSay
  <1> QED
    BY <1>1, PartsHold, PTL

\* A reconcile that was answered returns the difference with what the relay held, and the
\* relay forgets its session.
THEOREM ReconcileIsSound == Spec => []SyncTells
  <1>1. PartsInv => SyncTells
    BY SyncSafe DEF PartsInv, SyncTells
  <1> QED
    BY <1>1, PartsHold, PTL
=============================================================================
