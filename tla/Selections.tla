----------------------------- MODULE Selections -----------------------------
(* What the library computes from a list of events, as relays happened to send *)
(* them: the counts of a poll (client/Nip88Service.ts), the latest versions    *)
(* of replaceable events, events without repetitions (wrappers/utils.ts).      *)
EXTENDS Integers, Sequences, SequencesExt, FiniteSets

CONSTANTS Voters, Options,
          MaxVoteTime,    \* times are 1..MaxVoteTime
          MaxResponses,   \* how many events arrive
          NoEnd           \* a poll without endsAt

VARIABLES poll,           \* [multiple, until]
          arrived         \* the responses, in the order they came

selectVars == <<poll, arrived>>

\* A response: an event with one id per voter, time and choice.
Responses == [pubkey : Voters, createdAt : 1..MaxVoteTime, options : SeqOf(Options, 2)]

\* Mutant: the first of each author.
FirstOfAuthor(events) ==
    FoldLeft(LAMBDA kept, e : IF \E i \in DOMAIN kept : kept[i].pubkey = e.pubkey THEN kept
                              ELSE Append(kept, e), << >>, events)

\* deduplicateEvents keeps the first of each id.
DeduplicateEvents(events) ==
    FoldLeft(LAMBDA kept, e : IF Contains(kept, e) THEN kept ELSE Append(kept, e), << >>, events)

\* Mutant: the last that came.
LastOfEach(events) ==
    [voter \in {events[i].pubkey : i \in DOMAIN events} |->
       FoldLeft(LAMBDA best, e : IF e.pubkey = voter THEN <<e>> ELSE best, << >>, events)[1]]

\* The latest event of each key; of two of the same second the one that came first.
LatestOf(events) ==
    [voter \in {events[i].pubkey : i \in DOMAIN events} |->
       FoldLeft(LAMBDA best, e : IF e.pubkey = voter /\ (best = << >> \/ e.createdAt > best[1].createdAt)
                                 THEN <<e>> ELSE best, << >>, events)[1]]

\* getLatestReplaceable, for events of one kind and d tag.
GetLatestReplaceable(events) == LatestOf(events)

Within(p, events) ==
    FoldLeft(LAMBDA kept, e : IF p.until # NoEnd => e.createdAt <= p.until THEN Append(kept, e)
                              ELSE kept, << >>, events)

\* The options an answer counts for: the first, or each of them once.
Chosen(p, e) == IF p.multiple THEN ToSet(e.options) ELSE IF e.options = << >> THEN {} ELSE {e.options[1]}

CountResults(p, responses) ==
    LET latest == LatestOf(Within(p, responses)) IN
    [o \in Options |-> Cardinality({v \in DOMAIN latest : o \in Chosen(p, latest[v])})]

-----------------------------------------------------------------------------
SelectInit == poll \in [multiple : BOOLEAN, until : (1..MaxVoteTime) \union {NoEnd}] /\ arrived = << >>

\* listResponses takes what the relays send, the same event more than once.
ResponseArrives(response) ==
    /\ Len(arrived) < MaxResponses
    /\ arrived' = Append(arrived, response)
    /\ UNCHANGED poll

SelectNext == \E response \in Responses : ResponseArrives(response)

SelectSpec == SelectInit /\ [][SelectNext]_selectVars

-----------------------------------------------------------------------------
(* Properties *)

SelectTypeOK ==
    /\ \A o \in Options : CountResults(poll, arrived)[o] <= Cardinality(Voters)
    /\ ToSet(DeduplicateEvents(arrived)) = ToSet(arrived)

\* No voter has two different responses of the same second.
NoTies ==
    \A i, j \in DOMAIN arrived :
        (arrived[i].pubkey = arrived[j].pubkey /\ arrived[i].createdAt = arrived[j].createdAt) =>
            arrived[i] = arrived[j]

\* Each voter counts once, with the last response before the end, whatever the order and the
\* repetitions in which the responses came, unless two responses are of the same second.
CountIsOrderFree ==
    NoTies =>
        \A o \in Options :
            CountResults(poll, arrived)[o] =
                Cardinality({v \in Voters : \E e \in ToSet(arrived) :
                    /\ e.pubkey = v /\ (poll.until # NoEnd => e.createdAt <= poll.until)
                    /\ \A f \in ToSet(arrived) :
                         (f.pubkey = v /\ (poll.until # NoEnd => f.createdAt <= poll.until)) =>
                             f.createdAt <= e.createdAt
                    /\ o \in Chosen(poll, e)})

\* Repetitions do not matter for what is latest.
LatestOfDistinct ==
    GetLatestReplaceable(DeduplicateEvents(arrived)) = GetLatestReplaceable(arrived)
=============================================================================
