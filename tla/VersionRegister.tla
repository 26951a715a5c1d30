--------------------------- MODULE VersionRegister ---------------------------
(****************************************************************************)
(* What the event table promises, without tables: a register that holds at  *)
(* most one version per slot.  Only the author of the versions of a slot    *)
(* writes it.  One write may withdraw any of the author's versions and      *)
(* publish one more, which has to beat what it finds in its slot.           *)
(****************************************************************************)
CONSTANTS Slots, Versions, None,
          SlotOf,    \* version -> slot
          AuthorOf,  \* version -> author
          Beats      \* pairs <<v, w>>: v replaces w

VARIABLE latest

RegisterTypeOK == latest \in [Slots -> Versions \cup {None}]

RegisterInit == latest = [s \in Slots |-> None]

\* The author's slots in W become empty.
Withdrawn(W) == [s \in Slots |-> IF s \in W THEN None ELSE latest[s]]

OwnSlots(a) ==
    {s \in Slots : latest[s] # None /\ AuthorOf[latest[s]] = a}

Withdraw(a, W) == latest' = Withdrawn(W)

\* W is withdrawn and v goes to its slot, over nothing, itself or a version it
\* beats: withdrawing a version makes no room for a lesser one.
Publish(a, W, v) ==
    /\ AuthorOf[v] = a
    /\ LET s == SlotOf[v]
       IN  /\ latest[s] \in {None, v} \/ <<v, latest[s]>> \in Beats
           /\ latest' = [Withdrawn(W) EXCEPT ![s] = v]

RegisterNext ==
    \E a \in {AuthorOf[v] : v \in Versions} : \E W \in SUBSET OwnSlots(a) :
        \/ Withdraw(a, W)
        \/ \E v \in Versions : Publish(a, W, v)

RegisterSpec == RegisterInit /\ [][RegisterNext]_latest
=============================================================================
