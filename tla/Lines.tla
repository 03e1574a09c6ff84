------------------------------- MODULE Lines -------------------------------
(***************************************************************************)
(* What the forwarder promises of each port: the frames that enter by it   *)
(* leave by it in the order they came.  Some may be dropped on the way.    *)
(***************************************************************************)
EXTENDS Sequences, Integers

CONSTANTS Portid, Mbuf

VARIABLE line   \* the frames of each port that came and have not left

Init == line = [p \in Portid |-> <<>>]

\* The lines before and after each kind of step.  A frame comes, in a buffer
\* that holds no other.
Enter(was, is, p, m) ==
  /\ \A q \in Portid : \A j \in DOMAIN was[q] : was[q][j] # m
  /\ is = [was EXCEPT ![p] = Append(@, m)]

Leave(was, is, p) ==
  /\ was[p] # <<>>
  /\ is = [was EXCEPT ![p] = Tail(@)]

\* The frames from the first-th to the last-th are dropped.
Drop(was, is, p, first, last) ==
  is = [was EXCEPT ![p] = SubSeq(@, 1, first - 1) \o SubSeq(@, last + 1, Len(@))]

Move(was, is) ==
  \E p \in Portid :
    \/ \E m \in Mbuf : Enter(was, is, p, m)
    \/ Leave(was, is, p)
    \/ \E first, last \in 1 .. Len(was[p]) : Drop(was, is, p, first, last)

Next == line' # line /\ Move(line, line')

Spec == Init /\ [][Next]_line
=============================================================================
