------------------------------ MODULE FlowMap ------------------------------
(***************************************************************************)
(* What the flow table of libnfv promises, whatever its hash: what was put *)
(* for a key is what a lookup of the key with the same padding returns, as *)
(* long as nothing else is put for that key.  With other padding a lookup  *)
(* of the key may find it too, or not, but nothing that was put for        *)
(* another key.  The network functions only put and look up.               *)
(***************************************************************************)
CONSTANTS Flow,    \* the flows, as keys and as values
          Pad,     \* the padding a key can come with
          NULL     \* what a lookup returns that finds nothing

VARIABLE found     \* what a lookup returns, by key and padding

Init == found = [key \in Flow |-> [pad \in Pad |-> NULL]]

\* What a lookup returns before and after value is put for key with this
\* padding.  The lookup that corresponds finds value; the others of the key do
\* so or are as before.
Own(was, is, key, pad, value) ==
  /\ is[key][pad] = value
  /\ \A q \in Pad : is[key][q] \in {was[key][q], value}

\* Another key: what was found stays, and where nothing was, it may be what
\* other padding already found.
Other(was, is, key) ==
  \A pad \in Pad :
    \/ is[key][pad] = was[key][pad]
    \/ was[key][pad] = NULL /\ is[key][pad] \in {was[key][q] : q \in Pad}

\* Something is put for one key.
Put(was, is) ==
  \E key \in Flow :
    /\ \E pad \in Pad, value \in Flow : Own(was, is, key, pad, value)
    /\ \A k \in Flow \ {key} : Other(was, is, k)

Next ==
  /\ found' \in [Flow -> [Pad -> Flow \cup {NULL}]]
  /\ Put(found, found')

Spec == Init /\ [][Next]_found
=============================================================================
