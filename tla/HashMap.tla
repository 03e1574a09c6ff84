------------------------------ MODULE HashMap ------------------------------
(***************************************************************************)
(* The open-addressing flow table of libnfv (hashmap.c), which nf2.so and  *)
(* nf3.so each link a copy of.  A bucket holds a key, a value and the flag *)
(* the code spells "vaild".  The hash is taken over sizeof(struct Flow)    *)
(* bytes, two of which are padding no one initialises: a key is hashed     *)
(* together with the padding its struct happens to have (Pad), and         *)
(* compared without it.                                                    *)
(***************************************************************************)
EXTENDS Integers

CONSTANTS
  Flow,      \* values of struct Flow, its five fields only
  NoFlow,    \* the all-zero struct Flow of a bucket no one wrote
  NULL,      \* the null value pointer that nf3.c passes
  Pad,       \* contents of the two padding bytes of a struct Flow
  Capacity,  \* CAPACITY, the number of buckets
  Hash       \* fnv_1 over fields and padding, reduced modulo CAPACITY

ASSUME HashMapAssumption ==
  /\ NoFlow \in Flow
  /\ NULL \notin Flow
  /\ Capacity \in Nat \ {0}
  /\ Hash \in [Flow -> [Pad -> 0 .. Capacity - 1]]

VARIABLE pairs

\* The buckets, and the contents one can have.
Slots == 0 .. Capacity - 1
Pair == [vaild: BOOLEAN, key: Flow, value: Flow]

HashMapTypeOK == pairs \in [Slots -> Pair]

HashMapInit ==
  pairs = [s \in Slots |-> [vaild |-> FALSE, key |-> NoFlow, value |-> NoFlow]]

\* The bucket probed i-th from hash h.  h < CAPACITY and i < CAPACITY, so
\* one subtraction is the remainder.
Probe(h, i) == IF h + i < Capacity THEN h + i ELSE h + i - Capacity

\* Both loops stop at a free bucket and at one with an equal key (cmp_flow).
Stops(key, s) == ~pairs[s].vaild \/ pairs[s].key = key

\* The loop for a key with given padding ends in bucket s: it stops there
\* and at no bucket it probes before.
EndsIn(key, pad, s) ==
  \E i \in Slots :
    /\ s = Probe(Hash[key][pad], i)
    /\ Stops(key, s)
    /\ \A j \in 0 .. i - 1 : ~Stops(key, Probe(Hash[key][pad], j))

\* Mutant: the lookup looks at the first bucket only.
GetWithoutProbing(key, pad) ==
  {s \in Slots : pairs[s].vaild /\ pairs[s].key = key /\ s = Hash[key][pad]}

\* The pair maglev_hashmap_get returns, as the set of the one bucket it
\* points to, or the empty set for NULL.
maglev_hashmap_get(key, pad) ==
  {s \in Slots : pairs[s].vaild /\ EndsIn(key, pad, s)}

\* Mutant: the value is copied without the check for a null pointer.
WrittenWithoutCheck(pair, key, value) ==
  [vaild |-> TRUE, key |-> key, value |-> value]

\* A bucket after key (and value, unless it is NULL) was copied into it.
Written(pair, key, value) ==
  [vaild |-> TRUE, key |-> key,
   value |-> IF value = NULL THEN pair.value ELSE value]

\* Mutant: the insertion does not go on from a bucket that is taken.
InsertWithoutProbing(key, value, pad) ==
  pairs' = [pairs EXCEPT ![Hash[key][pad]] = Written(@, key, value)]

\* maglev_hashmap_insert: when every bucket is taken by another key the loop
\* runs out and the insertion is lost without a word.
maglev_hashmap_insert(key, value, pad) ==
  \/ \E s \in Slots :
       /\ EndsIn(key, pad, s)
       /\ pairs' = [pairs EXCEPT ![s] = Written(@, key, value)]
  \/ /\ \A s \in Slots : ~Stops(key, s)
     /\ UNCHANGED pairs

\* The table on its own: any caller inserts any flow, with any padding.
HashMapNext ==
  \E key \in Flow, pad \in Pad, value \in Flow \cup {NULL} :
    maglev_hashmap_insert(key, value, pad)

HashMapSpec == HashMapInit /\ [][HashMapNext]_pairs

-----------------------------------------------------------------------------
\* Whatever was stored is found: maglev_hashmap_get returns every occupied
\* bucket when it is given the key with the padding it was inserted with,
\* however the probe sequences of the keys inserted since run into it.
Retrievable ==
  \A s \in Slots :
    pairs[s].vaild => \E pad \in Pad : maglev_hashmap_get(pairs[s].key, pad) = {s}

\* The value of the pair a lookup returns.
LookUp(key, pad) ==
  LET get == maglev_hashmap_get(key, pad)
  IN  IF get = {} THEN NULL ELSE pairs[CHOOSE s \in get : TRUE].value

\* The table keeps what FlowMap promises, whatever the hash makes of the
\* padding: an insertion gives its key the value and takes none from another,
\* or is lost because the table is full.
Map == INSTANCE FlowMap WITH found <- [key \in Flow |-> [pad \in Pad |-> LookUp(key, pad)]]
RefinesFlowMap == Map!Spec
=============================================================================
