--------------------------- MODULE HashMapProofs ---------------------------
(***************************************************************************)
(* Proofs about the flow table, for every capacity, hash function and      *)
(* padding.  A table only ever grows: an occupied bucket keeps its key     *)
(* (BucketsKeep), so the probe sequence that led to a bucket when it was   *)
(* filled still leads to it (Reachable).  Everything else follows.         *)
(***************************************************************************)
EXTENDS HashMap, TLAPS

\* A probe sequence from a bucket goes through buckets.
LEMMA ProbeInSlots ==
  ASSUME NEW h \in Slots, NEW i \in Slots
  PROVE  Probe(h, i) \in Slots
BY HashMapAssumption DEF Slots, Probe

\* Hashes are buckets.
LEMMA HashInSlots ==
  ASSUME NEW f \in Flow, NEW p \in Pad
  PROVE  Hash[f][p] \in Slots
BY HashMapAssumption DEF Slots

\* A loop ends in one bucket only.
LEMMA EndsOnce ==
  ASSUME NEW key \in Flow, NEW pad \in Pad, NEW s \in Slots, NEW t \in Slots,
         EndsIn(key, pad, s), EndsIn(key, pad, t)
  PROVE  s = t
<1> DEFINE h == Hash[key][pad]
<1>1. PICK i \in Slots : /\ s = Probe(h, i) /\ Stops(key, s)
                         /\ \A k \in 0 .. i - 1 : ~Stops(key, Probe(h, k))
  BY DEF EndsIn
<1>2. PICK j \in Slots : /\ t = Probe(h, j) /\ Stops(key, t)
                         /\ \A k \in 0 .. j - 1 : ~Stops(key, Probe(h, k))
  BY DEF EndsIn
<1>3. i \in Int /\ j \in Int /\ 0 =< i /\ 0 =< j
  BY HashMapAssumption DEF Slots
<1> HIDE DEF h
<1>4. ~(i < j) /\ ~(j < i)
  BY <1>1, <1>2, <1>3
<1> QED
  BY <1>1, <1>2, <1>3, <1>4

\* Every bucket is on the probe sequence from every hash.
LEMMA ProbeReaches ==
  ASSUME NEW h \in Slots, NEW s \in Slots
  PROVE  \E i \in Slots : s = Probe(h, i)
<1>1. CASE s >= h
  <2>1. s - h \in Slots /\ s = Probe(h, s - h)
    BY <1>1, HashMapAssumption DEF Slots, Probe
  <2> QED
    BY <2>1
<1>2. CASE s < h
  <2>1. s - h + Capacity \in Slots /\ s = Probe(h, s - h + Capacity)
    BY <1>2, HashMapAssumption DEF Slots, Probe
  <2> QED
    BY <2>1
<1> QED
  BY <1>1, <1>2, HashMapAssumption DEF Slots

\* What one insertion does: it writes the bucket its loop ends in, or is lost
\* where no bucket stops the loop.  Occupied buckets stay so, with their keys.
LEMMA BucketsKeep ==
  ASSUME HashMapTypeOK, NEW key \in Flow, NEW pad \in Pad,
         NEW value \in Flow \cup {NULL}, maglev_hashmap_insert(key, value, pad)
  PROVE  /\ HashMapTypeOK'
         /\ \A s \in Slots : pairs[s].vaild => pairs'[s].vaild /\ pairs'[s].key = pairs[s].key
         /\ \A s \in Slots : pairs[s].vaild /\ pairs[s].key # key => pairs'[s] = pairs[s]
<1>1. CASE UNCHANGED pairs
  BY <1>1 DEF HashMapTypeOK
<1>2. ASSUME NEW s \in Slots, EndsIn(key, pad, s),
             pairs' = [pairs EXCEPT ![s] = Written(@, key, value)]
      PROVE  /\ HashMapTypeOK'
             /\ \A t \in Slots : pairs[t].vaild => pairs'[t].vaild /\ pairs'[t].key = pairs[t].key
             /\ \A t \in Slots : pairs[t].vaild /\ pairs[t].key # key => pairs'[t] = pairs[t]
  <2>1. Stops(key, s)
    BY <1>2 DEF EndsIn
  <2>2. Written(pairs[s], key, value) \in Pair
    BY DEF HashMapTypeOK, Written, Pair
  <2> QED
    BY <1>2, <2>1, <2>2 DEF HashMapTypeOK, Written, Stops, Pair
<1> QED
  BY <1>1, <1>2 DEF maglev_hashmap_insert

\* As long as occupied buckets keep their keys, the loop for a key that ended
\* in a bucket goes on ending there, if the bucket then holds the key.
LEMMA EndsKept ==
  ASSUME NEW key \in Flow, NEW pad \in Pad, NEW s \in Slots,
         EndsIn(key, pad, s), pairs'[s].key = key,
         \A t \in Slots : pairs[t].vaild => pairs'[t].vaild /\ pairs'[t].key = pairs[t].key
  PROVE  EndsIn(key, pad, s)'
<1> DEFINE h == Hash[key][pad]
<1>1. PICK i \in Slots : /\ s = Probe(h, i) /\ Stops(key, s)
                         /\ \A k \in 0 .. i - 1 : ~Stops(key, Probe(h, k))
  BY DEF EndsIn
<1>2. Stops(key, s)'
  BY DEF Stops
<1>3. ASSUME NEW k \in 0 .. i - 1
      PROVE  ~Stops(key, Probe(h, k))'
  <2>1. k \in Slots
    BY HashMapAssumption DEF Slots
  <2>2. Probe(h, k) \in Slots
    BY <2>1, HashInSlots, ProbeInSlots
  <2> QED
    BY <1>1, <2>2 DEF Stops
<1> QED
  BY <1>1, <1>2, <1>3 DEF EndsIn

\* An occupied bucket in which its own key's loop ends is what the lookup
\* of that key returns, and nothing else is.
LEMMA GetIs ==
  ASSUME NEW key \in Flow, NEW pad \in Pad, NEW s \in Slots,
         pairs[s].vaild, EndsIn(key, pad, s)
  PROVE  maglev_hashmap_get(key, pad) = {s}
<1>1. \A t \in maglev_hashmap_get(key, pad) : t \in Slots /\ EndsIn(key, pad, t)
  BY DEF maglev_hashmap_get
<1>2. \A t \in maglev_hashmap_get(key, pad) : t = s
  BY <1>1, EndsOnce
<1>3. s \in maglev_hashmap_get(key, pad)
  BY DEF maglev_hashmap_get
<1> QED
  BY <1>2, <1>3

-----------------------------------------------------------------------------
\* The inductive invariant: the loop for the key of an occupied bucket, with
\* some padding, ends in that bucket.
Reachable ==
  \A s \in Slots : pairs[s].vaild => \E pad \in Pad : EndsIn(pairs[s].key, pad, s)

\* An insertion keeps the buckets well-typed and reachable.
LEMMA InsertKeepsReachable ==
  ASSUME HashMapTypeOK, Reachable, NEW key \in Flow, NEW pad \in Pad,
         NEW value \in Flow \cup {NULL}, maglev_hashmap_insert(key, value, pad)
  PROVE  HashMapTypeOK' /\ Reachable'
<1>1. HashMapTypeOK'
  BY BucketsKeep
<1>2. \A s \in Slots : pairs[s].vaild => pairs'[s].vaild /\ pairs'[s].key = pairs[s].key
  BY BucketsKeep
<1>3. ASSUME NEW s \in Slots, pairs[s].vaild
      PROVE  \E p \in Pad : EndsIn(pairs[s].key, p, s)'
  <2>1. PICK k \in Flow : k = pairs[s].key
    BY DEF HashMapTypeOK, Pair
  <2>2. PICK p \in Pad : EndsIn(k, p, s)
    BY <1>3, <2>1 DEF Reachable
  <2>3. pairs'[s].key = k
    BY <1>2, <1>3, <2>1
  <2>4. EndsIn(k, p, s)'
    BY <1>2, <2>2, <2>3, EndsKept
  <2> QED
    BY <2>3, <2>4
<1>4. CASE UNCHANGED pairs
  BY <1>1, <1>4 DEF Reachable, EndsIn, Stops
<1>5. ASSUME NEW s \in Slots, EndsIn(key, pad, s),
             pairs' = [pairs EXCEPT ![s] = Written(@, key, value)]
      PROVE  Reachable'
  <2> SUFFICES ASSUME NEW t \in Slots, pairs'[t].vaild
               PROVE  \E p \in Pad : EndsIn(pairs[t].key, p, t)'
    BY DEF Reachable
  <2>1. CASE pairs[t].vaild
    BY <1>3, <2>1
  <2>2. CASE ~pairs[t].vaild
    <3>1. t = s /\ pairs'[t].key = key
      BY <1>5, <2>2 DEF HashMapTypeOK, Written
    <3>2. EndsIn(key, pad, s)'
      BY <1>2, <1>5, <2>2, <3>1, EndsKept
    <3> QED
      BY <3>1, <3>2
  <2> QED
    BY <2>1, <2>2
<1> QED
  BY <1>1, <1>4, <1>5 DEF maglev_hashmap_insert

\* Every reachable table is well-typed: the buckets written hold flows, also
\* those inserted with a null value.
THEOREM HashMapTypeCorrect == HashMapSpec => []HashMapTypeOK
<1>1. HashMapInit => HashMapTypeOK
  BY HashMapAssumption DEF HashMapInit, HashMapTypeOK, Pair
<1>2. HashMapTypeOK /\ [HashMapNext]_pairs => HashMapTypeOK'
  <2>1. ASSUME HashMapTypeOK, NEW key \in Flow, NEW pad \in Pad,
               NEW value \in Flow \cup {NULL}, maglev_hashmap_insert(key, value, pad)
        PROVE  HashMapTypeOK'
    BY <2>1, BucketsKeep
  <2>2. CASE UNCHANGED pairs
    BY <2>2 DEF HashMapTypeOK
  <2> QED
    BY <2>1, <2>2 DEF HashMapNext
<1> QED
  BY <1>1, <1>2, PTL DEF HashMapSpec

\* Every reachable table is reachable by its own keys.
LEMMA ReachableInvariant == HashMapSpec => []Reachable
<1>1. HashMapInit => Reachable
  BY DEF HashMapInit, Reachable
<1>2. HashMapTypeOK /\ Reachable /\ [HashMapNext]_pairs => Reachable'
  <2>1. ASSUME HashMapTypeOK, Reachable, NEW key \in Flow, NEW pad \in Pad,
               NEW value \in Flow \cup {NULL}, maglev_hashmap_insert(key, value, pad)
        PROVE  Reachable'
    BY <2>1, InsertKeepsReachable
  <2>2. CASE UNCHANGED pairs
    BY <2>2 DEF Reachable, EndsIn, Stops
  <2> QED
    BY <2>1, <2>2 DEF HashMapNext
<1> QED
  BY <1>1, <1>2, HashMapTypeCorrect, PTL DEF HashMapSpec

\* maglev_hashmap_get finds what maglev_hashmap_insert stored, in a table of
\* any size, whatever the hash and the padding.
THEOREM HashMapRetrievable == HashMapSpec => []Retrievable
<1>1. HashMapTypeOK /\ Reachable => Retrievable
  <2> SUFFICES ASSUME HashMapTypeOK, Reachable, NEW s \in Slots, pairs[s].vaild
               PROVE  \E pad \in Pad : maglev_hashmap_get(pairs[s].key, pad) = {s}
    BY DEF Retrievable
  <2>1. PICK k \in Flow : k = pairs[s].key
    BY DEF HashMapTypeOK, Pair
  <2>2. PICK pad \in Pad : EndsIn(k, pad, s)
    BY <2>1 DEF Reachable
  <2>3. maglev_hashmap_get(k, pad) = {s}
    BY <2>2, GetIs
  <2> QED
    BY <2>1, <2>3
<1> QED
  BY <1>1, HashMapTypeCorrect, ReachableInvariant, PTL

-----------------------------------------------------------------------------
\* A lookup whose loop ends in an occupied bucket returns that bucket's value.
LEMMA LookUpFound ==
  \A key \in Flow, pad \in Pad, s \in Slots :
    pairs[s].vaild /\ EndsIn(key, pad, s) => LookUp(key, pad) = pairs[s].value
<1> SUFFICES ASSUME NEW key \in Flow, NEW pad \in Pad, NEW s \in Slots,
                    pairs[s].vaild, EndsIn(key, pad, s)
             PROVE  LookUp(key, pad) = pairs[s].value
  OBVIOUS
<1>1. maglev_hashmap_get(key, pad) = {s}
  BY GetIs
<1>2. (CHOOSE t \in {s} : TRUE) = s
  OBVIOUS
<1> QED
  BY <1>1, <1>2 DEF LookUp

\* There is no other way for a lookup to find something.
LEMMA LookUpSource ==
  \A key \in Flow, pad \in Pad :
    LookUp(key, pad) # NULL => \E s \in Slots : pairs[s].vaild /\ EndsIn(key, pad, s)
BY DEF LookUp, maglev_hashmap_get

LEMMA LookUpFoundNext ==
  \A key \in Flow, pad \in Pad, s \in Slots :
    pairs'[s].vaild /\ EndsIn(key, pad, s)' => LookUp(key, pad)' = pairs'[s].value
<1>1. (\A key \in Flow, pad \in Pad, s \in Slots :
         pairs[s].vaild /\ EndsIn(key, pad, s) => LookUp(key, pad) = pairs[s].value)'
  BY LookUpFound, PTL
<1> QED
  BY <1>1

LEMMA LookUpSourceNext ==
  \A key \in Flow, pad \in Pad :
    LookUp(key, pad)' # NULL => \E s \in Slots : pairs'[s].vaild /\ EndsIn(key, pad, s)'
<1>1. (\A key \in Flow, pad \in Pad :
         LookUp(key, pad) # NULL => \E s \in Slots : pairs[s].vaild /\ EndsIn(key, pad, s))'
  BY LookUpSource, PTL
<1> QED
  BY <1>1

\* A loop ends at an occupied bucket only if that holds its key.
LEMMA EndKey ==
  ASSUME NEW key \in Flow, NEW pad \in Pad, NEW s \in Slots, pairs[s].vaild,
         EndsIn(key, pad, s)
  PROVE  pairs[s].key = key
BY DEF EndsIn, Stops

LEMMA EndKeyNext ==
  ASSUME NEW key \in Flow, NEW pad \in Pad, NEW s \in Slots, pairs'[s].vaild,
         EndsIn(key, pad, s)'
  PROVE  pairs'[s].key = key
BY DEF EndsIn, Stops

\* The bucket that an insertion writes, and what it has there then.
Writes(key, pad, s, value) ==
  /\ EndsIn(key, pad, s)
  /\ pairs'[s] = [vaild |-> TRUE, key |-> key, value |-> value]
  /\ \A t \in Slots \ {s} : pairs'[t] = pairs[t]

\* Occupied buckets keep their keys, and the one that is written was not
\* another key's.
LEMMA WritesKeeps ==
  ASSUME NEW key \in Flow, NEW pad \in Pad, NEW s \in Slots, NEW value,
         Writes(key, pad, s, value)
  PROVE  /\ \A t \in Slots : pairs[t].vaild => pairs'[t].vaild /\ pairs'[t].key = pairs[t].key
         /\ \A t \in Slots : pairs[t].vaild /\ pairs[t].key # key => pairs'[t] = pairs[t]
         /\ pairs'[s].vaild /\ pairs'[s].key = key /\ pairs'[s].value = value
<1>1. Stops(key, s)
  BY DEF Writes, EndsIn
<1> QED
  BY <1>1 DEF Writes, Stops

\* After the insertion the lookups of its key find the value, or what they
\* found before.
LEMMA OwnLookUps ==
  ASSUME NEW key \in Flow, NEW pad \in Pad, NEW s \in Slots, NEW value \in Flow,
         Writes(key, pad, s, value)
  PROVE  /\ LookUp(key, pad)' = value
         /\ \A q \in Pad : LookUp(key, q)' \in {LookUp(key, q), value}
<1>1. /\ \A t \in Slots : pairs[t].vaild => pairs'[t].vaild /\ pairs'[t].key = pairs[t].key
      /\ pairs'[s].vaild /\ pairs'[s].key = key /\ pairs'[s].value = value
  BY WritesKeeps
<1>2. EndsIn(key, pad, s)'
  BY <1>1, EndsKept DEF Writes
<1>3. LookUp(key, pad)' = value
  BY <1>1, <1>2, LookUpFoundNext
<1>4. ASSUME NEW q \in Pad, NEW t \in Slots, pairs[t].vaild, EndsIn(key, q, t)
      PROVE  LookUp(key, q)' \in {LookUp(key, q), value}
  <2>1. pairs'[t].vaild /\ pairs'[t].key = key
    BY <1>1, <1>4, EndKey
  <2>2. EndsIn(key, q, t)'
    BY <1>1, <1>4, <2>1, EndsKept
  <2>3. LookUp(key, q) = pairs[t].value /\ LookUp(key, q)' = pairs'[t].value
    BY <1>4, <2>1, <2>2, LookUpFound, LookUpFoundNext
  <2> QED
    BY <1>1, <2>3 DEF Writes
<1>5. ASSUME NEW q \in Pad, NEW t \in Slots \ {s}, EndsIn(key, q, t)'
      PROVE  EndsIn(key, q, t)
  <2> DEFINE h == Hash[key][q]
  <2>1. PICK i \in Slots : /\ t = Probe(h, i) /\ Stops(key, t)'
                           /\ \A k \in 0 .. i - 1 : ~Stops(key, Probe(h, k))'
    BY <1>5 DEF EndsIn
  <2>2. Stops(key, t)
    BY <2>1 DEF Stops, Writes
  <2>3. ASSUME NEW k \in 0 .. i - 1
        PROVE  ~Stops(key, Probe(h, k))
    <3>1. k \in Slots
      BY HashMapAssumption DEF Slots
    <3>2. PICK u \in Slots : u = Probe(h, k)
      BY <3>1, HashInSlots, ProbeInSlots
    <3>3. ~Stops(key, u)'
      BY <2>1, <3>2
    <3>4. u # s
      BY <1>1, <3>3 DEF Stops
    <3> QED
      BY <3>2, <3>3, <3>4 DEF Stops, Writes
  <2> QED
    BY <2>1, <2>2, <2>3 DEF EndsIn
<1>6. ASSUME NEW q \in Pad, LookUp(key, q) = NULL, LookUp(key, q)' # NULL
      PROVE  LookUp(key, q)' = value
  <2>1. PICK t \in Slots : pairs'[t].vaild /\ EndsIn(key, q, t)'
    BY <1>6, LookUpSourceNext
  <2>2. CASE t = s
    BY <1>1, <2>1, <2>2, LookUpFoundNext
  <2>3. CASE t # s
    <3>1. pairs[t].vaild /\ EndsIn(key, q, t) /\ pairs'[t] = pairs[t]
      BY <1>5, <2>1, <2>3 DEF Writes
    <3>2. LookUp(key, q) = LookUp(key, q)'
      BY <2>1, <3>1, LookUpFound, LookUpFoundNext
    <3> QED
      BY <1>6, <3>2
  <2> QED
    BY <2>2, <2>3
<1>7. ASSUME NEW q \in Pad
      PROVE  LookUp(key, q)' \in {LookUp(key, q), value}
  BY <1>4, <1>6, LookUpSource
<1> QED
  BY <1>3, <1>7

\* The lookups of another key find what they found, or, if that was nothing,
\* what the key has with other padding: the loop may now go on past the
\* bucket that was written.
LEMMA OtherLookUps ==
  ASSUME Reachable, NEW key \in Flow, NEW pad \in Pad, NEW s \in Slots, NEW value,
         Writes(key, pad, s, value), NEW k \in Flow, k # key, NEW q \in Pad
  PROVE  \/ LookUp(k, q)' = LookUp(k, q)
         \/ LookUp(k, q) = NULL /\ LookUp(k, q)' \in {LookUp(k, p) : p \in Pad}
<1>1. /\ \A t \in Slots : pairs[t].vaild => pairs'[t].vaild /\ pairs'[t].key = pairs[t].key
      /\ \A t \in Slots : pairs[t].vaild /\ pairs[t].key # key => pairs'[t] = pairs[t]
      /\ pairs'[s].key = key
  BY WritesKeeps
<1>2. CASE LookUp(k, q) # NULL
  <2>1. PICK t \in Slots : pairs[t].vaild /\ EndsIn(k, q, t)
    BY <1>2, LookUpSource
  <2>2. pairs[t].key = k
    BY <2>1, EndKey
  <2>3. pairs'[t] = pairs[t]
    BY <1>1, <2>1, <2>2
  <2>4. EndsIn(k, q, t)'
    BY <1>1, <2>1, <2>2, <2>3, EndsKept
  <2> QED
    BY <2>1, <2>3, <2>4, LookUpFound, LookUpFoundNext
<1>3. CASE LookUp(k, q) = NULL /\ LookUp(k, q)' # NULL
  <2>1. PICK t \in Slots : pairs'[t].vaild /\ EndsIn(k, q, t)'
    BY <1>3, LookUpSourceNext
  <2>2. pairs'[t].key = k
    BY <2>1, EndKeyNext
  <2>3. pairs'[t] = pairs[t]
    BY <1>1, <2>2 DEF Writes
  <2>4. PICK p \in Pad : EndsIn(k, p, t)
    BY <2>1, <2>2, <2>3 DEF Reachable
  <2>5. LookUp(k, p) = LookUp(k, q)'
    BY <2>1, <2>3, <2>4, LookUpFound, LookUpFoundNext
  <2> QED
    BY <1>3, <2>5
<1> QED
  BY <1>2, <1>3

\* Lookups return flows or nothing.
LEMMA LookUpType ==
  HashMapTypeOK => \A key \in Flow, pad \in Pad : LookUp(key, pad) \in Flow \cup {NULL}
<1> SUFFICES ASSUME HashMapTypeOK, NEW key \in Flow, NEW pad \in Pad,
                    LookUp(key, pad) # NULL
             PROVE  LookUp(key, pad) \in Flow
  OBVIOUS
<1>1. PICK s \in Slots : pairs[s].vaild /\ EndsIn(key, pad, s)
  BY LookUpSource
<1>2. LookUp(key, pad) = pairs[s].value
  BY <1>1, LookUpFound
<1> QED
  BY <1>2 DEF HashMapTypeOK, Pair

LEMMA LookUpTypeNext ==
  HashMapTypeOK' => \A key \in Flow, pad \in Pad : LookUp(key, pad)' \in Flow \cup {NULL}
<1>1. (HashMapTypeOK => \A key \in Flow, pad \in Pad : LookUp(key, pad) \in Flow \cup {NULL})'
  BY LookUpType, PTL
<1> QED
  BY <1>1

LookUps == [key \in Flow |-> [pad \in Pad |-> LookUp(key, pad)]]

\* An insertion is something put for its key, also with a null value, which
\* leaves the bucket the value it has.
LEMMA InsertPuts ==
  ASSUME HashMapTypeOK, Reachable, NEW key \in Flow, NEW pad \in Pad,
         NEW value \in Flow \cup {NULL}, NEW s \in Slots, EndsIn(key, pad, s),
         pairs' = [pairs EXCEPT ![s] = Written(@, key, value)]
  PROVE  Map!Put(LookUps, LookUps')
<1>1. PICK v \in Flow : v = IF value = NULL THEN pairs[s].value ELSE value
  BY DEF HashMapTypeOK, Pair
<1>2. Writes(key, pad, s, v)
  BY <1>1 DEF Writes, Written, HashMapTypeOK
<1>3. \A k \in Flow, q \in Pad : /\ LookUps[k][q] = LookUp(k, q)
                                 /\ LookUps'[k][q] = LookUp(k, q)'
  BY DEF LookUps
<1>4. Map!Own(LookUps, LookUps', key, pad, v)
  <2>1. /\ LookUp(key, pad)' = v
        /\ \A q \in Pad : LookUp(key, q)' \in {LookUp(key, q), v}
    BY <1>2, OwnLookUps
  <2> QED
    BY <1>3, <2>1 DEF Map!Own
<1>5. ASSUME NEW k \in Flow \ {key}
      PROVE  Map!Other(LookUps, LookUps', k)
  <2> SUFFICES ASSUME NEW q \in Pad
               PROVE  \/ LookUps'[k][q] = LookUps[k][q]
                      \/ /\ LookUps[k][q] = NULL
                         /\ LookUps'[k][q] \in {LookUps[k][p] : p \in Pad}
    BY DEF Map!Other
  <2>1. \/ LookUp(k, q)' = LookUp(k, q)
        \/ LookUp(k, q) = NULL /\ LookUp(k, q)' \in {LookUp(k, p) : p \in Pad}
    BY <1>2, OtherLookUps
  <2> QED
    BY <1>3, <2>1
<1> QED
  BY <1>4, <1>5 DEF Map!Put

\* The table keeps what FlowMap promises, whatever the hash makes of the
\* padding: each insertion puts something for its key or, in a full table, is
\* a stutter.
THEOREM HashMapImplementsFlowMap == HashMapSpec => RefinesFlowMap
<1>1. HashMapInit => Map!Init
  <2> SUFFICES ASSUME HashMapInit, NEW key \in Flow, NEW pad \in Pad
               PROVE  LookUp(key, pad) = NULL
    BY DEF Map!Init
  <2>1. \A s \in Slots : ~pairs[s].vaild
    BY DEF HashMapInit
  <2> QED
    BY <2>1, LookUpSource
<1>2. HashMapTypeOK /\ Reachable /\ [HashMapNext]_pairs => [Map!Next]_LookUps
  <2> SUFFICES ASSUME HashMapTypeOK, Reachable, [HashMapNext]_pairs
               PROVE  [Map!Next]_LookUps
    OBVIOUS
  <2>1. CASE UNCHANGED pairs
    BY <2>1 DEF LookUps, LookUp, maglev_hashmap_get, EndsIn, Stops
  <2>2. ASSUME NEW key \in Flow, NEW pad \in Pad, NEW value \in Flow \cup {NULL},
               NEW s \in Slots, EndsIn(key, pad, s),
               pairs' = [pairs EXCEPT ![s] = Written(@, key, value)]
        PROVE  [Map!Next]_LookUps
    <3>1. Map!Put(LookUps, LookUps')
      BY <2>2, InsertPuts
    <3>2. HashMapTypeOK'
      BY <2>2, BucketsKeep DEF maglev_hashmap_insert
    <3>3. LookUps' \in [Flow -> [Pad -> Flow \cup {NULL}]]
      BY <3>2, LookUpTypeNext DEF LookUps
    <3> QED
      BY <3>1, <3>3 DEF Map!Next, LookUps
  <2> QED
    BY <2>1, <2>2 DEF HashMapNext, maglev_hashmap_insert
<1> QED
  BY <1>1, <1>2, HashMapTypeCorrect, ReachableInvariant, PTL
     DEF HashMapSpec, RefinesFlowMap, Map!Spec, LookUps
=============================================================================
