-------------------------- MODULE MaglevLutProofs --------------------------
(***************************************************************************)
(* The filling of the Maglev lookup table, for any number of backends, any *)
(* prime table size and any offsets and skips: types, the balance of the   *)
(* shares, and that no backend runs past the end of its permutation.       *)
(***************************************************************************)
EXTENDS MaglevLut, FiniteSetTheorems, TLAPS

Taken == {e \in Entry : lut[e] # -1}

\* The backends before the one whose turn it is are one entry ahead, and n
\* counts the entries taken.
Turns ==
  /\ \E k \in Nat : \A b \in Backend : Share(b) = IF b < i THEN k + 1 ELSE k
  /\ n = Cardinality(Taken)

IInv == TypeOK /\ skip \in [Backend -> Entry \ {0}] /\ NothingPassedOver /\ Turns

-----------------------------------------------------------------------------
\* Remainders.
LEMMA ModRange == ASSUME NEW m \in Nat \ {0}, NEW a \in Nat PROVE a % m \in 0 .. m - 1
OBVIOUS

\* The turn goes round.
LEMMA NextTurn ==
  ASSUME TypeOK
  PROVE  (i + 1) % Nodes = IF i + 1 = Nodes THEN 0 ELSE i + 1
<1>1. i \in 0 .. Nodes - 1 /\ Nodes \in Nat \ {0}
  BY MaglevLutAssumption DEF TypeOK, Backend
<1>2. \A m \in Nat \ {0} : m % m = 0
  OBVIOUS
<1>3. \A m \in Nat \ {0} : \A a \in 0 .. m - 1 : a % m = a
  OBVIOUS
<1> QED
  BY <1>1, <1>2, <1>3

\* Numbers with the same remainder differ by a multiple.
LEMMA SameRemainder ==
  ASSUME NEW m \in Nat \ {0}, NEW x \in Nat, NEW y \in Nat, x % m = y % m
  PROVE  (y - x) % m = 0
<1> DEFINE q == (y \div m) - (x \div m)
<1>1. x = m * (x \div m) + (x % m) /\ x \div m \in Int
  OBVIOUS
<1>2. y = m * (y \div m) + (y % m) /\ y \div m \in Int
  OBVIOUS
<1>3. q \in Int /\ y - x = m * q
  BY <1>1, <1>2
<1>4. \A k \in Int : (m * k) % m = 0
  OBVIOUS
<1> QED
  BY <1>3, <1>4

\* A permutation's entries are entries of the table.
LEMMA PermutationType ==
  ASSUME TypeOK, NEW b \in Backend, NEW j \in Nat
  PROVE  get_permutation(b, j) \in Entry
<1>1. offset[b] \in Nat /\ skip[b] \in Nat
  BY MaglevLutAssumption DEF TypeOK, Entry
<1>2. j * skip[b] \in Nat
  BY <1>1
<1>3. offset[b] + j * skip[b] \in Nat /\ TABLE_SIZE \in Nat \ {0}
  BY <1>1, <1>2, MaglevLutAssumption
<1> QED
  BY <1>3, ModRange DEF get_permutation, Entry

\* Its first TABLE_SIZE entries are all different.
LEMMA PermutationInjective ==
  ASSUME TypeOK, NEW b \in Backend, skip[b] # 0,
         NEW j \in Entry, NEW k \in Entry, j < k
  PROVE  get_permutation(b, j) # get_permutation(b, k)
<1> DEFINE x == offset[b] + j * skip[b]
           y == offset[b] + k * skip[b]
<1>1. offset[b] \in Nat /\ skip[b] \in 1 .. TABLE_SIZE - 1 /\ TABLE_SIZE \in Nat \ {0}
  BY MaglevLutAssumption DEF TypeOK, Entry
<1>2. j \in Nat /\ k \in Nat /\ k - j \in 1 .. TABLE_SIZE - 1
  BY MaglevLutAssumption DEF Entry
<1>3. x \in Nat /\ y \in Nat
  BY <1>1, <1>2
<1>4. y - x = (k - j) * skip[b]
  BY <1>1, <1>2
<1>5. (y - x) % TABLE_SIZE # 0
  BY <1>1, <1>2, <1>4, TableSizeIsPrime
<1>6. x % TABLE_SIZE # y % TABLE_SIZE
  BY <1>1, <1>3, <1>5, SameRemainder
<1> QED
  BY <1>6 DEF get_permutation

LEMMA EntryFinite == IsFiniteSet(Entry) /\ Cardinality(Entry) = TABLE_SIZE
<1>1. 0 \in Int /\ TABLE_SIZE - 1 \in Int /\ ~(0 > TABLE_SIZE - 1)
  BY MaglevLutAssumption
<1> QED
  BY <1>1, FS_Interval, MaglevLutAssumption DEF Entry

\* What a permutation passed over in TABLE_SIZE steps is the whole table.
LEMMA PermutationCovers ==
  ASSUME TypeOK, NEW b \in Backend, skip[b] # 0, NEW e \in Entry
  PROVE  \E j \in Entry : get_permutation(b, j) = e
<1> DEFINE f == [j \in Entry |-> get_permutation(b, j)]
<1>1. Entry \subseteq Nat
  BY DEF Entry
<1>2. f \in [Entry -> Entry]
  BY <1>1, PermutationType
<1>3. ASSUME NEW j \in Entry, NEW k \in Entry, f[j] = f[k] PROVE j = k
  <2>1. get_permutation(b, j) = get_permutation(b, k)
    BY <1>3
  <2>2. ~(j < k) /\ ~(k < j)
    BY <2>1, PermutationInjective
  <2> QED
    BY <1>1, <2>2
<1>4. f \in Injection(Entry, Entry)
  BY <1>2, <1>3, Zenon DEF Injection, IsInjective
<1>5. f \in Surjection(Entry, Entry)
  BY <1>4, EntryFinite, FS_Injection
<1> QED
  BY <1>5 DEF Surjection

-----------------------------------------------------------------------------
LEMMA InitInv == Init => IInv
<1> SUFFICES ASSUME Init PROVE IInv
  OBVIOUS
<1>1. TypeOK /\ skip \in [Backend -> Entry \ {0}]
  BY MaglevLutAssumption DEF Init, TypeOK, Backend, Entry
<1>2. NothingPassedOver
  BY DEF Init, NothingPassedOver
<1>3. Taken = {} /\ \A b \in Backend : {e \in Entry : lut[e] = b} = {}
  BY MaglevLutAssumption DEF Init, Taken, Backend
<1>4. \A b \in Backend : Share(b) = 0 /\ ~(b < i)
  <2>1. \A b \in Backend : Share(b) = 0
    BY <1>3, FS_EmptySet, Zenon DEF Share
  <2>2. \A b \in Backend : ~(b < i)
    BY MaglevLutAssumption DEF Init, Backend
  <2> QED
    BY <2>1, <2>2
<1>5. n = Cardinality(Taken)
  BY <1>3, FS_EmptySet DEF Init
<1> QED
  BY <1>1, <1>2, <1>4, <1>5 DEF IInv, Turns

\* A backend passes over an entry: the shares are what they were.
LEMMA SkipStep == IInv /\ Skip => IInv'
<1> SUFFICES ASSUME IInv, Skip PROVE IInv'
  OBVIOUS
<1>1. TypeOK' /\ (skip \in [Backend -> Entry \ {0}])'
  BY DEF IInv, TypeOK, Skip
<1>2. Turns'
  BY DEF IInv, Turns, Skip, Share, Taken
<1>3. NothingPassedOver'
  <2> SUFFICES ASSUME NEW b \in Backend, NEW j \in 0 .. next'[b] - 1
               PROVE  lut[get_permutation(b, j)] # -1
    BY DEF NothingPassedOver, Skip, get_permutation
  <2>1. next[b] \in Nat /\ next'[b] = IF b = i THEN next[b] + 1 ELSE next[b]
    BY DEF IInv, TypeOK, Skip
  <2>2. CASE j \in 0 .. next[b] - 1
    BY <2>2 DEF IInv, NothingPassedOver
  <2>3. CASE b = i /\ j = next[i]
    BY <2>3 DEF Skip, c
  <2> QED
    BY <2>1, <2>2, <2>3
<1> QED
  BY <1>1, <1>2, <1>3 DEF IInv

\* A backend takes a free entry and the turn is the next backend's.
LEMMA TakeStep == IInv /\ Take => IInv'
<1> SUFFICES ASSUME IInv, Take PROVE IInv'
  OBVIOUS
<1>0. TypeOK /\ i \in Backend /\ i \in 0 .. Nodes - 1
  BY DEF IInv, TypeOK, Backend
<1>1. next[i] \in Nat /\ c \in Entry
  BY <1>0, PermutationType DEF TypeOK, c
<1>2. lut[c] = -1
  BY <1>0, <1>1 DEF Take, TypeOK, Backend
<1>3. i' = IF i + 1 = Nodes THEN 0 ELSE i + 1
  BY <1>0, NextTurn DEF Take
<1>4. lut' \in [Entry -> Backend \cup {-1}]
  BY <1>0 DEF Take, TypeOK
<1>5. TypeOK' /\ (skip \in [Backend -> Entry \ {0}])'
  <2>1. i' \in Backend
    BY <1>0, <1>3, MaglevLutAssumption DEF Backend
  <2>2. next' \in [Backend -> Nat] /\ n' \in 0 .. TABLE_SIZE
    BY <1>0, MaglevLutAssumption DEF Take, TypeOK
  <2> QED
    BY <1>4, <2>1, <2>2 DEF IInv, TypeOK, Take
<1>6. \A e \in Entry : lut'[e] = IF e = c THEN i ELSE lut[e]
  BY <1>0, <1>1 DEF Take, TypeOK
<1>7. NothingPassedOver'
  <2> SUFFICES ASSUME NEW b \in Backend, NEW j \in 0 .. next'[b] - 1
               PROVE  lut'[get_permutation(b, j)] # -1
    BY DEF NothingPassedOver, Take, get_permutation
  <2>1. next[b] \in Nat /\ next'[b] = IF b = i THEN next[b] + 1 ELSE next[b]
    BY <1>0 DEF TypeOK, Take
  <2>2. get_permutation(b, j) \in Entry
    BY <1>0, PermutationType
  <2>3. CASE j \in 0 .. next[b] - 1
    BY <1>0, <1>6, <2>2, <2>3 DEF IInv, NothingPassedOver
  <2>4. CASE b = i /\ j = next[i]
    BY <1>0, <1>6, <2>2, <2>4 DEF c
  <2> QED
    BY <2>1, <2>3, <2>4
<1>8. \A b \in Backend : Share(b)' = IF b = i THEN Share(b) + 1 ELSE Share(b)
  <2> SUFFICES ASSUME NEW b \in Backend
               PROVE  Share(b)' = IF b = i THEN Share(b) + 1 ELSE Share(b)
    OBVIOUS
  <2> DEFINE S == {e \in Entry : lut[e] = b}
             T == {e \in Entry : lut'[e] = b}
  <2>1. Share(b) = Cardinality(S) /\ Share(b)' = Cardinality(T)
    BY DEF Share, Entry
  <2>2. IsFiniteSet(S)
    BY EntryFinite, FS_Subset
  <2>3. c \notin S /\ IF b = i THEN T = S \cup {c} ELSE T = S
    BY <1>0, <1>1, <1>2, <1>6 DEF Backend
  <2> HIDE DEF S, T
  <2> QED
    BY <2>1, <2>2, <2>3, FS_AddElement
<1>9. n' = Cardinality(Taken')
  <2>1. IsFiniteSet(Taken)
    BY EntryFinite, FS_Subset DEF Taken
  <2>2. c \notin Taken /\ Taken' = Taken \cup {c}
    BY <1>0, <1>1, <1>2, <1>6 DEF Taken, Backend, Entry
  <2>3. n' = n + 1 /\ n = Cardinality(Taken)
    BY DEF Take, IInv, Turns
  <2> QED
    BY <2>1, <2>2, <2>3, FS_AddElement
<1>10. \E k \in Nat : \A b \in Backend : Share(b)' = IF b < i' THEN k + 1 ELSE k
  <2>1. PICK k \in Nat : \A b \in Backend : Share(b) = IF b < i THEN k + 1 ELSE k
    BY DEF IInv, Turns
  <2>2. \A b \in Backend : b \in 0 .. Nodes - 1 /\ Nodes \in Nat
    BY MaglevLutAssumption DEF Backend
  <2>3. \A b \in Backend : Share(b)' = IF b <= i THEN k + 1 ELSE k
    BY <1>0, <1>8, <2>1, <2>2
  <2>4. CASE i + 1 = Nodes
    <3>1. \A b \in Backend : Share(b)' = k + 1 /\ ~(b < i')
      BY <1>0, <1>3, <2>2, <2>3, <2>4
    <3> QED
      BY <3>1
  <2>5. CASE i + 1 # Nodes
    BY <1>0, <1>3, <2>2, <2>3, <2>5
  <2> QED
    BY <2>4, <2>5
<1> QED
  BY <1>5, <1>7, <1>9, <1>10 DEF IInv, Turns, Backend

LEMMA InvStep == IInv /\ [Next]_vars => IInv'
<1> SUFFICES ASSUME IInv, [Next]_vars PROVE IInv'
  OBVIOUS
<1>1. CASE Skip
  BY <1>1, SkipStep
<1>2. CASE Take
  BY <1>2, TakeStep
<1>3. CASE UNCHANGED vars
  BY <1>3 DEF vars, IInv, TypeOK, NothingPassedOver, Turns, Share, Taken, get_permutation
<1> QED
  BY <1>1, <1>2, <1>3 DEF Next

LEMMA SpecInv == Spec => []IInv
BY InitInv, InvStep, PTL DEF Spec

-----------------------------------------------------------------------------
\* What the table and the backends' places in it can be, while it is filled.
THEOREM TypeCorrect == Spec => []TypeOK
<1>1. IInv => TypeOK
  BY DEF IInv
<1> QED
  BY <1>1, SpecInv, PTL

\* A backend never leaves an entry of its permutation free that it comes to
\* in its turn: all that it is past are taken.
THEOREM FirstFreeTaken == Spec => []NothingPassedOver
<1>1. IInv => NothingPassedOver
  BY DEF IInv
<1> QED
  BY <1>1, SpecInv, PTL

\* populate_lut gives every backend the same number of entries but for one,
\* at every moment, and leaves no entry free when it returns.
THEOREM SharesBalanced == Spec => []Balanced
<1>1. ASSUME IInv PROVE Balanced
  <2>1. ASSUME NEW a \in Backend, NEW b \in Backend PROVE Share(a) =< Share(b) + 1
    <3>1. PICK k \in Nat : \A d \in Backend : Share(d) = IF d < i THEN k + 1 ELSE k
      BY <1>1 DEF IInv, Turns
    <3>2. Share(a) \in k .. k + 1 /\ Share(b) \in k .. k + 1
      BY <3>1
    <3> QED
      BY <3>2
  <2>2. ASSUME n = TABLE_SIZE PROVE \A e \in Entry : lut[e] # -1
    <3>1. Taken \in SUBSET Entry /\ Cardinality(Taken) = Cardinality(Entry)
      BY <1>1, <2>2, EntryFinite DEF Taken, IInv, Turns
    <3>2. Taken = Entry
      BY <3>1, EntryFinite, FS_Subset
    <3> QED
      BY <3>2 DEF Taken
  <2> QED
    BY <2>1, <2>2 DEF Balanced
<1> QED
  BY <1>1, SpecInv, PTL

\* While an entry is free no backend looks past the TABLE_SIZE entries of its
\* permutation, the length of the array maglev.rs keeps it in: by then it
\* would have passed over the whole table.
THEOREM PermutationEnough == Spec => []WithinPermutation
<1>1. ASSUME IInv PROVE WithinPermutation
  <2> SUFFICES ASSUME n < TABLE_SIZE, ~(next[i] < TABLE_SIZE) PROVE FALSE
    BY DEF WithinPermutation
  <2>1. TypeOK /\ i \in Backend /\ skip[i] # 0 /\ next[i] \in Nat /\ TABLE_SIZE \in Nat
    BY <1>1, MaglevLutAssumption DEF IInv, TypeOK
  <2>2. ASSUME NEW e \in Entry PROVE lut[e] # -1
    <3>1. PICK j \in Entry : get_permutation(i, j) = e
      BY <2>1, PermutationCovers
    <3>2. j \in 0 .. next[i] - 1
      BY <2>1 DEF Entry
    <3> QED
      BY <1>1, <2>1, <3>1, <3>2 DEF IInv, NothingPassedOver
  <2>3. Taken = Entry
    BY <2>2 DEF Taken
  <2> QED
    BY <1>1, <2>1, <2>3, EntryFinite DEF IInv, Turns
<1> QED
  BY <1>1, SpecInv, PTL
=============================================================================
