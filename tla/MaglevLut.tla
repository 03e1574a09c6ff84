----------------------------- MODULE MaglevLut -----------------------------
(***************************************************************************)
(* populate_lut (maglev.c) and Maglev::populate (maglev.rs): the filling   *)
(* of the Maglev lookup table.  The backends take turns; in its turn a     *)
(* backend takes the first free entry of its permutation, which starts at  *)
(* its offset and goes on in steps of its skip.  Offset and skip come from *)
(* hashes of the backend: any values the code's moduli let through.  In C  *)
(* that includes a skip of zero, which hash_offset_skip of maglev.rs rules *)
(* out and none of the three backends has (27606, 47859 and 59205).        *)
(***************************************************************************)
EXTENDS Integers, FiniteSets

CONSTANTS Nodes,       \* how many backends there are, 3 in nf4
          TABLE_SIZE   \* 65537, a prime

ASSUME MaglevLutAssumption ==
  /\ Nodes \in Nat \ {0}
  /\ TABLE_SIZE \in Nat \ {0, 1}

\* TABLE_SIZE is a prime: it divides no product of two smaller numbers.
ASSUME TableSizeIsPrime ==
  \A a, b \in 1 .. TABLE_SIZE - 1 : (a * b) % TABLE_SIZE # 0

VARIABLES offset, skip,   \* of each backend
          lut,            \* the backend of each entry, -1 where it is free
          next,           \* how far each backend is in its permutation
          i,              \* the backend whose turn it is
          n               \* entries taken

vars == <<offset, skip, lut, next, i, n>>

Backend == 0 .. Nodes - 1
Entry == 0 .. TABLE_SIZE - 1

\* j-th entry of a backend's permutation.
get_permutation(b, j) == (offset[b] + j * skip[b]) % TABLE_SIZE

\* Mutant: skips as the modulus of maglev.c lets through.
InitAnySkip ==
  /\ offset \in [Backend -> Entry]
  /\ skip \in [Backend -> Entry]
  /\ lut = [e \in Entry |-> -1]
  /\ next = [b \in Backend |-> 0]
  /\ i = 0
  /\ n = 0

Init ==
  /\ offset \in [Backend -> Entry]
  /\ skip \in [Backend -> Entry \ {0}]
  /\ lut = [e \in Entry |-> -1]
  /\ next = [b \in Backend |-> 0]
  /\ i = 0
  /\ n = 0

\* The entry backend i is looking at.
c == get_permutation(i, next[i])

\* Mutant: a taken entry hands the turn to the next backend.
PassTurn ==
  /\ n < TABLE_SIZE /\ lut[c] >= 0
  /\ next' = [next EXCEPT ![i] = @ + 1]
  /\ i' = (i + 1) % Nodes
  /\ UNCHANGED <<offset, skip, lut, n>>

\* Mutant: the inner loop looks at the same entry again.
SkipNothing ==
  /\ n < TABLE_SIZE /\ lut[c] >= 0
  /\ UNCHANGED vars

\* The inner loop: the entry is taken.
Skip ==
  /\ n < TABLE_SIZE /\ lut[c] >= 0
  /\ next' = [next EXCEPT ![i] = @ + 1]
  /\ UNCHANGED <<offset, skip, lut, i, n>>

\* Mutant: the search of the next turn starts after an entry too many.
TakeAndSkip ==
  /\ n < TABLE_SIZE /\ lut[c] < 0
  /\ lut' = [lut EXCEPT ![c] = i]
  /\ next' = [next EXCEPT ![i] = @ + 2]
  /\ n' = n + 1
  /\ i' = (i + 1) % Nodes
  /\ UNCHANGED <<offset, skip>>

\* Mutant: after the last backend the turn is not the first one's again.
TakeWithoutTurn ==
  /\ n < TABLE_SIZE /\ lut[c] < 0
  /\ lut' = [lut EXCEPT ![c] = i]
  /\ next' = [next EXCEPT ![i] = @ + 1]
  /\ n' = n + 1
  /\ i' = i + 1
  /\ UNCHANGED <<offset, skip>>

\* The end of a turn: the entry is free and the backend takes it.  The code
\* returns when the last entry is taken.
Take ==
  /\ n < TABLE_SIZE /\ lut[c] < 0
  /\ lut' = [lut EXCEPT ![c] = i]
  /\ next' = [next EXCEPT ![i] = @ + 1]
  /\ n' = n + 1
  /\ i' = (i + 1) % Nodes
  /\ UNCHANGED <<offset, skip>>

Next == Skip \/ Take

Spec == Init /\ [][Next]_vars /\ WF_vars(Next)

-----------------------------------------------------------------------------
Share(b) == Cardinality({e \in Entry : lut[e] = b})

TypeOK ==
  /\ offset \in [Backend -> Entry] /\ skip \in [Backend -> Entry]
  /\ lut \in [Entry -> Backend \cup {-1}]
  /\ next \in [Backend -> Nat]
  /\ i \in Backend /\ n \in 0 .. TABLE_SIZE

\* "Eisenbud 3.4": the backends' shares of the table differ by one entry at
\* most, at every moment, and the table is full when the filling ends.
Balanced ==
  /\ \A a, b \in Backend : Share(a) =< Share(b) + 1
  /\ n = TABLE_SIZE => \A e \in Entry : lut[e] # -1

\* No backend is at an entry past the end of its permutation, which in
\* maglev.rs is an array of TABLE_SIZE entries.
WithinPermutation == n < TABLE_SIZE => next[i] < TABLE_SIZE

\* Each backend has what its permutation puts first: every entry it passed
\* over was taken when it did, and is some backend's still.
NothingPassedOver ==
  \A b \in Backend : \A j \in 0 .. next[b] - 1 : lut[get_permutation(b, j)] # -1

\* The filling ends, whatever the offsets and the skips.
Fills == <>(n = TABLE_SIZE)
=============================================================================
