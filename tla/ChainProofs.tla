---------------------------- MODULE ChainProofs ----------------------------
(***************************************************************************)
(* The chain of functions on any number of lcores: the copies that are     *)
(* loaded (LoadInv); whose frames an lcore may find behind the addresses   *)
(* of the shared array, and what has become of the frames of a batch that  *)
(* is alone (RunInv); that lcores are in the chain one at a time as long   *)
(* as none has overlapped (OneInv); and the caches of the ACL (CacheInv).  *)
(***************************************************************************)
EXTENDS Chain, FiniteSetTheorems, TLAPS

\* Lcore c has loaded all functions, or has loaded function k, or has left
\* its domain again.
Ready(c) == pc[c] \in {"idle", "fetch", "work"}
Holds(c, k) == Ready(c) \/ nf[c] > k \/ (nf[c] = k /\ pc[c] = "leave")
Entered(c, k) == Ready(c) \/ nf[c] > k
Loaded(k) == {c \in Lcore : Holds(c, k)}

\* Each lcore loads a function once, so that there are no more copies than
\* lcores; and a function runs only where its entry point is set.
LoadInv ==
  /\ LoadType
  /\ \A k \in Nf : copies[k] = Cardinality(Loaded(k))
  /\ \A c \in Lcore : pc[c] = "leave" => elf_a[c] # 0
  /\ \A c \in Lcore, k \in Nf : Entered(c, k) => entry[k] # 0

CacheType ==
  /\ DOMAIN cache = Copy
  /\ \A n \in Copy : cache[n] \subseteq Flow \X Pad /\ Cardinality(cache[n]) =< CAPACITY

TypeInv == RunType /\ FrameType /\ HistoryType /\ CacheType

InChain(c) == pc[c] \in {"fetch", "work"}

\* A frame that lcore c may write to: its own, or that of another lcore when
\* neither batch was alone.
Reaches(c, a) ==
  /\ a \in Address
  /\ a[1] = c \/ (~alone[a[1]] /\ ~alone[c])

\* Function k is done with frame n of lcore c's batch.
Passed(c, k, n) == pc[c] = "idle" \/ nf[c] > k \/ (nf[c] = k /\ i[c] > n)

\* What has become of frame n.
Aged(c, n) ==
  frame[c][n].time_to_live =
    IF Passed(c, 1, n) /\ came[c][n].kind # "other"
    THEN (came[c][n].time_to_live + 255) % 256
    ELSE came[c][n].time_to_live
Turned(c, n) ==
  frame[c][n].mac = IF Passed(c, 4, n) THEN ~came[c][n].mac ELSE came[c][n].mac
Served(c, n) ==
  /\ frame[c][n].kind = came[c][n].kind /\ Aged(c, n) /\ Turned(c, n)
  /\ n \notin Headed(c) => frame[c][n].flow = came[c][n].flow

\* Lcore c finds its own frames in the array, in their order.
Own(c) ==
  /\ \A n \in 1 .. num[c] : eth_hdrs_burst[n] = <<c, n>>
  /\ pc[c] = "work" => at[c] = <<c, i[c]>> /\ seen[c] = frame[c][i[c]]
  /\ nf[c] \in {2, 3} => \A m \in Burst : m < i[c] => came[c][m].kind = "udp"

Bounded(c) ==
  /\ i[c] =< num[c]
  /\ \A n \in 1 .. num[c] : Reaches(c, eth_hdrs_burst[n])
  /\ pc[c] = "work" => Reaches(c, at[c])
  /\ nf[c] \in {3, 4} => copy[c] # 0

Lone(c) ==
  /\ InChain(c) => Own(c)
  /\ \A n \in 1 .. num[c] : Served(c, n)

Runs(c) ==
  /\ ~Ready(c) => num[c] = 0
  /\ InChain(c) => Bounded(c)
  /\ alone[c] => Lone(c)
RunInv == \A c \in Lcore : Runs(c)

OneInv ==
  ~overlapped => /\ \A c \in Lcore : alone[c]
                 /\ \A c, d \in Lcore : InChain(c) /\ InChain(d) => c = d

\* Flow f is remembered by copy k of the ACL, or it cannot be for want of room.
Knows(k, f) == \E p \in Pad : <<f, p>> \in cache[k]
Kept(k, f) == k \in Copy /\ (Knows(k, f) \/ Cardinality(cache[k]) >= CAPACITY)

\* Flow f left through copy k, or is about to.
SentBy(k, f) == \E q \in sent : q.acl = k /\ q.out = f
Through(c, k, f) ==
  InChain(c) /\ copy[c] = k /\ \E n \in Headed(c) : Passed(c, 3, n) /\ frame[c][n].flow = f

Heard(c) ==
  InChain(c) /\ alone[c] =>
    \A n \in Headed(c) : Passed(c, 3, n) => Kept(copy[c], frame[c][n].flow)
CacheInv ==
  /\ \A q \in sent : Kept(q.acl, q.out)
  /\ \A c \in Lcore : Heard(c)
  /\ ~overlapped =>
       \A k \in Copy : \A f \in Flow :
         Knows(k, f) => SentBy(k, f) \/ \E c \in Lcore : Through(c, k, f)

-----------------------------------------------------------------------------
LEMMA Sizes ==
  /\ IsFiniteSet(Lcore) /\ Cardinality(Lcore) \in Nat
  /\ BATCH_SIZE \in Nat \ {0} /\ CAPACITY \in Nat /\ MaxCalls \in Nat
BY ChainAssumption, FS_CardinalityType

LEMMA UnreadIs == Unread \in WireFrame /\ Unread \in Frame /\ WireFrame \subseteq Frame
<1>1. \E f \in WireFrame : TRUE
  BY ChainAssumption
<1> QED
  BY <1>1, ChainAssumption DEF Unread

LEMMA LoadedFinite ==
  ASSUME NEW k
  PROVE  /\ IsFiniteSet(Loaded(k)) /\ Cardinality(Loaded(k)) \in Nat
         /\ Cardinality(Loaded(k)) =< Cardinality(Lcore)
<1>1. Loaded(k) \in SUBSET Lcore
  BY DEF Loaded
<1> QED
  BY <1>1, Sizes, FS_Subset, FS_CardinalityType

LEMMA LoadInit == Init => LoadInv
<1> SUFFICES ASSUME Init PROVE LoadInv
  OBVIOUS
<1>1. LoadType
  BY Sizes DEF Init, LoadType
<1>4. \A c \in Lcore, k \in Nf : ~Holds(c, k) /\ ~Entered(c, k)
  BY DEF Init, Holds, Entered, Ready, Nf
<1>5. \A k \in Nf : Loaded(k) = {}
  BY <1>4 DEF Loaded
<1>6. \A k \in Nf : copies[k] = Cardinality(Loaded(k))
  BY <1>5, FS_EmptySet DEF Init
<1> QED
  BY <1>1, <1>4, <1>6 DEF LoadInv, Init

LEMMA LoadLoaded ==
  ASSUME LoadInv, RunType, NEW c \in Lcore, Load(c)
  PROVE  LoadInv'
<1>0. LoadType
  BY DEF LoadInv
<1>1. PICK k \in Nf : k = nf[c] /\ k \in Nat /\ copies[k] \in Nat
  BY <1>0 DEF LoadType, RunType, Nf
<1>2. c \notin Loaded(k)
  BY <1>1 DEF Load, Loaded, Holds, Ready
<1>3. \A d \in Lcore, j \in Nf : Holds(d, j)' <=> Holds(d, j) \/ (d = c /\ j = k)
  BY <1>0, <1>1 DEF Load, Holds, Ready, RunType
<1>4. \A j \in Nf : Loaded(j)' = IF j = k THEN Loaded(j) \cup {c} ELSE Loaded(j)
  BY <1>3 DEF Loaded
<1>5. Cardinality(Loaded(k) \cup {c}) = Cardinality(Loaded(k)) + 1
  BY <1>2, LoadedFinite, FS_AddElement
<1>6. copies' = [copies EXCEPT ![k] = @ + 1] /\ copies[k] = Cardinality(Loaded(k))
  BY <1>1 DEF Load, LoadInv
<1>14. elf_a' = [elf_a EXCEPT ![c] = copies'[k]]
  BY <1>1 DEF Load
<1>7. \A j \in Nf : copies'[j] = Cardinality(Loaded(j)')
  <2>1. copies'[k] = Cardinality(Loaded(k)')
    BY <1>0, <1>1, <1>4, <1>5, <1>6 DEF LoadType
  <2>2. \A j \in Nf : j # k => copies'[j] = Cardinality(Loaded(j)')
    BY <1>0, <1>4, <1>6 DEF LoadType, LoadInv
  <2> QED
    BY <2>1, <2>2
<1>8. copies'[k] \in 0 .. Cardinality(Lcore) /\ copies'[k] # 0
  <2>1. Loaded(k) \cup {c} \in SUBSET Lcore
    BY DEF Loaded
  <2>2. Cardinality(Loaded(k) \cup {c}) =< Cardinality(Lcore)
    BY <2>1, Sizes, FS_Subset
  <2> QED
    BY <1>0, <1>1, <1>5, <1>6, <2>2, Sizes DEF LoadType
<1>9. LoadType'
  <2>1. copies' \in [Nf -> 0 .. Cardinality(Lcore)]
    BY <1>0, <1>6, <1>8 DEF LoadType
  <2>2. elf_a' \in [Lcore -> 0 .. Cardinality(Lcore)]
    BY <1>0, <1>8, <1>14 DEF LoadType
  <2>3. CURRENT_DOM' \in 0 .. 4 /\ entry' = entry
    BY <1>1 DEF Load, Nf
  <2> QED
    BY <1>0, <2>1, <2>2, <2>3 DEF LoadType
<1>11. \A d \in Lcore : pc'[d] = "leave" => elf_a'[d] # 0
  <2>1. elf_a'[c] # 0
    BY <1>0, <1>8, <1>14 DEF LoadType
  <2>2. \A d \in Lcore : d # c => elf_a'[d] = elf_a[d] /\ pc'[d] = pc[d]
    BY <1>0 DEF Load, LoadType, RunType
  <2> QED
    BY <2>1, <2>2 DEF LoadInv
<1>12. \A d \in Lcore, j \in Nf : Entered(d, j)' => Entered(d, j)
  BY <1>0, <1>1 DEF Load, Entered, Ready, RunType
<1>13. entry' = entry
  BY DEF Load
<1> QED
  BY <1>7, <1>9, <1>11, <1>12, <1>13 DEF LoadInv

LEMMA LeaveLoaded ==
  ASSUME LoadInv, RunType, NEW c \in Lcore, LeaveDomain(c)
  PROVE  LoadInv'
<1>0. LoadType
  BY DEF LoadInv
<1>1. PICK k \in Nf : k = nf[c] /\ k \in Nat /\ pc[c] = "leave" /\ elf_a[c] # 0
  BY <1>0 DEF LeaveDomain, LoadInv, RunType, Nf
<1>2. /\ entry' = [entry EXCEPT ![k] = elf_a[c]] /\ elf_a' = [elf_a EXCEPT ![c] = 0]
      /\ copies' = copies /\ CURRENT_DOM' = 0
  BY <1>1 DEF LeaveDomain
<1>3. \/ k = 4 /\ pc' = [pc EXCEPT ![c] = "idle"] /\ nf' = nf
      \/ k # 4 /\ pc' = [pc EXCEPT ![c] = "load"] /\ nf' = [nf EXCEPT ![c] = k + 1]
  BY <1>1 DEF LeaveDomain
<1>4. LoadType'
  BY <1>0, <1>1, <1>2, Sizes DEF LoadType
<1>7. /\ \A d \in Lcore : d # c => pc'[d] = pc[d] /\ nf'[d] = nf[d] /\ elf_a'[d] = elf_a[d]
      /\ k = 4 => pc'[c] = "idle" /\ nf'[c] = 4
      /\ k # 4 => pc'[c] = "load" /\ nf'[c] = k + 1
  BY <1>0, <1>1, <1>2, <1>3 DEF LoadType, RunType
<1>8. \A j \in Nf : (j > k \/ j = k \/ k > j) /\ (k + 1 > j <=> k > j \/ k = j)
                    /\ (k = 4 => k > j \/ k = j)
  BY <1>1 DEF Nf
<1>9. \A j \in Nf : Holds(c, j)' <=> Holds(c, j)
  BY <1>1, <1>7, <1>8 DEF Holds, Ready, Nf
<1>10. \A d \in Lcore, j \in Nf : Holds(d, j)' <=> Holds(d, j)
  BY <1>7, <1>9 DEF Holds, Ready
<1>11. \A j \in Nf : Loaded(j)' = Loaded(j)
  BY <1>10 DEF Loaded
<1>12. \A d \in Lcore : pc'[d] = "leave" => elf_a'[d] # 0
  BY <1>7 DEF LoadInv
<1>13. \A d \in Lcore, j \in Nf : Entered(d, j)' => entry'[j] # 0
  <2>1. entry'[k] # 0 /\ \A j \in Nf : j # k => entry'[j] = entry[j]
    BY <1>0, <1>1, <1>2 DEF LoadType
  <2>2. \A j \in Nf : Entered(c, j)' => Entered(c, j) \/ j = k
    BY <1>1, <1>7, <1>8 DEF Entered, Ready
  <2>3. \A d \in Lcore, j \in Nf : d # c => (Entered(d, j)' <=> Entered(d, j))
    BY <1>7 DEF Entered, Ready
  <2> QED
    BY <2>1, <2>2, <2>3 DEF LoadInv
<1> QED
  BY <1>2, <1>4, <1>11, <1>12, <1>13 DEF LoadInv

\* Once all functions are loaded an lcore changes nothing of this.
LEMMA StillLoaded ==
  ASSUME LoadInv, UNCHANGED loading,
         \A d \in Lcore : /\ Ready(d)' <=> Ready(d)
                          /\ ~Ready(d) => pc'[d] = pc[d] /\ nf'[d] = nf[d]
  PROVE  LoadInv'
<1>1. UNCHANGED <<CURRENT_DOM, entry, copies, elf_a>>
  BY DEF loading
<1>2. \A d \in Lcore, j \in Nf : (Holds(d, j)' <=> Holds(d, j))
                                 /\ (Entered(d, j)' <=> Entered(d, j))
  BY DEF Holds, Entered
<1>3. \A j \in Nf : Loaded(j)' = Loaded(j)
  BY <1>2 DEF Loaded
<1>4. \A d \in Lcore : pc'[d] = "leave" => pc[d] = "leave"
  BY DEF Ready
<1> QED
  BY <1>1, <1>2, <1>3, <1>4 DEF LoadInv, LoadType

-----------------------------------------------------------------------------
LEMMA Cells ==
  ASSUME TypeInv, NEW c \in Lcore
  PROVE  /\ num[c] \in 0 .. BATCH_SIZE /\ num[c] \in Nat /\ i[c] \in Burst /\ i[c] \in Nat
         /\ 1 .. num[c] \subseteq Burst /\ Headed(c) \subseteq 1 .. num[c] /\ nf[c] \in Nf
         /\ copy[c] \in 0 .. Cardinality(Lcore) /\ alone[c] \in BOOLEAN
         /\ \A n \in Burst : frame[c][n] \in Frame /\ came[c][n] \in Frame /\ n \in Nat
         /\ seen[c] \in Frame
<1>1. /\ num[c] \in 0 .. BATCH_SIZE /\ i[c] \in Burst /\ BATCH_SIZE \in Nat /\ nf[c] \in Nf
      /\ seen[c] \in Frame /\ alone[c] \in BOOLEAN /\ copy[c] \in 0 .. Cardinality(Lcore)
  BY Sizes DEF TypeInv, RunType, FrameType, HistoryType
<1>2. \A n \in Burst : frame[c][n] \in Frame /\ came[c][n] \in Frame
  BY UnreadIs DEF TypeInv, FrameType
<1> QED
  BY <1>1, <1>2 DEF Burst, Headed

LEMMA FrameParts ==
  ASSUME NEW x \in Frame
  PROVE  x.kind \in Kind /\ x.flow \in Flow /\ x.time_to_live \in 0 .. 255 /\ x.mac \in BOOLEAN
BY DEF Frame

\* The other lcores stay where they are.
Apart(c) ==
  \A d \in Lcore : d # c =>
    /\ pc'[d] = pc[d] /\ nf'[d] = nf[d] /\ i'[d] = i[d] /\ copy'[d] = copy[d]
    /\ at'[d] = at[d] /\ seen'[d] = seen[d]

\* The three ways on from a frame.
NextFrame(c) ==
  /\ pc'[c] = "fetch" /\ nf'[c] = nf[c] /\ i'[c] = i[c] + 1 /\ i[c] < num[c]
  /\ copy'[c] = copy[c] /\ sent' = sent
NextFunction(c) ==
  /\ pc'[c] = "fetch" /\ nf[c] # 4 /\ nf'[c] = nf[c] + 1 /\ i'[c] = 1
  /\ copy'[c] = IF nf[c] = 2 THEN entry[3] ELSE copy[c]
  /\ sent' = sent
GoOut(c) ==
  /\ pc'[c] = "idle" /\ nf[c] = 4 /\ nf'[c] = 4 /\ copy'[c] = copy[c]
  /\ sent' = IF alone[c]
             THEN sent \cup {[out |-> frame[c][n].flow, acl |-> copy[c]] : n \in Headed(c)}
             ELSE sent

Lasting == <<loading, eth_hdrs_burst, num, came, alone, overlapped>>

LEMMA InOrder == \A k \in Nf : run_nfs[k] = k
<1>1. \A k \in Nf : k \in {1, 2, 3, 4}
  BY DEF Nf
<1> QED
  BY <1>1 DEF run_nfs

LEMMA Entering ==
  ASSUME TypeInv, LoadInv, NEW c \in Lcore, NEW k \in Nf, Enter(c, k)
  PROVE  /\ pc'[c] = "fetch" /\ nf'[c] = k /\ i'[c] = 1
         /\ copy'[c] = IF k = 3 THEN entry[3] ELSE copy[c]
         /\ \A d \in Lcore : d # c => /\ pc'[d] = pc[d] /\ nf'[d] = nf[d]
                                      /\ i'[d] = i[d] /\ copy'[d] = copy[d]
         /\ pc' \in [Lcore -> {"load", "leave", "idle", "fetch", "work"}]
         /\ nf' \in [Lcore -> Nf] /\ i' \in [Lcore -> Burst]
         /\ copy' \in [Lcore -> 0 .. Cardinality(Lcore)]
<1>1. RunType /\ LoadType /\ 3 \in Nf /\ 1 \in Burst
  BY Sizes DEF TypeInv, LoadInv, Nf, Burst
<1>2. entry[3] \in 0 .. Cardinality(Lcore)
  BY <1>1 DEF LoadType
<1>3. /\ nf' = [nf EXCEPT ![c] = k] /\ i' = [i EXCEPT ![c] = 1]
      /\ pc' = [pc EXCEPT ![c] = "fetch"]
      /\ copy' = IF k = 3 THEN [copy EXCEPT ![c] = entry[3]] ELSE copy
  BY InOrder DEF Enter
<1> QED
  BY <1>1, <1>2, <1>3 DEF RunType

\* What is sent is typed.
LEMMA SentTyped ==
  ASSUME TypeInv, NEW c \in Lcore,
         sent' = IF alone[c]
                 THEN sent \cup {[out |-> frame[c][n].flow, acl |-> copy[c]] : n \in Headed(c)}
                 ELSE sent
  PROVE  sent' \subseteq [out: Flow, acl: 0 .. Cardinality(Lcore)]
<1>1. sent \subseteq [out: Flow, acl: 0 .. Cardinality(Lcore)]
  BY DEF TypeInv, HistoryType
<1>2. \A n \in Headed(c) : frame[c][n].flow \in Flow
  BY Cells, FrameParts
<1>3. copy[c] \in 0 .. Cardinality(Lcore)
  BY Cells
<1>4. {[out |-> frame[c][n].flow, acl |-> copy[c]] : n \in Headed(c)}
        \subseteq [out: Flow, acl: 0 .. Cardinality(Lcore)]
  BY <1>2, <1>3
<1> QED
  BY <1>1, <1>4

LEMMA Returning ==
  ASSUME TypeInv, LoadInv, NEW c \in Lcore, Return(c), Forget(c), pc[c] = "work"
  PROVE  /\ NextFunction(c) \/ GoOut(c)
         /\ RunType' /\ HistoryType'
<1>0. RunType /\ nf[c] \in Nf /\ calls' = calls /\ alone' = alone /\ overlapped' = overlapped
  BY Cells DEF TypeInv, Forget
<1>1. CASE nf[c] # 4 /\ Enter(c, nf[c] + 1) /\ UNCHANGED sent
  <2>1. PICK k \in Nf : k = nf[c] + 1
    BY <1>0, <1>1 DEF Nf
  <2>2. Enter(c, k)
    BY <1>1, <2>1
  <2>3. nf[c] \in Int
    BY <1>0 DEF Nf
  <2>4. NextFunction(c)
    BY <1>1, <2>1, <2>2, <2>3, Entering DEF NextFunction
  <2>5. RunType'
    BY <1>0, <2>2, Entering DEF RunType
  <2> QED
    BY <1>0, <1>1, <2>4, <2>5 DEF TypeInv, HistoryType
<1>2. CASE /\ nf[c] = 4 /\ pc' = [pc EXCEPT ![c] = "idle"]
           /\ sent' = IF alone[c]
                      THEN sent \cup
                             {[out |-> frame[c][n].flow, acl |-> copy[c]] : n \in Headed(c)}
                      ELSE sent
           /\ UNCHANGED <<nf, i, copy>>
  <2>1. GoOut(c)
    BY <1>0, <1>2 DEF GoOut, RunType
  <2>2. RunType'
    BY <1>0, <1>2 DEF RunType
  <2>3. HistoryType'
    BY <1>0, <1>2, SentTyped DEF TypeInv, HistoryType
  <2> QED
    BY <2>1, <2>2, <2>3
<1> QED
  BY <1>1, <1>2 DEF Return

LEMMA Forgetting ==
  ASSUME TypeInv, NEW c \in Lcore, Forget(c)
  PROVE  /\ UNCHANGED Lasting
         /\ \A d \in Lcore : d # c => at'[d] = at[d] /\ seen'[d] = seen[d]
         /\ frame' \in [Lcore -> [Burst -> Frame]] => FrameType'
<1>1. /\ at' = [at EXCEPT ![c] = NULL] /\ seen' = [seen EXCEPT ![c] = Unread]
      /\ UNCHANGED <<loading, calls, eth_hdrs_burst, num, came, alone, overlapped>>
  BY DEF Forget
<1>2. FrameType
  BY DEF TypeInv
<1>3. UNCHANGED Lasting
  BY <1>1 DEF Lasting
<1>4. /\ at' \in [Lcore -> Address \cup {NULL}] /\ seen' \in [Lcore -> Frame]
      /\ \A d \in Lcore : d # c => at'[d] = at[d] /\ seen'[d] = seen[d]
  BY <1>1, <1>2, UnreadIs DEF FrameType
<1>5. frame' \in [Lcore -> [Burst -> Frame]] => FrameType'
  BY <1>1, <1>2, <1>4 DEF FrameType
<1> QED
  BY <1>3, <1>4, <1>5

LEMMA ReturnApart ==
  ASSUME TypeInv, LoadInv, NEW c \in Lcore, Return(c), Forget(c)
  PROVE  Apart(c)
<1>0. RunType /\ nf[c] \in Nf
  BY Cells DEF TypeInv
<1>1. \A d \in Lcore : d # c => at'[d] = at[d] /\ seen'[d] = seen[d]
  BY Forgetting
<1>2. \A d \in Lcore : d # c => /\ pc'[d] = pc[d] /\ nf'[d] = nf[d]
                                /\ i'[d] = i[d] /\ copy'[d] = copy[d]
  <2>1. CASE nf[c] # 4 /\ Enter(c, nf[c] + 1)
    <3>1. PICK k \in Nf : k = nf[c] + 1
      BY <1>0, <2>1 DEF Nf
    <3>2. Enter(c, k)
      BY <2>1, <3>1
    <3> QED
      BY <3>2, Entering
  <2>2. CASE pc' = [pc EXCEPT ![c] = "idle"] /\ UNCHANGED <<nf, i, copy>>
    BY <1>0, <2>2 DEF RunType
  <2> QED
    BY <2>1, <2>2 DEF Return
<1> QED
  BY <1>1, <1>2 DEF Apart

LEMMA Worked ==
  ASSUME TypeInv, LoadInv, NEW c \in Lcore, NEW k \in Nf, Works(c, k)
  PROVE  /\ pc[c] = "work" /\ nf[c] = k /\ Apart(c) /\ UNCHANGED Lasting
         /\ NextFrame(c) \/ (~(i[c] < num[c]) /\ (NextFunction(c) \/ GoOut(c)))
         /\ RunType' /\ HistoryType'
         /\ frame' \in [Lcore -> [Burst -> Frame]] => FrameType'
<1>0. /\ RunType /\ pc[c] = "work" /\ nf[c] = k /\ Forget(c)
  BY Cells, InOrder DEF TypeInv, Works
<1>1. UNCHANGED Lasting /\ (frame' \in [Lcore -> [Burst -> Frame]] => FrameType')
  BY <1>0, Forgetting
<1>2. CASE i[c] < num[c]
  <2>1. /\ i' = [i EXCEPT ![c] = i[c] + 1] /\ pc' = [pc EXCEPT ![c] = "fetch"]
        /\ UNCHANGED <<nf, copy, sent>>
    BY <1>2 DEF Works
  <2>2. i[c] + 1 \in Burst
    BY <1>2, Cells, Sizes DEF Burst
  <2>3. NextFrame(c)
    BY <1>0, <1>2, <2>1 DEF NextFrame, RunType
  <2>4. calls' = calls /\ alone' = alone /\ overlapped' = overlapped
    BY <1>0 DEF Forget
  <2>5. RunType' /\ HistoryType'
    BY <1>0, <2>1, <2>2, <2>4 DEF TypeInv, RunType, HistoryType
  <2>6. \A d \in Lcore : d # c => at'[d] = at[d] /\ seen'[d] = seen[d]
    BY <1>0, Forgetting
  <2>7. Apart(c)
    BY <1>0, <2>1, <2>6 DEF Apart, RunType
  <2> QED
    BY <1>0, <1>1, <2>3, <2>5, <2>7
<1>3. CASE ~(i[c] < num[c])
  <2>1. Return(c)
    BY <1>3 DEF Works
  <2>2. (NextFunction(c) \/ GoOut(c)) /\ RunType' /\ HistoryType'
    BY <1>0, <2>1, Returning
  <2>3. Apart(c)
    BY <1>0, <2>1, ReturnApart
  <2> QED
    BY <1>0, <1>1, <1>3, <2>2, <2>3
<1> QED
  BY <1>2, <1>3

LEMMA ReturnedEarly ==
  ASSUME TypeInv, LoadInv, NEW c \in Lcore, ReturnEarly(c)
  PROVE  /\ pc[c] = "work" /\ nf[c] \in {2, 3} /\ Apart(c) /\ UNCHANGED Lasting
         /\ NextFunction(c) /\ seen[c].kind # "udp" /\ UNCHANGED <<frame, cache>>
         /\ TypeInv'
<1>1. /\ pc[c] = "work" /\ nf[c] \in {2, 3} /\ Return(c) /\ Forget(c)
      /\ seen[c].kind # "udp" /\ UNCHANGED <<frame, cache>>
  BY Cells, InOrder DEF ReturnEarly
<1>2. Apart(c) /\ (NextFunction(c) \/ GoOut(c)) /\ RunType' /\ HistoryType'
  BY <1>1, Returning, ReturnApart
<1>3. UNCHANGED Lasting /\ (frame' \in [Lcore -> [Burst -> Frame]] => FrameType')
  BY <1>1, Forgetting
<1>4. frame' \in [Lcore -> [Burst -> Frame]]
  BY <1>1 DEF TypeInv, FrameType
<1>5. NextFunction(c)
  BY <1>1, <1>2 DEF GoOut
<1> QED
  BY <1>1, <1>2, <1>3, <1>4, <1>5 DEF TypeInv, CacheType

-----------------------------------------------------------------------------
\* A write goes to one frame, and never to one of another lcore whose batch is
\* alone.
LEMMA Stores ==
  ASSUME TypeInv, RunInv, NEW c \in Lcore, pc[c] = "work", NEW x \in Frame, Store(c, x)
  PROVE  /\ frame' \in [Lcore -> [Burst -> Frame]]
         /\ \A d \in Lcore : d # c /\ alone[d] => frame'[d] = frame[d]
         /\ alone[c] => /\ frame'[c][i[c]] = x
                        /\ \A n \in Burst : n # i[c] => frame'[c][n] = frame[c][n]
<1>1. Bounded(c) /\ (alone[c] => Own(c)) /\ frame \in [Lcore -> [Burst -> Frame]]
  BY DEF RunInv, Runs, Lone, InChain, TypeInv, FrameType
<1>2. PICK e \in Lcore, m \in Burst : at[c] = <<e, m>>
  BY <1>1 DEF Bounded, Reaches, Address
<1>3. frame' = [frame EXCEPT ![e][m] = x]
  BY <1>2 DEF Store
<1>4. e = c \/ (~alone[e] /\ ~alone[c])
  BY <1>1, <1>2 DEF Bounded, Reaches
<1>5. frame' \in [Lcore -> [Burst -> Frame]]
  BY <1>1, <1>3
<1>6. \A d \in Lcore : d # e => frame'[d] = frame[d]
  BY <1>1, <1>3
<1>7. frame'[e][m] = x /\ \A n \in Burst : n # m => frame'[e][n] = frame[e][n]
  BY <1>1, <1>3
<1>8. alone[c] => e = c /\ m = i[c]
  BY <1>1, <1>2 DEF Own
<1> QED
  BY <1>4, <1>5, <1>6, <1>7, <1>8

\* So the invariant is kept by a step of another lcore's.
LEMMA OthersRun ==
  ASSUME TypeInv, RunInv, NEW c \in Lcore, Apart(c),
         UNCHANGED <<eth_hdrs_burst, num, came, alone>>,
         \A d \in Lcore : d # c /\ alone[d] => frame'[d] = frame[d],
         NEW d \in Lcore, d # c
  PROVE  Runs(d)'
<1>1. /\ pc'[d] = pc[d] /\ nf'[d] = nf[d] /\ i'[d] = i[d] /\ copy'[d] = copy[d]
      /\ at'[d] = at[d] /\ seen'[d] = seen[d]
  BY DEF Apart
<1>2. Runs(d)
  BY DEF RunInv
<1>3. ~Ready(d)' => num'[d] = 0
  BY <1>1, <1>2 DEF Runs, Ready
<1>4. InChain(d)' => Bounded(d)'
  BY <1>1, <1>2 DEF Runs, InChain, Bounded, Reaches
<1>5. ASSUME alone[d] PROVE Lone(d)'
  <2>1. frame'[d] = frame[d] /\ Lone(d)
    BY <1>2, <1>5 DEF Runs
  <2>2. InChain(d)' => Own(d)'
    BY <1>1, <2>1 DEF Lone, InChain, Own
  <2>3. Headed(d)' = Headed(d) /\ \A k, n : Passed(d, k, n)' <=> Passed(d, k, n)
    BY <1>1 DEF Headed, Passed
  <2>4. \A n \in 1 .. num[d] : Served(d, n)'
    BY <1>1, <2>1, <2>3 DEF Lone, Served, Aged, Turned
  <2> QED
    BY <2>2, <2>4 DEF Lone
<1> QED
  BY <1>3, <1>4, <1>5 DEF Runs

\* What function k is done with after a step of it.
LEMMA Passing ==
  ASSUME TypeInv, RunInv, NEW c \in Lcore, NEW k \in Nf, pc[c] = "work", nf[c] = k,
         NextFrame(c) \/ (~(i[c] < num[c]) /\ (NextFunction(c) \/ GoOut(c)))
  PROVE  /\ i[c] \in 1 .. num[c]
         /\ \A j \in Nf, n \in 1 .. num[c] :
              Passed(c, j, n)' <=> Passed(c, j, n) \/ (j = k /\ n = i[c])
<1>1. PICK l \in Nat, x \in Nat : l = num[c] /\ x = i[c] /\ x > 0 /\ x =< l
  BY Cells DEF RunInv, Runs, Bounded, InChain, Burst
<1>2. ASSUME NEW j \in Nf, NEW n \in 1 .. num[c]
      PROVE  Passed(c, j, n)' <=> Passed(c, j, n) \/ (j = k /\ n = i[c])
  <2>1. Passed(c, j, n) <=> k > j \/ (k = j /\ x > n)
    BY <1>1 DEF Passed
  <2>2. n \in Nat /\ n > 0 /\ n =< l /\ j \in Nat /\ k \in Nat /\ j =< 4
    BY <1>1 DEF Nf
  <2>3. CASE NextFrame(c)
    <3>1. Passed(c, j, n)' <=> k > j \/ (k = j /\ x + 1 > n)
      BY <1>1, <2>3 DEF Passed, NextFrame
    <3> QED
      BY <1>1, <2>1, <2>2, <3>1
  <2>4. CASE ~(x < l) /\ NextFunction(c)
    <3>1. Passed(c, j, n)' <=> k + 1 > j \/ (k + 1 = j /\ 1 > n)
      BY <1>1, <2>4 DEF Passed, NextFunction
    <3> QED
      BY <1>1, <2>1, <2>2, <2>4, <3>1
  <2>5. CASE ~(x < l) /\ GoOut(c)
    <3>1. Passed(c, j, n)' /\ k = 4
      BY <2>5 DEF Passed, GoOut
    <3> QED
      BY <1>1, <2>1, <2>2, <2>5, <3>1
  <2> QED
    BY <1>1, <2>3, <2>4, <2>5
<1> QED
  BY <1>1, <1>2

\* It is not done with the frame at hand before, nor has it met a frame without
\* the headers if it needs them.
LEMMA AtHand ==
  ASSUME TypeInv, RunInv, NEW c \in Lcore, pc[c] = "work", alone[c]
  PROVE  /\ i[c] \in 1 .. num[c] /\ i[c] \in Burst /\ ~Passed(c, nf[c], i[c])
         /\ at[c] = <<c, i[c]>> /\ there(c) = frame[c][i[c]] /\ seen[c] = frame[c][i[c]]
         /\ Served(c, i[c]) /\ seen[c].kind = came[c][i[c]].kind
         /\ \A n \in 1 .. num[c] : Served(c, n)
         /\ nf[c] \in {2, 3} => (seen[c].kind = "udp" <=> i[c] \in Headed(c))
<1>1. Bounded(c) /\ Own(c) /\ \A n \in 1 .. num[c] : Served(c, n)
  BY DEF RunInv, Runs, Lone, InChain
<1>2. i[c] \in 1 .. num[c] /\ i[c] \in Burst /\ i[c] \in Nat /\ nf[c] \in Nat
  BY <1>1, Cells DEF Bounded, Burst, Nf
<1>3. ~Passed(c, nf[c], i[c])
  BY <1>2 DEF Passed
<1>4. at[c] = <<c, i[c]>> /\ seen[c] = frame[c][i[c]]
  BY <1>1 DEF Own
<1>5. there(c) = frame[c][i[c]]
  BY <1>4 DEF there, Stored
<1>6. Served(c, i[c]) /\ seen[c].kind = came[c][i[c]].kind
  BY <1>1, <1>2, <1>4 DEF Served
<1>7. ASSUME nf[c] \in {2, 3} PROVE seen[c].kind = "udp" <=> i[c] \in Headed(c)
  <2>1. \A m \in Burst : m < i[c] => came[c][m].kind = "udp"
    BY <1>1, <1>7 DEF Own
  <2>2. \A m \in 1 .. i[c] : m \in Burst /\ (m < i[c] \/ m = i[c])
    BY <1>2, Sizes DEF Burst
  <2>3. i[c] \in 1 .. i[c]
    BY <1>2
  <2>4. i[c] \in Headed(c) <=> \A m \in 1 .. i[c] : came[c][m].kind = "udp"
    BY <1>2 DEF Headed
  <2> QED
    BY <1>6, <2>1, <2>2, <2>3, <2>4
<1> QED
  BY <1>1, <1>2, <1>3, <1>4, <1>5, <1>6, <1>7

\* On the way on from a frame an lcore stays within its batch.
LEMMA StaysBounded ==
  ASSUME TypeInv, LoadInv, RunInv, NEW c \in Lcore, pc[c] = "work",
         UNCHANGED Lasting, NextFrame(c) \/ NextFunction(c)
  PROVE  Bounded(c)'
<1>0. UNCHANGED <<eth_hdrs_burst, num, came, alone>>
  BY DEF Lasting
<1>1. Bounded(c) /\ i[c] \in Nat /\ i[c] > 0 /\ num[c] \in Nat
  BY Cells DEF RunInv, Runs, InChain, Burst
<1>2. i'[c] =< num[c] /\ pc'[c] = "fetch"
  BY <1>1 DEF NextFrame, NextFunction, Bounded
<1>3. \A n \in 1 .. num[c] : Reaches(c, eth_hdrs_burst[n])'
  BY <1>0, <1>1 DEF Bounded, Reaches
<1>4. nf'[c] \in {3, 4} => copy'[c] # 0
  <2>1. entry[3] # 0
    BY DEF LoadInv, Entered, Ready, Nf
  <2>2. nf[c] \in {1, 2, 3, 4}
    BY Cells DEF Nf
  <2> QED
    BY <1>1, <2>1, <2>2 DEF NextFrame, NextFunction, Bounded
<1> QED
  BY <1>0, <1>2, <1>3, <1>4 DEF Bounded

\* So what is left to show for a step of function k are the frames.
LEMMA WorkedRun ==
  ASSUME TypeInv, LoadInv, RunInv, NEW c \in Lcore, NEW k \in Nf, Works(c, k),
         k \in {2, 3} => seen[c].kind = "udp",
         \A d \in Lcore : d # c /\ alone[d] => frame'[d] = frame[d],
         alone[c] => \A n \in 1 .. num[c] : Served(c, n)'
  PROVE  RunInv'
<1>0. /\ pc[c] = "work" /\ nf[c] = k /\ Apart(c) /\ UNCHANGED Lasting
      /\ NextFrame(c) \/ (~(i[c] < num[c]) /\ (NextFunction(c) \/ GoOut(c)))
  BY Worked
<1>1. UNCHANGED <<eth_hdrs_burst, num, came, alone>>
  BY <1>0 DEF Lasting
<1>2. \A d \in Lcore : d # c => Runs(d)'
  BY <1>0, <1>1, OthersRun
<1>3. Ready(c)' /\ (InChain(c)' => NextFrame(c) \/ NextFunction(c))
  BY <1>0 DEF NextFrame, NextFunction, GoOut, Ready, InChain
<1>4. InChain(c)' => Bounded(c)'
  BY <1>0, <1>3, StaysBounded
<1>5. ASSUME alone[c], InChain(c)' PROVE Own(c)'
  <2>1. Own(c) /\ pc'[c] = "fetch"
    BY <1>0, <1>3, <1>5 DEF RunInv, Runs, Lone, InChain, NextFrame, NextFunction
  <2>2. ASSUME nf'[c] \in {2, 3}, NEW m \in Burst, m < i'[c]
        PROVE  came[c][m].kind = "udp"
    <3>1. m \in Nat /\ m > 0 /\ i[c] \in Nat
      BY Cells DEF Burst
    <3>2. NextFrame(c)
      BY <1>3, <1>5, <2>2, <3>1 DEF NextFunction
    <3>3. nf[c] \in {2, 3} /\ (m < i[c] \/ m = i[c])
      BY <2>2, <3>1, <3>2 DEF NextFrame
    <3>4. seen[c].kind = "udp" /\ seen[c].kind = came[c][i[c]].kind
      BY <1>0, <1>5, <3>3, AtHand
    <3> QED
      BY <2>1, <3>3, <3>4 DEF Own
  <2> QED
    BY <1>1, <2>1, <2>2 DEF Own
<1>6. alone[c] => Lone(c)'
  BY <1>1, <1>5 DEF Lone
<1>7. Runs(c)'
  BY <1>1, <1>3, <1>4, <1>6 DEF Runs
<1> QED
  BY <1>2, <1>7 DEF RunInv

-----------------------------------------------------------------------------
LEMMA Wraps == \A x \in 0 .. 255 : (x + 255) % 256 \in 0 .. 255
OBVIOUS

\* What the functions make of a frame is a frame.
LEMMA FlowChanged ==
  ASSUME NEW f \in Frame, NEW x \in Flow
  PROVE  /\ [f EXCEPT !.flow = x] \in Frame /\ [f EXCEPT !.flow = x].flow = x
         /\ [f EXCEPT !.flow = x].kind = f.kind /\ [f EXCEPT !.flow = x].mac = f.mac
         /\ [f EXCEPT !.flow = x].time_to_live = f.time_to_live
BY DEF Frame

LEMMA AgeChanged ==
  ASSUME NEW f \in Frame, NEW x \in 0 .. 255
  PROVE  /\ [f EXCEPT !.time_to_live = x] \in Frame
         /\ [f EXCEPT !.time_to_live = x].time_to_live = x
         /\ [f EXCEPT !.time_to_live = x].kind = f.kind
         /\ [f EXCEPT !.time_to_live = x].mac = f.mac
         /\ [f EXCEPT !.time_to_live = x].flow = f.flow
BY DEF Frame

LEMMA MacChanged ==
  ASSUME NEW f \in Frame, NEW x \in BOOLEAN
  PROVE  /\ [f EXCEPT !.mac = x] \in Frame /\ [f EXCEPT !.mac = x].mac = x
         /\ [f EXCEPT !.mac = x].kind = f.kind /\ [f EXCEPT !.mac = x].flow = f.flow
         /\ [f EXCEPT !.mac = x].time_to_live = f.time_to_live
BY DEF Frame

\* There is a frame behind the address at hand.
LEMMA There ==
  ASSUME TypeInv, RunInv, NEW c \in Lcore, pc[c] = "work"
  PROVE  there(c) \in Frame
<1>1. Bounded(c)
  BY DEF RunInv, Runs, InChain
<1>2. PICK e \in Lcore, m \in Burst : at[c] = <<e, m>>
  BY <1>1 DEF Bounded, Reaches, Address
<1>3. there(c) = frame[e][m]
  BY <1>2 DEF there, Stored
<1> QED
  BY <1>3, Cells

\* The frames that are not at hand are as served as they were.
LEMMA OthersServed ==
  ASSUME TypeInv, RunInv, NEW c \in Lcore, NEW k \in Nf, Works(c, k), LoadInv, alone[c],
         NEW n \in 1 .. num[c], n # i[c], frame'[c][n] = frame[c][n]
  PROVE  Served(c, n)'
<1>0. /\ pc[c] = "work" /\ nf[c] = k /\ UNCHANGED Lasting
      /\ NextFrame(c) \/ (~(i[c] < num[c]) /\ (NextFunction(c) \/ GoOut(c)))
  BY Worked
<1>1. num' = num /\ came' = came
  BY <1>0 DEF Lasting
<1>2. \A j \in Nf, m \in 1 .. num[c] :
        Passed(c, j, m)' <=> Passed(c, j, m) \/ (j = k /\ m = i[c])
  BY <1>0, Passing
<1>3. (Passed(c, 1, n)' <=> Passed(c, 1, n)) /\ (Passed(c, 4, n)' <=> Passed(c, 4, n))
  BY <1>2 DEF Nf
<1>4. Headed(c)' = Headed(c) /\ Served(c, n)
  BY <1>0, <1>1, AtHand DEF Headed
<1> QED
  BY <1>1, <1>3, <1>4 DEF Served, Aged, Turned

\* And the frame at hand is, if this step's part was done.
LEMMA ThisServed ==
  ASSUME TypeInv, RunInv, NEW c \in Lcore, NEW k \in Nf, Works(c, k), LoadInv, alone[c],
         NEW n, n = i[c],
         frame'[c][n].kind = frame[c][n].kind,
         k # 1 \/ came[c][n].kind = "other" =>
           frame'[c][n].time_to_live = frame[c][n].time_to_live,
         k = 1 /\ came[c][n].kind # "other" =>
           frame'[c][n].time_to_live = (frame[c][n].time_to_live + 255) % 256,
         k # 4 => frame'[c][n].mac = frame[c][n].mac,
         k = 4 => frame'[c][n].mac = ~frame[c][n].mac,
         n \notin Headed(c) => frame'[c][n].flow = frame[c][n].flow
  PROVE  Served(c, n)'
<1>0. /\ pc[c] = "work" /\ nf[c] = k /\ UNCHANGED Lasting
      /\ NextFrame(c) \/ (~(i[c] < num[c]) /\ (NextFunction(c) \/ GoOut(c)))
  BY Worked
<1>1. num' = num /\ came' = came
  BY <1>0 DEF Lasting
<1>2. \A j \in Nf : Passed(c, j, n)' <=> Passed(c, j, n) \/ j = k
  BY <1>0, Passing
<1>3. Headed(c)' = Headed(c) /\ Served(c, n) /\ ~Passed(c, k, n)
  BY <1>0, <1>1, AtHand DEF Headed
<1>4. /\ Passed(c, 1, n)' <=> Passed(c, 1, n) \/ k = 1
      /\ Passed(c, 4, n)' <=> Passed(c, 4, n) \/ k = 4
  BY <1>2 DEF Nf
<1>5. Aged(c, n)'
  BY <1>1, <1>3, <1>4 DEF Served, Aged
<1>6. Turned(c, n)'
  BY <1>1, <1>3, <1>4 DEF Served, Turned
<1> QED
  BY <1>1, <1>3, <1>5, <1>6 DEF Served

LEMMA Nf1Run ==
  ASSUME TypeInv, LoadInv, RunInv, NEW c \in Lcore, Nf1(c)
  PROVE  /\ TypeInv' /\ RunInv'
         /\ \A d \in Lcore : d # c /\ alone[d] => frame'[d] = frame[d]
<1>0. Works(c, 1) /\ 1 \in Nf /\ cache' = cache
  BY DEF Nf1, Nf
<1>1. /\ pc[c] = "work" /\ nf[c] = 1 /\ RunType' /\ HistoryType'
      /\ frame' \in [Lcore -> [Burst -> Frame]] => FrameType'
  BY <1>0, Worked
<1>2. PICK f \in Frame, x \in 0 .. 255 :
        f = there(c) /\ x = (seen[c].time_to_live + 255) % 256
  <2>1. seen[c].time_to_live \in 0 .. 255
    BY Cells, FrameParts
  <2> QED
    BY <1>1, <2>1, There, Wraps
<1>3. PICK y \in Frame :
        /\ y = [f EXCEPT !.time_to_live = x] /\ y.time_to_live = x
        /\ y.kind = f.kind /\ y.mac = f.mac /\ y.flow = f.flow
  BY AgeChanged
<1>4. IF seen[c].kind = "other" THEN frame' = frame ELSE Store(c, y)
  BY <1>2, <1>3 DEF Nf1, Decrement
<1>5. /\ frame' \in [Lcore -> [Burst -> Frame]]
      /\ \A d \in Lcore : d # c /\ alone[d] => frame'[d] = frame[d]
      /\ alone[c] => /\ \A n \in Burst : n # i[c] => frame'[c][n] = frame[c][n]
                     /\ IF seen[c].kind = "other" THEN frame' = frame
                                                  ELSE frame'[c][i[c]] = y
  <2>1. CASE seen[c].kind = "other"
    BY <1>4, <2>1 DEF TypeInv, FrameType
  <2>2. CASE seen[c].kind # "other"
    BY <1>1, <1>4, <2>2, Stores
  <2> QED
    BY <2>1, <2>2
<1>6. ASSUME alone[c], NEW n \in 1 .. num[c] PROVE Served(c, n)'
  <2>1. n \in Burst /\ \A m \in Burst : m # i[c] => frame'[c][m] = frame[c][m]
    BY <1>5, <1>6, Cells
  <2>2. CASE n # i[c]
    BY <1>0, <1>6, <2>1, <2>2, OthersServed
  <2>3. CASE n = i[c]
    <3>1. f = frame[c][n] /\ seen[c] = frame[c][n] /\ seen[c].kind = came[c][n].kind
      BY <1>1, <1>2, <1>6, <2>3, AtHand
    <3>2. /\ frame'[c][n].kind = frame[c][n].kind /\ frame'[c][n].mac = frame[c][n].mac
          /\ frame'[c][n].flow = frame[c][n].flow
          /\ IF came[c][n].kind = "other"
             THEN frame'[c][n].time_to_live = frame[c][n].time_to_live
             ELSE frame'[c][n].time_to_live = (frame[c][n].time_to_live + 255) % 256
      <4>1. IF came[c][n].kind = "other" THEN frame' = frame ELSE frame'[c][n] = y
        BY <1>5, <1>6, <2>3, <3>1
      <4>2. /\ y.kind = frame[c][n].kind /\ y.mac = frame[c][n].mac
            /\ y.flow = frame[c][n].flow /\ y.time_to_live = x
        BY <1>3, <3>1
      <4>3. x = (frame[c][n].time_to_live + 255) % 256
        BY <1>2, <3>1
      <4> QED
        BY <4>1, <4>2, <4>3
    <3> QED
      BY <1>0, <1>6, <2>3, <3>2, ThisServed
  <2> QED
    BY <2>2, <2>3
<1>7. RunInv'
  BY <1>0, <1>5, <1>6, WorkedRun
<1>8. TypeInv'
  BY <1>0, <1>1, <1>5 DEF TypeInv, CacheType
<1> QED
  BY <1>5, <1>7, <1>8

LEMMA Nf2Run ==
  ASSUME TypeInv, LoadInv, RunInv, NEW c \in Lcore, Nf2(c)
  PROVE  /\ TypeInv' /\ RunInv'
         /\ \A d \in Lcore : d # c /\ alone[d] => frame'[d] = frame[d]
<1>0. Works(c, 2) /\ 2 \in Nf /\ cache' = cache /\ seen[c].kind = "udp"
  BY DEF Nf2, Nf
<1>1. /\ pc[c] = "work" /\ nf[c] = 2 /\ RunType' /\ HistoryType'
      /\ frame' \in [Lcore -> [Burst -> Frame]] => FrameType'
  BY <1>0, Worked
<1>2. PICK out \in Flow : Store(c, [there(c) EXCEPT !.flow = out])
  BY DEF Nf2
<1>3. PICK f \in Frame : f = there(c)
  BY <1>1, There
<1>4. PICK y \in Frame : /\ y = [f EXCEPT !.flow = out] /\ y.time_to_live = f.time_to_live
                         /\ y.kind = f.kind /\ y.mac = f.mac
  BY FlowChanged
<1>5. /\ frame' \in [Lcore -> [Burst -> Frame]]
      /\ \A d \in Lcore : d # c /\ alone[d] => frame'[d] = frame[d]
      /\ alone[c] => /\ frame'[c][i[c]] = y
                     /\ \A n \in Burst : n # i[c] => frame'[c][n] = frame[c][n]
  <2>1. Store(c, y)
    BY <1>2, <1>3, <1>4
  <2> QED
    BY <1>1, <2>1, Stores
<1>6. ASSUME alone[c], NEW n \in 1 .. num[c] PROVE Served(c, n)'
  <2>1. n \in Burst
    BY Cells
  <2>2. CASE n # i[c]
    BY <1>0, <1>5, <1>6, <2>1, <2>2, OthersServed
  <2>3. CASE n = i[c]
    <3>1. f = frame[c][n] /\ n \in Headed(c)
      BY <1>0, <1>1, <1>3, <1>6, <2>3, AtHand
    <3>2. /\ frame'[c][n].kind = frame[c][n].kind /\ frame'[c][n].mac = frame[c][n].mac
          /\ frame'[c][n].time_to_live = frame[c][n].time_to_live
      BY <1>4, <1>5, <1>6, <2>3, <3>1
    <3> QED
      BY <1>0, <1>6, <2>3, <3>1, <3>2, ThisServed
  <2> QED
    BY <2>2, <2>3
<1>7. RunInv'
  BY <1>0, <1>5, <1>6, WorkedRun
<1>8. TypeInv'
  BY <1>0, <1>1, <1>5 DEF TypeInv, CacheType
<1> QED
  BY <1>5, <1>7, <1>8

LEMMA NoBackend == maglev_process_frame = {-1}
<1>1. ~Hashed(ETH_HEADER_LEN)
  BY DEF Hashed, ETH_HEADER_LEN
<1> QED
  BY <1>1 DEF maglev_process_frame

LEMMA Nf4Run ==
  ASSUME TypeInv, LoadInv, RunInv, NEW c \in Lcore, Nf4(c)
  PROVE  /\ TypeInv' /\ RunInv'
         /\ \A d \in Lcore : d # c /\ alone[d] => frame'[d] = frame[d]
         /\ alone[c] => \A n \in 1 .. num[c] : frame'[c][n].flow = frame[c][n].flow
<1>0. Works(c, 4) /\ 4 \in Nf /\ cache' = cache
  BY DEF Nf4, Nf
<1>1. /\ pc[c] = "work" /\ nf[c] = 4 /\ RunType' /\ HistoryType'
      /\ frame' \in [Lcore -> [Burst -> Frame]] => FrameType'
  BY <1>0, Worked
<1>2. Store(c, [there(c) EXCEPT !.mac = ~seen[c].mac])
  <2>1. PICK backend \in maglev_process_frame :
          backend # 0 => Store(c, [there(c) EXCEPT !.mac = ~seen[c].mac])
    BY DEF Nf4
  <2>2. backend = -1
    BY NoBackend
  <2> QED
    BY <2>1, <2>2
<1>3. PICK f \in Frame, x \in BOOLEAN : f = there(c) /\ x = ~seen[c].mac
  BY <1>1, There
<1>4. PICK y \in Frame : /\ y = [f EXCEPT !.mac = x] /\ y.time_to_live = f.time_to_live
                         /\ y.kind = f.kind /\ y.flow = f.flow /\ y.mac = x
  BY MacChanged
<1>5. /\ frame' \in [Lcore -> [Burst -> Frame]]
      /\ \A d \in Lcore : d # c /\ alone[d] => frame'[d] = frame[d]
      /\ alone[c] => /\ frame'[c][i[c]] = y
                     /\ \A n \in Burst : n # i[c] => frame'[c][n] = frame[c][n]
  <2>1. Store(c, y)
    BY <1>2, <1>3, <1>4
  <2> QED
    BY <1>1, <2>1, Stores
<1>6. ASSUME alone[c], NEW n \in 1 .. num[c] PROVE Served(c, n)'
  <2>1. n \in Burst
    BY Cells
  <2>2. CASE n # i[c]
    BY <1>0, <1>5, <1>6, <2>1, <2>2, OthersServed
  <2>3. CASE n = i[c]
    <3>1. f = frame[c][n] /\ seen[c] = frame[c][n]
      BY <1>0, <1>1, <1>3, <1>6, <2>3, AtHand
    <3>2. /\ frame'[c][n].kind = frame[c][n].kind /\ frame'[c][n].mac = ~frame[c][n].mac
          /\ frame'[c][n].time_to_live = frame[c][n].time_to_live
          /\ frame'[c][n].flow = frame[c][n].flow
      BY <1>3, <1>4, <1>5, <1>6, <2>3, <3>1
    <3> QED
      BY <1>0, <1>6, <2>3, <3>1, <3>2, ThisServed
  <2> QED
    BY <2>2, <2>3
<1>7. RunInv'
  BY <1>0, <1>5, <1>6, WorkedRun
<1>8. TypeInv'
  BY <1>0, <1>1, <1>5 DEF TypeInv, CacheType
<1>9. ASSUME alone[c], NEW n \in 1 .. num[c] PROVE frame'[c][n].flow = frame[c][n].flow
  <2>1. n \in Burst /\ f = frame[c][i[c]]
    BY <1>1, <1>3, <1>9, Cells, AtHand
  <2>2. n = i[c] => frame'[c][n] = y /\ y.flow = frame[c][n].flow
    BY <1>4, <1>5, <1>9, <2>1
  <2>3. n # i[c] => frame'[c][n] = frame[c][n]
    BY <1>5, <1>9, <2>1
  <2> QED
    BY <2>2, <2>3
<1> QED
  BY <1>5, <1>7, <1>8, <1>9
\* What the map of the ACL may be after an insertion.
LEMMA InsertedIs ==
  ASSUME NEW S, S \subseteq Flow \X Pad, Cardinality(S) =< CAPACITY,
         NEW f \in Flow, NEW p \in Pad, NEW T \in Inserted(S, f, p)
  PROVE  /\ S \subseteq T /\ T \subseteq Flow \X Pad
         /\ Cardinality(T) =< CAPACITY /\ Cardinality(S) =< Cardinality(T)
         /\ Cardinality(S) \in Nat /\ Cardinality(T) \in Nat
         /\ (\E q \in Pad : <<f, q>> \in T) \/ Cardinality(T) >= CAPACITY
         /\ \A g, q : <<g, q>> \in T => <<g, q>> \in S \/ g = f
<1>1. /\ T = S \/ T = S \cup {<<f, p>>}
      /\ T # S => Cardinality(S) < CAPACITY
      /\ T = S => Cardinality(S) >= CAPACITY \/ \E q \in Pad : <<f, q>> \in S
  BY DEF Inserted
<1>2. IsFiniteSet(Flow \X Pad)
  BY ChainAssumption, FS_Product
<1>3. S \subseteq T /\ T \subseteq Flow \X Pad
  BY <1>1
<1>4. IsFiniteSet(T) /\ IsFiniteSet(S)
  BY <1>2, <1>3, FS_Subset
<1>5. Cardinality(T) \in Nat /\ Cardinality(S) \in Nat /\ Cardinality(S) =< Cardinality(T)
  BY <1>3, <1>4, FS_Subset, FS_CardinalityType
<1>6. Cardinality(T) =< CAPACITY
  <2>1. CASE T = S
    BY <2>1
  <2>2. CASE T # S
    <3>1. T = S \cup {<<f, p>>} /\ <<f, p>> \notin S
      BY <1>1, <2>2
    <3>2. Cardinality(S \cup {<<f, p>>}) = Cardinality(S) + 1
      BY <1>4, <3>1, FS_AddElement
    <3> QED
      BY <1>1, <1>5, <2>2, <3>1, <3>2, Sizes
  <2> QED
    BY <2>1, <2>2
<1>7. (\E q \in Pad : <<f, q>> \in T) \/ Cardinality(T) >= CAPACITY
  <2>1. CASE T = S
    BY <1>1, <2>1
  <2>2. CASE T # S
    BY <1>1, <2>2
  <2> QED
    BY <2>1, <2>2
<1>8. \A g, q : <<g, q>> \in T => <<g, q>> \in S \/ g = f
  BY <1>1
<1> QED
  BY <1>3, <1>5, <1>6, <1>7, <1>8

\* The copy that remembers is the one the batch met, and no other copy changes.
LEMMA Remembers ==
  ASSUME TypeInv, LoadInv, RunInv, NEW c \in Lcore, Nf3(c)
  PROVE  /\ copy[c] \in Copy /\ CacheType'
         /\ \A k \in Copy : \A f : Knows(k, f) => Knows(k, f)'
         /\ \A k \in Copy : \A f : Knows(k, f)' => Knows(k, f) \/ (k = copy[c] /\ f = seen[c].flow)
         /\ \A k, f : Kept(k, f) => Kept(k, f)'
         /\ \A k, f : k = copy[c] /\ f = seen[c].flow => Kept(k, f)'
<1>0. Works(c, 3) /\ 3 \in Nf
  BY DEF Nf3, Nf
<1>1. /\ pc[c] = "work" /\ nf[c] = 3
  BY <1>0, Worked
<1>2. PICK k \in Copy : k = copy[c]
  <2>1. copy[c] # 0 /\ copy[c] \in 0 .. Cardinality(Lcore)
    BY <1>1, Cells DEF RunInv, Runs, Bounded, InChain
  <2> QED
    BY <2>1, Sizes DEF Copy
<1>3. PICK f \in Flow : f = seen[c].flow
  BY Cells, FrameParts
<1>14. PICK p \in Pad : \E T \in Inserted(cache[k], f, p) : cache' = [cache EXCEPT ![k] = T]
  BY <1>2, <1>3 DEF Nf3
<1>4. PICK T \in Inserted(cache[k], f, p) : cache' = [cache EXCEPT ![k] = T]
  BY <1>14
<1>5. /\ DOMAIN cache = Copy
      /\ \A n \in Copy : cache[n] \subseteq Flow \X Pad /\ Cardinality(cache[n]) =< CAPACITY
  BY DEF TypeInv, CacheType
<1>6. DOMAIN cache' = Copy /\ cache'[k] = T /\ \A n \in Copy : n # k => cache'[n] = cache[n]
  BY <1>4, <1>5
<1>7. /\ cache[k] \subseteq T /\ T \subseteq Flow \X Pad
      /\ Cardinality(T) =< CAPACITY /\ Cardinality(cache[k]) =< Cardinality(T)
      /\ Cardinality(cache[k]) \in Nat /\ Cardinality(T) \in Nat
      /\ (\E q \in Pad : <<f, q>> \in T) \/ Cardinality(T) >= CAPACITY
      /\ \A g, q : <<g, q>> \in T => <<g, q>> \in cache[k] \/ g = f
  <2>1. PICK S : S = cache[k] /\ S \subseteq Flow \X Pad /\ Cardinality(S) =< CAPACITY
    BY <1>5
  <2>2. T \in Inserted(S, f, p)
    BY <2>1
  <2>3. /\ S \subseteq T /\ T \subseteq Flow \X Pad
        /\ Cardinality(T) =< CAPACITY /\ Cardinality(S) =< Cardinality(T)
        /\ Cardinality(S) \in Nat /\ Cardinality(T) \in Nat
        /\ (\E q \in Pad : <<f, q>> \in T) \/ Cardinality(T) >= CAPACITY
        /\ \A g, q : <<g, q>> \in T => <<g, q>> \in S \/ g = f
    BY <2>1, <2>2, InsertedIs
  <2> QED
    BY <2>1, <2>3
<1>8. CacheType'
  BY <1>5, <1>6, <1>7 DEF CacheType
<1>9. \A n \in Copy : \A g : Knows(n, g) => Knows(n, g)'
  BY <1>6, <1>7 DEF Knows
<1>10. \A n \in Copy : \A g : Knows(n, g)' => Knows(n, g) \/ (n = k /\ g = f)
  BY <1>6, <1>7 DEF Knows
<1>11. \A n, g : Kept(n, g) => Kept(n, g)'
  BY <1>6, <1>7, <1>9, Sizes DEF Kept
<1>12. Kept(k, f)'
  <2>1. Knows(k, f)' \/ Cardinality(cache'[k]) >= CAPACITY
    BY <1>6, <1>7 DEF Knows
  <2> QED
    BY <2>1 DEF Kept
<1> QED
  BY <1>2, <1>3, <1>8, <1>9, <1>10, <1>11, <1>12

LEMMA Nf3Run ==
  ASSUME TypeInv, LoadInv, RunInv, NEW c \in Lcore, Nf3(c)
  PROVE  TypeInv' /\ RunInv'
<1>0. Works(c, 3) /\ 3 \in Nf /\ frame' = frame /\ seen[c].kind = "udp"
  BY DEF Nf3, Nf
<1>1. /\ pc[c] = "work" /\ nf[c] = 3 /\ RunType' /\ HistoryType'
      /\ frame' \in [Lcore -> [Burst -> Frame]] => FrameType'
  BY <1>0, Worked
<1>2. ASSUME alone[c], NEW n \in 1 .. num[c] PROVE Served(c, n)'
  <2>1. CASE n # i[c]
    BY <1>0, <1>2, <2>1, OthersServed
  <2>2. CASE n = i[c]
    <3>1. n \in Headed(c)
      BY <1>0, <1>1, <1>2, <2>2, AtHand
    <3> QED
      BY <1>0, <1>2, <2>2, <3>1, ThisServed
  <2> QED
    BY <2>1, <2>2
<1>3. RunInv'
  BY <1>0, <1>2, WorkedRun
<1>4. frame' \in [Lcore -> [Burst -> Frame]]
  BY <1>0 DEF TypeInv, FrameType
<1>5. TypeInv'
  BY <1>1, <1>4, Remembers DEF TypeInv
<1> QED
  BY <1>3, <1>5

\* An early return leaves the frames as they are.
LEMMA EarlyPassing ==
  ASSUME TypeInv, RunInv, NEW c \in Lcore, pc[c] = "work", nf[c] \in {2, 3}, NextFunction(c)
  PROVE  /\ \A j \in Nf, n \in 1 .. num[c] : j # nf[c] => (Passed(c, j, n)' <=> Passed(c, j, n))
         /\ i'[c] =< num[c] /\ \A m \in Burst : ~(m < i'[c])
<1>1. PICK l \in Nat, x \in Nat : l = num[c] /\ x = i[c] /\ x > 0 /\ x =< l
  BY Cells DEF RunInv, Runs, Bounded, InChain, Burst
<1>2. ASSUME NEW j \in Nf, NEW n \in 1 .. num[c], j # nf[c]
      PROVE  Passed(c, j, n)' <=> Passed(c, j, n)
  <2>1. Passed(c, j, n) <=> nf[c] > j
    BY <1>2 DEF Passed
  <2>2. Passed(c, j, n)' <=> nf[c] + 1 > j \/ (nf[c] + 1 = j /\ 1 > n)
    BY DEF Passed, NextFunction
  <2>3. n \in Nat /\ n > 0 /\ j \in Nat /\ nf[c] \in Nat
    BY <1>1 DEF Nf
  <2> QED
    BY <1>2, <2>1, <2>2, <2>3
<1>3. i'[c] = 1 /\ \A m \in Burst : ~(m < 1)
  BY DEF NextFunction, Burst
<1> QED
  BY <1>1, <1>2, <1>3

LEMMA EarlyRun ==
  ASSUME TypeInv, LoadInv, RunInv, NEW c \in Lcore, ReturnEarly(c)
  PROVE  TypeInv' /\ RunInv'
<1>0. /\ pc[c] = "work" /\ nf[c] \in {2, 3} /\ Apart(c) /\ UNCHANGED Lasting
      /\ NextFunction(c) /\ frame' = frame /\ TypeInv'
  BY ReturnedEarly
<1>1. UNCHANGED <<eth_hdrs_burst, num, came, alone>>
  BY <1>0 DEF Lasting
<1>2. \A d \in Lcore : d # c => Runs(d)'
  BY <1>0, <1>1, OthersRun
<1>3. Ready(c)' /\ InChain(c)' /\ pc'[c] = "fetch"
  BY <1>0 DEF NextFunction, Ready, InChain
<1>4. Bounded(c)'
  BY <1>0, StaysBounded
<1>5. ASSUME alone[c] PROVE Lone(c)'
  <2>1. Own(c) /\ \A n \in 1 .. num[c] : Served(c, n)
    BY <1>0, <1>5, AtHand DEF RunInv, Runs, Lone, InChain
  <2>2. Own(c)'
    BY <1>0, <1>1, <1>3, <2>1, EarlyPassing DEF Own
  <2>3. ASSUME NEW n \in 1 .. num[c] PROVE Served(c, n)'
    <3>1. (Passed(c, 1, n)' <=> Passed(c, 1, n)) /\ (Passed(c, 4, n)' <=> Passed(c, 4, n))
      BY <1>0, EarlyPassing DEF Nf
    <3>2. Headed(c)' = Headed(c)
      BY <1>1 DEF Headed
    <3> QED
      BY <1>0, <1>1, <2>1, <3>1, <3>2 DEF Served, Aged, Turned
  <2> QED
    BY <1>1, <2>2, <2>3 DEF Lone
<1>6. Runs(c)'
  BY <1>1, <1>3, <1>4, <1>5 DEF Runs
<1> QED
  BY <1>0, <1>2, <1>6 DEF RunInv

-----------------------------------------------------------------------------
LEMMA LoadingRun ==
  ASSUME TypeInv, RunInv, NEW c \in Lcore, Load(c) \/ LeaveDomain(c)
  PROVE  /\ TypeInv' /\ RunInv'
         /\ ~InChain(c) /\ ~InChain(c)' /\ Apart(c)
         /\ UNCHANGED <<frames, locals, cache, history>>
<1>0. RunType /\ UNCHANGED <<calls, frames, locals, cache, history>>
  BY DEF TypeInv, Load, LeaveDomain
<1>1. UNCHANGED <<eth_hdrs_burst, num, came, frame, copy, i, at, seen, alone, overlapped, sent>>
  BY <1>0 DEF frames, locals, history
<1>2. /\ pc' \in [Lcore -> {"load", "leave", "idle", "fetch", "work"}] /\ nf' \in [Lcore -> Nf]
      /\ \A d \in Lcore : d # c => pc'[d] = pc[d] /\ nf'[d] = nf[d]
      /\ ~Ready(c) /\ ~InChain(c)'
  <2>1. CASE Load(c)
    BY <1>0, <2>1 DEF Load, RunType, Ready, InChain
  <2>2. CASE LeaveDomain(c)
    <3>1. nf[c] = 4 \/ nf[c] + 1 \in Nf
      BY <1>0 DEF RunType, Nf
    <3> QED
      BY <1>0, <2>2, <3>1 DEF LeaveDomain, RunType, Ready, InChain
  <2> QED
    BY <2>1, <2>2
<1>3. TypeInv'
  BY <1>0, <1>1, <1>2 DEF TypeInv, RunType, FrameType, HistoryType, CacheType
<1>4. Apart(c)
  BY <1>1, <1>2 DEF Apart
<1>5. \A d \in Lcore : d # c => Runs(d)'
  BY <1>1, <1>4, OthersRun
<1>6. Runs(c)'
  <2>1. num[c] = 0 /\ num'[c] = 0
    BY <1>1, <1>2 DEF RunInv, Runs
  <2> QED
    BY <1>2, <2>1 DEF Runs, Lone
<1>7. ~InChain(c)
  BY <1>2 DEF InChain, Ready
<1> QED
  BY <1>0, <1>2, <1>3, <1>4, <1>5, <1>6, <1>7 DEF RunInv

LEMMA FetchRun ==
  ASSUME TypeInv, RunInv, NEW c \in Lcore, Fetch(c)
  PROVE  /\ TypeInv' /\ RunInv' /\ pc[c] = "fetch" /\ pc' = [pc EXCEPT ![c] = "work"]
         /\ UNCHANGED <<loading, nf, frames, copy, i, cache, history>>
<1>0. /\ pc[c] = "fetch" /\ pc' = [pc EXCEPT ![c] = "work"]
      /\ at' = [at EXCEPT ![c] = eth_hdrs_burst[i[c]]]
      /\ seen' = [seen EXCEPT ![c] = Stored(at'[c])]
      /\ UNCHANGED <<loading, nf, calls, frames, copy, i, cache, history>>
  BY DEF Fetch
<1>1. UNCHANGED <<eth_hdrs_burst, num, came, frame, alone, overlapped, sent>>
  BY <1>0 DEF frames, history
<1>2. RunType /\ FrameType
  BY DEF TypeInv
<1>3. Bounded(c) /\ i[c] \in 1 .. num[c] /\ i[c] \in Burst
  BY <1>0, Cells DEF RunInv, Runs, InChain, Bounded, Burst
<1>4. PICK e \in Lcore, m \in Burst : eth_hdrs_burst[i[c]] = <<e, m>>
  BY <1>3 DEF Bounded, Reaches, Address
<1>5. at'[c] = <<e, m>> /\ seen'[c] = frame[e][m] /\ frame[e][m] \in Frame
  <2>1. at'[c] = <<e, m>>
    BY <1>0, <1>2, <1>4 DEF FrameType
  <2>2. Stored(at'[c]) = frame[e][m]
    BY <2>1 DEF Stored
  <2> QED
    BY <1>0, <1>2, <2>1, <2>2, Cells DEF FrameType
<1>6. at' \in [Lcore -> Address \cup {NULL}] /\ seen' \in [Lcore -> Frame]
  <2>1. <<e, m>> \in Address
    BY DEF Address
  <2>2. at' = [at EXCEPT ![c] = <<e, m>>] /\ seen' = [seen EXCEPT ![c] = frame[e][m]]
    BY <1>0, <1>2, <1>4, <1>5 DEF FrameType
  <2> QED
    BY <1>2, <1>5, <2>1, <2>2 DEF FrameType
<1>7. TypeInv'
  BY <1>0, <1>1, <1>2, <1>6 DEF TypeInv, RunType, FrameType, HistoryType, CacheType
<1>8. Apart(c)
  BY <1>0, <1>2 DEF Apart, RunType, FrameType
<1>9. \A d \in Lcore : d # c => Runs(d)'
  BY <1>1, <1>8, OthersRun
<1>10. pc'[c] = "work" /\ Ready(c)' /\ InChain(c)' /\ InChain(c)
  BY <1>0, <1>2 DEF RunType, Ready, InChain
<1>11. Bounded(c)'
  <2>1. Reaches(c, eth_hdrs_burst[i[c]])
    BY <1>3 DEF Bounded
  <2>2. Reaches(c, at[c])'
    BY <1>1, <1>4, <1>5, <2>1 DEF Reaches
  <2> QED
    BY <1>0, <1>1, <1>3, <2>2 DEF Bounded, Reaches
<1>12. ASSUME alone[c] PROVE Lone(c)'
  <2>1. Own(c) /\ \A n \in 1 .. num[c] : Served(c, n)
    BY <1>10, <1>12 DEF RunInv, Runs, Lone
  <2>2. e = c /\ m = i[c]
    BY <1>3, <1>4, <2>1 DEF Own
  <2>3. Own(c)'
    BY <1>0, <1>1, <1>5, <2>1, <2>2 DEF Own
  <2>4. Headed(c)' = Headed(c) /\ \A k, n : Passed(c, k, n)' <=> Passed(c, k, n)
    BY <1>0, <1>1, <1>10 DEF Headed, Passed
  <2>5. \A n \in 1 .. num[c] : Served(c, n)'
    BY <1>1, <2>1, <2>4 DEF Served, Aged, Turned
  <2> QED
    BY <1>1, <2>3, <2>5 DEF Lone
<1>13. Runs(c)'
  BY <1>1, <1>10, <1>11, <1>12 DEF Runs
<1> QED
  BY <1>0, <1>7, <1>9, <1>13 DEF RunInv

\* The parts of a call.
LEMMA CallIs ==
  ASSUME TypeInv, LoadInv, NEW c \in Lcore, Call(c)
  PROVE  \E k \in Burst : \E batch \in [1 .. k -> WireFrame] :
           /\ num' = [num EXCEPT ![c] = k]
           /\ came' = [came EXCEPT ![c] = Over(k, batch, came[c])]
           /\ frame' = [frame EXCEPT ![c] = Over(k, batch, frame[c])]
           /\ eth_hdrs_burst' = Over(k, [n \in Burst |-> <<c, n>>], eth_hdrs_burst)
BY DEF Call, TypeInv, FrameType

LEMMA CallRun ==
  ASSUME TypeInv, LoadInv, RunInv, NEW c \in Lcore, Call(c)
  PROVE  TypeInv' /\ RunInv'
<1>0. /\ pc[c] = "idle" /\ calls < MaxCalls /\ calls' = calls + 1 /\ Enter(c, 1)
      /\ alone' = [d \in Lcore |-> IF d = c THEN Running = {} ELSE d \notin Running /\ alone[d]]
      /\ overlapped' = (overlapped \/ Running # {})
      /\ UNCHANGED <<loading, at, seen, cache, sent>>
  BY DEF Call
<1>1. 1 \in Nf /\ RunType /\ FrameType /\ HistoryType
  BY DEF Nf, TypeInv
<1>2. /\ pc'[c] = "fetch" /\ nf'[c] = 1 /\ i'[c] = 1
      /\ \A d \in Lcore : d # c => /\ pc'[d] = pc[d] /\ nf'[d] = nf[d]
                                   /\ i'[d] = i[d] /\ copy'[d] = copy[d]
      /\ pc' \in [Lcore -> {"load", "leave", "idle", "fetch", "work"}]
      /\ nf' \in [Lcore -> Nf] /\ i' \in [Lcore -> Burst]
      /\ copy' \in [Lcore -> 0 .. Cardinality(Lcore)]
  BY <1>0, <1>1, Entering
<1>3. PICK k \in Burst : \E batch \in [1 .. k -> WireFrame] :
        /\ num' = [num EXCEPT ![c] = k]
        /\ came' = [came EXCEPT ![c] = Over(k, batch, came[c])]
        /\ frame' = [frame EXCEPT ![c] = Over(k, batch, frame[c])]
        /\ eth_hdrs_burst' = Over(k, [n \in Burst |-> <<c, n>>], eth_hdrs_burst)
  BY CallIs
<1>4. PICK batch \in [1 .. k -> WireFrame] :
        /\ num' = [num EXCEPT ![c] = k]
        /\ came' = [came EXCEPT ![c] = Over(k, batch, came[c])]
        /\ frame' = [frame EXCEPT ![c] = Over(k, batch, frame[c])]
        /\ eth_hdrs_burst' = Over(k, [n \in Burst |-> <<c, n>>], eth_hdrs_burst)
  BY <1>3
<1>5. \A d \in Lcore : d \in Running <=> InChain(d)
  BY DEF Running, InChain
<1>6. /\ \A d \in Lcore : d # c => num'[d] = num[d] /\ came'[d] = came[d] /\ frame'[d] = frame[d]
      /\ num'[c] = k /\ came'[c] = Over(k, batch, came[c]) /\ frame'[c] = Over(k, batch, frame[c])
  BY <1>1, <1>4 DEF FrameType
<1>7. k \in Nat /\ k > 0 /\ 1 .. k \subseteq Burst /\ \A n \in Burst : n =< k => n \in 1 .. k
  BY Sizes DEF Burst
<1>8. \A n \in Burst : eth_hdrs_burst'[n] = IF n =< k THEN <<c, n>> ELSE eth_hdrs_burst[n]
  BY <1>4 DEF Over
<1>9. /\ Over(k, batch, came[c]) \in [Burst -> WireFrame]
      /\ Over(k, batch, frame[c]) \in [Burst -> Frame]
      /\ \A n \in 1 .. k : frame'[c][n] = batch[n] /\ came'[c][n] = batch[n]
  <2>1. came[c] \in [Burst -> WireFrame] /\ frame[c] \in [Burst -> Frame]
    BY <1>1 DEF FrameType
  <2>2. \A n \in 1 .. k : batch[n] \in WireFrame /\ batch[n] \in Frame
    BY UnreadIs
  <2>3. /\ Over(k, batch, came[c]) \in [Burst -> WireFrame]
        /\ Over(k, batch, frame[c]) \in [Burst -> Frame]
    BY <1>7, <2>1, <2>2 DEF Over
  <2>4. \A n \in 1 .. k : n =< k /\ n \in Burst
    BY <1>7
  <2>5. \A n \in Burst : n =< k => /\ Over(k, batch, came[c])[n] = batch[n]
                                   /\ Over(k, batch, frame[c])[n] = batch[n]
    BY DEF Over
  <2> QED
    BY <1>6, <2>3, <2>4, <2>5
<1>10. TypeInv'
  <2>1. FrameType'
    <3>1. eth_hdrs_burst' \in [Burst -> Address \cup {NULL}]
      <4>1. \A n \in Burst : <<c, n>> \in Address
        BY DEF Address
      <4>2. eth_hdrs_burst \in [Burst -> Address \cup {NULL}]
        BY <1>1 DEF FrameType
      <4>3. DOMAIN eth_hdrs_burst' = Burst /\ eth_hdrs_burst' = [n \in Burst |-> eth_hdrs_burst'[n]]
        BY <1>4 DEF Over
      <4> QED
        BY <1>8, <4>1, <4>2, <4>3
    <3>2. num' \in [Lcore -> 0 .. BATCH_SIZE]
      BY <1>1, <1>4, Sizes DEF FrameType, Burst
    <3>3. came' \in [Lcore -> [Burst -> WireFrame]] /\ frame' \in [Lcore -> [Burst -> Frame]]
      BY <1>1, <1>4, <1>9 DEF FrameType
    <3>4. at' = at /\ seen' = seen
      BY <1>0
    <3> QED
      BY <1>1, <3>1, <3>2, <3>3, <3>4 DEF FrameType
  <2>2. RunType'
    <3>1. calls' \in 0 .. MaxCalls
      BY <1>0, <1>1, Sizes DEF RunType
    <3> QED
      BY <1>2, <3>1 DEF RunType
  <2>3. HistoryType'
    BY <1>0, <1>1 DEF HistoryType
  <2> QED
    BY <1>0, <2>1, <2>2, <2>3 DEF TypeInv, CacheType
<1>11. /\ \A d \in Lcore : alone'[d] => d = c \/ (alone[d] /\ ~InChain(d))
       /\ \A d \in Lcore : d # c /\ InChain(d) => ~alone'[d] /\ ~alone'[c]
  BY <1>0, <1>5
<1>12. ASSUME NEW d \in Lcore, d # c PROVE Runs(d)'
  <2>1. pc'[d] = pc[d] /\ nf'[d] = nf[d] /\ num'[d] = num[d] /\ copy'[d] = copy[d]
        /\ i'[d] = i[d] /\ at'[d] = at[d] /\ Runs(d)
    BY <1>0, <1>2, <1>6, <1>12 DEF RunInv
  <2>2. ASSUME InChain(d) PROVE Bounded(d)'
    <3>1. Bounded(d) /\ ~alone'[d] /\ ~alone'[c]
      BY <1>11, <1>12, <2>1, <2>2 DEF Runs
    <3>2. \A a : Reaches(d, a) => Reaches(d, a)'
      BY <1>11, <3>1 DEF Reaches, Address
    <3>3. ASSUME NEW n \in 1 .. num[d] PROVE Reaches(d, eth_hdrs_burst[n])'
      <4>1. n \in Burst /\ Reaches(d, eth_hdrs_burst[n])
        BY <3>1, Cells DEF Bounded
      <4>2. CASE n =< k
        <5>1. eth_hdrs_burst'[n] = <<c, n>> /\ <<c, n>> \in Address
          BY <1>8, <4>1, <4>2 DEF Address
        <5> QED
          BY <3>1, <5>1 DEF Reaches
      <4>3. CASE ~(n =< k)
        <5>1. eth_hdrs_burst'[n] = eth_hdrs_burst[n]
          BY <1>8, <4>1, <4>3
        <5> QED
          BY <3>2, <4>1, <5>1 DEF Reaches
      <4> QED
        BY <4>2, <4>3
    <3>4. pc'[d] = "work" => Reaches(d, at[d])'
      BY <2>1, <3>1, <3>2 DEF Bounded, Reaches
    <3> QED
      BY <2>1, <3>1, <3>3, <3>4 DEF Bounded
  <2>3. ASSUME alone'[d] PROVE Lone(d)'
    <3>1. alone[d] /\ ~InChain(d) /\ Lone(d)
      BY <1>11, <1>12, <2>1, <2>3 DEF Runs
    <3>2. frame'[d] = frame[d] /\ came'[d] = came[d]
      BY <1>6, <1>12
    <3>3. Headed(d)' = Headed(d) /\ \A j, n : Passed(d, j, n)' <=> Passed(d, j, n)
      BY <2>1, <3>2 DEF Headed, Passed
    <3>4. \A n \in 1 .. num[d] : Served(d, n)'
      BY <3>1, <3>2, <3>3 DEF Lone, Served, Aged, Turned
    <3> QED
      BY <2>1, <3>1, <3>4 DEF Lone, InChain
  <2> QED
    BY <2>1, <2>2, <2>3 DEF Runs, Ready, InChain
<1>13. Runs(c)'
  <2>1. Ready(c)' /\ InChain(c)' /\ pc'[c] = "fetch"
    BY <1>2 DEF Ready, InChain
  <2>2. ASSUME NEW n \in 1 .. k PROVE eth_hdrs_burst'[n] = <<c, n>> /\ n \in Burst
    <3>1. n =< k /\ n \in Burst
      BY <1>7
    <3> QED
      BY <1>8, <3>1
  <2>3. Bounded(c)'
    <3>1. ASSUME NEW n \in 1 .. k PROVE Reaches(c, eth_hdrs_burst[n])'
      <4>1. eth_hdrs_burst'[n] = <<c, n>> /\ <<c, n>> \in Address
        BY <2>2 DEF Address
      <4> QED
        BY <4>1 DEF Reaches
    <3> QED
      BY <1>2, <1>6, <1>7, <2>1, <3>1 DEF Bounded
  <2>4. Own(c)'
    BY <1>2, <1>6, <2>2 DEF Own
  <2>5. ASSUME NEW n \in 1 .. k PROVE Served(c, n)'
    <3>1. frame'[c][n] = came'[c][n]
      BY <1>9
    <3>2. ~Passed(c, 1, n)' /\ ~Passed(c, 4, n)'
      <4>1. n \in Nat /\ n > 0
        BY <1>7
      <4> QED
        BY <1>2, <4>1 DEF Passed
    <3> QED
      BY <3>1, <3>2 DEF Served, Aged, Turned
  <2> QED
    BY <1>6, <2>1, <2>3, <2>4, <2>5 DEF Runs, Lone
<1> QED
  BY <1>10, <1>12, <1>13 DEF RunInv

-----------------------------------------------------------------------------
\* As long as no lcores have overlapped one at most is in the chain.
LEMMA OneStep ==
  ASSUME TypeInv, OneInv, UNCHANGED <<alone, overlapped>>,
         \A d \in Lcore : InChain(d)' => InChain(d)
  PROVE  OneInv'
BY DEF OneInv

LEMMA CallOne ==
  ASSUME TypeInv, LoadInv, OneInv, NEW c \in Lcore, Call(c)
  PROVE  OneInv'
<1>1. /\ alone' = [d \in Lcore |-> IF d = c THEN Running = {} ELSE d \notin Running /\ alone[d]]
      /\ overlapped' = (overlapped \/ Running # {}) /\ Enter(c, 1) /\ 1 \in Nf
  BY DEF Call, Nf
<1>2. \A d \in Lcore : d # c => pc'[d] = pc[d]
  BY <1>1, Entering
<1> SUFFICES ASSUME ~overlapped'
             PROVE  /\ \A d \in Lcore : alone'[d]
                    /\ \A d, e \in Lcore : InChain(d)' /\ InChain(e)' => d = e
  BY DEF OneInv
<1>3. ~overlapped /\ Running = {}
  BY <1>1
<1>4. \A d \in Lcore : ~InChain(d)
  BY <1>3 DEF Running, InChain
<1>5. \A d \in Lcore : d # c => ~InChain(d)'
  BY <1>2, <1>4 DEF InChain
<1>6. \A d \in Lcore : alone'[d]
  BY <1>1, <1>3 DEF OneInv
<1> QED
  BY <1>5, <1>6

\* A flow of another lcore's batch, if that is alone, stays where it is, and
\* so do all that are through the ACL, as long as no lcores have overlapped.
LEMMA OthersHeard ==
  ASSUME TypeInv, RunInv, NEW c \in Lcore, Apart(c),
         UNCHANGED <<num, came, alone>>,
         \A d \in Lcore : d # c /\ alone[d] => frame'[d] = frame[d],
         \A k, f : Kept(k, f) => Kept(k, f)',
         NEW d \in Lcore, d # c, Heard(d)
  PROVE  Heard(d)'
<1>1. pc'[d] = pc[d] /\ nf'[d] = nf[d] /\ i'[d] = i[d] /\ copy'[d] = copy[d]
  BY DEF Apart
<1>2. Headed(d)' = Headed(d) /\ \A k, n : Passed(d, k, n)' <=> Passed(d, k, n)
  BY <1>1 DEF Headed, Passed
<1> SUFFICES ASSUME InChain(d)', alone'[d], NEW n \in Headed(d), Passed(d, 3, n)
             PROVE  Kept(copy[d], frame[d][n].flow)'
  BY <1>2 DEF Heard
<1>3. PICK k, f : k = copy[d] /\ f = frame[d][n].flow
  OBVIOUS
<1>4. copy'[d] = k /\ frame'[d][n].flow = f
  BY <1>1, <1>3
<1>5. Kept(k, f)
  BY <1>1, <1>3 DEF Heard, InChain
<1>6. Kept(k, f)'
  BY <1>5
<1> QED
  BY <1>4, <1>6

\* Where nothing is remembered or sent and no lcore gets on in the chain, or
\* only into it, the caches are as before.
LEMMA Unheard ==
  ASSUME TypeInv, LoadInv, RunInv, CacheInv, OneInv, NEW c \in Lcore,
         UNCHANGED <<cache, sent>>,
         \A d \in Lcore : d # c => /\ pc'[d] = pc[d] /\ nf'[d] = nf[d] /\ i'[d] = i[d]
                                   /\ copy'[d] = copy[d] /\ num'[d] = num[d]
                                   /\ came'[d] = came[d] /\ frame'[d] = frame[d]
                                   /\ (alone'[d] => alone[d]),
         ~overlapped' => ~overlapped,
         ~InChain(c), ~InChain(c)' \/ \A n \in 1 .. num'[c] : ~Passed(c, 3, n)'
  PROVE  CacheInv'
<1>1. \A k, f : (Kept(k, f)' <=> Kept(k, f)) /\ (Knows(k, f)' <=> Knows(k, f))
                /\ (SentBy(k, f)' <=> SentBy(k, f))
  BY DEF Kept, Knows, SentBy
<1>2. ASSUME NEW d \in Lcore, d # c
      PROVE  /\ Headed(d)' = Headed(d) /\ (InChain(d)' <=> InChain(d))
             /\ \A k, n : Passed(d, k, n)' <=> Passed(d, k, n)
  BY <1>2 DEF Headed, Passed, InChain
<1>3. ASSUME NEW d \in Lcore, d # c PROVE Heard(d)'
  BY <1>1, <1>2, <1>3 DEF CacheInv, Heard, Kept, Knows
<1>4. Headed(c)' \subseteq 1 .. num'[c]
  BY DEF Headed
<1>5. Heard(c)'
  BY <1>4 DEF Heard
<1>6. ASSUME ~overlapped', NEW k \in Copy, NEW f \in Flow, Knows(k, f)'
      PROVE  SentBy(k, f)' \/ \E d \in Lcore : Through(d, k, f)'
  <2>1. SentBy(k, f) \/ \E d \in Lcore : Through(d, k, f)
    BY <1>1, <1>6 DEF CacheInv
  <2>2. ASSUME NEW d \in Lcore, Through(d, k, f) PROVE Through(d, k, f)'
    <3>1. d # c
      BY <2>2 DEF Through
    <3> QED
      BY <1>2, <2>2, <3>1 DEF Through
  <2> QED
    BY <1>1, <2>1, <2>2
<1>7. \A q \in sent' : Kept(q.acl, q.out)'
  BY <1>1 DEF CacheInv, Kept, Knows
<1> QED
  BY <1>3, <1>5, <1>6, <1>7 DEF CacheInv

LEMMA LoadingCache ==
  ASSUME TypeInv, LoadInv, RunInv, CacheInv, OneInv, NEW c \in Lcore, Load(c) \/ LeaveDomain(c)
  PROVE  CacheInv' /\ OneInv'
<1>1. ~InChain(c) /\ ~InChain(c)' /\ Apart(c) /\ UNCHANGED <<frames, locals, cache, history>>
  BY LoadingRun
<1>2. UNCHANGED <<num, came, frame, copy, i, alone, overlapped, sent>>
  BY <1>1 DEF frames, locals, history
<1>3. CacheInv'
  BY <1>1, <1>2, Unheard DEF Apart
<1>4. \A d \in Lcore : InChain(d)' => InChain(d)
  BY <1>1 DEF Apart, InChain
<1> QED
  BY <1>2, <1>3, <1>4, OneStep

LEMMA CallCache ==
  ASSUME TypeInv, LoadInv, RunInv, CacheInv, OneInv, NEW c \in Lcore, Call(c)
  PROVE  CacheInv'
<1>1. /\ alone' = [d \in Lcore |-> IF d = c THEN Running = {} ELSE d \notin Running /\ alone[d]]
      /\ overlapped' = (overlapped \/ Running # {}) /\ Enter(c, 1) /\ 1 \in Nf
      /\ UNCHANGED <<cache, sent>> /\ pc[c] = "idle"
  BY DEF Call, Nf
<1>2. /\ pc'[c] = "fetch" /\ nf'[c] = 1 /\ i'[c] = 1
      /\ \A d \in Lcore : d # c => /\ pc'[d] = pc[d] /\ nf'[d] = nf[d]
                                   /\ i'[d] = i[d] /\ copy'[d] = copy[d]
  BY <1>1, Entering
<1>3. PICK k \in Burst : \E batch \in [1 .. k -> WireFrame] :
        /\ num' = [num EXCEPT ![c] = k]
        /\ came' = [came EXCEPT ![c] = Over(k, batch, came[c])]
        /\ frame' = [frame EXCEPT ![c] = Over(k, batch, frame[c])]
  BY CallIs
<1>4. \A d \in Lcore : d # c => num'[d] = num[d] /\ came'[d] = came[d] /\ frame'[d] = frame[d]
  BY <1>3 DEF TypeInv, FrameType
<1>5. \A n : ~Passed(c, 3, n)'
  BY <1>2 DEF Passed
<1>6. \A d \in Lcore : d # c => (alone'[d] => alone[d])
  BY <1>1
<1>7. ~InChain(c) /\ (~overlapped' => ~overlapped)
  BY <1>1 DEF InChain
<1> QED
  BY <1>1, <1>2, <1>4, <1>5, <1>6, <1>7, Unheard

LEMMA FetchCache ==
  ASSUME TypeInv, LoadInv, RunInv, CacheInv, OneInv, NEW c \in Lcore, Fetch(c)
  PROVE  CacheInv' /\ OneInv'
<1>1. /\ pc[c] = "fetch" /\ pc' = [pc EXCEPT ![c] = "work"]
      /\ UNCHANGED <<loading, nf, frames, copy, i, cache, history>>
  BY FetchRun
<1>2. UNCHANGED <<num, came, frame, alone, overlapped, sent>>
  BY <1>1 DEF frames, history
<1>3. \A d \in Lcore : /\ InChain(d)' <=> InChain(d)
                       /\ pc'[d] = "idle" <=> pc[d] = "idle"
  BY <1>1 DEF InChain, TypeInv, RunType
<1>4. \A d \in Lcore : Headed(d)' = Headed(d) /\ \A k, n : Passed(d, k, n)' <=> Passed(d, k, n)
  BY <1>1, <1>2, <1>3 DEF Headed, Passed
<1>5. \A k, f : (Kept(k, f)' <=> Kept(k, f)) /\ (Knows(k, f)' <=> Knows(k, f))
                /\ (SentBy(k, f)' <=> SentBy(k, f))
  BY <1>1, <1>2 DEF Kept, Knows, SentBy
<1>7. \A d \in Lcore : \A k, f : Through(d, k, f)' <=> Through(d, k, f)
  BY <1>1, <1>2, <1>3, <1>4 DEF Through
<1>8. \A d \in Lcore : Heard(d)' <=> Heard(d)
  BY <1>1, <1>2, <1>3, <1>4 DEF Heard, Kept, Knows
<1>9. \A q \in sent' : Kept(q.acl, q.out)'
  BY <1>1, <1>2 DEF CacheInv, Kept, Knows
<1>10. CacheInv'
  BY <1>2, <1>5, <1>7, <1>8, <1>9 DEF CacheInv
<1> QED
  BY <1>2, <1>3, <1>10, OneStep

\* What is left to show for a step of a function: what left is remembered, and
\* what lcore c knows of, if it is the only one.
LEMMA StepCache ==
  ASSUME TypeInv, RunInv, CacheInv, OneInv, NEW c \in Lcore, pc[c] = "work", Apart(c),
         UNCHANGED Lasting,
         \A d \in Lcore : d # c /\ alone[d] => frame'[d] = frame[d],
         \A k, f : Kept(k, f) => Kept(k, f)',
         \A q \in sent' : Kept(q.acl, q.out)',
         Heard(c)',
         ~overlapped => \A k \in Copy : \A f \in Flow :
                          Knows(k, f)' => SentBy(k, f)' \/ Through(c, k, f)'
  PROVE  CacheInv' /\ OneInv'
<1>1. UNCHANGED <<num, came, alone, overlapped>>
  BY DEF Lasting
<1>2. \A d \in Lcore : d # c => Heard(d)'
  BY <1>1, OthersHeard DEF CacheInv
<1>3. \A d \in Lcore : Heard(d)'
  BY <1>2
<1>4. CacheInv'
  BY <1>1, <1>3 DEF CacheInv
<1>5. \A d \in Lcore : InChain(d)' => InChain(d)
  BY DEF Apart, InChain
<1> QED
  BY <1>1, <1>4, <1>5, OneStep

LEMMA OnlyOne ==
  ASSUME CacheInv, OneInv, NEW c \in Lcore, pc[c] = "work", ~overlapped
  PROVE  /\ alone[c]
         /\ \A k \in Copy : \A f \in Flow : Knows(k, f) => SentBy(k, f) \/ Through(c, k, f)
<1>1. alone[c] /\ \A d \in Lcore : InChain(d) => d = c
  BY DEF OneInv, InChain
<1>2. \A k \in Copy : \A f \in Flow :
        Knows(k, f) => SentBy(k, f) \/ \E d \in Lcore : Through(d, k, f)
  BY DEF CacheInv
<1>3. \A k, f : \A d \in Lcore : Through(d, k, f) => d = c
  BY <1>1 DEF Through
<1> QED
  BY <1>1, <1>2, <1>3

\* Before the ACL a function remembers nothing.
LEMMA BeforeAcl ==
  ASSUME TypeInv, RunInv, CacheInv, OneInv, NEW c \in Lcore, pc[c] = "work", Apart(c),
         UNCHANGED Lasting,
         \A d \in Lcore : d # c /\ alone[d] => frame'[d] = frame[d],
         UNCHANGED <<cache, sent>>, nf[c] \in {1, 2},
         \A n \in 1 .. num[c] : ~Passed(c, 3, n)'
  PROVE  CacheInv' /\ OneInv'
<1>1. num' = num /\ Headed(c)' \subseteq 1 .. num[c]
  BY DEF Lasting, Headed
<1>2. Heard(c)'
  BY <1>1 DEF Heard
<1>3. \A k, f : (Kept(k, f)' <=> Kept(k, f)) /\ (Knows(k, f)' <=> Knows(k, f))
                /\ (SentBy(k, f)' <=> SentBy(k, f))
  BY DEF Kept, Knows, SentBy
<1>4. \A q \in sent' : Kept(q.acl, q.out)'
  BY DEF CacheInv, Kept, Knows
<1>5. \A k, f : ~Through(c, k, f)
  BY DEF Through, Passed
<1>6. ~overlapped => \A k \in Copy : \A f \in Flow : Knows(k, f)' => SentBy(k, f)' \/ Through(c, k, f)'
  BY <1>3, <1>5, OnlyOne
<1> QED
  BY <1>2, <1>3, <1>4, <1>6, StepCache

LEMMA Nf1Cache ==
  ASSUME TypeInv, LoadInv, RunInv, CacheInv, OneInv, NEW c \in Lcore, Nf1(c)
  PROVE  CacheInv' /\ OneInv'
<1>0. Works(c, 1) /\ 1 \in Nf /\ 3 \in Nf /\ cache' = cache
  BY DEF Nf1, Nf
<1>1. /\ pc[c] = "work" /\ nf[c] = 1 /\ Apart(c) /\ UNCHANGED Lasting
      /\ NextFrame(c) \/ (~(i[c] < num[c]) /\ (NextFunction(c) \/ GoOut(c)))
  BY <1>0, Worked
<1>2. \A n \in 1 .. num[c] : ~Passed(c, 3, n)'
  <2>1. \A n \in 1 .. num[c] : Passed(c, 3, n)' <=> Passed(c, 3, n)
    BY <1>0, <1>1, Passing
  <2> QED
    BY <1>1, <2>1 DEF Passed
<1>3. sent' = sent
  BY <1>1 DEF NextFrame, NextFunction, GoOut
<1> QED
  BY <1>0, <1>1, <1>2, <1>3, Nf1Run, BeforeAcl

LEMMA Nf2Cache ==
  ASSUME TypeInv, LoadInv, RunInv, CacheInv, OneInv, NEW c \in Lcore, Nf2(c)
  PROVE  CacheInv' /\ OneInv'
<1>0. Works(c, 2) /\ 2 \in Nf /\ 3 \in Nf /\ cache' = cache
  BY DEF Nf2, Nf
<1>1. /\ pc[c] = "work" /\ nf[c] = 2 /\ Apart(c) /\ UNCHANGED Lasting
      /\ NextFrame(c) \/ (~(i[c] < num[c]) /\ (NextFunction(c) \/ GoOut(c)))
  BY <1>0, Worked
<1>2. \A n \in 1 .. num[c] : ~Passed(c, 3, n)'
  <2>1. \A n \in 1 .. num[c] : Passed(c, 3, n)' <=> Passed(c, 3, n)
    BY <1>0, <1>1, Passing
  <2> QED
    BY <1>1, <2>1 DEF Passed
<1>3. sent' = sent
  BY <1>1 DEF NextFrame, NextFunction, GoOut
<1> QED
  BY <1>0, <1>1, <1>2, <1>3, Nf2Run, BeforeAcl

\* The ACL remembers the flow at hand, and the frame is through.
LEMMA Nf3Cache ==
  ASSUME TypeInv, LoadInv, RunInv, CacheInv, OneInv, NEW c \in Lcore, Nf3(c)
  PROVE  CacheInv' /\ OneInv'
<1>0. Works(c, 3) /\ 3 \in Nf /\ frame' = frame /\ seen[c].kind = "udp"
  BY DEF Nf3, Nf
<1>1. /\ pc[c] = "work" /\ nf[c] = 3 /\ Apart(c) /\ UNCHANGED Lasting
      /\ NextFrame(c) \/ (~(i[c] < num[c]) /\ (NextFunction(c) \/ GoOut(c)))
  BY <1>0, Worked
<1>2. /\ sent' = sent /\ copy'[c] = copy[c] /\ InChain(c)'
  BY <1>1 DEF NextFrame, NextFunction, GoOut, InChain
<1>3. \A n \in 1 .. num[c] : Passed(c, 3, n)' <=> Passed(c, 3, n) \/ n = i[c]
  BY <1>0, <1>1, Passing
<1>4. UNCHANGED <<num, came, alone, overlapped>> /\ Headed(c)' = Headed(c)
      /\ Headed(c) \subseteq 1 .. num[c]
  BY <1>1, Cells DEF Lasting, Headed
<1>5. /\ copy[c] \in Copy
      /\ \A k \in Copy : \A f : Knows(k, f) => Knows(k, f)'
      /\ \A k \in Copy : \A f : Knows(k, f)' => Knows(k, f) \/ (k = copy[c] /\ f = seen[c].flow)
      /\ \A k, f : Kept(k, f) => Kept(k, f)'
      /\ \A k, f : k = copy[c] /\ f = seen[c].flow => Kept(k, f)'
  BY Remembers
<1>6. alone[c] => seen[c] = frame[c][i[c]] /\ i[c] \in Headed(c)
  BY <1>0, <1>1, AtHand
<1>7. Heard(c)'
  <2> SUFFICES ASSUME alone[c], NEW n \in Headed(c), Passed(c, 3, n)'
               PROVE  Kept(copy[c], frame[c][n].flow)'
    BY <1>4 DEF Heard
  <2>1. PICK k, f : k = copy[c] /\ f = frame[c][n].flow
    OBVIOUS
  <2>2. Kept(k, f)'
    <3>1. CASE Passed(c, 3, n)
      BY <1>1, <1>5, <2>1, <3>1 DEF CacheInv, Heard, InChain
    <3>2. CASE n = i[c]
      BY <1>5, <1>6, <2>1, <3>2
    <3> QED
      BY <1>3, <1>4, <3>1, <3>2
  <2>3. copy'[c] = k /\ frame'[c][n].flow = f
    BY <1>0, <1>2, <2>1
  <2> QED
    BY <2>2, <2>3
<1>8. \A q \in sent' : Kept(q.acl, q.out)'
  <2>1. \A q \in sent : Kept(q.acl, q.out)
    BY DEF CacheInv
  <2> SUFFICES ASSUME NEW q \in sent' PROVE Kept(q.acl, q.out)'
    OBVIOUS
  <2>2. PICK k, f : k = q.acl /\ f = q.out
    OBVIOUS
  <2>3. Kept(k, f)'
    BY <1>2, <1>5, <2>1, <2>2
  <2> QED
    BY <2>2, <2>3
<1>9. ASSUME ~overlapped, NEW k \in Copy, NEW f \in Flow, Knows(k, f)'
      PROVE  SentBy(k, f)' \/ Through(c, k, f)'
  <2>1. alone[c] /\ (Knows(k, f) => SentBy(k, f) \/ Through(c, k, f))
    BY <1>1, <1>9, OnlyOne
  <2>2. CASE SentBy(k, f)
    BY <1>2, <2>2 DEF SentBy
  <2>3. CASE Through(c, k, f)
    BY <1>0, <1>2, <1>3, <1>4, <2>3 DEF Through
  <2>4. CASE k = copy[c] /\ f = seen[c].flow
    <3>1. \A n : n = i[c] => (Passed(c, 3, n)' /\ n \in Headed(c)' /\ frame'[c][n].flow = f)
      BY <1>0, <1>3, <1>4, <1>6, <2>1, <2>4
    <3> QED
      BY <1>2, <1>4, <2>4, <3>1 DEF Through
  <2> QED
    BY <1>5, <1>9, <2>1, <2>2, <2>3, <2>4
<1> QED
  BY <1>0, <1>1, <1>5, <1>7, <1>8, <1>9, StepCache

\* An early return leaves the ACL with the frames that came before it.
LEMMA EarlyCache ==
  ASSUME TypeInv, LoadInv, RunInv, CacheInv, OneInv, NEW c \in Lcore, ReturnEarly(c)
  PROVE  CacheInv' /\ OneInv'
<1>0. /\ pc[c] = "work" /\ nf[c] \in {2, 3} /\ Apart(c) /\ UNCHANGED Lasting
      /\ NextFunction(c) /\ seen[c].kind # "udp" /\ UNCHANGED <<frame, cache>>
  BY ReturnedEarly
<1>1. sent' = sent /\ nf'[c] = nf[c] + 1 /\ i'[c] = 1 /\ pc'[c] = "fetch"
  BY <1>0 DEF NextFunction
<1>2. CASE nf[c] = 2
  <2>1. \A n \in 1 .. num[c] : ~Passed(c, 3, n)'
    BY <1>1, <1>2 DEF Passed
  <2> QED
    BY <1>0, <1>1, <1>2, <2>1, BeforeAcl
<1>3. CASE nf[c] = 3
  <2>1. UNCHANGED <<num, came, alone, overlapped>> /\ Headed(c)' = Headed(c)
        /\ Headed(c) \subseteq 1 .. num[c]
    BY <1>0, Cells DEF Lasting, Headed
  <2>2. copy'[c] = copy[c] /\ InChain(c)' /\ \A n : Passed(c, 3, n)'
    BY <1>0, <1>1, <1>3 DEF NextFunction, InChain, Passed
  <2>3. \A k, f : (Kept(k, f)' <=> Kept(k, f)) /\ (Knows(k, f)' <=> Knows(k, f))
                  /\ (SentBy(k, f)' <=> SentBy(k, f))
    BY <1>0, <1>1 DEF Kept, Knows, SentBy
  <2>4. ASSUME alone[c], NEW n \in Headed(c) PROVE Passed(c, 3, n)
    <3>1. i[c] \in 1 .. num[c] /\ i[c] \notin Headed(c) /\ i[c] \in Nat /\ num[c] \in Nat
      BY <1>0, <2>4, AtHand, Cells
    <3>2. n \in 1 .. num[c] /\ \A m \in 1 .. n : came[c][m].kind = "udp"
      BY <2>4 DEF Headed
    <3>3. ~(i[c] =< n)
      <4> SUFFICES ASSUME i[c] =< n PROVE FALSE
        OBVIOUS
      <4>1. \A m \in 1 .. i[c] : m \in 1 .. n
        BY <3>1, <3>2
      <4>2. i[c] \in Headed(c)
        BY <3>1, <3>2, <4>1 DEF Headed
      <4> QED
        BY <3>1, <4>2
    <3>4. i[c] > n
      BY <3>1, <3>2, <3>3
    <3> QED
      BY <1>3, <3>4 DEF Passed
  <2>5. Heard(c)'
    <3> SUFFICES ASSUME alone[c], NEW n \in Headed(c)
                 PROVE  Kept(copy[c], frame[c][n].flow)'
      BY <2>1 DEF Heard
    <3>1. PICK k, f : k = copy[c] /\ f = frame[c][n].flow
      OBVIOUS
    <3>2. Kept(k, f)
      BY <1>0, <2>4, <3>1 DEF CacheInv, Heard, InChain
    <3>3. copy'[c] = k /\ frame'[c][n].flow = f /\ Kept(k, f)'
      BY <1>0, <2>2, <2>3, <3>1, <3>2
    <3> QED
      BY <3>3
  <2>6. \A q \in sent' : Kept(q.acl, q.out)'
    BY <1>0, <1>1 DEF CacheInv, Kept, Knows
  <2>7. \A k, f : Through(c, k, f) => Through(c, k, f)'
    BY <1>0, <2>1, <2>2 DEF Through
  <2>8. ~overlapped => \A k \in Copy : \A f \in Flow :
                         Knows(k, f)' => SentBy(k, f)' \/ Through(c, k, f)'
    BY <1>0, <2>3, <2>7, OnlyOne
  <2> QED
    BY <1>0, <2>3, <2>5, <2>6, <2>8, StepCache
<1> QED
  BY <1>0, <1>2, <1>3

\* What leaves is what the ACL remembers.
LEMMA Nf4Cache ==
  ASSUME TypeInv, LoadInv, RunInv, CacheInv, OneInv, NEW c \in Lcore, Nf4(c)
  PROVE  CacheInv' /\ OneInv'
<1>0. Works(c, 4) /\ 4 \in Nf /\ 3 \in Nf /\ cache' = cache
  BY DEF Nf4, Nf
<1>1. /\ pc[c] = "work" /\ nf[c] = 4 /\ Apart(c) /\ UNCHANGED Lasting
      /\ NextFrame(c) \/ GoOut(c)
  BY <1>0, Worked DEF NextFunction
<1>2. /\ \A d \in Lcore : d # c /\ alone[d] => frame'[d] = frame[d]
      /\ alone[c] => \A n \in 1 .. num[c] : frame'[c][n].flow = frame[c][n].flow
  BY Nf4Run
<1>3. UNCHANGED <<num, came, alone, overlapped>> /\ Headed(c)' = Headed(c)
      /\ Headed(c) \subseteq 1 .. num[c]
  BY <1>1, Cells DEF Lasting, Headed
<1>4. \A k, f : (Kept(k, f)' <=> Kept(k, f)) /\ (Knows(k, f)' <=> Knows(k, f))
  BY <1>0 DEF Kept, Knows
<1>5. alone[c] => \A n \in Headed(c) : Kept(copy[c], frame[c][n].flow)
  BY <1>1 DEF CacheInv, Heard, InChain, Passed
<1>6. CASE NextFrame(c)
  <2>1. sent' = sent /\ copy'[c] = copy[c] /\ nf'[c] = 4 /\ InChain(c)'
    BY <1>1, <1>6 DEF NextFrame, InChain
  <2>2. Heard(c)'
    <3> SUFFICES ASSUME alone[c], NEW n \in Headed(c)
                 PROVE  Kept(copy[c], frame[c][n].flow)'
      BY <1>3 DEF Heard
    <3>1. PICK k, f : k = copy[c] /\ f = frame[c][n].flow
      OBVIOUS
    <3>2. copy'[c] = k /\ frame'[c][n].flow = f /\ Kept(k, f)'
      BY <1>2, <1>3, <1>4, <1>5, <2>1, <3>1
    <3> QED
      BY <3>2
  <2>3. \A q \in sent' : Kept(q.acl, q.out)'
    BY <1>0, <2>1 DEF CacheInv, Kept, Knows
  <2>4. \A k, f : SentBy(k, f)' <=> SentBy(k, f)
    BY <2>1 DEF SentBy
  <2>5. ASSUME alone[c], NEW k, NEW f, Through(c, k, f) PROVE Through(c, k, f)'
    <3>1. PICK n \in Headed(c) : frame[c][n].flow = f /\ copy[c] = k
      BY <2>5 DEF Through
    <3>2. n \in Headed(c)' /\ Passed(c, 3, n)' /\ frame'[c][n].flow = f
      BY <1>2, <1>3, <2>1, <2>5, <3>1 DEF Passed
    <3> QED
      BY <2>1, <3>1, <3>2 DEF Through
  <2>6. ~overlapped => \A k \in Copy : \A f \in Flow :
                         Knows(k, f)' => SentBy(k, f)' \/ Through(c, k, f)'
    BY <1>1, <1>4, <2>4, <2>5, OnlyOne
  <2> QED
    BY <1>1, <1>2, <1>4, <2>2, <2>3, <2>6, StepCache
<1>7. CASE GoOut(c)
  <2>1. /\ ~InChain(c)'
        /\ sent' = IF alone[c]
                   THEN sent \cup {[out |-> frame[c][n].flow, acl |-> copy[c]] : n \in Headed(c)}
                   ELSE sent
    BY <1>7 DEF GoOut, InChain
  <2>2. \A q \in sent' : q \in sent \/ (alone[c] /\ \E n \in Headed(c) :
                           q.acl = copy[c] /\ q.out = frame[c][n].flow)
    BY <2>1
  <2>3. ASSUME NEW q \in sent' PROVE Kept(q.acl, q.out)'
    <3>1. PICK k, f : k = q.acl /\ f = q.out
      OBVIOUS
    <3>2. Kept(k, f)
      BY <1>5, <2>2, <3>1 DEF CacheInv
    <3>3. Kept(k, f)'
      BY <1>4, <3>2
    <3> QED
      BY <3>1, <3>3
  <2>4. Heard(c)'
    BY <2>1 DEF Heard
  <2>5. \A k, f : SentBy(k, f) => SentBy(k, f)'
    BY <2>1 DEF SentBy
  <2>6. ASSUME alone[c], NEW k, NEW f, Through(c, k, f) PROVE SentBy(k, f)'
    <3>1. PICK n \in Headed(c) : frame[c][n].flow = f /\ copy[c] = k
      BY <2>6 DEF Through
    <3>2. PICK q : q = [out |-> frame[c][n].flow, acl |-> copy[c]]
      OBVIOUS
    <3>3. q \in sent' /\ q.acl = k /\ q.out = f
      BY <2>1, <2>6, <3>1, <3>2
    <3> QED
      BY <3>3 DEF SentBy
  <2>7. ~overlapped => \A k \in Copy : \A f \in Flow :
                         Knows(k, f)' => SentBy(k, f)' \/ Through(c, k, f)'
    BY <1>1, <1>4, <2>5, <2>6, OnlyOne
  <2> QED
    BY <1>1, <1>2, <1>4, <2>3, <2>4, <2>7, StepCache
<1> QED
  BY <1>1, <1>6, <1>7

-----------------------------------------------------------------------------
ChainInv == TypeInv /\ LoadInv /\ RunInv /\ OneInv /\ CacheInv

LEMMA ChainInit == Init => ChainInv
<1> SUFFICES ASSUME Init PROVE ChainInv
  OBVIOUS
<1>1. RunType
  BY Sizes DEF Init, RunType, Nf, Burst
<1>2. FrameType
  BY UnreadIs, Sizes DEF Init, FrameType, Burst
<1>3. HistoryType
  BY DEF Init, HistoryType
<1>4. CacheType
  <2>1. Cardinality({}) = 0
    BY FS_EmptySet
  <2> QED
    BY <2>1, Sizes DEF Init, CacheType
<1>5. ~overlapped /\ sent = {} /\ \A c \in Lcore : num[c] = 0 /\ pc[c] = "load" /\ alone[c]
  BY DEF Init
<1>6. \A c \in Lcore : ~InChain(c)
  BY <1>5 DEF InChain
<1>7. RunInv
  BY <1>5, <1>6 DEF RunInv, Runs, Lone
<1>8. OneInv
  BY <1>5, <1>6 DEF OneInv
<1>9. \A k \in Copy : \A f : ~Knows(k, f)
  BY DEF Init, Knows
<1>10. CacheInv
  BY <1>5, <1>6, <1>9 DEF CacheInv, Heard
<1> QED
  BY <1>1, <1>2, <1>3, <1>4, <1>7, <1>8, <1>10, LoadInit DEF ChainInv, TypeInv

\* A step of an lcore that has loaded its functions keeps what was loaded.
LEMMA RunLoaded ==
  ASSUME TypeInv, LoadInv, NEW c \in Lcore, UNCHANGED loading, Ready(c), Ready(c)',
         \A d \in Lcore : d # c => pc'[d] = pc[d] /\ nf'[d] = nf[d]
  PROVE  LoadInv'
<1>1. \A d \in Lcore : /\ Ready(d)' <=> Ready(d)
                       /\ ~Ready(d) => pc'[d] = pc[d] /\ nf'[d] = nf[d]
  BY DEF Ready
<1> QED
  BY <1>1, StillLoaded

LEMMA WorkLoaded ==
  ASSUME TypeInv, LoadInv, NEW c \in Lcore, pc[c] = "work", Apart(c), UNCHANGED Lasting,
         NextFrame(c) \/ NextFunction(c) \/ GoOut(c)
  PROVE  LoadInv'
<1>1. UNCHANGED loading /\ Ready(c) /\ Ready(c)'
  BY DEF Lasting, Ready, NextFrame, NextFunction, GoOut
<1> QED
  BY <1>1, RunLoaded DEF Apart

LEMMA ChainKept == ChainInv /\ UNCHANGED vars => ChainInv'
<1> SUFFICES ASSUME ChainInv, UNCHANGED vars PROVE ChainInv'
  OBVIOUS
<1>1. UNCHANGED <<CURRENT_DOM, entry, copies, elf_a, pc, nf, calls, eth_hdrs_burst, num, came,
                  frame, copy, i, at, seen, cache, alone, overlapped, sent>>
  BY DEF vars, loading, frames, locals, history
<1>2. TypeInv /\ LoadInv /\ RunInv /\ OneInv /\ CacheInv
  BY DEF ChainInv
<1>3. TypeInv'
  BY <1>1, <1>2 DEF TypeInv, RunType, FrameType, HistoryType, CacheType
<1>4. \A d \in Lcore : Ready(d)' <=> Ready(d)
  BY <1>1 DEF Ready
<1>5. LoadInv'
  <2>1. UNCHANGED loading
    BY <1>1 DEF loading
  <2> QED
    BY <1>1, <1>2, <1>4, <2>1, StillLoaded
<1>6. \A d \in Lcore : /\ InChain(d)' <=> InChain(d)
                       /\ Headed(d)' = Headed(d)
                       /\ \A k, n : Passed(d, k, n)' <=> Passed(d, k, n)
  BY <1>1 DEF InChain, Headed, Passed
<1>7. RunInv'
  <2> SUFFICES ASSUME NEW d \in Lcore PROVE Runs(d)'
    BY DEF RunInv
  <2>1. Runs(d)
    BY <1>2 DEF RunInv
  <2>2. Bounded(d)' <=> Bounded(d)
    BY <1>1 DEF Bounded, Reaches
  <2>3. Own(d)' <=> Own(d)
    BY <1>1 DEF Own
  <2>4. \A n : Served(d, n)' <=> Served(d, n)
    BY <1>1, <1>6 DEF Served, Aged, Turned
  <2> QED
    BY <1>1, <1>4, <1>6, <2>1, <2>2, <2>3, <2>4 DEF Runs, Lone
<1>8. OneInv'
  BY <1>1, <1>2, <1>6, OneStep
<1>9. \A k, f : (Kept(k, f)' <=> Kept(k, f)) /\ (Knows(k, f)' <=> Knows(k, f))
                /\ (SentBy(k, f)' <=> SentBy(k, f))
  BY <1>1 DEF Kept, Knows, SentBy
<1>10. \A d \in Lcore : \A k, f : Through(d, k, f)' <=> Through(d, k, f)
  BY <1>1, <1>6 DEF Through
<1>11. \A d \in Lcore : Heard(d)' <=> Heard(d)
  BY <1>1, <1>6 DEF Heard, Kept, Knows
<1>12. \A q \in sent' : Kept(q.acl, q.out)'
  BY <1>1, <1>2 DEF CacheInv, Kept, Knows
<1>13. CacheInv'
  BY <1>1, <1>2, <1>9, <1>10, <1>11, <1>12 DEF CacheInv
<1> QED
  BY <1>3, <1>5, <1>7, <1>8, <1>13 DEF ChainInv

LEMMA ChainStep == ChainInv /\ [Next]_vars => ChainInv'
<1> SUFFICES ASSUME ChainInv, [Next]_vars PROVE ChainInv'
  OBVIOUS
<1>0. TypeInv /\ LoadInv /\ RunInv /\ OneInv /\ CacheInv
  BY DEF ChainInv
<1>1. ASSUME NEW c \in Lcore, Load(c) PROVE ChainInv'
  BY <1>0, <1>1, LoadLoaded, LoadingRun, LoadingCache DEF ChainInv, TypeInv
<1>2. ASSUME NEW c \in Lcore, LeaveDomain(c) PROVE ChainInv'
  BY <1>0, <1>2, LeaveLoaded, LoadingRun, LoadingCache DEF ChainInv, TypeInv
<1>3. ASSUME NEW c \in Lcore, Call(c) PROVE ChainInv'
  <2>1. UNCHANGED loading /\ pc[c] = "idle" /\ Enter(c, 1) /\ 1 \in Nf
    BY <1>3 DEF Call, Nf
  <2>2. pc'[c] = "fetch" /\ \A d \in Lcore : d # c => pc'[d] = pc[d] /\ nf'[d] = nf[d]
    BY <1>0, <2>1, Entering
  <2>3. LoadInv'
    BY <1>0, <2>1, <2>2, RunLoaded DEF Ready
  <2> QED
    BY <1>0, <1>3, <2>3, CallRun, CallCache, CallOne DEF ChainInv
<1>4. ASSUME NEW c \in Lcore, Fetch(c) PROVE ChainInv'
  <2>1. UNCHANGED <<loading, nf>> /\ pc[c] = "fetch" /\ pc' = [pc EXCEPT ![c] = "work"]
    BY <1>0, <1>4, FetchRun
  <2>2. pc'[c] = "work" /\ \A d \in Lcore : d # c => pc'[d] = pc[d] /\ nf'[d] = nf[d]
    BY <1>0, <2>1 DEF TypeInv, RunType
  <2>3. LoadInv'
    BY <1>0, <2>1, <2>2, RunLoaded DEF Ready
  <2> QED
    BY <1>0, <1>4, <2>3, FetchRun, FetchCache DEF ChainInv
<1>5. ASSUME NEW c \in Lcore, NEW k \in Nf, Works(c, k) PROVE LoadInv'
  BY <1>0, <1>5, Worked, WorkLoaded
<1>6. ASSUME NEW c \in Lcore, ReturnEarly(c) PROVE ChainInv'
  <2>1. LoadInv'
    BY <1>0, <1>6, ReturnedEarly, WorkLoaded
  <2> QED
    BY <1>0, <1>6, <2>1, EarlyRun, EarlyCache DEF ChainInv
<1>7. ASSUME NEW c \in Lcore, Nf1(c) PROVE ChainInv'
  <2>1. LoadInv'
    BY <1>5, <1>7 DEF Nf1, Nf
  <2> QED
    BY <1>0, <1>7, <2>1, Nf1Run, Nf1Cache DEF ChainInv
<1>8. ASSUME NEW c \in Lcore, Nf2(c) PROVE ChainInv'
  <2>1. LoadInv'
    BY <1>5, <1>8 DEF Nf2, Nf
  <2> QED
    BY <1>0, <1>8, <2>1, Nf2Run, Nf2Cache DEF ChainInv
<1>9. ASSUME NEW c \in Lcore, Nf3(c) PROVE ChainInv'
  <2>1. LoadInv'
    BY <1>5, <1>9 DEF Nf3, Nf
  <2> QED
    BY <1>0, <1>9, <2>1, Nf3Run, Nf3Cache DEF ChainInv
<1>10. ASSUME NEW c \in Lcore, Nf4(c) PROVE ChainInv'
  <2>1. LoadInv'
    BY <1>5, <1>10 DEF Nf4, Nf
  <2> QED
    BY <1>0, <1>10, <2>1, Nf4Run, Nf4Cache DEF ChainInv
<1>11. CASE UNCHANGED vars
  BY <1>11, ChainKept
<1> QED
  BY <1>1, <1>2, <1>3, <1>4, <1>6, <1>7, <1>8, <1>9, <1>10, <1>11 DEF Next, Rest

LEMMA ChainInvariant == Spec => []ChainInv
<1>1. Spec <=> Init /\ [][Next]_vars
  BY DEF Spec
<1> QED
  BY <1>1, ChainInit, ChainStep, PTL

-----------------------------------------------------------------------------
\* On any number of lcores, loading and running in any order, no function has
\* more copies than there are lcores, a time to live stays in its byte, an
\* lcore stays within its batch, and a copy of the ACL in its buckets.
THEOREM TypeCorrect == Spec => []TypeOK
<1>1. ChainInv => TypeOK
  BY DEF ChainInv, TypeInv, LoadInv, CacheType, TypeOK
<1> QED
  BY <1>1, ChainInvariant, PTL

\* On any number of lcores, whatever the others load meanwhile and however
\* often batches have met on the shared array before: every frame of a batch
\* that was alone in the chain is aged and turned as it should be, and a frame
\* behind one without the headers keeps its flow.
THEOREM BatchesServed == Spec => []EveryFrameServed
<1>1. ChainInv => EveryFrameServed
  <2> SUFFICES ASSUME ChainInv, NEW c \in Lcore, pc[c] = "idle", alone[c], NEW n \in 1 .. num[c]
               PROVE  /\ frame[c][n].mac # came[c][n].mac
                      /\ frame[c][n].kind = came[c][n].kind
                      /\ came[c][n].kind # "other" =>
                           (frame[c][n].time_to_live + 1) % 256 = came[c][n].time_to_live
                      /\ came[c][n].kind = "other" =>
                           frame[c][n].time_to_live = came[c][n].time_to_live
                      /\ n \notin Headed(c) => frame[c][n].flow = came[c][n].flow
    BY DEF EveryFrameServed
  <2>1. Served(c, n) /\ Passed(c, 1, n) /\ Passed(c, 4, n)
    BY DEF ChainInv, RunInv, Runs, Lone, Passed
  <2>2. came[c][n] \in Frame
    BY Cells DEF ChainInv
  <2>3. came[c][n].mac \in BOOLEAN /\ came[c][n].time_to_live \in 0 .. 255
    BY <2>2, FrameParts
  <2>4. \A x \in 0 .. 255 : (((x + 255) % 256) + 1) % 256 = x
    OBVIOUS
  <2> QED
    BY <2>1, <2>3, <2>4 DEF Served, Aged, Turned
<1> QED
  BY <1>1, ChainInvariant, PTL

\* On any number of lcores, for any size of the ACL's maps and any padding:
\* what left in a batch that was alone is remembered by the copy it left
\* through, unless that is full, and until batches have met on the shared
\* array a copy remembers nothing else.
THEOREM AclRemembers == Spec => []AclSeesWhatLeft
<1>1. ChainInv => AclSeesWhatLeft
  <2> SUFFICES ASSUME ChainInv, Running = {}, NEW k \in Copy
               PROVE  /\ Cardinality(cache[k]) < CAPACITY => Left(k) \subseteq Remembered(k)
                      /\ ~overlapped => Remembered(k) \subseteq Left(k)
    BY DEF AclSeesWhatLeft
  <2>1. cache[k] \subseteq Flow \X Pad /\ IsFiniteSet(cache[k]) /\ Cardinality(cache[k]) \in Nat
    <3>1. cache[k] \subseteq Flow \X Pad
      BY DEF ChainInv, TypeInv, CacheType
    <3>2. IsFiniteSet(Flow \X Pad)
      BY ChainAssumption, FS_Product
    <3> QED
      BY <3>1, <3>2, FS_Subset, FS_CardinalityType
  <2>2. \A f : f \in Remembered(k) <=> \E p \in Pad : <<f, p>> \in cache[k]
    <3>1. \A r \in cache[k] : r = <<r[1], r[2]>> /\ r[2] \in Pad
      BY <2>1
    <3>2. \A f, p : <<f, p>>[1] = f
      OBVIOUS
    <3>3. \A f : f \in Remembered(k) <=> \E r \in cache[k] : f = r[1]
      BY DEF Remembered
    <3>4. ASSUME NEW f, NEW r \in cache[k], f = r[1]
          PROVE  \E p \in Pad : <<f, p>> \in cache[k]
      <4>1. r[2] \in Pad /\ <<f, r[2]>> \in cache[k]
        BY <3>1, <3>4
      <4> QED
        BY <4>1
    <3>5. ASSUME NEW f, NEW p \in Pad, <<f, p>> \in cache[k]
          PROVE  \E r \in cache[k] : f = r[1]
      BY <3>2, <3>5
    <3> QED
      BY <3>3, <3>4, <3>5
  <2>3. \A f : f \in Left(k) <=> \E q \in sent : q.acl = k /\ q.out = f
    BY DEF Left
  <2>4. ASSUME Cardinality(cache[k]) < CAPACITY, NEW f \in Left(k) PROVE f \in Remembered(k)
    <3>1. Kept(k, f)
      BY <2>3, <2>4 DEF ChainInv, CacheInv
    <3>2. ~(Cardinality(cache[k]) >= CAPACITY)
      BY <2>1, <2>4, Sizes
    <3> QED
      BY <2>2, <3>1, <3>2 DEF Kept, Knows
  <2>5. ASSUME ~overlapped, NEW f \in Remembered(k) PROVE f \in Left(k)
    <3>1. f \in Flow /\ Knows(k, f)
      <4>1. PICK p \in Pad : <<f, p>> \in cache[k]
        BY <2>2, <2>5
      <4>2. <<f, p>> \in Flow \X Pad
        BY <2>1, <4>1
      <4>3. f \in Flow
        BY <4>2
      <4> QED
        BY <4>1, <4>3 DEF Knows
    <3>2. \A d \in Lcore : ~Through(d, k, f)
      BY DEF Running, Through, InChain
    <3>3. SentBy(k, f)
      BY <2>5, <3>1, <3>2 DEF ChainInv, CacheInv
    <3> QED
      BY <2>3, <3>3 DEF SentBy
  <2> QED
    BY <2>4, <2>5
<1> QED
  BY <1>1, ChainInvariant, PTL
=============================================================================
