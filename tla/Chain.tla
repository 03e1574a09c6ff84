------------------------------- MODULE Chain -------------------------------
(***************************************************************************)
(* init_nfs and run_nfs (nfv.c): every lcore with a port loads the four    *)
(* functions, and then runs them over its batches, one after the other.    *)
(* The entry points are shared by all lcores, and so is what the ACL       *)
(* remembers, which is part of the copy that was loaded: load_elf_domain   *)
(* gives each copy memory of its own.  Shared is also the array run_nfs is *)
(* given, eth_hdrs_burst: an lcore whose batch is in the chain finds there *)
(* what the lcore that received last wrote into it.                        *)
(*                                                                         *)
(* A function fetches a frame and then writes to it, so that two lcores    *)
(* interleave between frames, and between a frame's fetch and its write.   *)
(* What the translation writes is left open: Nf2 has its table, and gets   *)
(* to any flow, as its second insertion may store any.                     *)
(***************************************************************************)
EXTENDS Integers, FiniteSets

CONSTANTS
  Lcore,            \* the lcores with an RX port
  Flow, Pad,        \* a flow, and what is in the padding of the struct of one
  CAPACITY,         \* buckets of the ACL's hash map
  BATCH_SIZE,
  WireFrame,        \* the frames that arrive
  MaxCalls          \* bound: the batches of all lcores

Nf == 1 .. 4
Burst == 1 .. BATCH_SIZE

\* ether_type and next_proto_id: UDP in IPv4, IPv4, or neither.  mac is
\* whether the addresses are as they came.
Kind == {"udp", "ipv4", "other"}
Frame == [kind: Kind, flow: Flow, time_to_live: 0 .. 255, mac: BOOLEAN]

ASSUME ChainAssumption ==
  /\ IsFiniteSet(Lcore) /\ IsFiniteSet(Flow) /\ IsFiniteSet(Pad)
  /\ BATCH_SIZE \in Nat \ {0} /\ CAPACITY \in Nat /\ MaxCalls \in Nat
  /\ WireFrame \subseteq Frame /\ WireFrame # {}

VARIABLES
  CURRENT_DOM,
  entry,        \* _nf1 to _nf4: the copy each points to, 0 for NULL
  copies,       \* how many copies of each function were loaded
  elf_a,        \* per lcore: the copy it is loading, 0 for none
  pc, nf,       \* per lcore: what it does, and with which function
  calls,        \* the batches so far
  eth_hdrs_burst,   \* the frames' addresses: an lcore, and which of its frames
  num, came, frame, \* per lcore: its batch, as it came and as it is
  copy,         \* per lcore: the copy of nf3 it runs, or ran last
  i, at, seen,  \* per lcore: the frame a function is at, its address, and what
                \* was read there
  cache,        \* per copy of nf3: the flows it remembers, with their padding
  alone,        \* history: no other lcore was in the chain with this batch
  overlapped,   \* history: there were two lcores in the chain
  sent          \* history: the flows that left, and by which copy of nf3

loading == <<CURRENT_DOM, entry, copies, elf_a>>
frames == <<eth_hdrs_burst, num, came, frame>>
locals == <<copy, i, at, seen>>
history == <<alone, overlapped, sent>>
vars == <<loading, pc, nf, calls, frames, locals, cache, history>>

Copy == 1 .. Cardinality(Lcore)
NULL == <<>>
Address == Lcore \X Burst

\* What a buffer holds before anything is read from it.
Unread == CHOOSE f \in WireFrame : TRUE

Init ==
  /\ CURRENT_DOM = 0
  /\ entry = [k \in Nf |-> 0] /\ copies = [k \in Nf |-> 0]
  /\ elf_a = [c \in Lcore |-> 0]
  /\ pc = [c \in Lcore |-> "load"] /\ nf = [c \in Lcore |-> 1]
  /\ calls = 0
  /\ eth_hdrs_burst = [n \in Burst |-> NULL]
  /\ num = [c \in Lcore |-> 0]
  /\ came = [c \in Lcore |-> [n \in Burst |-> Unread]] /\ frame = came
  /\ copy = [c \in Lcore |-> 0] /\ i = [c \in Lcore |-> 1]
  /\ at = [c \in Lcore |-> NULL] /\ seen = [c \in Lcore |-> Unread]
  /\ cache = [n \in Copy |-> {}]
  /\ alone = [c \in Lcore |-> TRUE] /\ overlapped = FALSE
  /\ sent = {}

-----------------------------------------------------------------------------
\* Load_nf1 to Load_nf4: the domain is set and the function is loaded, a copy
\* that has seen no frame.  It is the loader, not this code, that reads the
\* domain, which another lcore may have set meanwhile.
Load(c) ==
  /\ pc[c] = "load"
  /\ CURRENT_DOM' = nf[c]
  /\ copies' = [copies EXCEPT ![nf[c]] = @ + 1]
  /\ elf_a' = [elf_a EXCEPT ![c] = copies'[nf[c]]]
  /\ pc' = [pc EXCEPT ![c] = "leave"]
  /\ UNCHANGED <<entry, nf, calls, frames, locals, cache, history>>

\* The entry point is that of this lcore's copy, even if another lcore has
\* loaded a later one meanwhile.
LeaveDomain(c) ==
  /\ pc[c] = "leave"
  /\ entry' = [entry EXCEPT ![nf[c]] = elf_a[c]]
  /\ elf_a' = [elf_a EXCEPT ![c] = 0]
  /\ CURRENT_DOM' = 0
  /\ IF nf[c] = 4
     THEN pc' = [pc EXCEPT ![c] = "idle"] /\ UNCHANGED nf
     ELSE pc' = [pc EXCEPT ![c] = "load"] /\ nf' = [nf EXCEPT ![c] = @ + 1]
  /\ UNCHANGED <<copies, calls, frames, locals, cache, history>>

-----------------------------------------------------------------------------
Running == {c \in Lcore : pc[c] \in {"fetch", "work"}}

\* Mutant: the ACL comes before the translation.
AclFirst == <<1, 3, 2, 4>>

\* The functions in the order run_nfs calls them.
run_nfs == <<1, 2, 3, 4>>

\* The k-th function is called: its entry point is read, and the first frame
\* is at hand.  Which copy is called makes a difference for the ACL only, the
\* one whose memory is looked at here.
Enter(c, k) ==
  /\ nf' = [nf EXCEPT ![c] = k] /\ i' = [i EXCEPT ![c] = 1]
  /\ copy' = IF run_nfs[k] = 3 THEN [copy EXCEPT ![c] = entry[3]] ELSE copy
  /\ pc' = [pc EXCEPT ![c] = "fetch"]

\* The first k of new over those of old, whose others stay.
Over(k, new, old) == [n \in Burst |-> IF n =< k THEN new[n] ELSE old[n]]

\* An lcore puts the addresses of the frames it received into the array, over
\* those of the lcore before, and calls run_nfs.  A burst is one batch here;
\* DataPlane has bursts of several.
Call(c) ==
  /\ pc[c] = "idle" /\ calls < MaxCalls
  /\ calls' = calls + 1
  /\ \E k \in Burst : \E batch \in [1 .. k -> WireFrame] :
       /\ num' = [num EXCEPT ![c] = k]
       /\ came' = [came EXCEPT ![c] = Over(k, batch, @)]
       /\ frame' = [frame EXCEPT ![c] = Over(k, batch, @)]
       /\ eth_hdrs_burst' = Over(k, [n \in Burst |-> <<c, n>>], eth_hdrs_burst)
  /\ Enter(c, 1)
  /\ alone' = [d \in Lcore |-> IF d = c THEN Running = {}
                               ELSE d \notin Running /\ alone[d]]
  /\ overlapped' = (overlapped \/ Running # {})
  /\ UNCHANGED <<loading, at, seen, cache, sent>>

\* The frame with address a, the one at hand as it is now, and as it will be.
Stored(a) == frame[a[1]][a[2]]
there(c) == Stored(at[c])
Store(c, f) == frame' = [frame EXCEPT ![at[c][1]][at[c][2]] = f]

\* eth_hdr = packets[i], and what the function reads of the frame.
Fetch(c) ==
  /\ pc[c] = "fetch"
  /\ at' = [at EXCEPT ![c] = eth_hdrs_burst[i[c]]]
  /\ seen' = [seen EXCEPT ![c] = Stored(at'[c])]
  /\ pc' = [pc EXCEPT ![c] = "work"]
  /\ UNCHANGED <<loading, nf, calls, frames, copy, i, cache, history>>

\* The frames before the first one without the headers.
Headed(c) == {n \in 1 .. num[c] : \A m \in 1 .. n : came[c][m].kind = "udp"}

\* The function returns; after the last one, which touches no flow, the frames
\* go out.
Return(c) ==
  \/ nf[c] # 4 /\ Enter(c, nf[c] + 1) /\ UNCHANGED sent
  \/ /\ nf[c] = 4 /\ pc' = [pc EXCEPT ![c] = "idle"]
     /\ sent' = IF alone[c]
                THEN sent \cup {[out |-> frame[c][n].flow, acl |-> copy[c]] : n \in Headed(c)}
                ELSE sent
     /\ UNCHANGED <<nf, i, copy>>

\* The locals of an iteration are gone with it.
Forget(c) ==
  /\ at' = [at EXCEPT ![c] = NULL] /\ seen' = [seen EXCEPT ![c] = Unread]
  /\ UNCHANGED <<loading, calls, eth_hdrs_burst, num, came, alone, overlapped>>

\* Lcore c is in function k, and done with the frame at hand.
Works(c, k) ==
  /\ pc[c] = "work" /\ run_nfs[nf[c]] = k
  /\ IF i[c] < num[c]
     THEN /\ i' = [i EXCEPT ![c] = @ + 1] /\ pc' = [pc EXCEPT ![c] = "fetch"]
          /\ UNCHANGED <<nf, copy, sent>>
     ELSE Return(c)
  /\ Forget(c)

\* Mutant: ageing has the early return too.
ReturnEarlyAlways(c) ==
  /\ pc[c] = "work" /\ run_nfs[nf[c]] # 4 /\ seen[c].kind # "udp"
  /\ Return(c) /\ Forget(c)
  /\ UNCHANGED <<frame, cache>>

\* nf2 and nf3: a frame without the headers ends the whole call.
ReturnEarly(c) ==
  /\ pc[c] = "work" /\ run_nfs[nf[c]] \in {2, 3} /\ seen[c].kind # "udp"
  /\ Return(c) /\ Forget(c)
  /\ UNCHANGED <<frame, cache>>

\* Mutant: the time to live has more than eight bits.
Less(ttl) == ttl - 1

\* time_to_live-- in eight bits
Decrement(ttl) == (ttl + 255) % 256

\* Every IPv4 frame is aged.
Nf1(c) ==
  /\ Works(c, 1)
  /\ IF seen[c].kind = "other" THEN UNCHANGED frame
     ELSE Store(c, [there(c) EXCEPT !.time_to_live = Decrement(seen[c].time_to_live)])
  /\ UNCHANGED cache

\* The frame is stamped, with whatever flow its own is translated to, or it
\* is not.
Nf2(c) ==
  /\ seen[c].kind = "udp" /\ Works(c, 2)
  /\ \E out \in Flow : Store(c, [there(c) EXCEPT !.flow = out])
  /\ UNCHANGED cache

\* What a hash map that remembers S may be after flow f, with padding p, was
\* inserted.  Where f is there with other padding, the probing may come upon
\* it or not; where the map is full an insertion is lost.
Inserted(S, f, p) ==
  {T \in {S, S \cup {<<f, p>>}} :
     /\ T # S => Cardinality(S) < CAPACITY
     /\ T = S => Cardinality(S) >= CAPACITY \/ \E q \in Pad : <<f, q>> \in S}

\* The one rule is all wildcards and lets everything through: the search of
\* the cache for the reverse flow is never come to.
Nf3(c) ==
  /\ seen[c].kind = "udp" /\ Works(c, 3)
  /\ \E p \in Pad : \E S \in Inserted(cache[copy[c]], seen[c].flow, p) :
       cache' = [cache EXCEPT ![copy[c]] = S]
  /\ UNCHANGED frame

ETH_HEADER_LEN == 14

\* flowhash may return something else than 0 for a frame it is told is len
\* bytes long: it wants the IPv4 header and the ports behind it.
Hashed(len) == \E words \in 0 .. 15 : len >= ETH_HEADER_LEN + 4 * words + 4

\* The backends it may return: one of three where the frame has a hash, and
\* -1 where it has none.  It tells flowhash the length of the Ethernet header,
\* so no frame has.
maglev_process_frame == IF Hashed(ETH_HEADER_LEN) THEN -1 .. 2 ELSE {-1}

\* A backend other than 0 has the addresses swapped.
Nf4(c) ==
  /\ Works(c, 4)
  /\ \E backend \in maglev_process_frame :
       IF backend # 0 THEN Store(c, [there(c) EXCEPT !.mac = ~seen[c].mac])
                      ELSE UNCHANGED frame
  /\ UNCHANGED cache

\* The batches are used up: a bound of the model.
Rest == /\ calls = MaxCalls /\ \A c \in Lcore : pc[c] = "idle"
        /\ UNCHANGED vars

Next ==
  \/ \E c \in Lcore :
       \/ Load(c) \/ LeaveDomain(c) \/ Call(c) \/ Fetch(c)
       \/ ReturnEarly(c) \/ Nf1(c) \/ Nf2(c) \/ Nf3(c) \/ Nf4(c)
  \/ Rest

Spec == Init /\ [][Next]_vars

-----------------------------------------------------------------------------
LoadType ==
  /\ CURRENT_DOM \in 0 .. 4
  /\ copies \in [Nf -> 0 .. Cardinality(Lcore)]
  /\ entry \in [Nf -> 0 .. Cardinality(Lcore)]
  /\ elf_a \in [Lcore -> 0 .. Cardinality(Lcore)]

RunType ==
  /\ pc \in [Lcore -> {"load", "leave", "idle", "fetch", "work"}]
  /\ nf \in [Lcore -> Nf] /\ calls \in 0 .. MaxCalls
  /\ copy \in [Lcore -> 0 .. Cardinality(Lcore)] /\ i \in [Lcore -> Burst]

FrameType ==
  /\ eth_hdrs_burst \in [Burst -> Address \cup {NULL}]
  /\ num \in [Lcore -> 0 .. BATCH_SIZE]
  /\ came \in [Lcore -> [Burst -> WireFrame]]
  /\ frame \in [Lcore -> [Burst -> Frame]]
  /\ at \in [Lcore -> Address \cup {NULL}] /\ seen \in [Lcore -> Frame]

HistoryType ==
  /\ alone \in [Lcore -> BOOLEAN] /\ overlapped \in BOOLEAN
  /\ sent \subseteq [out: Flow, acl: 0 .. Cardinality(Lcore)]

\* Types: in particular no more copies are loaded than there are lcores, a
\* time to live stays in its byte, and a copy of the ACL in its buckets.
TypeOK ==
  /\ LoadType /\ RunType /\ FrameType /\ HistoryType
  /\ \A n \in Copy : cache[n] \subseteq Flow \X Pad /\ Cardinality(cache[n]) =< CAPACITY
  /\ DOMAIN cache = Copy

\* When a batch that was alone in the chain is done every frame of it was
\* turned around, and every IPv4 frame was aged by one, those too that are
\* behind a frame without the headers; such frames, and those behind them,
\* kept their flow.  Other lcores that load the functions meanwhile make no
\* difference, nor do those whose batches met each other before or after it.
EveryFrameServed ==
  \A c \in Lcore : pc[c] = "idle" /\ alone[c] =>
    \A n \in 1 .. num[c] :
      LET was == came[c][n]
          is == frame[c][n]
      IN  /\ is.mac # was.mac /\ is.kind = was.kind
          /\ was.kind # "other" => (is.time_to_live + 1) % 256 = was.time_to_live
          /\ was.kind = "other" => is.time_to_live = was.time_to_live
          /\ n \notin Headed(c) => is.flow = was.flow

\* When no lcore is in the chain, a copy of the ACL that is not full remembers
\* flows as they left, and all that left through it in batches that were
\* alone.  Unless batches met it remembers nothing else: the ACL is behind the
\* translation, and both return at the same frame.
Remembered(n) == {r[1] : r \in cache[n]}
Left(n) == {r.out : r \in {q \in sent : q.acl = n}}
AclSeesWhatLeft ==
  Running = {} =>
    \A n \in Copy : /\ Cardinality(cache[n]) < CAPACITY => Left(n) \subseteq Remembered(n)
                    /\ ~overlapped => Remembered(n) \subseteq Left(n)
=============================================================================
