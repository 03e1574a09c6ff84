# Verification of dpdk-nfv

TLA+ models of the packet forwarder in `src/main.cpp` and of the network
functions it runs, model-checked with TLC on small instances and, where a
result matters for every size, proved with TLAPS.

## The system

One process, `main()` in `src/main.cpp`, sets up the enabled DPDK ports,
gives each to one lcore, and starts `l2fwd_main_loop` on every lcore. The loop
polls the lcore's ports in turn: it receives a burst, runs the four network
functions over it in batches, sends it by the port it came in by, and drops what
the NIC refuses. A signal, a packet count or a timer sets `force_quit`; the loops
return, and `main()` closes the ports.

The four network functions are loaded from shared objects (`nf1.so` to `nf4.so`,
built by `src/libnfv/nfv.build.sh`), each in an isolation domain of its own.
`run_nfs` (`nfv.c`) calls them one after the other on the same frames. They keep
state between calls, in globals that all lcores share.

| Component | State | Operations | Talks to |
| --- | --- | --- | --- |
| forwarding loop, `main.cpp` 237-386 | `force_quit`, `port_statistics`, the array `eth_hdrs_burst` (shared by all lcores); `pkts_burst`, `nb_rx`, `nb_tx`, `portid` (per lcore) | poll, gather headers, run functions, send, free, count, check for the end | NIC queues and mbuf pool, `run_nfs`, signal handler |
| startup, `main.cpp` 397-488 and 497-768 | `l2fwd_dst_ports`, `lcore_queue_conf`, the mbuf pool, descriptor counts | pair ports, assign lcores, size the pool, start ports, wait for links | DPDK, the loops |
| statistics, `main.cpp` 144-228, 301-316 and 381-384 | `port_statistics`, `last_port_statistics`, `timer_period_elapsed` | count; print and copy the counters, on the main lcore; end the run at a limit | counters of all lcores, `force_quit` |
| chain, `nfv.c` | the entry points `_nf1` to `_nf4`, `CURRENT_DOM` | `init_nfs` on every lcore with a port, `run_nfs` per batch | loader, the functions |
| `nf1.c` | none | decrement the TTL | |
| port translation, `nf2.c` | `next_port_`, a flow table | translate a batch | flow table |
| ACL, `nf3.c` | the rules, a flow table as cache | match, remember | flow table |
| load balancer, `nf4.c` and `maglev.c` | lookup table, connection table | fill the lookup table, pick a backend, swap MAC addresses | |
| flow table, `hashmap.c` | 2^24 buckets | insert, get | `nf2.c`, `nf3.c` (a copy each) |
| Rust functions, `rust-nfv` | the list `NFS`, each function with its tables; `PACKETS` | `init_nfs` adds the functions asked for, `run_nfs` picks frames and takes them through the list; two-way entries in NF2 | linked into the `nfv-rust` executables in place of `libnfv` |
| C++ functions, `nf?.cpp`, `nfv.cpp` | as the Rust ones | as the Rust ones, with every frame, and with early returns | compiled by no build file |
| isolation, `libtrampoline` | | call gates | submodule `user-trampoline`, not in the tree |

### What is hard in it

* **Interleaving.** Every lcore runs the loop and calls the same functions with no
  lock: `eth_hdrs_burst`, `next_port_`, the buckets of each table, `CURRENT_DOM` and
  `force_quit` are all shared (`main.cpp:234`, `nf2.c:41`, `hashmap.c:63`, `nfv.c:37`).
* **Uninitialised memory.** `struct Flow` has two bytes of padding that are hashed
  (`hashmap.c:53`, `72`) and never written; the two reverse flows of `nf2.c` are
  initialised from themselves (58-68).
* **Limits.** Ports run out at the top of the 16-bit range, the table loses
  insertions when full, TX queues take part of a burst.
* **Partial failure.** A frame without the headers ends a whole batch (`nf2.c:22`);
  a partly refused burst is freed (`main.cpp:366`).
* **Repetition.** `init_nfs` is called once per lcore on state all share: in C the functions are replaced, in Rust
  and C++ each is there once more (`lib.rs:27`).
* **Two kinds of insertion.** The reverse entry of a new flow meets an older entry for the same key: Rust writes over
  it, C++ leaves it (`nf2.rs:76`, `nf2.cpp:48`).
* **Ending.** Three ways to set `force_quit`, one of which looks at one port only
  (`main.cpp:381`); ports must not be closed under a loop that polls them.

`PROJECT.json` lists each of these under `hazards`, with the line where it bites
and the properties that cover it.

### What makes each component correct

* Flow table: what was inserted is found with the same padding, and an insertion takes nothing
  from another key, whatever the hash; when the table is full an insertion is lost.
* Port translation: the frames of one flow leave as one flow, no two flows share a
  port, ports stay in their range, the table never fills up, and a batch comes back
  translated as far as the code promises. The first two hold on one lcore, per content of the padding, and
  of flows that no reverse entry hit on.
* Forwarding loop: no mbuf is lost, held twice, or freed by someone who does not own it;
  every frame sent was processed once; frames of a port leave by it in order; a request
  to quit ends the process, with no port closed under a loop.
* Maglev table: it gets full, in equal shares, each backend at its preferred entries.
* Startup: it ends; each enabled port is polled by one lcore, is paired off, has its buffer; the pool fills the
  rings; "not enough cores" is said only when it is so.
* Chain: a batch that no other lcore met on the shared array is served as far as it should be, frame by frame, and
  the ACL remembers what left, until its table is full.
* Rust and C++ functions: the two entries of a flow that has a port lead out and back, but for the one collision each allows;
  the functions get the frames they should, once per time they are in the list; caches hold what leaves.
* Statistics: no packet is reported twice, none of the main lcore's own ports is left out, and a limit that is passed ends the run.

## The modules

```
FlowMap      <- HashMap <- Nf2 -> Translation        DataPlane -> Lines
 (abstract)        |         |     (abstract)            |         (abstract)
            HashMapProofs <- Nf2Proofs            DataPlaneProofs

MaglevLut <- MaglevLutProofs                      Startup <- StartupProofs
Chain     <- ChainProofs                          Statistics <- StatisticsProofs
NetworkFunctions <- NetworkFunctionsProofs
```
`A -> B` to an abstract module: A implements B by a refinement mapping. The other
arrows are EXTENDS. `MCx` modules give the constants of `x` values for TLC.

**HashMap** is `hashmap.c`. `pairs` is the array of buckets. A flow is a model value; its
struct is hashed with some padding, so `Hash` is any function of flow and padding, and
both loops take the padding as an argument. `EndsIn` says where the probe loop stops;
`maglev_hashmap_get` and `maglev_hashmap_insert` are the two operations, with the null
value that `nf3.c` passes and the silent loss in a full table. **FlowMap** says what lookups return, by key and
padding: what was put is found with the padding it was put with; with other padding a lookup of the key may find it or what it found before; the
lookups of another key return what they did, or, where that was nothing, what that key has under other padding.

**Nf2** is `process_frames` of `nf2.c`, run by every lcore with a port. `pc[c]` is where lcore
`c` is; the steps are the lookup (`Hit`, `Miss`, `ReturnEarly`), the read of `next_port_`
(`LoadPort`, or `Exhausted`), its write (`StorePort`), the two insertions and the stamping
(`StampNew`), so other lcores come between any two of them. The loop index and the batch
are kept because a frame without headers ends the batch. Four of a flow's five fields never
change and are one value, `Peer`. `stack` holds what a call's stack frame holds where nothing
is written: the padding, and both reverse flows. In the object code that the build script's
options yield these bytes are not written between two frames of a call, so they are chosen once per call. With the same
options (`-O3`, `nfv.build.sh:5-8`) the comparison of `next_port_` (39) and its read (41) are one load, so `LoadPort` is one step; the store is another.
Ports are numbers as the struct field holds them; see the findings for their byte order.
`sent` (flow, padding, what it left as), `reversed` (the keys of second insertions) and `granted` are history variables.
`OneTranslation` is what the code's comment says of a flow; `FlowAffinity` is what the code keeps of it. **Translation** gives each new flow a port
no other flow has, and never changes it. It knows a flow together with its padding: under other padding a flow may get a further port, which is still its own.
A flow on which a second insertion hit is `spoiled`, and promised nothing.

**DataPlane** is `l2fwd_main_loop` on every lcore, the signal handler, and the end of
`main()`. `main` is the lcore that `main()` itself runs on, which may be any, one without ports too: it returns from its own loop,
waits for the others, and closes the ports. An mbuf is in the pool, in a NIC queue or in an lcore's `pkts_burst`; frames have no contents,
and `runs` counts how often the functions saw each. The NICs (`Arrive`, `Sent`) are external:
they fill RX queues from the pool and empty TX queues into it. `FreeBurst` frees the whole
array as the code does, and where that frees an mbuf the lcore does not own the lcore's
`pc` becomes `"undefined"` and stays there: nothing is claimed of what follows, and
`OnlyOwnFreed` is the property that says this does not happen. `PolledByOne` assumes that a port is on one list, once, which is
what `Startup` shows of the lists (`PolledOnce`). **Lines** is one FIFO per port: frames enter at one end, leave at the other, and a stretch may be dropped.

**MaglevLut** is `populate_lut`, and `Maglev::populate` in Rust: one step per look at an
entry. Offsets and skips are arbitrary, skips not zero. `TableSizeIsPrime` says of `TABLE_SIZE`, which is 65537 in the code, what makes a permutation reach every entry.

**Startup** is `main()` from its first line to the launch of the lcores, with `check_all_ports_link_status`. Each loop over
the ports takes a port per step, and `pc` is the loop it is in: `"pair"`, `"assign"`, `"ports"`, `"links"`. The flags and the
set of enabled lcores are variables that never change, so that one run covers all of them. `nb_rxd` and `nb_txd` are globals as in the
code, so what one port makes of them the next port gets. DPDK is external: the initialisation may fail, descriptor counts are brought within a port's limits (`Adjust`),
any call may fail (`InitPortFails`), a link is anything at any look. A signal may come at any time, and only the link check sees it.

**Chain** is `nfv.c` and what the functions make of the frames: `init_nfs` on every lcore, function by function, in two steps (set the domain and load; set the entry point and leave),
and `run_nfs` on a batch, frame by frame. `eth_hdrs_burst` is the one array of addresses that all lcores share: `Call` writes the addresses of its frames over those
of the lcore before, and a function takes the address of its next frame from there (`Fetch`) and then writes to whatever frame that is (`Nf1` to `Nf4`). An lcore that calls while
another is in the chain therefore has that one go on with its own frames, some of them twice and some of the other's never, which is the defect that `dataplane_lcores` shows. `ReturnEarly` is the
frame without the headers, which ends a call of the translation or of the ACL.
`entry[k]` says which copy of function `k` the shared pointer `_nf`*k* points to, and each copy of the ACL has a cache of its own, of `CAPACITY` buckets and with padding: an insertion into a full one
is lost, and a flow may be there once per padding (`Inserted`). An lcore that is still loading comes between any two frames of another. The frames carry what the functions
look at: the kind of headers, the flow, the time to live, and whether the addresses were swapped. What the translation writes is left open, any flow or none; its table is the
subject of `Nf2`, and nothing that `Chain` claims rests on it. The history variables say which batches were `alone` from end to end, whether any have
`overlapped`, and what those that were alone sent.

**NetworkFunctions** is `rust-nfv` and the C++ files beside the C ones, which share their structure: a list `NFS` of objects that `init_nfs` adds to,
and `run_nfs`, which takes a batch through it. `impl` says which of the two it is and never changes; where they differ an operator has both: which frames the functions are
given (`Packet`), which have the headers (`GetPacketHeaders`), what an insertion does when the key is there (`Insert`), whether the load balancer remembers. `init_nfs` is a step per number of its
list, because C++ looks a number up before it appends and Rust panics on one it does not know; in `run_nfs` one step is one function on one frame,
and `PACKETS` is the set of positions in the batch that the functions are given. Hash maps are functions from keys to values. The two implementations call themselves
from every lcore without a lock, on `static mut` in Rust; overlapping calls there are undefined and not modelled, so here calls come one at a time, from any lcore.
`flow_vec`, which the code writes and never reads, is what the invariants compare the table with.

**Statistics** is the part of the loop that `DataPlane` leaves out: the counters, `print_stats` and the timer. `DataPlane` follows each mbuf; here a burst is a
number. The main lcore reads the counters of a port per step, then copies them all, and the other lcores count at any point in
between; `last_port_statistics` is seen by nobody else, so its copying is one step. `shown` is a history variable: the sum of what was reported of each port.

## The runs

| Run | Question | Bounds |
| --- | --- | --- |
| `hashmap` | Does the table find what it stored, and leave other keys alone, with collisions, wrap-around and more keys than buckets? | 3 buckets, 4 keys, 2 paddings that move two of the keys by a bucket |
| `nf2` | Does one lcore implement the translation? | 2 ports, the last ones below 65535; 3 flows, so that ports run out; batches of 2; 5 buckets; 2 paddings that move a flow by a bucket; 2 reverse entries, one of which hits on a flow that arrives |
| `nf2_padding` | Is a flow found when padding reaches the hash? **Violated** | as `nf2` |
| `nf2_lcores` | Is a port assigned once on two lcores? **Violated** | as `nf2`, 2 lcores |
| `dataplane` | Are mbufs conserved, frames processed once, order kept, ports closed in time, requests to quit honoured? | 2 lcores, one of which polls 2 ports, either of them main; bursts of 3, batches of 2, a TX queue of 1, 4 mbufs, 4 and 1 arrivals |
| `dataplane_lcores` | Is a frame processed once when two lcores share the header array? **Violated** | 2 lcores with a port each, 3 mbufs |
| `dataplane_refused` | Is only freed what was refused? **Violated** | as `dataplane`, 1 lcore |
| `startup` | Does startup end, and are ports, lcores, pool and buffers right when the lcores are launched? | 4 ports, 5 bits of mask, 3 lcores, up to 3 queues, limits that shrink the rings of port 2, 2 waits for links |
| `chain` | What do the four functions make of batches together, while another lcore loads them anew or runs a batch over the same array? | 2 lcores, 2 batches in all, of up to 2 of 3 frames; 2 flows, 2 paddings, an ACL cache of 2 buckets |
| `nfs_list` | Which entries do flows and replies have, which frames are served and how often, what is remembered? | Rust and C++, 2 calls of `init_nfs` with `1,2,3,4` or with `2,5,1`, 2 batches of up to 2 of 7 frames, 2 ports |
| `statistics` | Is each packet reported once, and does a limit end the run? | 3 lcores with 2, 1 and no ports, bursts of 1, 4 arrivals, limits of 1 |
| `maglev_lut` | Is the table filled, balanced and by preference? | 3 backends, 5 entries, all offsets and non-zero skips |

**Why these bounds.** `hashmap`: with three buckets a probe sequence has a first bucket,
one that wraps around and one that fills the table, and a fourth key finds it full; the padding lets a key be there twice, and lets a lookup find what was put with
other padding, or not.
`nf2`: two ports and three flows reach the last port, the exhaustion in the middle of a batch, and
a hit after it; flows hash to one of two neighbouring buckets, so that probes collide and one padding may or may not come upon what another stored; one of the reverse entries has the zero flow as its key and one
a flow that arrives, before or after that flow has a port; ports are real 16-bit
values at the top of the range, so that an increment too far wraps around. `dataplane`: a burst that
needs two batches, the second one short, a TX queue that takes part of it, and a stale entry in
`pkts_burst` from an earlier, longer burst; with a second lcore `main()` may run on the one that does not poll, so that closing the ports without waiting would take them
from a loop that is still running. Only one of the lcores has ports, since `ProcessedOnce` fails when two have. `maglev_lut`: three backends as in `nf4`, and five entries so that the
last turn is cut short. `startup`: masks with no, one, an odd and an even number of ports, or one that does not exist; three lcores, some of them not
enabled, that are enough or are not; the second-last port shrinks the rings of the last. A count of 2 waits has a pass before, at and after `MAX_CHECK_TIME - 1`.
`chain`: batches of two have a frame before, at and behind the one that ends the call for two of the functions; one frame arrives with a time to live of 0; two flows and two paddings are
more keys than the cache has buckets. Two batches are one lcore's, one after the other, or those of two lcores, apart or overlapping at any two frames,
while the other lcore loads none, some or all of its functions. A batch that is alone after two that overlapped would be the third, which is more than the run has; `BatchesServed` and `AclRemembers`
are proved for any number. Lcores are symmetric; the view leaves out the entry points of `nf1`, `nf2` and `nf4`, which nothing reads because what they point to has no state here.
`nfs_list`: the flows are chosen so that one of them is the replies to another once that has its port, in both orders, which is where insertions collide; a time to live of 1 is aged past 0 by
a list that has the function twice; 5 is no function. `statistics`: the main lcore polls its ports in another order than it prints them; a
worker counts before, between and after the reading and the copying; both limits can be passed. `MaxArrivals`, `MaxInits` and `MaxCalls` are the only bounds on
counters; the others are parameters of the code.

**Fairness.** `DataPlane` assumes that an lcore whose loop can go on does so, because DPDK runs
each on a core of its own, and that `main()` closes the ports once all lcores have returned. Nothing is
assumed of NICs, signals or the timer. `Statistics` assumes the same of the lcores: the printing is part of the main lcore's loop, and it ends because there are finitely many ports. `MaglevLut` and the part of `main()` in `Startup` are sequential and assume that they go on. `Quits`, `QuitsAtLimit`, `Fills` and `Ends` are the liveness
properties; no other module has fairness.

**Deadlock** is checked except in `maglev_lut`, where the function returns, and in `startup`, where this part of `main()` ends. In `DataPlane` the end of the
process is a step that changes nothing (`Stay`), in `Statistics` so is what follows it, and in `Chain` and `NetworkFunctions` so is the end of the batches (`Rest`), and in the latter the panic.

### What the violations show

`nf2_padding`, `nf2_lcores`, `dataplane_lcores` and `dataplane_refused` are defects of the code. Each is quoted against the comment it
contradicts under `findings`. So is what reading showed without a run: the functions that every further lcore replaces or doubles,
`max_packets`, which looks at one port of each lcore, the list of functions that C ignores, the condition on frames in Rust, the count of drops that stays
0, the ports in host byte order, the hash of `nf4` that is always 0, and the port pairs that nothing uses.

Where a property has an exception in its own statement, the exception is what the code does and the run reaches it: `ForwardEntry` and
`ReverseEntry` name the one collision in which Rust gives a flow's forward entry to the replies of another, and the one in which C++ does not
translate replies back; `FlowAffinity` speaks of a flow under one padding, and of flows that no second insertion hit on (`reversed`), and so do `BatchTranslated` and `RefinesTranslation`;
`EveryFrameServed` speaks of batches that were `alone`, and `AclSeesWhatLeft` also of copies whose cache is not full, and of nothing else remembered only until batches have `overlapped`;
`FramesServed` counts how often a function is in the list; `ReportedOnce` leaves out what a worker counts while the main lcore prints;
and `Quits` and `QuitsAtLimit` speak of the last port of a list.

What the defects leave of the other properties is this. The translation is right on one lcore, for any hash, padding and reverse entries, in the sense of those exceptions; on two lcores
only its types are claimed. `ProcessedOnce` holds if one lcore polls ports. `Chain` is about any number of lcores, but serves only the batches that met no other on the array; of those that met nothing is claimed but their types.

## What is proved

All proofs are checked by TLAPS from nothing, for every value of the constants that satisfies the modules'
assumptions: any number of buckets, any hash, any ports, batches and flows.

**The table** (`HashMapProofs`), whatever the hash makes of the padding. Types, `Retrievable` and `HashMapSpec => RefinesFlowMap`. A table
only grows and an occupied bucket keeps its key (`BucketsKeep`), so a probe loop that ended in a bucket
goes on ending there (`EndsKept`). The inductive invariant is `Reachable`: the loop for the key of an occupied bucket,
with the padding it was inserted with, ends in that bucket. `Retrievable` is not inductive by itself, since it
says nothing of the buckets before the one that is found. The refinement compares what lookups return before and after an insertion: those of its own key
find the value or what they found (`OwnLookUps`), those of another key keep what they found, or their loop now goes on past the bucket that was free and comes to
one of that key which was inserted with other padding (`OtherLookUps`). A null value leaves the bucket its value, which is a flow too (`InsertPuts`).

**Translation, any number of lcores** (`Nf2Proofs`). `Spec => []TypeOK`: although lcores race on `next_port_`, it
stays in its range, because each stores one more than a port it found below `MAX_PORT`. The invariant adds
`LocalOK`, which relates an lcore's index, batch and port; a step writes the locals of its own lcore only.

**Translation, one lcore** (`Nf2Proofs`, its second part). Each theorem has the form `SingleLcore => (Spec => ...)`, with any hash, padding and reverse entries.
* `PortsGrantedOnce` (`GrantedBelow`: what was assigned is below what is next) and
  `TableHasRoom` (`Room`: an assigned port pays for two insertions, and an lcore between them still has one or two due).
* `FlowAffinity`, `BatchTranslated` and `Spec => RefinesTranslation`. The invariant `TableOK` adds that the buckets of flows which arrive and on which no second insertion hit
  have ports of their own, all below the one being inserted (`Entries`), that the flow at hand is
  not found before its insertion and is after it (`Present`), and that all translations made are still
  found under their padding (`SentStored`). Room is what makes `Present` true: an insertion into a full table would be lost. The
  step of the abstract translation is the stamping, for a new flow and for a hit alike, and the second insertion, which spoils a flow; for a flow seen before a stamping is a stutter.
  `BatchTranslated` is that, carried over the frames of a batch (`Behind`, `Returned`).

`SingleLcore` is necessary: `nf2_lcores` is the counterexample without it. That `FlowAffinity` speaks of one padding is necessary too: `nf2_padding` is the counterexample of `OneTranslation`, which does not.

**The forwarding loop** (`DataPlaneProofs`), for any lcores, lists of ports, mbufs, bursts, batches and queue lengths.
* `TypeOK` and `NoPollAfterClose` from `LoopInv`: an lcore's locals fit the place it is at (`Local`), no TX queue is over its length, and ports
  are closed only when all lcores have returned (`ClosedAfter`).
* `Conserved` and `Spec => RefinesLines` from one analysis of the steps. Each leaves every line as it is (`Kept`), appends a free mbuf to one (`Entered`), takes the head
  of one (`Left`), or cuts a stretch out of one (`Dropped`): that is `Move`, and each disjunct is a step of `Lines` or a stutter. That a poll moves a stretch of the RX queue into an empty hand, and a
  TX burst the first of the hand to the end of the TX queue, leaves the line as it is because it is the concatenation of the three; that the hand is empty when an lcore polls, and that
  no two lcores have the same port in hand, is `PolledByOne`. The mbufs are then
  in at most one place (`Placed`), and in one at all as long as only own ones were freed (`Complete`).
* `ProcessedOnce`, under `OnePolls`, that only one lcore has ports. Then the header array is that lcore's own, and what it holds is the burst at hand (`Seen`); frames in the RX queues were run 0 times (`Unseen`), and each
  batch runs the frames from `off` on once, since they are distinct (`Placed`). `OnePolls` is necessary: `dataplane_lcores` is the counterexample with two.

**Maglev** (`MaglevLutProofs`), for any number of backends and any table size that divides no product of smaller numbers. `Balanced` from `Turns`: the backends before the one whose turn it is are one entry ahead, and
`n` counts what is taken. `NothingPassedOver`, that every entry a backend's walk is past is taken, is inductive with the types. `WithinPermutation` is the one that counts: a walk past its last entry
would have met `TABLE_SIZE` entries, all different because the size is prime and the skip not 0, all taken, so `n` would be
`TABLE_SIZE` and the loop would have ended. That the loop gets there is `Fills`, which is liveness.

**Startup** (`StartupProofs`), for any number of ports and lcores and any flags. `TypeOK` needs that the loops stop in time.
* `PolledOnce`, from `AssignInv`: while ports are assigned, the ports below `portid` are on the lists of enabled lcores, the lists
  hold no others, no port is on them twice, and none is longer than the flag allows (`Upto`). That `portid` is on no list yet is what keeps them disjoint.
* `Paired`, from `PairingInv`: below `portid` every enabled port has its pair, except that after an odd number of them `last_port` is the
  one that waits.
* `FlushReady`, from `BuffersInv`, which says that the ports below `portid` have buffers, and from the two above: a port on a list is enabled, so is the one it is paired with.
* `LinksPrinted`, from `LinksInv`: a printing pass has printed the ports below `portid`, and one begins before the count passes `MAX_CHECK_TIME`.
* `NotEnoughCores`, from `Searched`: the enabled lcores that the search has passed have all the ports they may have. When it runs past the last one, the lists hold `rx_queue_per_lcore` ports each, no two the same
  and none of them the port at hand, so there are more ports than slots (`TooManyPorts`).
* `RingsFit`, from `RingsInv`: the pool was sized with the defaults, for at least as many lcores as poll (`Counted`), and what a port takes of it is no more than the defaults as long as no port's lower limit is above them.

**Statistics** (`StatisticsProofs`), for any lcores, lists of ports, bursts and limits, as long as no port is on two lists. The types and `ReportedOnce` need each other: what is added to `shown`
is a natural number because the copy is not ahead of the counters. The invariant adds `OwnRead`, that of the main lcore's own ports those that were read are reported in full, which holds because no other lcore
counts on them, and `TimerInv`, that the main lcore does not print past the limit, because it looks at the timer before it gets there. The step that counts (`RunNfsStep`) is the one that needs the lists to be disjoint.

**The chain** (`ChainProofs`), for any number of lcores, frames, batches and buckets.
* `TypeOK` from `LoadInv`: the copies of a function are as many as the lcores that have loaded it, so there are never more than lcores; and where a function runs its entry point was set (`Entered`).
* `EveryFrameServed` from `RunInv`, which has two halves. `Bounded`, of every lcore in the chain: the frames it may write to are its own or, when neither batch was alone, those of others (`Reaches`). This is what
  keeps lcores that met, and go on with one another's frames, from those of a batch that met none. `Lone`, of a batch that was alone: its addresses are
  in the array in order, the frame at hand is the one fetched (`Own`), and each frame is as far as the functions that are done with it say (`Served`, `Passed`). It needs that no backend is 0 (`NoBackend`): the hash that is always 0 is
  what turns every frame around.
* `AclSeesWhatLeft` from `CacheInv`: what has left, and what a batch that is alone has had through the ACL, is remembered unless the cache is full (`Kept`, `Heard`); and, as long as no two lcores were in the chain at once (`OneInv`),
  what is remembered has left or is between the ACL and the end of the chain (`Through`).

**The Rust and C++ functions** (`NetworkFunctionsProofs`), for any lists, frames and batches, in both languages.
* `ForwardEntry` and `ReverseEntry` from `NatInv`, which holds of every object of the list: the ports that were granted are those from `MIN_PORT` to the next one (`PortsInOrder`), the keys of the table are the flows that have a port and
  their replies (`EntriesGranted`), and no entry changes the protocol (`ProtocolKept`), without which a reply of one flow could be taken for another's.
* `FramesServed` and `CachesWhatLeaves` from invariants that hold between any two steps of a batch: `Served` counts the functions of a kind that a frame is through with (`Done`), `Cached` says the same as the property of those the frame has passed. `HeadersKept`, that
  no function changes what the next one decides by, is what makes the frames that nf2 sees those that nf3 sees.

**Model-checked only.** What needs fairness: `Quits` of `DataPlane`, `QuitsAtLimit` of `Statistics`, `Fills` of `MaglevLut` and `Ends` of `Startup`, which are out of the prover's
reach. Every invariant, action property and refinement of the passing runs is proved, under the assumptions named above; `ProcessedOnce` and the translation of `Nf2` for one lcore with ports only, because they fail on more.

## Not modelled

* What DPDK does: an RX burst takes what is in the queue, a TX burst what there are descriptors for. Links, offloads,
  checksums and MAC addresses are left out.
* `rust-nfv/src/packettool.rs`, which is not part of the crate; the isolation domains, whose
  loader is in a submodule that is not part of the tree; scripts and build files.
* Calls of the Rust or C++ functions that overlap on two lcores: they race on the list and on its tables, and anything may come of it.
* What a fixed-size table of a submodule that is not in the tree (`CIndex`) does when it is full.
* What no run of the program gets to: the port pair configuration (`main.cpp` 397-429), since nothing assigns `port_pair_params`;
  the reverse lookup of the ACL, since its one rule matches everything; the connection table of `nf4`, since `flowhash` is always 0.
* `cycles_processed` and what is printed but the packets processed; offload flags and MAC addresses of the ports; the width of the port masks (`main.cpp:557`).
* `Nf5UpdateChecksum`, which `init_nfs` never makes; checksums.
* Steps smaller than a table operation: an insertion that another lcore sees half done (`hashmap.c:63`). On one lcore, where the theorems about the table and the translation are, there is no one to see it.
* In `Chain` a burst is one batch, the writing of its addresses and the call are one step, and so is each write to a frame; bursts of several batches, and their steps, are in `DataPlane`.
* `nf4_init` is called by `init_nfs` through the shared pointer (`nfv.c:64-65`) and may be that of another lcore's copy: it fills a table that no run reads, since `flowhash` is always 0.

## Plan

In this order; the first twelve are done.

1. `HashMap` with `FlowMap`, and its proofs.
2. `Nf2` with `Translation`, and its proofs.
3. `DataPlane` with `Lines`.
4. `MaglevLut`.
5. `Startup`, and the proofs of its safety invariants.
6. `Chain`, with two lcores on one array.
7. `NetworkFunctions`: the Rust and the C++ functions.
8. `Statistics`, and the proofs of its invariants.
9. Proofs about `DataPlane`: all safety properties, and the refinement of `Lines`.
10. Proofs about `MaglevLut`: all safety properties.
11. Proofs about `NetworkFunctions` and `Chain`: all safety properties.
12. Proofs about `Startup`: `NotEnoughCores` and `RingsFit`.
13. Insertion into the flow table in two steps, with several lcores (`hashmap.c:63`).
