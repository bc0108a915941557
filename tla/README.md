# Verification of the ORAM simulator

TLA+ models, TLC runs and TLAPS proofs for the simulator in `src/src`: a Ring ORAM
with a recursive position map, run on top of the USIMM memory-system simulator.
Line numbers are those of `src/src/memory_controller.c` unless a file is named.

## The system

The simulator is one sequential C program. Its main loop (`main.c`) reads a trace,
filters it through a last-level cache, and turns every miss into an ORAM access;
the access is performed at once on the ORAM data structures and leaves memory
requests in a queue, which the main loop feeds into a simulated processor and DRAM.

| Component | State | Operations | What makes it correct |
|---|---|---|---|
| Ring ORAM access | `GlobTree`, `ring_round`, `ring_G` | `ring_access`, `ring_read_path`, `remap_block`, `ring_evict_path`, `read_path`, `write_path`, `ring_early_reshuffle`, `read_bucket`, `write_bucket`, `pick_candidate` | no block is lost, copied or misplaced; a bucket never runs out of valid dummies; none of the `exit(1)` checks fires |
| Recursive position map | `PosMap`, `DATAPOS_RANGE` | `freecursive_access`, `calc_posact_addr`, `merkle_addr`, `merkle_offset` | the map blocks form a tree over the data blocks; a label is read only with its map block on chip |
| Stash | `Stash`, `stashctr`, `pinFlag`, `intended` | `add_to_stash`, `remove_from_stash`, `get_stash`, `stash_contain` | no duplicates, a pinned block stays, occupancy stays bounded between requests |
| PLB | `PLB`, `REP` | `plb_access`, `plb_fill`, `plb_find_victim` | a block in the PLB is nowhere else; a victim goes back to the stash |
| Tree geometry, eviction order | `ring_G` | `calc_index`, `calc_level`, `reverse_lex` | every bucket gets its turn |
| Dummy accesses | `ring_dummy` | the `DUMMY_TH` gate of `main.c` 1817-1832 and 2332-2346 | the stash falls below the threshold again |
| Merkle counters, labels | `MerkleTree` | `secureFunc`, `merkle_overflow`, `merkle_reset` | a label follows from nounce, offset and counter |
| Dead blocks, dynamic S | `deadQ_arr`, `deadQ_shadow`, slot states `dd`, `redirect` | `gather_dead`, `remote_allocate`, `remote_access`, `inplace_*` | one physical slot has one user |
| Compact bucket | `greenctr` | green reads of `ring_read_path` | real blocks read as green ones still end in the stash |
| Stale buffer | `StaleBuffer`, `Metadata` | `retrieve_stale`, `discard_stale`, `flush_stale` | the fresh copy wins |
| Path ORAM, background eviction, RHO | `RhoTree`, tag array | `oram_access`, `background_eviction`, `rho_*` | as for Ring ORAM |
| ORAM request queue | `oramQ`, `*_served`, `*_to_serve` | `Enqueue`, `EnqueueHead`, `Dequeue`, `insert_oramQ`, `set_to_serves` | each request is fetched once, in order; the counters match; dummy requests overtake without splitting an access |
| Memory controller, DRAM | queues, bank state | `insert_read`, `insert_write`, `issue_*`, `update_memory` | timing constraints, refresh deadline, forwarding |
| Scheduler | write-drain flags | `schedule` (`scheduler.c`) | no queue starves |
| Processor | ROB, `last_read_served`, `last_lock_released`, `last_read_deleted` | fetch and retire loop of `main.c` | one batch of reads in the memory at a time, no stuck fetch |
| LLC, metadata cache, prefetcher, STT | tag arrays | `*_access`, `*_fill` | one line per tag, inclusion |
| Configuration, statistics | | | not modelled: input parsing and printing |

Components interact by direct calls and shared globals: `main` calls `invoke_oram`,
which calls `freecursive_access`; that calls `ring_access` once per position-map
block it misses and once for the data block; every `ring_access` mutates tree and
stash, calls `insert_oramQ` for the memory traffic, and every `RING_A`-th evicts a
path. There are no threads. What is hard is sequence: an access is a chain of
moves of blocks between tree, stash and PLB, in which each move relies on what
earlier accesses left behind (labels kept in two places, slots already read, a
stash that other accesses fill), and the program checks those reliances with
about a dozen `exit(1)`s.

## Modules

| Module | Models |
|---|---|
| `OramTree` | geometry: `LEVEL`, paths, buckets, `reverse_lex` |
| `RingOram` | a request from `freecursive_access` to its end, and dummy accesses |
| `OramTreeProofs` | lemmas for the proofs of both protocols: powers, paths and evicted paths by induction, counting slots |
| `RingOramProofs` | theorems about `RingOram`: where the blocks are; how full the stash gets |
| `MCRingOram` | constants of `RingOram` for TLC; block addresses come from `PosmapAddr` |
| `PathOram`, `MCPathOram` | the Path ORAM protocol with background eviction, snapshots and the stash top tree |
| `PathOramProofs` | theorems about `PathOram` |
| `DeadBlocks`, `MCDeadBlocks` | dead slots, their queues, lending and dynamic S, on one level of the tree |
| `DeadBlocksProofs` | theorems about `DeadBlocks` |
| `PosmapAddr`, `EvictOrder`, `FawWindow` | three pieces of arithmetic: addresses of position-map blocks, order of evictions, activation ring of a rank |
| `MCArithmetic` | the composition of these three for TLC |
| `ArithmeticProofs` | theorems about the order of evictions, the activation ring and the addresses of the position map |
| `FetchGate`, `MCFetchGate` | the cycle of `main.c` around `oramQ`: retirement, read and write queue, scheduler, fetch loop, `WAIT_ENABLE` |
| `FetchGateProofs` | theorems about `FetchGate` |
| `BankTiming` | bank states, earliest command times, refresh deadlines, power-down of a channel |
| `DramProtocol` | abstract: what a DRAM demands of the order and the ages of the commands |
| `MCBankTiming` | `BankTiming` with the history that `DramProtocol` speaks of, and the refinement |
| `BankTimingProofs` | theorems about `BankTiming`, and that it implements `DramProtocol` |
| `OramQueue` | `oramQ` as a queue, and the dummy gate of simulation mode |
| `TraceLLC` | `OramQueue` with the trace loop and the last-level cache in front |
| `MissStream` | abstract: the stream of misses that the trace loop promises to the ORAM |
| `TraceLLCProofs` | theorems about `TraceLLC` and `OramQueue`, and that it implements `MissStream` |

### RingOram

The configuration is the one of `input/4channel.cfg` as built: `RING_ENABLE`,
`POSACT_ENABLE`, `DUMMY_ENABLE` on; `CB_ENABLE`, `DEAD_ENABLE`, `DYNAMIC_S`,
`SUPER_ENABLE`, `SKIP_ENABLE`, `META_ENABLE`, `WSKIP_ENABLE`, `DUPACT_ENABLE`,
`STT_ENABLE`, `LLC_DIRTY` off, `DYNAMIC_EP` off. `pc` names the call the program makes next:

    idle --freecursive_access--> posmap --Enter--> read -> remap -> round
         -> [evict ...] -> reshuffle ... -> done -> fill -> posmap ... -> idle
    idle --DummyAccess--> read -> round -> ...  -> done -> idle

One action is one call, or one turn of a loop over levels where the turns touch
the stash (`write_path`, `ring_early_reshuffle`).

- *State.* `tree[n]` is the set of real slots of bucket `n` (address and label, the
  label being a copy of `PosMap` that can go stale), `dumvalid[n]` the number
  `count_bucket_dumvalid` would return, `count[n]` the field `count`; `stash` is a set
  of slots; `plb` gives the block in each set of the direct-mapped PLB.
- *Abstraction.* Which physical slot or stash index a block has is left out. `Fills`
  lets `write_bucket` take any of the candidates, as many as fit, where the program takes
  those with the lowest stash index. Labels are any path: `rand() % PATH` and
  `secureFunc` alike. Reads of a whole bucket, which set `valid` slot by slot, are one step.
- *Exits.* `err` records the reason of the first failing check; nothing is enabled
  after it, and properties of the state hold up to and including the failing step.
- *Left out.* The field `dumval`, which despite its comment is only a statistic (the
  number that matters is counted afresh); counters and histograms; the memory requests.
  `supreal`, `supdum`, `SuperNode` and `SuperHoriz*` are sized for 24 levels and
  are indexed past their ends with `LEVEL` 27, so the model stands for builds where
  they fit.
- *ring_G* grows without bound in the program. `RingOram` keeps it modulo `PATH`;
  `CountWraps` (theorem `CountMayWrap`) is the reason why it may.
- *Level 0 of the PLB lookup.* `calc_posact_addr(addr, 0)` reads `DATAPOS_RANGE[-1]`.
  In the gcc build that word is zero, the result is the data address, and the lookup
  misses because only map blocks are in the PLB; the search of the model starts at level 1.
- *Dummy gate.* The warm-up form: while the stash holds `DUMMY_TH` blocks, the next
  access is a dummy one. In simulation mode the gate is evaluated at the beginning of an
  access in `oramQ`; that form is in `OramQueue`.
- *Init.* Any placement that `oram_init` can produce: blocks go leaf first into the
  first bucket of their path with room, so a block lies above a level only if that level
  was full when it was placed.

### PathOram

With `RING_ENABLE` off the same program is a Path ORAM: `oram_access` reads the path of a
block, `remap_block` gives it a new label, `write_path` fills the path from the leaf up with what
the stash has. Three ways to run it are the values of `mode`: serving a trace, serving it with
`TIMING_ENABLE` (dummy accesses in empty intervals), and `take_snapshot`, which places the blocks by
accesses (`oram_init_path`) and bypasses the position map.

- *PLB and recursion* are as in `RingOram`; only the accesses are different.
- *Background eviction.* While `bk_evict_needed` (the stash holds `OV_THRESHOLD` blocks), `main.c`
  evicts paths of random labels and accepts no request.
- *Stash top tree* (`stt.c`): after each path write `free_stash` moves blocks that collide in no set
  from the stash to a table that keeps addresses and no labels; `write_path` takes from the table as
  from the stash. `STT_WAY = 0` is `STT_ENABLE` off.
- *Left out.* RHO (the second tree), early writeback, `LLC_DIRTY`, level skipping, duplication.

### DeadBlocks

With `DEAD_ENABLE` and `DYNAMIC_S` a slot that was read is dead; it is queued per level (`deadQ_arr`,
overflow in `deadQ_shadow`) and lent to another bucket of the level, whose slot keeps a redirect. The
module is one such level. `dd` is the state of a slot (`REFRESHED`, `REMEMBERED`, `ALLOCATED`, `DEAD`).
`gather_dead`, `inplace_access`, `remote_access`, `remote_allocate` are operators of the same
names on the record `mem`; an access is the read of a slot, an eviction after every `RING_A` of them, and
the reshuffle and gathering of the bucket that was read. `failed` records the reason of an `exit(1)`.
Blocks have no names here: which block a slot holds is `RingOram`'s business.

Extra slots are assumed to fit into the array `slot[Z]` of a bucket, which is so with `RSTL_ENABLE` and `BIGBUCK >= S_INC` on the levels up to
`L3`, or with `S_INC` 0. Then `s` is at most `RING_S + BIGBUCK`, since `LZ + S_INC <= Z = RING_Z + RING_S + BIGBUCK`, and the upper half of the range
check of `write_bucket` (8300) and of `ring_early_reshuffle` (8698) cannot fail; the model leaves it out. As the headers are shipped
(`RSTL_ENABLE` 0, `BIGBUCK` 0) every bucket has all `Z` slots of its own, and the `S_INC` 2 of `input/ring-oram.cfg` makes the program index slots 12 and 13 of 12:
the model says nothing of that build, nor does it of the exit at 8300 that one extra slot would cause there.

A C loop over slots or queue elements is a function whose value at `k` is the memory after `k` turns, and the body of the
loop an operator of its own: `RememberDead`, `Claim`, `ShadowMove`, and `Read` in `ReadAll`. `gather_dead` leaves its loop when both queues are
full; the model goes on, which changes nothing, because a queue that is full stays full. `write_bucket` stops a
loop of borrowing at the first slot that finds none: after it `Claim` does nothing, since `n` no longer is `k - 1`.

### PosmapAddr, EvictOrder, FawWindow

`PosmapAddr` is the arithmetic of `oram_init` (the array `DATAPOS_RANGE`), `calc_datapos_level`, `merkle_addr`, `merkle_offset` and
`calc_posact_addr`; `MCArithmetic` walks over every address that `oram_init` places. `EvictOrder` keeps
the count as the program does and computes the label with the loop of the C function, the
truncation to `int` at each addition included; it compares with the definition that `RingOram` uses.
`FawWindow` is the circular `activation_record` of a rank, with `is_T_FAW_met`, whose
parameter is an `int` while `CYCLE_VAL` is a `long long`, and the clearing in `update_memory`. Beyond
`INT_MAX` cycles the parameter is negative, the loop of the C function is empty, and it allows every activation; `LIMIT` keeps the run below.

### FetchGate

A metadata access, a path read, an eviction and a reshuffle each put a *batch* of reads or writes
into `oramQ`. With `WAIT_ENABLE` the fetch loop stops after the last request of a batch of reads until
that batch is served. Three flags and several counters, set at a dozen places in `main.c` and
`memory_controller.c`, have to agree for this to work; that is what the module is about.
A processor cycle runs through the phases

    retire -> (memory, every PROCESSOR_CLK_MULTIPLIER cycles) -> gate -> fetch <-> next -> tick

and ends the trace in `done`.

| Model | Code |
|---|---|
| `Retire`, `RetireEnd` | the retire loop, `main.c` 1111-1229; a retired `W` is counted as served |
| `Clean` | `clean_queues` (11386), one read per step, then `update_served_count`, `determine_served_all` |
| `IssueRead`, `IssueWrite`, `IssueNothing` | `schedule` of `scheduler.c` with `Drain`, and the column commands of `issue_request_command` |
| `Enter`, `FetchNonMem`, `FetchRead`, `FetchWrite`, `FetchFiller`, `FetchEnd` | the fetch loop, `main.c` 1268-1740 and 2512 |
| `Invoke`, `Dequeue`, `Wait`, `Finish` | its second half, 1751-2487: the next trace line and its access, the next request, the request kept, the end |
| `last_read_served`, `last_lock_released`, `last_read_deleted` | the flags of these names: the gate, the lock of the current request, whether the reads have left the memory |
| `cur` | `addr[]`, `opertype[]`, `op_type[]`, `last_read[]` ... of core 0: the request that was dequeued last, or the trace line read since; `id` is the number of the request (`reqid`), which a line does not change |
| `oramQ` | by batches: `b` is the operation and type of a batch, `k` the next of its requests; `Request(b, k, n)` is the element |
| `determineReq`, `longest_req`, `comptime_max` | the read that completes last and its time |
| `cur_served`, `to_serve` | `cur_dram_served_*`, `dram_to_serve_*` |
| `Size`, `Beginning`, `LastOf` | the batches as `metadata_access`, `ring_read_path` and `read_bucket` insert them, with the flags they set |

- *Batches.* An eviction reads its levels top down and sets `last_read` on the last read of the *first*
  level and `beginning` on the first read of the *last* one (`read_bucket`, 8436-8458). With `COUNTED`
  (`CB_ENABLE`, or `DEAD_ENABLE` with `DYNAMIC_S`, as in `input/ring-oram.cfg`) the count of that
  read (`dtser`) replaces `dram_to_serve_e_r`; the gate then covers the first level only, the reads of the others
  pass it and may open it for the next batch. Hence `OneBatchInMemory` is claimed up to the first eviction.
- *Accesses that insert nothing.* `freecursive_access` returns at once if the block is in the stash (4396-4400). Then `oramQ` is still empty when
  `main.c` 2260 is reached, nothing is dequeued, and the next turn of the loop fetches the line of the trace as it is: its own type and address, with
  `op_type`, `reqid` and `last_read` of the request before (`TraceLine`). `Invoke` with the access `<< >>` does that. If `last_read` was
  set, the line's read closes the gate and the lock (1523-1530), and it counts for the batch of that operation. Such lines carry a number in
  the auxiliary field `line`, which is 0 in requests, so that properties can tell them apart; the program cannot.
- *A gate closed by a line* (`ClosedByLine`). Nobody fetches a batch for it. With one read per batch the line itself is counted as the
  batch and the gate opens again. With more, it opens if reads of earlier batches, or an eviction's reads that passed uncounted, make up the
  count, and otherwise never: in *gate* with `PROPERTY <>(phase = "done")` in place of `TraceConsumed` TLC shows a trace that stops there
  (with `RING_Z = 1` it does not). In the program this needs an access to a block in the stash right after a request with
  `last_read`, such as the last read of a reshuffle or path read without writes after it, as `input/ring-oram.cfg` can bring about. `TraceConsumed` therefore
  claims that the trace is consumed unless a line has closed the gate.
- *Configuration.* One core, one channel, `WAIT_ENABLE` on; `NVM_ENABLE`, `TIMING_ENABLE` and
  `NONSEC_ENABLE` off. The dummy gate is left out (`DUMMY_ENABLE` off).
- *Memory.* Addresses are left out: whether a request finds its address in a queue (and is
  merged) is a choice, and so is which read a bank can take in a cycle, or whether it can take any.
- *Times* are relative to `CYCLE_VAL`: `BIGNUM` (1000000 in `main.c` 1443, here just later than all others) before a read is issued, `PAST` once over, `ZERO`
  for a `comptime_max` reset at the first request of a batch. When both `comptime_max` and a new
  time are over, their order is not kept and either answer of `set_comptime_max` is possible.
- *READ_TIME* stands for `T_CAS + T_DATA_TRANS`. It is at least `PROCESSOR_CLK_MULTIPLIER`,
  because `configfile.h` scales each memory time by it.
- *Fillers.* While the lock is not released the loop advances the tail of the ROB over an entry it
  does not write. Such an entry was retired long ago and reads as `D`: it retires at once.
- *last_read[]* is an uninitialised array of `main` when the first trace line is fetched.
  `FIRST_LAST_READ` is its byte; the runs take the zero of a fresh stack page. A one would close the gate with
  a batch that no counter counts, and it would not open.

### BankTiming, DramProtocol

`BankTiming` keeps what the controller keeps: bank state and, per bank, the earliest time of
each command, relative to `CYCLE_VAL`. The guards are `is_*_allowed` and the per-state branches of
`update_*_queue_commands`; the effects are `issue_*`. Any scheduler is allowed that issues one
of the commands in `Issued`, with or without a request for it.

`DramProtocol` remembers only which commands were sent and how long ago, and says which are legal
then, in the words of `params.h` 57-127. `MCBankTiming` runs both side by side; the abstract specification as
a property of the composition means that no sequence of bookkeeping by `next_*` lets an illegal command through.

### OramQueue, TraceLLC, MissStream

`OramQueue` is `oramQ`: `Enqueue`, `EnqueueHead`, `Dequeue`, the refusal of a full queue, and the gate of
simulation mode (`main.c` 2332): before an element with `beginning` set of a real access is taken, the stash is compared
with `DUMMY_TH`, and if it is too full, a dummy access goes in front. An eviction's `beginning` is on
its last level, so a dummy access may split an eviction, and only that (`OperationsWhole`).

`TraceLLC` puts the trace loop and `cache.c` in front. A turn reads lines until one misses in
the cache; a miss that evicts a dirty block makes the block's write the current request and waits
in `waited_for_evicted`. `missed`, `owed` and `used` are history. `MissStream` is what the ORAM is
promised: a queue of at most two requests, the write before the miss. A step that invokes a request which is not pending is a stuttering
step: the program repeats an invocation in a cycle in which a line was fetched, and it invokes the last line even if that hits. The refinement excludes loss and reordering, no more. It is

    pending == SetToSeq(writes in owed) \o SetToSeq(misses in missed)
    Requests == INSTANCE MissStream

Warm-up of the tree (`WARMUP_TREE`, 38000000 lines in `input/4channel.cfg`) is over and the simulation is on.

## Runs

| Run | Instance | Properties |
|---|---|---|
| `core` | `RingOram`: 2 levels, Z 2, S 2, A 1, threshold 2, H 4, 3 data blocks, X 2, one PLB line | `TypeOK`, `NoExit`, `SingleCopy`, `BlockOnItsPath`, `PinnedStays`, `ChainInPlb`, `AccessGrowth` |
| `drain` | `RingOram`: 3 levels, Z 1, S 2, A 2, threshold 1, H 2, 2 data blocks, fairness | `DummyBudget`, `StashBound`, `EvictionIsMaximal`, `StashDrains` |
| `path` | `PathOram`: 2 levels, Z 2, threshold 2, H 3, 3 data blocks, X 2, trace and snapshot, fairness | `TypeOK`, `NoExit`, `WriteIsMaximal`, `EvictionDrains` |
| `stt` | `PathOram`: 3 levels, the top one empty, Z 2, H 4, 2 data blocks, a table of one way, all three modes | `SinglePlace`, `LabelsCurrent`, `OutsideGrowth` |
| `dead` | `DeadBlocks`: 2 buckets of 4 slots, queue, shadow queue and cap of 1, A 2, no extra slot | `TypeOK`, `OneHolder`, `BudgetKept`, `ChecksPass` |
| `dead_taken` | 2 buckets of 3 slots and one extra, cap 2, A 3 | that `NeverTaken` does not hold |
| `gate` | `FetchGate`: ROB 4, write queue 2 (watermarks 1 and 0), 2 levels of Z 2, 3 accesses, any of them empty, `COUNTED`, fairness | `TypeOK`, `EachFetchedOnce`, `OneBatchInMemory`, `WakeupPending`, `TraceConsumed` |
| `gate_evict` | ROB 7, 2 levels of Z 1, 2 accesses that insert requests, without `COUNTED` | that `WaitEnds` does not hold |
| `banks` | 2 ranks of 2 banks, all commands, windows of 2 refreshes | `TypeOK`, `SleepTogether`, `ProtocolKept` |
| `llc` | `TraceLLC`: 3 blocks, 2 ways, 7 trace lines of which 2 warm up, accesses of up to 2 operations, dummy gate, fairness | `TypeOK`, `NeverFails`, `OperationsWhole`, `VictimIsOldest`, `ImplementsMissStream`, `TraceEnds` |
| `llc_lost` | the same cache and trace with turns used for evictions | that `NoRequestLost` does not hold |
| `arithmetic` | ring of 20, T_FAW 12, 99 cycles; 7 levels, 200 evictions; 100 data blocks, X 3, H 4 | `RingIsWindow`, `InTurn`, `CountWraps`, `MapIsTree` |

*core.* Three data blocks need two level-1 map blocks and one level-2 block; the one
PLB line makes every fill evict, so that map blocks travel between tree, stash and PLB
constantly. With an eviction at every access, blocks are pulled into the stash
between the position-map accesses and the data access (`PosmapInStash`, `DataInStash`). The conjuncts of `IndInv`
that are properties of their own are what this run and *drain* check; the conjunction is proved.

*drain.* One real block per bucket: evictions leave blocks behind, the threshold is
reached and dummy accesses are needed. With evictions only every second access, buckets reach `RING_S` reads, are
reshuffled in the same access in which they may also be evicted, and the dummy budget is
used to the last slot. A failing check would be a deadlock here. A request makes one access here
(H 2); that a longer one adds a block per access is left to the theorem `StashBounded`. `STASH_SIZE` is 9 in both runs, more than the
blocks there are, so the overflow exit is not what ends a behaviour.

*path.* The PLB line has rivals and the stash reaches its threshold, in the trace as in the
snapshot. `EvictionDrains` needs that there are at most `Z * LEVEL + OV_THRESHOLD - 1` blocks (5 here): an eviction never
relabels, so blocks beyond that may all have the same path for ever.

*stt.* The top level has no slots, so blocks pile up outside the tree; they go to the table and back.
`OutsideGrowth` is about stash and table together, because a block that moves to the table still occupies
the client.

*dead.* Everything has the capacity 1, so each overflow case is met. No bucket gets more than
its own slots, which is where the checks of the code hold.

*dead_taken.* With extra slots a reshuffle reads slots without clearing `valid` (8437 clears it for op_type
`e` only); if the queue of dead slots is empty when the bucket is written, the loop over the taken slots (8216)
ends early and the rest stay valid without redirect. The next read of such a slot marks it dead while another bucket uses it,
it is queued a second time, and `remote_allocate` calls `exit(1)` at the check whose comment is "a slot in queue
not supposed to be taken ever" (6628).

*gate.* An access reads and writes its metadata and reads its path, then comes an eviction or a reshuffle; or it inserts nothing, and the trace line is
fetched. Three accesses let a line stand before, between and after the batches of two others. A batch has two reads or four, so a line is
never a batch of its own. The ROB holds four entries, less than a batch of an eviction and one that follows; the write queue
is smaller than the writes of a batch, so the fetch loop meets both limits; reads are merged, overtake each other and wait for a drain. A merged write
has no latency here (`WQ_LOOKUP_LATENCY` 0), a merged read 1. Writes are not waited for: writes of one access retire while reads of the next are waited for, and open the gate
early (11238). `WakeupPending` is the reason why a batch cannot leave the gate closed: until the first eviction the reads its count
misses are in the memory, and once the count is complete, the read that the retire loop waits for is in the ROB. `TraceConsumed`
says that no batch does, and that every read is answered.

*gate_evict.* `params.h` 196 describes `WAIT_ENABLE` as "wait for last read req to complete". Without `COUNTED`
the wait that follows the first level of an eviction is for `dram_to_serve_e_r` reads, those of all levels (1990-2017),
which stay in `oramQ` behind the closed gate. It never ends. With one level in memory it does. A build with
`LEVEL` 19 and `WAIT_ENABLE` 1 behaves so: it stops at the first eviction with 5 of 45 reads served, and runs on with
`WAIT_ENABLE` 0. Of the configuration files, `input/1channel.cfg` sets `WAIT_ENABLE` and neither `CB_ENABLE` nor `DEAD_ENABLE`.

*banks.* All times are the smallest that keep their order (`T_RAS + T_RP <= T_RC` and so on), with a window that
holds 1 activation instead of 4 and 2 refreshes instead of 8; the ring of 4 is in *arithmetic*. Forced refreshes, automatic precharges
and power-down meet in every order.

*llc.* Three blocks compete for two ways, with reads and writes, so that dirty blocks are evicted, by the last warm-up line too.
Seven lines are enough for a miss to wait behind a write while dummy accesses go in front, twice.

*llc_lost.* The comment of `skip_invokation` says "just skip the trace reading in case of dummy turn" (`main.c` 1770), and 2230 "invoke the oram
anyway in order not to lose the trace just read". The `else` around the loop is commented out (1796-1797): the skipped turn
reads the trace, fills the cache and does not invoke; the next turn reads on and the request is gone.

*arithmetic.* The three parts share no state; each initial state starts one of them. The ring
wraps four times, the evictions go three times round the 64 paths, every address of the map is visited.
The last level of the map is only partly filled.

*Bounds.* No run has a state constraint: the state spaces of `RingOram`, `PathOram`, `DeadBlocks` and `BankTiming` are
finite by themselves, because counts are reset, `ring_G` is taken modulo the number of paths, and times are relative. The sizes are
the smallest at which a path has a bucket that another path does not share, a PLB line has a rival, a bucket or a
queue can fill. What holds beyond them is what the theorems say. `EvictOrder` bounds the
number of evictions by `MAX_G` and their binary digits by `BITS`, `FawWindow` the time by `LIMIT`, `FetchGate` the lines of the trace that reach the ORAM
(`MAX_ACCESS`) and the other instructions between two of them (`MAX_NONMEM`), `TraceLLC` the lines (`TRACE_SIZE`), `OramQueue` the operations of an access
(`MAX_OPS`). The deadlock check is off where a model ends with the trace, with such a bound, or with an exit.

*Fairness.* `WF_vars(Next)` everywhere: the program is sequential, never waits, and
makes its next call as long as there is one. In `RingOram` nothing more is assumed, in particular not which label
`rand()` returns: `StashDrains` holds even for the worst sequence of dummy paths, because the
eviction order does not depend on them. In `PathOram` the evicted path is random, and each label comes up again and again:
strong fairness of `background_eviction(p)` for each path `p`. In `FetchGate` strong fairness
of `IssueRead` and `IssueWrite` stands for the timing of the banks, whose constraints are finite and so
let a command through again and again. Without it a bank might refuse a command for ever. It does not
assume which queue the scheduler serves: that is `Drain`, part of the guard. In `TraceLLC`, `SF(Fetch /\ ~ring_dummy')` says that the stash is found below the
threshold again and again, which is what `StashDrains` shows, and `SF(NewCycle)` that the fetch width does not end every turn.

*What `NoExit` does not say.* That the stash does not overflow is a question of sizes: `NeverOverflows`, below, excludes it if
`STASH_SIZE >= DUMMY_TH + H - 2 + LEVEL * RING_Z`. With the built constants (`H` 4, 27 levels of 5, `STASH_SIZE` 300,
`memory_controller.h` 59-113) the right side is 237 for a threshold of 100 and 337 for the 200 of `input/4channel.cfg` (line 100): with that
file an overflow is a matter of probability. `StashBound` and `OutsideGrowth` give the bounds that hold regardless.

## Proofs

All theorems hold for every value of the constants, under the assumptions that the modules state.

| Module | Theorem | States |
|---|---|---|
| `RingOramProofs` | `Inductive` | `Spec => []IndInv` |
| | `TypeCorrect`, `NeverExits`, `BlocksConserved`, `OnPathAlways`, `BudgetKept`, `PinnedKept`, `ChainKept` | the conjuncts of `IndInv` |
| | `EvictionMaximal` | `Spec => EvictionIsMaximal` |
| | `GrowthBounded`, `StashBounded` | `AccessGrowth`, and `StashBound`, which is about the time between requests |
| | `NeverOverflows` | with a stash of `DUMMY_TH + H - 2 + LEVEL * RING_Z` slots, `err` stays `"none"` |
| `PathOramProofs` | `Inductive` | `Spec => []Inv` |
| | `TypeCorrect`, `NeverExits`, `PlacesConserved`, `LabelsKept`, `GrowthBounded` | `TypeOK`, `NoExit`, `SinglePlace`, `LabelsCurrent`, `OutsideGrowth` |
| | `WriteMaximal` | `WriteIsMaximal`, without the stash top tree |
| `TraceLLCProofs` | `Inductive` | `Spec => []Inv` |
| | `TypeCorrect`, `OperationsKept`, `OldestDropped` | `TypeOK`, `OperationsWhole`, `VictimIsOldest` |
| | `Unfailing` | `NeverFails`, if `QUEUE_SIZE >= 4 * MAX_OPS` |
| | `Refinement` | `ImplementsMissStream` (no loss, no reordering), if no turn is used for evictions (`NoSkip`) |
| `BankTimingProofs` | `Inductive`, `TypeCorrect`, `SleepKept` | `[]Inv`, `TypeOK`, `SleepTogether` |
| | `ProtocolImplemented` | `ProtocolKept`: every step is one of `DramProtocol` (`RefreshCovers`) |
| `FetchGateProofs` | `Inductive` | `Spec => []Inv` |
| | `TypeCorrect`, `FetchedOnce`, `OneBatch`, `Awoken` | `TypeOK`, `EachFetchedOnce`, `OneBatchInMemory`, `WakeupPending` |
| `ArithmeticProofs` | `Inductive` | `OrderInv` and `WindowInv`, of `AllSpec` |
| | `TurnsComeRound`, `CountMayWrap` | `InTurn`, `CountWraps` |
| | `WindowRight` | `RingIsWindow`, if the cycles fit in an int (`LIMIT < INT_MAX1`) |
| | `MapRight` | `MapIsTree` |
| `DeadBlocksProofs` | `DeadTypes`, `DeadBudget` | `TypeOK`, `BudgetKept` |
| | `DeadChecks` | a check fails only after a write that found `RING_Z` slots or fewer; a write finds all own slots but `REMOTE_CAP + SHADQ_SIZE` |

### RingOram

None of the properties is inductive alone. That `remap_block` finds its
block needs `BlockOnItsPath` (the path read is the right one) and `SingleCopy` (the
block is in the tree if it is not in stash or PLB). That it is not in the PLB needs
`AccessPhase`: the levels still to fetch are those the lookup missed. That `plb_fill`
finds its block needs `PinnedStays`, and that the victim is not in the stash needs
`SingleCopy` again. That dummies suffice needs the exact count of `DummyBudget`: real
blocks, valid dummies and reads add up to `RING_Z + RING_S`, and `count` is at most
`RING_S - 1` outside the current access. `ChainInPlb` needs that the fill of one level does
not replace a level above, which is the assumption that map blocks of different levels
differ. `IndInv` is the conjunction, with one lemma per conjunct (`TypeNext`, `PhaseNext`,
`CopyNext`, `PathNext`, `BudgetNext`, `PinNext`, `ChainNext`, `ExitNext`) and one step per
action below it. `ReshuffleShrinks` is a counting argument with cardinalities:
what comes out of a bucket in a reshuffle are candidates for it and none of them is pinned.

`EvictionMaximal` needs one more fact, `WrittenFull`: while `write_path` goes up, each bucket
passed is full for every block still in the stash that could have gone there.

*How full the stash gets.* An eviction empties a path into the stash and writes it back from the leaf up; that it ends with no more than
it began is no matter of single steps. `EvictGrowth` is what holds in between: when level `l` is next to be written,
the slots of the stash that do not fit `l` are at most those of before the eviction and `l * RING_Z` others (`Misfits`). The blocks read
from level `l` or below do fit `l`, because paths that meet in a bucket share the buckets above it (`Nested`, `PulledGrowth`); one turn of
`write_path` either fills its bucket or leaves only misfits (`WriteGrowth`). At the root nothing is a misfit but the pinned
block. `RequestInv` bounds the stash over a request: below the threshold when it begins, one more for each access since (`Base`), and
`plb_fill` takes a block out for each that it puts back. `NeverOverflows` adds the blocks of one path, which is the most an eviction holds at once.

### PathOram

The block of an access is found because it is on the path of its label, in the stash, or in the table (`Pinned`), which
needs `OnePlace` (every block that has a label is in exactly one slot of tree, stash, table or PLB; in a snapshot those not yet
placed are nowhere) and `LabelsCurrent`. `RequestPhase` and `PathPhase` say what the control variables mean while a request and a
path are under way; `ChainOut` that the levels passed by the lookup stay out of the PLB; `Buckets` that no bucket holds more than
`Z` and the part of the path not yet written is empty. The invariant needs no `err = "none"`: an overflow is only an exit, and the state at that exit still satisfies it.
`PathGrowth` is the counting argument of `EvictGrowth` again, with the slots that `free_stash` moves to the table and back on both
sides. `WriteMaximal` is proved for `STT_WAY = 0`: with a table, a block taken from it is counted against the candidates of the stash too, so one of
those may be left over beside a free slot.

### TraceLLC

`Shape` describes the queue: dummy elements first, an operation never cut, and behind a real element less than one access. It yields
`OperationsWhole`, and with `QueueInv` (the ORAM is invoked with an empty queue only) that `EnqueueHead` always finds the
element it looks for. `NeverFails` depends on the capacity: an access and a dummy access in front of it need `4 * MAX_OPS` elements
(`QueueFits`; the configuration files have 3000). `CacheInv` relates the stamps of the ways to the last use of their blocks, from
which the victim is the oldest. The refinement needs `RequestInv`, which says for each combination of flags and place in the loop
which requests are owed; it is proved for `NoSkip` because with skipped turns a request is lost (`llc_lost`).

### BankTiming and DramProtocol

`is_*_allowed` looks at bank 0 of a rank where it means the rank; `SleepTogether`, `SlowTogether` and `FastIssued` make that enough.
`DueInv` says that the deadline tested is never later than the last moment at which the missing refreshes still fit.

For the refinement, the earliest times of the controller are related to the ages of the commands (`Spaced`): per bank, per rank, and
for the data bus between any two banks, `next + age` is at least the distance demanded. A cycle lowers one and raises the
other by 1; a command sets its age to 0 and `PutOff` raises the times far enough. `Rows` relates bank states to open rows, `BusySpaced` keeps
commands from a rank that refreshes, and `RoomForRefreshes` says that what a bank still has to wait for ends before the
missing refreshes must begin, so that a forced refresh at the end of a window is legal.

`RefreshCovers`: if power-down with fast exit is used, `T_RP <= T_XP`. `issue_refresh_command` takes the time of a refresh of a sleeping
rank from bank 0: `T_XP + T_RFC` if that bank sleeps precharged, though another bank of the rank may sleep
with an open row that has to be closed first. The `.vi` files have `T_RP` 11 and `T_XP` 5, so the condition
does not hold for them; no scheduler of the repository issues a power-down, and without one in `Issued` it is true. In *banks*
both are 1. With `T_RP` larger TLC finds the refresh that `DramProtocol` does not allow.

### FetchGate

The theorems are about any set of accesses, with or without the empty one. `EachFetchedOnce` follows from what the elements of the ROB are: the latest requests in order (`InOrder`), the next of which is `cur` or the
head of `oramQ` (`InSequence`), with trace lines between them that repeat a number. For the gate it has to be known that the read that opens it has not been retired: `ReadsAwaited` says that each
read in the memory, a line's too, waits in the ROB, with a time there not before that of its data (`Soonest` is the earliest time of an
issued read in this part of the cycle, for which `READ_TIME >= PROCESSOR_CLK_MULTIPLIER` is needed), and `LongestInRob` the same of the
longest read that has left the memory. `determineReq` is a number and not an entry; a line may have the number of the read meant, and either opens the gate. The flags agree as `Flags` says. `WakeupPending` follows: when the last read of the
batch leaves the memory, `determineReq` is one whose time has not come, so it is still in the ROB. `OneBatchInMemory` needs `Counted`: before the first
eviction, the reads of the batch that were fetched are exactly those in the memory and those counted in `cur_served`, so the count
reaches `to_serve` only when none is left.

### EvictOrder and FawWindow

`InTurn` is about the past of a bucket and has no inductive proof of its own. `TurnComes` looks ahead: every bucket `n` has a turn `w` evictions from
now, and `idle[n] + w < 2^l`. It holds at the start because each of the `2^l` buckets of a level is on the path of one of the first `2^l`
counts (`FirstTurn`), and after a turn because the next is `2^l` counts later (`NextTurn`). Both rest on `Reversed(n)[i]`, what the first
`i` binary digits of a count contribute to its label: a multiple of the weight of the last of them that exceeds everything the later digits add
(`ReversedOffset`, `ReversedBelow`), so it alone says on which bucket of level `i` the path passes, and it does not see multiples of `2^i`
(`SameReversed`). `LoopReverses` shows that the C loop, which also adds the digits that the tree has no levels for, computes the same:
what they add is truncated away (`AddedDigit`).

`WindowInv` adds to `RingIsWindow` that the activations lie in the window and at cycles in which the memory is updated. The entries that
`flush_activate_record` clears are then exactly those of the activations that leave the window (`ClearedEntries`), since the ring is longer than the
window by two updates. `is_T_FAW_met` counts every activation of the window but never sees that of its own cycle, of which there is none yet
(`ActivateCounts`). The hypothesis is needed: beyond `INT_MAX` cycles the loop of `is_T_FAW_met` is empty and no activation is counted.

### PosmapAddr

`MapIsTree` compares two computations: `oram_init` adds up the sizes of the levels, and `merkle_addr` divides. They agree
if an address of level `l` divided by `X^(i-l)` is an address of level `i`. The addresses of a level begin where those of the level below end
(`RangesFilled`, `RangesGrow`, `Base`), so `calc_datapos_level` finds the one level of an address (`LevelIs`). Dividing by `X^a` and
then by `X^b` is dividing by `X^(a+b)` (`DivTwice`, `XPowerSum`), and the quotient stays below the size of its level, which is rounded up (`UpBelow`). Hence
the parent of a parent is the one computed directly (`ParentAddress`), and an address is its parent's rank and its offset.

### DeadBlocks

*Reads until the reshuffle.* `BudgetKept` is `Stocked`: what a bucket has left is at least what its `s` still promises, and `RING_Z` more. A write sets `s` to the slots it
got, less `RING_Z`, and each of them is valid afterwards (`WriteBlocks`); a read takes one slot and raises `count` by one. Thus it holds without any
condition, also in the case of `dead_taken`. That a write gets enough slots is another matter, and `DeadChecks` says how the two are related. `CanServe` is true of each bucket:
its `s` is 0 or less, or it has served fewer than `s` reads, or just `s` and is about to be reshuffled. With `Stocked` the next read finds its dummy, the reshuffle or eviction its
`RING_Z` slots, and a write that got more than `RING_Z` slots has a place for each of the blocks read. So a check fails only
once a write found `RING_Z` slots or fewer (`Served`), whatever the constants. The second part bounds what a write can miss. `Owed` counts, for a bucket, its slots that wait in the queue and those
that were lent; it is at most `allctr` (`Paid`), which `gather_dead` stops at `REMOTE_CAP`, but `ShadowIn` does not (8332), so the bound is
`REMOTE_CAP + SHADQ_SIZE` (`Capped`). The rest of its own slots a bucket has in place (`TakenBound`). Only with `LZ > RING_Z + REMOTE_CAP + SHADQ_SIZE` do the two parts
together give `ChecksPass`; the run *dead* has 4 slots against 1 + 1 + 1. The repository has `LZ` 12, `RING_Z` 5, and for these features `REMOTE_CAP` 10 and
`SHADQ_SIZE` 1000000 (`input/ring-oram.cfg`; `4channel.cfg` has them off): there the second part says nothing, the program relies on enough slots
coming back in time, and exits otherwise (8309).

*One holder.* `Linked(m, W)` is the shape of the memory between any two steps of a loop, `W` being the slots that hold something now: the queue has no slot twice and just those in state
`REMEMBERED`; two slots of `W` never redirect to the same place; a slot that redirects names one that is `ALLOCATED`, and each `ALLOCATED` one is named; a slot of
`W` without redirect has its own place, and `allctr` is the number of slots given away. Each operation takes `W` to another set: a read removes its
slot (`LinkedRead`, `LinkedReadAll`), a write adds those it got (`LinkedBorrow`, `LinkedWritten`), the queues change nothing (`LinkedGather`, `LinkedShadowIn`). `Chained` is `Linked` for the valid slots
of the level, and implies `OneHolder` and that no queued slot is taken (`ChainedOneHolder`).

It is not invariant. A reshuffle leaves the slots that it did not read `valid`, and if the write then finds no place for one of
them, the slot is valid and has none: *dead_taken* shows what follows. `Exact` excludes exactly that: of no bucket are more slots valid
than its last write got places for, less those read since. `DeadOneHolder` therefore is `Spec /\ []Exact => []OneHolder`: a lemma that locates the error, in that every violation of `OneHolder` comes after a write that was short of a place
for a valid slot, and not a result about the program. In *dead_taken* `Exact` fails at the reshuffle.

### Assumptions

The assumptions of each module say what its constants are, and TLC evaluates them in every run. Of the tree nothing is assumed but that
it has a level and that powers of two are powers (`PowerAssumption`: `2^(k+1) = 2 * 2^k` for `k < LEVEL`, a law that no prover has; `PowerXAssumption` is the same for the fan-out of the position map). That
`calc_index` makes paths that share a bucket share those above (`Nested`) and that `reverse_lex` yields a path (`EvictedPath`) is proved in
`OramTreeProofs`, by induction: the lemma `Induction` is about sets of numbers, so the provers can use it. `Sums` shows that a recursive function such as
the loop of `reverse_lex` exists and does what its definition says. `CountAssumption` says that the counts of a simulation have at most `BITS` digits.
`TimingAssumption` is the order of the times that `params.h` describes: a row is open at least as long as an access to it takes
(`T_RCD <= T_RAS`), `T_RAS + T_RP <= T_RC`, and so on, and a refresh window with room for its refreshes after any command.
`GateAssumption` is about sizes and watermarks, and that an access is a finite sequence of batches, which may be empty; `TraceAssumption` excludes dummy accesses in Ring ORAM and skipped turns in one build, as in the code.

### Only model-checked

- *Liveness* (`StashDrains`, `EvictionDrains`, `TraceConsumed`, `TraceEnds`) is out of the prover's reach.
- `OneHolder`, other than where every valid slot has a place: in the run *dead*, for no extra slots.
- `ChecksPass` as such: in the run *dead*.
- Invariants of runs have theorems otherwise, with the hypotheses named above; what the mutants break is found by TLC alone.

## Disagreements between code and comments

Three are shown by runs: `dead_taken`, `gate_evict` and `llc_lost`, above. Others were met while reading:

- a bank that wakes from the slow power-down gets the times of the fast one: its state is set to `IDLE` before it is compared with
  `PRECHARGE_POWER_DOWN_SLOW` (11893, 12316). `BankTiming` does the same; `DramProtocol` says nothing of ranks that sleep;
- `issue_refresh_command` looks at bank 0 to see whether the rank sleeps with an open row (see `RefreshCovers` above);
- the deadline that wakes a sleeping rank for its refresh is that of rank 0 (12061);
- `main.c` 1883 drops the trace line that `fgets` has taken when a waiting miss is restored, and the ORAM is invoked for the last line
  even if it was a hit;
- `slot[Z]` has no room for the extra slots of `S_INC` in the build as shipped (see `DeadBlocks` above);
- an access to a block in the stash makes the fetch loop take the trace line for a request (see `FetchGate` above);
- slots from the shadow queue are counted in `allctr` without the comparison with `REMOTE_CAP` (8332);
- `byte_addr` clamps to the last block of the position map instead of the last data block (1247);
- the case of `BK_EVICTION` in `configfile.h` 676-681 has no `break`;
- `dumval` is decremented for real blocks too, because `isReal` has just been cleared (7505).

## Not modelled

- *Compact bucket* (`CB_ENABLE`): a read may take a real block of a bucket it is not looking for, as if it were a dummy. It changes what a read
  does to a bucket; `RingOram` and its proofs have one block or one dummy per bucket and read.
- *Stale buffer, write skip, metadata cache* (`WSKIP_ENABLE`, `META_ENABLE`): off in every configuration file.
- *Merkle counters.* `merkle_overflow` and `merkle_reset` change counters from which `secureFunc` would compute labels, but the program goes on with
  the labels in `PosMap`. `RingOram` and `PathOram` allow any label.
- *RHO, early writeback*: a second tree for blocks with more than one use; off in the Ring build.
- *PLB of several ways, prefetcher*: `PLB_WAY` is 1 and the prefetcher is off.
- *NVM*: `adjust_ddr` (9997, 10026) changes `T_RCD` and the other times from one request to the next; `BankTiming` has one set of times.
- *Power model, statistics, export*: they observe.
- *Configuration reader, `utlist.h`, pin tools, scripts*: input parsing, vendored macros and programs outside the simulator.
- *Several cores and channels, `TIMING_ENABLE` and `NONSEC_ENABLE` in the fetch loop.*

The hazards that the properties answer are in `PROJECT.json`, each at its line.
