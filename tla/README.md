# TLA+ models and proofs for win-Qwen4exp-rocm-Strix-Halo

This directory models the parts of the inference engine (a fork of llama.cpp
with a server, ROCm kernels and a disk-backed embedding pager) whose
correctness depends on the *order* in which things happen: the memories of a
context, whose metadata is edited now and whose tensors follow later; the pager
that reads embedding rows from disk with overlapped reads; the server, whose
HTTP threads and inference thread share queues and one condition variable; and
the slot that decodes speculatively and takes back what was wrong.
Paths below are relative to the repository (`src/` is its root, so
`src/src/llama-kv-cache.cpp` is the file `src/llama-kv-cache.cpp` of the
repository).

## 1. The system: components, state, behaviour

| component | state | operations | who uses it |
|---|---|---|---|
| KV cells (`src/src/llama-kv-cells.h`) | `pos`, `shift`, `seq` per cell; `used`, `seq_pos`, `has_shift` kept by hand | `rm`, `seq_rm`, `seq_keep`, `seq_add`, `pos_add`, `pos_div`, `pos_set`, `cp`, `set`, `reset_shift` | the KV cache only |
| KV cache (`src/src/llama-kv-cache.cpp`) | cells and head of every stream, K/V tensors, queued stream copies | `seq_rm/cp/keep/add/div`, `clear`, `prepare`, `find_slot`, `apply_ubatch`, `update`, `state_write/read` | `llama_context::decode`; the caller of `llama_memory_*` |
| decode (`src/src/llama-context.cpp`) | the batch in progress | update, rehearse, undo, compute, clean up | the server, any program |
| batch splitting (`src/src/llama-batch.cpp`) | the tokens already split off | `init` (position checks), `split_simple`, `split_equal`, `split_seq` | decode |
| recurrent memory (`src/src/llama-memory-recurrent.cpp`, `build_rs`, `delta-net-base.cpp`) | one cell per sequence, `tail`, `rs_idx`, state rows in groups of snapshots | `find_slot` (swaps cells), `seq_rm` with a bounded rollback, `seq_cp/keep`, save, restore | the hybrid memories |
| hybrid memory with index cache (`src/src/llama-memory-hybrid-idx.cpp`, `src/src/models/qwen4exp.cpp`) | attention cache, index cache, recurrent memory and PLE histories, in step | every memory operation on all four; `set_input` reads and commits the histories | `llama_context` |
| server queues (`src/tools/server/server-queue.cpp`) | `queue_tasks`, `queue_tasks_deferred`, `waiting_task_ids`, `queue_results` | post, defer, pop_deferred_task, send, recv, cleanup | HTTP threads and inference thread, under two mutexes |
| reader (`server_response_reader`) | ids still without result | post_tasks, next, stop | one per HTTP request |
| inference loop (`src/tools/server/server-context.cpp`) | slots, the batch, `n_empty_consecutive` | process_single_task, update_slots | one thread |
| sleep mode (`start_loop`, `wait_until_no_sleep`, `terminate`) | `sleeping`, `req_stop_sleeping`, `running`, the loaded model | sleep, wake, stop | the loop and every HTTP thread on one condition variable |
| PLE direct pager (`src/src/llama-ple-pager.cpp`) | arena, lanes of overlapped reads, `read_mutex`, statistics | plan rows into sectors and waves; read, scatter, drain | graph input of the model |
| speculative decoding, checkpoints (`update_slots`, `src/common/speculative.cpp`) | draft, checkpoint, replay counters of a slot; hidden rows the MTP drafter carries over | draft, verify, restore, replay, livelock guard; reuse of an earlier prompt | inference loop |
| prompt cache | saved slot states in memory and on disk | save, load, evict | inference loop |
| router (`server-models.cpp`) | instances and their status | load, unload, LRU limit | HTTP threads, monitor threads |
| iSWA, DSA and plain hybrid memories | two caches in step | as the KV cache | decode |
| CPU thread pool, graph allocator, backend scheduler, log thread | barriers, free lists, ring | | compute |
| kernels, model loading, sampling, chat templates, arguments, RPC, tools, web UI | | | |

What is hard here, by component, is listed at its line in `PROJECT.json`
(`hazards`). In short:

* KV cache: every edit maintains indexes by hand; a shift and a stream copy are
  promised now and carried out by a later decode; `prepare` edits the real
  cells as a rehearsal and undoes it; a graph may fail between two of these.
* Recurrent and hybrid memory: a cell is swapped now and its row moved by the
  graph; a rollback is an index into snapshots that the next decode overwrites;
  four stores have to follow each other through refusals and failures.
* Pager: reads complete in any order, fail or come back short, while the arena
  and the events are to be reused by the next caller.
* Speculation: target, drafter, checkpoint and the drafter's hidden rows are
  rewound together; a replay may be rejected again.
* Server: a request may be given up at any moment, between any two steps of
  the inference thread; deferred tasks have to be resumed by someone; children
  wait for a parent; a batch is decoded in pieces that may be retried smaller.
* Sleep: one condition variable with `notify_one`, waited on by two kinds of
  thread with different predicates.

The properties that make these correct: the indexes mirror the cells; a pending
shift is never forgotten nor applied twice; every K row belongs to the token and
the position its cell claims; nothing that is still attended to is evicted; a
sequence continues from its own state, and no token gets another sequence's
predecessor; a read gives the rows of the tensor or throws as a whole; what is
sampled depends on the tokens alone; a task is in one place; a result has a
reader; every client is answered; a wake-up is not lost.

## 2. Modules

```
KvCells <- KvCache <- MCKvCache        Subsequences <- ServerQueue <- ServerTasks <- MCServerTasks
            ^ KvCacheProofs                                            ^ ServerTasksProofs
ServerSleep <- ServerSleepProofs                  PleRows <= PlePager <- MCPlePager, PlePagerProofs
Subsequences <- BatchSplit <- RecurrentMem <- MCRecurrentMem
Subsequences <- HybridIdx <- MCHybridIdx          MtpState <- SpecDecode <- MCSpecDecode
  ^ SubsequencesProofs <- HybridIdxProofs           (MtpState extends Subsequences;
                       <- RecurrentMemProofs         each ...Proofs extends its own
                       <- SpecDecodeProofs           module too: RecurrentMemProofs
                       <- ServerTasksProofs          RecurrentMem, and so on)
```

`<-` is EXTENDS; PlePager implements PleRows (INSTANCE with a refinement mapping).

**KvCells** — one stream of cells as a record `[pos, shift, seq, used, seqPos,
hasShift]`, and one operator per method. A method is called in a loop over
cells, so most operators take the set of cells (or a function on it) and do all
of them at once; the order in which the code visits the cells does not matter to
the result. The indexes `used`/`seqPos` are *not* recomputed from the cells:
each operator changes them by increments, as the code does.

**KvCache** — `cells`, `heads`, `sc` (queued copies) and `rows` (the K tensor)
of `llama_kv_cache`. A row is abstracted to the token it was computed from and
the position it is roped at; that is what K-shift, copies and state restore can
get wrong. `want` and `job.before` are history variables. `pc` says which phase
of a decode the context is in: `idle`, `update` (CopyStream, KShift,
KShiftFails, NoUpdate), `prepare` (PlaceUbatch, AllPlaced, NoSlot), `restore`
(RestoreUbatch, EndPrepare), `compute` (ComputeUbatch, ComputeFails). Memory
operations (`Clear`, `seq_rm`, `seq_rm_any`, `seq_cp`, `seq_cp_stream`,
`seq_keep`, `seq_add`, `seq_div`, `state_write`, `state_read`) happen when it is
`idle`. A context has one caller, so phases do not interleave with operations;
they are separate actions because the code's intermediate states are what the
proofs are about. `Batches` is what `llama_batch_allocr::init` admits (`Lists`,
`Joins`): tokens of one sequence, of several in any order and in any numbers, or
shared, cut as `split_simple` or `split_equal` cut it. A sequence that is empty may
begin at any of the positions `Starts`. `AnyOrder` lets its positions stand in a
batch in any order, as the code does; without it they increase. The position rules
for M-RoPE and for a drafter's shared memory are left out.

**ServerQueue** — the two mutex-protected objects `server_queue` and
`server_response`: one operator per method, each a critical section.

**ServerTasks** — readers (`Register`, `Post`, `Receive`, `Leave`,
`StopWaiting`, `Purge`, `Cancel`) and the inference thread. A handler changes the
slots at once, since they belong to its thread, and then makes its calls on the
queues one at a time (`main.calls`, `MakeCall`), so that readers run in between.
A slot that streams sends a partial result for every token, also for its last, and
gives the batch as many tokens of its prompt as fit or fewer (`take`: a break for a
checkpoint, a prompt that has to be in one batch or cannot be batched with those before it).
`Pop` and `DeferTask`/`Launch` are separate: the task is in the hand of the
thread while a cancellation may arrive. `BuildBatch` and `DecodeView` are the two
halves of `update_slots`; a slot keeps `n`, the tokens put into batches, and
`kv`, the tokens decoded.

**ServerSleep** — the same loop one level down: `waiting` is the wait set of
`condition_tasks`, `notify_one` removes any one thread from it, `notify_all`
empties it, a thread may wake up spuriously, and one that woke up re-checks its
predicate in an action of its own. This is where lost wake-ups live; ServerTasks assumes them away.

**RecurrentMem** and **BatchSplit** — the cells, tails and head of the recurrent
memory, and its rows, each standing for the tokens folded into it. `Decode`
admits a batch, in which the tokens of a sequence are next to each other, and
splits it (`BatchSplit`: `split_equal`, or `split_seq` when every token is an output,
`embd_all`). `split_equal` can keep the last tokens of a sequence together
(`KeepTail`), but no memory with snapshots asks for that: only `llama_memory_hybrid_idx` passes
`n_keep_tail`, and its one architecture has no snapshots, so `NoKeepTail` is assumed.
`Apply` is `find_slot`; `Compute` moves and writes rows as the graph does, main
rows and snapshots; `ComputeFails` leaves the metadata. What is left in a row
that nobody may read is `Stale`, so that the state space does not remember it.
A sequence is saved at any time between decodes, and restored any number of times.
The caller of a passing run takes tokens back once, from the last micro-batch of the
sequence, and not after a restore. `Trusting` lists what it does not rely on: a
rollback across a swap (`"moved"`), after a restore (`"restored"`), a second time
(`"twice"`), into an earlier micro-batch (`"earlier"`), or dropped with its
sequence (`"pending"`).

**HybridIdx** — the four stores of a Qwen4Exp context in one module. A cell holds
what it stands for (KvCache has the indexes); the recurrent memory is a set of
states. `Decode`, `Apply`, `SetInput` (reads the histories, then commits them),
`Compute`, `InputFails` and `ComputeFails` are the steps of a decode; the
sequence operations and `state_write`/`state_read` follow the class.

**PleRows** is what a caller of the pager sees: a call is open, then has its rows
or has thrown. **PlePager** is the code: a geometry (`Source`), the planner as
operators (`SectorsOf`, waves, the arena), and per call the phases lock, plan,
issue, await, scatter, drain, rethrow. A byte stands for its place in the file.

**Subsequences** — picking the entries of a sequence that satisfy a condition, in
order, which is what a loop with a condition or `std::remove_if` does. It is
written with the places of what is picked, so that the prover can reason about it.

**MtpState** — the hidden rows the MTP drafter keeps between two batches, one
operator per method of `common_speculative_state_draft_mtp`.
**SpecDecode** — one slot of `update_slots`: `StartPrompt` (what is reused:
trailing rollback, checkpoint, or nothing), `AddPrompt` with its checkpoint,
`BuildDraft` or `BuildReplay`, `Decode`, then `Sample`, `Accept` or `Restore`;
`DecodeFails`, `RestoreFails` and `Cancel`. The memory of the target is the
attention cache `kv` and, for a recurrent one, `pos`, `idx` and `rows` of its
state, which is RecurrentMem seen from one sequence. A state, and a hidden row,
is the list of tokens it was computed from. Which tokens are drafted and sampled
is left open, so a replay may be rejected again.

The modules named `MC...` hold the argument sets for TLC.
Definitions whose comment says "variant for the runs" are not part of a
specification: each is the plausible mistake that shows that a property can fail.

## 3. Runs

Times are for four workers. "Ops" and "Faults" in a configuration select the
operations the caller uses and the failures that happen, so that each run stays
small while its question is asked in full.

| run | instance | states | what it shows |
|---|---|---|---|
| kv_unified | 3 cells, 2 sequences sharing a stream, positions 0..2, shifts -1/+1, batches of two in any order, one token to a micro-batch | 1 800 441, 116 s | indexes, announced shifts and rows survive every order of clear, rm, cp, keep, add and decode; the rehearsal is undone; a decode, rehearsal included, evicts nothing |
| kv_swa | 3 cells, window of 2, positions 0..3, division by 2, graph failures | 847 979, 71 s | reuse of masked cells and the purge open no gap in a window, and computing a micro-batch costs no position that is attended to then |
| kv_streams | 2 streams of 2 cells, positions 0..1, batches of up to 3, queued copies, failing shift and graph | 699 200, 95 s | copies and shifts, in any order and with a retried shift, leave each row where its cell says |
| kv_state | 3 cells, save and restore | 1 776 893, 52 s | a sequence is restored into any free cells, contiguous or not, or not at all |
| st_answer | 2 slots, 3 requests, one with a child, one that asks for a slot, one that asks for a slot beyond; nobody gives up | 18 598, 20 s | every client is answered (liveness) |
| st_stop | 2 slots, 3 requests, one with a child, one pinned; two clients may leave, launch and speculation may fail | 5 525 497, 144 s | one place per task, no stray result, one final result, no abandoned child |
| st_decode | 3 slots, prompts of 3, batch of 4, all decode errors, a slot action, a cancellation | 2 237 825, 57 s | batches and memory agree, through retries and errors |
| sleep | 3 clients, 3 sleeps, terminate | 4 843, 1 s | wake-ups are heard, a task the loop could see is served, the loop returns |
| pager | 2 threads, 6 geometries (rows across sectors and waves, a full wave, a short last sector, mapped) | 51 000, 7 s | rows are right or the call throws as a whole, arena and lanes are drained before the next caller; refines PleRows, liveness included |
| hybrid | 2 sequences, alone, together or shared, failing inputs and graphs | 532 000, 44 s | the four stores stay in step, no token gets a wrong predecessor, and appended sequences keep theirs |
| recurrent | 2 sequences, 3 cells, 1 snapshot, batches of up to 4 over micro-batches of 3, by `split_equal` and `split_seq` | 772 265, 93 s | through every swap, copy, rollback and restore the next decode starts from the sequence's own state |
| spec | 2 requests of 2 or 3 tokens, 5 tokens generated, drafts of 2; attention, recurrent without and with 1 snapshot | 415 466, 41 s | what is sampled depends on the tokens alone, the memories never refuse, the drafter's rows are true, requests end |

**Why the bounds are enough.** Three cells and two sequences contain every case
of `find_slot` (wrapping search, non-contiguous slots, a full cache), of sharing
a cell and of a sequence with a gap; two micro-batches are what the rehearsal
needs to undo in reverse order; four positions leave one masked below a window
of two. `MaxShift` bounds the pending shift of a cell, `MaxPos` the positions,
`MaxBatch` the tokens of a batch, `Starts` the first positions of an empty sequence.
In `kv_swa` two micro-batches are few enough that the rehearsal purges nothing the
decode itself attends to; `v_window_lost` has the three that it takes (section 5).
With two slots, three requests and a child, every way of deferring, resuming and
waiting for children occurs, and a third reader is what can be forgotten. A
batch of four for three prompts of three splits a prompt between batches and a
batch between views. Two tokens are generated at most (`NPredict`), the decision
to stop earlier is nondeterministic. `SpeculativeFails` happens at most once per
token. Three clients are what `notify_one` needs to reach the wrong one of.
The pager's geometries are chosen for the boundaries: a row inside one sector,
across two, across two waves, a wave that fills the buffer, a file that ends
within a sector. Three cells for two recurrent sequences leave one to copy and
swap into, and a batch of four for micro-batches of three splits a run, alone or
together with another. In `spec`, five tokens are what it takes to roll back, draft again
while the rollback is pending, save, and restore that; two prompts that share a
prefix, and whatever was generated, give every kind of reuse; `CkptMin`,
`CkptGap` and `CkptTail` are scaled down from 64, 64 and 4, and a prompt is
shorter than a micro-batch.

Deadlock is checked in the runs of the memories. It is not in the server runs: a bounded set
of requests is served and then nothing is left to do; and in `sleep` the loop
has returned.

**Fairness.** `ServerTasks`: the inference thread keeps running (`WF(Loop)`), and
a thread that has begun a request goes on with it (`WF` of its steps). Nobody
has to send a request or to hang up. A task that is in the queue is reached
because the loop pops all of them before each `update_slots`. `ServerSleep`:
`WF(Loop)`, and weak fairness of a notified client and of one that has a task to
post; the mutex is assumed to be granted eventually, as the operating system
does. A client need not arrive and `terminate` need not be called. `PlePager`: a
thread in `read_rows` goes on (`WF` of the steps of each call) and the device
completes what was issued (`WF`), which is what `GetOverlappedResult` waits for
without a timeout. `SpecDecode`: the loop runs (`WF(Step)`); cancelling and
sending requests are not part of it.

**Timing in ServerSleep.** Whether the idle period has passed at a check is
nondeterministic, so the model has every timing the code can meet and some more.
One constant excludes an extreme one and is named in every result that needs
it: `QuickLock`, a thread that was notified or woke up gets the mutex before a
whole idle period has passed. The code does not ensure it, and section 5 shows
what happens without it. Nothing says how long a request is tokenized: the loop
may fall asleep, and unload the model, between `wait_until_no_sleep` and the post
of the task. So `ModelThere` is not a property of the run; it fails, although the comments at
`server-context.cpp:4343` take a `create_response()` at the start of a handler,
which waits there, to be enough. And `Served` excludes a task that is
posted while the loop is asleep: `post` notifies the loop, which re-checks
`req_stop_sleeping` and waits on until another request wakes it (`ServedAnyhow`
fails).

## 4. Proofs

Checked by TLAPS (SMT, Zenon, LS4), for every value of the constants allowed by
the `ASSUME`s of the modules.

**KvCacheProofs** begins with the algebra of the cells. `Sound(c)` is the conjunction of
well-typedness, exact indexes (`Indexed`) and announced shifts (`Shaped`); for
each operator a lemma says that it keeps `Sound` under the precondition its
callers establish (`Emplace` needs the cells free, `SeqAdd` needs the target
absent, `Set` needs the shifts settled).
Its theorems are `TypeCorrect`, `IndexesExact`, `ShiftsAnnounced`, each
`ASSUME CallerCleans PROVE Spec => []...`. The three properties are not
inductive: undoing the rehearsal writes remembered cells back, so the inductive
invariant `IInv` also says that a remembered cell is well formed (a position
exactly if it belongs to a sequence), that what is remembered for a micro-batch
has that micro-batch's shape (`PlacedFor`), and that the cells of a rehearsed
slot have no pending shift (`Settled`) — `llama_kv_cells::set` does not touch
`shift`, so putting an empty cell back onto one with a pending shift would leave
an empty cell with a shift. That this cannot happen needs an argument: a cell
that is placed was empty or has been emptied by `rm`, an empty cell has no
pending shift (`ShiftAnnounced`), and nothing between `prepare` and its undo
shifts anything. The proof has one step per action of
`Next` and, under it, one lemma per part of `IInv` that the action disturbs.
`CallerCleans` is the assumption that `seq_cp` within a stream is only given a
target that has no cell in the range; without it the indexes do break
(section 5).

Its second part is about the K rows: `RowsTracked`,
`ASSUME RowsSafe PROVE Spec => []RowsTrackCells`, for every number of cells,
sequences and streams, every window and every batch. The invariant `RInv`, on top
of `IInv`, says of each phase where the row of a cell is. Before a decode it may be in another stream: `Routes` follows it through the
queued copies, one route per stream and copy, so that a copy queued later, and a
shift made in between, can be added (`Arrives`). During the rehearsal the cells
of the slots are overwritten while their rows stay; two micro-batches may take
the same cell, and only what the *first* of them remembers is the cell whose row
is there (`Rehearsed`). Undoing them last to first shrinks that to nothing, and
every row is in place again. After a failed graph it is not known whether the
rows were written: then the clean-up has to empty every cell of the slot, which
it does because each token has one sequence (`Single`) and stands at or after
the first position of that sequence in the micro-batch (`SlotCleaned`).
`RowsSafe` has one condition for each way in which the property does fail, and
each failure is one of the configurations of section 5: divided positions
(`v_div`), a graph that fails on coupled sequences (`v_coupled_fail`), a K-shift
that fails where a window lets cells be reused (`v_shift_lost`), and a sequence
restored where a shift (`v_state_shift`) or a stream copy (`v_state_copy`) may be
pending. `CallerCleans` is taken over from `IInv`. The runs kv_unified, kv_streams
and kv_state are instances of `RowsSafe`.

Its third part is about caches without a window (`SwaType = "none"`), where a cell can
be placed only if it is empty. `AttendedKept` is the action property
`AttendedSurvive`, which is about the decode as a whole: what a sequence had before the
rehearsal is there after it and after each micro-batch, in its cell and with its
row; `RehearsalLeavesNoTrace` and `CellsRestored` say that `prepare()`
leaves everything, or on several streams everything but the heads, as it found it.
That the slots still consist of empty cells when they are computed is not evident:
they were found one after the other with the earlier micro-batches in place, and
those have since been taken out. `UInv` says that every cell of every slot was empty
before the first placement (`Fresh`) and was remembered as empty (`Blank`), that
no two micro-batches share a cell (`Apart`), and that a cell in no slot that is placed
now is as it was then (`Agree`). Going back, each restored slot is empty
again; going forward, computing a micro-batch fills its own cells only, so the
slots ahead are still empty (`Waiting`). The indexes need no invariant:
cells that agree and whose indexes are exact have the same indexes
(`SameIndexes`). The head needs one stream, because the code restores the head of
stream `sinfo.strm[s]` from `v_heads_old[s]`. With a window none of this holds, and
section 5 says how it fails.

**ServerSleepProofs** — `TypeCorrect` needs no assumption on timing.
`OnlyMainIsWaiting` and `RequestsHeard` assume `QuickLock`. The invariant is about
who can be in the wait set: clients enter it only after a wake-up was requested
(`NobodyCame`, `Places`), the loop empties it when it wakes, and no client is left
notified-but-not-running when it sleeps again, which is where `QuickLock` is used.

**PlePagerProofs** — `TypeCorrect`, `ReadsDrained`, `InFlightApart`, `OnlyFaults`
and `Implements`, for every geometry, request and number of calls. The planner
packs the sectors of a wave side by side into the arena (`ArenaOrder`,
`ArenaApart`) and every byte of a row lies in a planned sector (`PlanCovers`).
The invariant says that the lanes belong to the wave of whoever holds
`read_mutex` (`Owned`), that a sector of that wave is queued, on a lane, or
loaded in the arena (`Fetched`), and that the rows gathered so far are those of
the waves done (`Partial`). With nothing in flight and nothing queued the wave
is loaded, so scattering it gives the bytes of the file; at the end that is the
abstract step `Give`, and a fault anywhere leads to `Throw`. `Implements` is the safety of the
refinement; TLC checks its liveness.

**SubsequencesProofs** — what `Picked` and `Ascending` return: every place of the
set, once, in ascending order, and so the entries of a sequence that satisfy a
condition in the order they had (`NthPlace`, `NthAscends`, `NthOnto`, `PickedFrom`).
It also has the two ways in which the other modules argue about a definition by
recursion: what holds of 0, and of n + 1 with n, holds up to any number, stated
for a set (`UpFromZero`), and a set of numbers has a least element (`HasLeast`).

**HybridIdxProofs** — `CellsStaySame`, `EndsStaySame`, `PredecessorsTrue` and
`PredecessorsKept`, for every number of cells, sequences and tokens, every batch
and every length of a history. `Seen(c, s)` is what a sequence has in the cells,
a set of positions with their tokens, and everything is said of it. The
invariant has three parts. `Stores`: the two caches are equal, a sequence has
one token at a position, and its recurrent states are at its last one. `Steps`:
what is left of a batch goes on after everything its sequences have
(`LeftOK`), fits into the free cells, and the micro-batch in progress has the
tokens of a sequence next to each other (`Grouped`) and in cells of their own
(`Stored`). `Histories`: what a history tells is judged against what was seen
*before* the micro-batch that `set_input` will read (`Before`), since `Apply`
fills the cells first and the history follows one step later, or never, when the
input fails. Then what it tells is true (`HistTrue`), and of a sequence that was
only appended to it tells all there is (`HistFull`). A history that a removal cut
short is the delicate case: it may have too few tokens, and `next_pos` then is a
position the sequence still has, which no batch can start at. The bulk of the
proof is the splitter: what `split_equal` takes and what it leaves are again runs
that go on after the cells (`TakenIs`, `RestIs`, `NextGrouped`), for runs shared
by several sequences too. `PredecessorsTrue` and `PredecessorsKept` assume
`~JumpInside`: with a jump inside of a run the history places a token where the
sequence has another, as TLC shows. Restored states (`StateSpec`) are no part of
the theorems; section 5 shows that the index cache and the histories do not
survive them.

**RecurrentMemProofs** — `TailsAlwaysAgree` and `FindSlotNeverAborts`, and
`StateIsAlwaysHistory` (`ASSUME Trusting = {}`), for every
number of cells, sequences and snapshots, as long as there is a cell for each
sequence (`SizeAssumption`: the memory is created with `n_seq_max` cells), and for
every batch and size of a micro-batch. `Trusting = {}` is the caller
of section 2; each member of `Trusting` is a way in which the property fails
(`v_rs_swap` is one). There are two inductive invariants.
`Sound` is about the cells alone and holds for every caller: cells and tails agree
(`Agree`), a cell is in use exactly if it has a position, and between two
micro-batches a used cell is filled from its own row (`Home`), so that a row is moved
at most once. That `find_slot` keeps it is the bulk of the proof (`SlotIs`), along
its four loops. `OwnedIs`: after k sets have cells, each of them has one of its own,
and the next empty one is nobody's. The code does not put a new sequence into its
cell before the last loop, so that cell still looks empty; the search does not meet
it again, because as long as a cell is free it lies ahead of those that were given
away (`Ahead`), and one is, because a sequence has one cell at most (`FreeCell`).
`GatheredIs`: the swaps are a renaming of the cells, in which the first k sets are in
their places and the others, being distinct, were not pushed out of the range
between the least and the greatest of their cells (`Settles`). `FilledIs`,
`TailsFilledIs`: every sequence of a set follows its first one. `ZeroRowIs`: if
a cell of the range has no row to be filled from, then some row of the range fills
no cell, for no cell outside is filled from it (`Laid`); this is the assertion on
`rs_z`. `Traced` is what remains for the rows: where each row of the range comes from, and
that the cells outside of it are as before. `Told` says what the rows mean: that of a cell, in the group of the rollback index,
is the state of all its sequences' tokens (`RowTold`), the groups up to `undo` have
the states before the last tokens (`Knows`), sequences that share a cell have no
rollback pending and none to ask for (`Apart`). While a graph is in progress the
rows of the range are described by what is about to be copied into them
(`CopyTold`). `FetchIs` derives that from `Traced`: the code looks up the rollback
index of one sequence of the cell only, which is right because they agree.
`ComputeTells` follows the snapshots, `StateRowIs` and `ReadMoves` a saved sequence.
`SplitEqualIs` and `SplitSeqIs` say what the two splits take and leave, and `SplitIs`
what the rest of the proof needs of either.

**SpecDecodeProofs** — `AnswersFromHistory`, `NeverRefused` and `BoundaryRows`,
`ASSUME Clean PROVE Spec => []...`, for every memory of a target, every draft and
what is accepted of it, every size of a batch, number and spacing of checkpoints,
and every sequence of requests, failures and cancellations. `Clean` says that the
target has an attention cache alone, and then nothing is asked of the clients, or
that they avoid what `Careful` lists; `v_spec_edge` and `v_spec_exact` show what
happens otherwise. The three properties look at the tokens at two points of an
iteration; the invariant `IInv` says what they are at every point. `Phases`: the
tokens listed and those in memory are the prompt so far, the prompt and the
answer without its last token (`Base`), or these with the draft. `Holds`: the
attention cache and the state the recurrent memory would go on from stand for the
same tokens. `Snapshots`: during verification the rows behind the newest one are
those of the draft, one token back each. `DraftCkpt`: a draft longer than
what can be taken back has a checkpoint, and that is of `Base` (`Covers`), also
after the draft was replaced by what was verified of it. `Checkpoints`: those of
the prompt are true of it, and, once the slot is released, of the tokens in memory
as far as they go (`Along`): a checkpoint may lie behind tokens that were
removed. `Seen`: every row the drafter carries is the one the target computed for
a prefix of the tokens, or neutral, or of a position that is not in memory.
`RowsOf` adds the rows of the batch that is being verified, from which `accept`
takes the boundary. The reuse of a memory by the next request is the longest
part: whatever `TrailingRollback` and `BackToCkpt` choose, what is left `Fit`s a
common prefix of both prompts and the last token of the prompt can be taken out
(`Usable`).

**ServerTasksProofs** — `TypeCorrect`, `MemoryCorrect` (`ASSUME Calm`),
`PlaceCorrect`, `ResultsCorrect`, `FinalCorrect`, `CancelledCorrect` and
`ChildrenCorrect` (both under `Firm`), for every number of requests,
tasks, children, slots and tokens, and for every interleaving of the readers with
the inference thread. Besides the types of the constants they assume what the
code gives: the tasks are finitely many, and a child is posted with a parent that
has none itself and the same reader (`add_child`, `server-context.cpp:4164`).
There are four inductive invariants, one on top of the other.
`Fits` is about a slot and the batch. Neither `TypeOK` nor `MemoryHoldsPrompt` is
inductive: `n` is raised when a batch is built and `kv` view by view, so `SlotFits`
says at every step that `kv` and the tokens of the slot that are left in the batch
(`Left`) make up `n`, and that a slot with a place to be sampled at (`i_batch`) has
no token behind it; this bounds what is generated too. `LoopFits` says
which part of `main` is meaningful in which phase. Under `Calm` the sum is exact;
without it only an upper bound holds, because `activated` children take over
a prompt that is partly decoded (`v_child_copy`), and a failing speculative
context leaves tokens in a batch that is thrown away. How the loops of
`update_slots` fill a batch is a recursive function over the slots; what holds of
it for every number of slots (`SampledOk`, `BuiltOk`) is shown with a least
counterexample (`WFMin`), which needs no operator as a parameter.
`Tracked` is where a task is on its way from the request to its last result.
`Once`: queue, deferred queue, hand of the loop and slots have a task at one
index altogether. That alone is not inductive, since a launch takes the children of a task
without looking for them: `Families` says that a child is never queued, and not in
a slot while its parent is yet to be launched; `Births`, that a task is nowhere
before its reader posts it; `Ends`, that a task of which the last result was sent
or is about to be is nowhere either, has no result on the way after that one
(`LastIsLast`), and is launched by no parent any more; `Waiters`, that an id is waited for exactly
while its reader may read, which is what `send` looks at when it drops a
result. Each handler changes the slots first and makes its calls later, so
results are judged together with the calls still to be made (`SendsOf`,
`Closed`). The proof has one lemma per action (`PostTracked`, `LaunchTracked`,
`ViewTracked`, ...) on top of lemmas that say what each method does to the queues.
`Obeyed` is about cancelled tasks. `CancelledGone` is false in general: `v_zombie`
shows a task that is cancelled while the inference thread has it in hand, and
deferred afterwards, when its cancellation has nothing to find. So the theorem is
about tasks that are `Firm`: either the client stays until its tasks are answered
and they are one family (`Patient`), or there are as many slots as tasks and the
task asks for none in particular (`Spacious`). A patient client stops only on a last
result, when its task is no longer ahead (`Quits`, from `Ends`); with enough
slots `RoomFor` counts the busy ones and finds the task and its children a
place. `Withdrawn` then says that a cancelled task is in no queue, and in the
loop's hand or in a slot only while its cancellation is in the queue;
`NowhereElse` draws the conclusion for a single firm task, whatever the
other tasks are.
`Minded` is about children: who waits has a parent that is still to hand over its
prompt, or its own cancellation is queued. A parent leaves its slot before that
only when it is cancelled, and then `Withdrawn` says that the children are
cancelled too. A rejected prompt releases the parent alone: its children wait
until their reader stops and cancels them, so `ChildrenCorrect` assumes that no
prompt is rejected (`"prompt"` is not in `Faults`), as `st_stop` does.

**Only model-checked.** Liveness (`Answered`, `Served`, `LoopReturns`, `Finishes`,
and that of `ReadsRows`): fairness and ENABLED are outside the prover.
`ApplyKeepsWindow` and `ComputeKeepsAttended` are safety too, and stay with
`kv_swa`: the second is weaker than `AttendedSurvive`, which is proved, and checked
by `kv_unified`, without a window. With one the slots that the rehearsal found are
computed over cells the rehearsal may have purged, and what a longer batch then
loses is the row `v_window_lost` of section 5.
No module declares a RECURSIVE operator.

## 5. Disagreements between code and documentation

The following configurations end in a counterexample, because each shows a limit
under which the passing runs and theorems hold, or a consequence the
documentation leaves open. Those named `v_x` are kept to be run by hand
(`tlc -config v_x.cfg <module>`); the others are a configuration of section 3
with the change named and the one property.

| configuration | module | property | what happens |
|---|---|---|---|
| v_div | MCKvCache | RowsTrackCells | `pos_div` records the shift with the opposite sign of `pos_add`, and the K-shift rotates the row away from its position |
| kv_unified with `CallerCleans = FALSE` | MCKvCache | IndexExact | `seq_cp` onto a sequence that already has a cell counts its position twice |
| v_rehearsal_swa | MCKvCache | RehearsalUndone | cells purged by the rehearsal are not restored, even when the batch does fit; the comments at `llama-kv-cache.cpp:761` and `:796` say "restore the cells to their original state" |
| kv_streams | MCKvCache | RehearsalUndone | `prepare` restores a head by the number of the stream in the micro-batch (`:805`), not by the stream; only the start of the next search is affected |
| v_window_lost | MCKvCache | AttendedSurvive | one sequence, a cache of window plus micro-batch: after a removal a later position stands in a lower cell, the third micro-batch overwrites it and purges the position below, which the first micro-batch, computed afterwards, should attend to |
| v_window | MCKvCache | WindowPresent | a decode without room leaves a hole in a sequence (`src/src/llama-kv-cache.cpp:796`) |
| v_coupled_fail | MCKvCache | RowsTrackCells | after a failed graph the tokens of a coupled batch are removed from their first sequence only, the others keep cells without rows |
| v_shift_lost | MCKvCache | RowsTrackCells | after a failed K-shift (`src/src/llama-kv-cache.cpp:867`) the rehearsal of a second micro-batch reuses a cell whose shift is pending; `rm` resets the shift, `cp` and `set` do not carry it, and undoing the rehearsal brings the cell back without it |
| v_state_shift | MCKvCache | RowsTrackCells | a sequence saved with a pending shift is restored with its rows at the old position |
| v_state_copy | MCKvCache | RowsTrackCells | a sequence restored into the target of a queued copy is overwritten by it |
| kv_swa with `AnyOrder = TRUE` | MCKvCache | ApplyKeepsWindow | a batch whose positions decrease within a sequence is admitted: the comment at `llama-batch.cpp:358` says "disallow decreasing sequence positions", but `cur_seq_pos` is never raised, so the check never fires |
| v_zombie | MCServerTasks | CancelledGone | a task cancelled while in the hand of the inference thread, then deferred, runs for nobody |
| v_defer_action | MCServerTasks | Answered | a deferred slot action, once resumed, resumes nobody in turn |
| v_defer_cancel | MCServerTasks | Answered | a released slot moves one deferred task to the queue; it is cancelled there, and nothing moves the next one although the slot is idle (`server-queue.cpp:77` and `:25`; `server-queue.h:40`: "Add a new task, but defer until one slot is available") |
| v_child_copy | MCServerTasks | MemoryHoldsPrompt | after a retry with a smaller batch a child is woken with its whole prompt listed and a prefix of it in memory |
| v_orphan | MCServerTasks | NeverAborts | slots that only wait for a parent make four empty batches in a row and `GGML_ABORT` |
| sleep with `QuickLock = FALSE`, `MayStop = FALSE` | ServerSleep | OnlyMainWaits | a notified client that does not get the mutex before the next sleep waits again, before anyone asked the loop to wake |
| sleep with `MayStop = FALSE` | ServerSleep | ModelThere | the idle period passes while a request is tokenized, and the model is unloaded under it; the comments at `server-context.cpp:4343` and `:4344` have every handler begin with `create_response()`, which calls `wait_until_no_sleep`, "to ensure that the server_res_generator can handle sleeping case correctly" |
| sleep with `MayStop = FALSE` | ServerSleep | ServedAnyhow | a task is posted to a loop that has fallen asleep meanwhile: it stays in the queue until some other request wakes the loop |
| v_sleep_stop | ServerSleep | Returns | `terminate` in the sleep leaves `sleeping` true: the clients of `wait_until_no_sleep` never return |
| hybrid with `Shared = FALSE`, `Jumps <- NoJump` | MCHybridIdx | EveryContextKept | `qwen4exp.cpp:1217` counts predecessors back over the whole micro-batch: its second sequence loses the history that `:1175` says it uses |
| v_ple_state | MCHybridIdx | NoFalseContext | a restored sequence is given the history of the one it replaces |
| hybrid with `StateSpec` | MCHybridIdx | SameCells | `state_write` and `state_read` are inherited and leave out the index cache |
| v_rs_any | MCRecurrentMem | NeverAborts | `seq_rm(-1)` empties the cells and leaves the tails; `find_slot` asserts |
| v_rs_swap | MCRecurrentMem | StateIsHistory | a bystander whose cell is swapped keeps its snapshots at the old row |
| recurrent with `Trusting = {"earlier"}` | MCRecurrentMem | StateIsHistory | a rollback reaches behind the last micro-batch of the sequence, whose snapshots cover only its own tokens. The TODO at `delta-net-base.cpp:498` says that the last `n_rs_seq + 1` tokens are assumed to be in one micro-batch and that `split_equal` does not ensure it; `n_keep_tail` would, but `llama-memory-hybrid.cpp:81` and `llama-memory-recurrent.cpp:413` do not pass it |
| v_spec_edge | MCSpecDecode | SampledFromHistory | `server-context.cpp:2865` takes a checkpoint with `pos_max <= p0_rm`, which covers the token at which the new prompt diverges, and keeps that token; the comment at `:2855` asks for one "at or below the divergence point" |
| v_spec_exact | MCSpecDecode | NeverAborts | the prompt that is in memory is sent again: one token is to be removed from a recurrent state that cannot, and `common_context_seq_rm` aborts |

## 6. What is not modelled, and why

Inside the modelled components: the restore of the whole cache (`seq_id` -1) and
its output buffers; V rows (they follow K); 2D positions; symmetric windows; LoRA,
metrics, the command-line front end, clearing idle slots to make room
(`try_clear_idle_slots`, which a decode without room tries before it halves the batch), and progress results of the server
(`return_progress`). The similarity
search for a slot is a nondeterministic choice among the idle ones. A token always
completes its text, so that a slot that streams sends a partial result for each
(the code holds it back while a character is incomplete), and a slot that gives the
batch no token keeps its state, so that its prompt may be looked at, and rejected,
in the next one. A request names any slot, which wraps around (`get_slot_by_id`), or none; other negative ids
are left out. It has no more tasks than there are slots, which `server-task.cpp:620`
checks. Sequences
are saved only where `kv_state` permits (no `add` in its Ops); see
`v_state_shift.cfg`. Recurrent and hybrid memory: one stream per sequence,
`seq_add` and `seq_div`, whole-memory states, the convolution states, image
batches, the sparse attention inputs. A jump of the positions inside a
micro-batch, which the history forgets, is excluded (`JumpInside`; with it
`NoFalseContext` fails). Pager: opening and closing, the checks of
64-bit sizes, statistics. Speculation: drafters other than MTP, checkpoints of
the drafter's own memory, several slots in a batch, a decode in views, strict
verification, context shift, images, chunks reused by shifting; a rollback of one
token after a batch of one reads a snapshot nobody wrote, and is excluded
(`Trusting`; the strict verification of `server-context.cpp:3064` avoids it). A
batch that a memory refuses ends the behaviour of SpecDecode; `NeverAborts` says
there is none.

Whole components: see `components` in `PROJECT.json`. Numerical kernels, parsing,
sampling and templates have no protocol state a model checker could explore;
the CPU barrier depends on weak memory orders, which an interleaving model shows
only in part.

## 7. Plan

1. KvCells, KvCache and their proofs, `RowsTrackCells` included. *Done.*
2. ServerQueue, ServerTasks; ServerSleep and its proofs. *Done.*
3. PleRows, PlePager, the refinement and its proof. *Done.*
4. HybridIdx, BatchSplit and RecurrentMem with their proofs. *Done*; left: the
   position shifts and the whole-memory states of the recurrent memory.
5. MtpState and SpecDecode with their proofs. *Done*; left: a drafter with checkpoints, two slots
   in one batch, composed with ServerTasks.
6. KvStore: what a caller of the memory may rely on (a set of positions per
   sequence, empty after a failed restore), implemented by KvCache with the cells
   abstracted away.
7. ServerTasks proofs. *Done*; left: how a child whose parent was rejected gets on,
   which is a matter of liveness.
8. The restore of the whole cache, the composition of two caches for sliding
   windows, `terminate` before `start_loop` in ServerSleep.
9. The prompt cache with its limits, the router with its LRU limit, and last the
   graph allocator, the thread pool's barrier and the log ring.

The set of runs is kept small: as components are added, disagreements whose run
has served its purpose move to the configurations of section 5.
