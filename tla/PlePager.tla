------------------------------- MODULE PlePager -------------------------------
(* The direct pager of the per-layer embedding table
   (src/src/llama-ple-pager.cpp): read_rows plans the sectors that hold the
   requested rows, reads them wave by wave into one arena with overlapped reads
   on a fixed set of lanes, and scatters the rows out of the arena.  Any number
   of threads share a pager; read_mutex serialises read_plan.

   A byte of the file stands for its content: the arena and the rows hold
   places in the file, so that a byte read from the wrong sector, from a read
   that has not finished or from another request shows up as a wrong value.
   All sectors of a plan have source.alignment bytes.  The planner's uint64
   overflow checks and the statistics are left out.                           *)
EXTENDS Integers, FiniteSets, Sequences, FiniteSetsExt

CONSTANTS
  Caller,    \* the calls of read_rows
  Sources,   \* the geometries to consider: tensor, file, buffer, depth, mapping
  Requests   \* the lists of rows a call may ask for

NoCaller == "no caller"
NoByte   == -1          \* content of no byte of the file
ASSUME CallerAssumption == NoCaller \notin Caller

Source ==
  [tensor_offset : Nat, tensor_bytes : Nat, row_count : Nat,
   row_bytes : Nat \ {0}, alignment : Nat \ {0}, file_bytes : Nat,
   buffer_bytes : Nat \ {0}, io_depth : Nat \ {0}, mapped : BOOLEAN]

\* open_from_file_id refuses a tensor that ends outside the file
ASSUME SourcesAssumption ==
  /\ Sources \subseteq Source
  /\ \A s \in Sources : s.tensor_offset + s.tensor_bytes <= s.file_bytes
\* an empty request returns at once and is not considered
ASSUME RequestsAssumption == Requests \subseteq Seq(Int) \ {<<>>}

VARIABLES
  source,      \* the geometry the pager was opened with
  rows,        \* rows[c]: the request of call c
  pc,          \* pc[c]: where call c is
  read_mutex,  \* its holder, or NoCaller
  sectors,     \* sectors[c]: sectors of the waves not yet scattered
  queued,      \* queued[c]: sectors of the current wave not yet issued
  lanes,       \* lanes[n]: the overlapped read on lane n
  arena,       \* the staging buffer
  compact,     \* compact[c]: the rows gathered so far
  faulted      \* the calls that met a failure of the device or of a page

vars == <<source, rows, pc, read_mutex, sectors, queued, lanes, arena, compact,
          faulted>>
request == <<source, rows>>

-----------------------------------------------------------------------------
(* llama_ple_plan_rows *)

align_down(value) == value - (value % source.alignment)
align_up(value) ==
  IF value % source.alignment = 0 THEN value
  ELSE value + (source.alignment - (value % source.alignment))

RowOffset(row) == source.tensor_offset + row * source.row_bytes
RowEnd(row)    == RowOffset(row) + source.row_bytes

\* the sectors a row touches, and those of a request: the map keeps each once
RowSectors(row) ==
  {s \in align_down(RowOffset(row)) .. align_up(RowEnd(row)) - 1 :
     s % source.alignment = 0}
PlanSectors(list) == UNION {RowSectors(list[i]) : i \in DOMAIN list}

\* what the planner accepts; anything else throws before a byte is read
Plannable(list) ==
  /\ \A i \in DOMAIN list :
       /\ list[i] \in 0 .. source.row_count - 1
       /\ RowEnd(list[i]) <= source.tensor_offset + source.tensor_bytes
  /\ source.alignment <= source.buffer_bytes

\* variant for the runs: as if the offset were taken one sector too low
ArenaOffsetBefore(left, s) == source.alignment * (Cardinality({t \in left : t < s}) - 1)

\* waves are packed in ascending order: a sector's place in the arena follows
\* the sectors before it, and the wave ends at the first that does not fit
ArenaOffset(left, s) == source.alignment * Cardinality({t \in left : t < s})
\* variant for the runs: as if a wave took any sector that starts inside the buffer
WaveOverrun(left) == {s \in left : ArenaOffset(left, s) < source.buffer_bytes}

Wave(left) ==
  {s \in left : ArenaOffset(left, s) + source.alignment <= source.buffer_bytes}

-----------------------------------------------------------------------------
(* read_plan: lanes, arena, scatter *)

LaneCount ==
  LET fit == source.buffer_bytes \div source.alignment
      max_lanes == IF fit = 0 THEN 1 ELSE fit
  IN  IF source.io_depth < max_lanes THEN source.io_depth ELSE max_lanes
Lane == 1 .. LaneCount

\* io and bytes are what the device made of the request; an idle lane keeps
\* those of its last one
IdleLane ==
  [active |-> FALSE, sector |-> 0, buffer_offset |-> 0, io |-> "none", bytes |-> 0]
Active == {n \in Lane : lanes[n].active}

\* variant for the runs: as if every sector were expected whole
ExpectedWhole(offset) == source.alignment

expected_read_bytes(offset) ==
  IF source.alignment < source.file_bytes - offset
  THEN source.alignment ELSE source.file_bytes - offset

\* variant for the runs: as if a row were copied from the sector it starts in only
ScatteredFirst(c) ==
  [i \in DOMAIN rows[c] |->
     [b \in 0 .. source.row_bytes - 1 |->
        LET byte   == RowOffset(rows[c][i]) + b
            sector == align_down(byte)
        IN  IF sector \in Wave(sectors[c]) /\ sector <= RowOffset(rows[c][i])
            THEN arena[ArenaOffset(sectors[c], sector) + (byte - sector)]
            ELSE compact[c][i][b]]]

\* the rows of c after the sectors of the current wave were scattered
Scattered(c) ==
  [i \in DOMAIN rows[c] |->
     [b \in 0 .. source.row_bytes - 1 |->
        LET byte   == RowOffset(rows[c][i]) + b
            sector == align_down(byte)
        IN  IF sector \in Wave(sectors[c])
            THEN arena[ArenaOffset(sectors[c], sector) + (byte - sector)]
            ELSE compact[c][i][b]]]

-----------------------------------------------------------------------------
Blank(c) ==
  [i \in DOMAIN rows[c] |-> [b \in 0 .. source.row_bytes - 1 |-> NoByte]]

\* a pager as open_from_file_id returns it: the probe has read one sector
Init ==
  /\ source \in Sources
  /\ rows \in [Caller -> Requests]
  /\ pc = [c \in Caller |-> "start"]
  /\ read_mutex = NoCaller
  /\ sectors = [c \in Caller |-> {}]
  /\ queued = [c \in Caller |-> {}]
  /\ lanes = [n \in Lane |-> IdleLane]
  /\ arena = [a \in 0 .. source.buffer_bytes - 1 |->
                IF a < source.alignment
                THEN align_down(source.tensor_offset) + a ELSE NoByte]
  /\ compact = [c \in Caller |-> <<>>]
  /\ faulted = {}

Goto(c, from, to) == pc[c] = from /\ pc' = [pc EXCEPT ![c] = to]

\* read_rows up to the lock; a request that cannot be planned throws
Plan(c) ==
  /\ Plannable(rows[c])
  /\ Goto(c, "start", IF source.mapped THEN "map" ELSE "lock")
  /\ sectors' = [sectors EXCEPT ![c] = PlanSectors(rows[c])]
  /\ compact' = [compact EXCEPT ![c] = Blank(c)]
  /\ UNCHANGED <<request, read_mutex, queued, lanes, arena, faulted>>

Refuse(c) ==
  /\ ~Plannable(rows[c])
  /\ Goto(c, "start", "failed")
  /\ UNCHANGED <<request, read_mutex, sectors, queued, lanes, arena, compact, faulted>>

\* read_mapped_rows: the rows are copied from the mapping, without the mutex
ReadMapped(c) ==
  /\ Goto(c, "map", "returned")
  /\ compact' = [compact EXCEPT ![c] =
       [i \in DOMAIN rows[c] |->
          [b \in 0 .. source.row_bytes - 1 |-> RowOffset(rows[c][i]) + b]]]
  /\ UNCHANGED <<request, read_mutex, sectors, queued, lanes, arena, faulted>>

MapFault(c) ==
  /\ Goto(c, "map", "failed")
  /\ faulted' = faulted \cup {c}
  /\ UNCHANGED <<request, read_mutex, sectors, queued, lanes, arena, compact>>

Lock(c) ==
  /\ read_mutex = NoCaller
  /\ Goto(c, "lock", "issue")
  /\ read_mutex' = c
  /\ queued' = [queued EXCEPT ![c] = Wave(sectors[c])]
  /\ UNCHANGED <<request, sectors, lanes, arena, compact, faulted>>

\* the next sector of the wave goes to the next lane of the group
Issue(c) ==
  /\ queued[c] # {} /\ Active # Lane
  /\ Goto(c, "issue", "issue")
  /\ LET n == Cardinality(Active) + 1
         s == Min(queued[c])
     IN  /\ lanes' = [lanes EXCEPT ![n] =
              [active |-> TRUE, sector |-> s, io |-> "pending", bytes |-> 0,
               buffer_offset |-> ArenaOffset(sectors[c], s)]]
         /\ queued' = [queued EXCEPT ![c] = @ \ {s}]
  /\ UNCHANGED <<request, read_mutex, sectors, arena, compact, faulted>>

\* ReadFile refuses the request: nothing is in flight on that lane
IssueFails(c) ==
  /\ queued[c] # {} /\ Active # Lane
  /\ Goto(c, "issue", "drain")
  /\ faulted' = faulted \cup {c}
  /\ UNCHANGED <<request, read_mutex, sectors, queued, lanes, arena, compact>>

GroupIssued(c) ==
  /\ queued[c] = {} \/ Active = Lane
  /\ Goto(c, "issue", "collect")
  /\ UNCHANGED <<request, read_mutex, sectors, queued, lanes, arena, compact, faulted>>

\* GetOverlappedResult waits for the lanes in order; an error or a short read
\* throws once the lane is known to be idle
Collect(c) ==
  /\ Active # {}
  /\ LET n == Min(Active)
     IN  /\ lanes[n].io # "pending"
         /\ Goto(c, "collect",
                 IF /\ lanes[n].io = "done"
                    /\ lanes[n].bytes = expected_read_bytes(lanes[n].sector)
                 THEN "collect" ELSE "drain")
         /\ lanes' = [lanes EXCEPT ![n].active = FALSE]
  /\ UNCHANGED <<request, read_mutex, sectors, queued, arena, compact, faulted>>

NextGroup(c) ==
  /\ Active = {} /\ queued[c] # {}
  /\ Goto(c, "collect", "issue")
  /\ UNCHANGED <<request, read_mutex, sectors, queued, lanes, arena, compact, faulted>>

\* the end of a wave: its rows leave the arena, and the next wave may reuse it;
\* after the last one the mutex is released and the rows are dequantised
Scatter(c) ==
  /\ Active = {} /\ queued[c] = {}
  /\ LET left == sectors[c] \ Wave(sectors[c])
     IN  /\ Goto(c, "collect", IF left = {} THEN "returned" ELSE "issue")
         /\ read_mutex' = IF left = {} THEN NoCaller ELSE read_mutex
         /\ sectors' = [sectors EXCEPT ![c] = left]
         /\ queued' = [queued EXCEPT ![c] = Wave(left)]
  /\ compact' = [compact EXCEPT ![c] = Scattered(c)]
  /\ UNCHANGED <<request, lanes, arena, faulted>>

\* cancel_and_drain: cancel a lane, wait for it, go on with the next
Drain(c) ==
  /\ Active # {}
  /\ Goto(c, "drain", "drain")
  /\ LET n == Min(Active)
     IN  /\ lanes[n].io # "pending"
         /\ lanes' = [lanes EXCEPT ![n].active = FALSE]
  /\ UNCHANGED <<request, read_mutex, sectors, queued, arena, compact, faulted>>

\* variant for the runs: as if the exception left without waiting for the other lanes
RethrowAtOnce(c) ==
  /\ Goto(c, "drain", "failed")
  /\ read_mutex' = NoCaller
  /\ UNCHANGED <<request, sectors, queued, lanes, arena, compact, faulted>>

\* the exception leaves read_plan, and the lock guard with it
Rethrow(c) ==
  /\ Active = {}
  /\ Goto(c, "drain", "failed")
  /\ read_mutex' = NoCaller
  /\ UNCHANGED <<request, sectors, queued, lanes, arena, compact, faulted>>

-----------------------------------------------------------------------------
(* The device finishes reads in any order.  A read that fails, is cancelled or
   comes back short may have left anything in its part of the arena.          *)

\* the bytes the file has for a sector: the last one may be cut off
InFile(sector) ==
  IF sector + source.alignment <= source.file_bytes
  THEN source.alignment ELSE source.file_bytes - sector

\* the arena after the read on lane n has stored byte(k) as its k-th byte
Stored(n, byte(_)) ==
  LET at == lanes[n].buffer_offset
  IN  [a \in DOMAIN arena |->
         IF a \in at .. at + InFile(lanes[n].sector) - 1
         THEN byte(a - at) ELSE arena[a]]

DeviceReads(n) ==
  /\ lanes[n].io = "pending"
  /\ arena' = Stored(n, LAMBDA k : lanes[n].sector + k)
  /\ lanes' = [lanes EXCEPT ![n].io = "done", ![n].bytes = InFile(lanes[n].sector)]
  /\ UNCHANGED <<request, pc, read_mutex, sectors, queued, compact, faulted>>

DeviceFails(n) ==
  /\ lanes[n].io = "pending"
  /\ arena' = Stored(n, LAMBDA k : NoByte)
  /\ \E io \in {"done", "bad"} : lanes' = [lanes EXCEPT ![n].io = io]
  /\ faulted' = faulted \cup {read_mutex}
  /\ UNCHANGED <<request, pc, read_mutex, sectors, queued, compact>>

Call(c) ==
  \/ Plan(c) \/ Refuse(c) \/ ReadMapped(c) \/ MapFault(c) \/ Lock(c)
  \/ Issue(c) \/ IssueFails(c) \/ GroupIssued(c) \/ Collect(c) \/ NextGroup(c)
  \/ Scatter(c) \/ Drain(c) \/ Rethrow(c)
Device(n) == DeviceReads(n) \/ DeviceFails(n)
Done == /\ \A c \in Caller : pc[c] \in {"returned", "failed"}
        /\ UNCHANGED vars

Next ==
  \/ \E c \in Caller : Call(c)
  \/ \E n \in Lane : Device(n)
  \/ Done

Spec == Init /\ [][Next]_vars
\* threads run, and the device answers every request it was given
FairSpec ==
  /\ Spec
  /\ \A c \in Caller : WF_vars(Call(c))
  /\ WF_vars(\E n \in Lane : Device(n))
-----------------------------------------------------------------------------
(* Properties *)

TypeOK ==
  /\ source \in Sources
  /\ rows \in [Caller -> Requests]
  /\ pc \in [Caller -> {"start", "map", "lock", "issue", "collect", "drain",
                        "returned", "failed"}]
  /\ read_mutex \in Caller \cup {NoCaller}
  /\ sectors \in [Caller -> SUBSET Nat]
  /\ queued \in [Caller -> SUBSET Nat]
  /\ lanes \in [Lane -> [active : BOOLEAN, sector : Nat, buffer_offset : Nat,
                         io : {"none", "pending", "done", "bad"}, bytes : Nat]]
  /\ arena \in [0 .. source.buffer_bytes - 1 -> Nat \cup {NoByte}]
  /\ DOMAIN compact = Caller
  /\ faulted \subseteq Caller

\* No read is in flight once read_mutex is free: a call that fails half-way
\* drains its lanes before the next call may use the arena (cancel_and_drain).
Drained == read_mutex = NoCaller => \A n \in Lane : lanes[n].io # "pending"

\* Reads in flight never overlap in the arena nor run past its end, whatever
\* the planner packed into the wave (llama_ple_plan_rows, arena_offsets).
InFlight == {n \in Lane : lanes[n].io = "pending"}
ReadsApart ==
  \A n \in InFlight :
    /\ lanes[n].buffer_offset + source.alignment <= source.buffer_bytes
    /\ \A m \in InFlight \ {n} :
         \/ lanes[n].buffer_offset + source.alignment <= lanes[m].buffer_offset
         \/ lanes[m].buffer_offset + source.alignment <= lanes[n].buffer_offset

\* Every call is answered by the rows of the tensor or throws (PleRows), and
\* it is answered at all: no lane is waited for that was never issued, no wave
\* is left behind, and a failed call does not keep the pager to itself.
Outcome(c) == IF pc[c] \in {"returned", "failed"} THEN pc[c] ELSE "none"
Output(c)  == IF pc[c] = "returned" THEN compact[c] ELSE <<>>
Promise == INSTANCE PleRows WITH outcome <- [c \in Caller |-> Outcome(c)],
                                 output  <- [c \in Caller |-> Output(c)]
ReadsRows == Promise!Spec

\* A call throws only for a failure of its own: not for what an earlier call
\* left behind, nor because its last sector is cut off by the end of the file.
OnlyFaultsThrow ==
  \A c \in Caller : pc[c] = "failed" => c \in faulted \/ ~Plannable(rows[c])
=============================================================================
