--------------------------- MODULE ServerTasksProofs ---------------------------
(***************************************************************************)
(* A task runs once and is answered once, for every number of requests,    *)
(* tasks, slots and tokens, in every order of the threads.                 *)
(*                                                                         *)
(* Fits says what a slot and the batch have in common at every step of the *)
(* inference thread, Tracked where a task can be on its way from the       *)
(* request to its last result, Obeyed what is left of a task once it is    *)
(* cancelled, and Minded whom a child waits for.                           *)
(***************************************************************************)
EXTENDS ServerTasks, SubsequencesProofs

Call == [call : {"send"}, result : Result] \cup [call : {"release"}, slot : Slot]

SlotType == [state : SlotStates, task : Task \cup {NoTask},
             n : 0 .. (PromptLen + NPredict), kv : 0 .. (PromptLen + NPredict),
             i_batch : 0 .. NBatch, n_decoded : 0 .. NPredict]

MainType == [pc : MainStates, cur : Message, calls : Seq(Call), next : {"wait", "pop", "decode"},
             batch : Seq(Slot), i : Nat, n_batch : Nat, n_empty : 0 .. 4]

ReaderStates == {"new", "post", "read", "stop", "purge", "cancel", "done"}

\* a batch is being decoded
InBatch == main.pc = "decode" \/ (main.pc = "calls" /\ main.next = "decode")

\* the tokens of slot s in the batch that are yet to be decoded
Left(batch, i, s) == {j \in (i + 1) .. Len(batch) : batch[j] = s}

\* The loop decodes what a prompt needs (Calm): no decode is given up on halfway, and
\* the views that a batch is split into meet no child.
Calm ==
    /\ "spec" \notin Faults
    /\ "kv" \notin Faults \/ \A t \in Task : Parent[t] = NoTask

\* a slot and the batch, of which the first i tokens are decoded
SlotFits(sl, s, batch, i) ==
    /\ sl.state = "idle" <=> sl.task = NoTask
    /\ sl.state \in {"idle", "waiting", "started"} => sl.n = 0
    /\ sl.state # "generating" => sl.n <= PromptLen /\ sl.n_decoded = 0
    /\ sl.state = "generating" => /\ sl.n_decoded < NPredict
                                  /\ sl.n <= PromptLen + sl.n_decoded + 1
                                  /\ sl.n <= PromptLen + sl.n_decoded \/ sl.i_batch \in (i + 1) .. Len(batch)
    /\ sl.kv + Cardinality(Left(batch, i, s)) <= sl.n
    /\ Calm => sl.kv + Cardinality(Left(batch, i, s)) = sl.n
    /\ sl.state \in {"done", "generating"} => \A j \in Left(batch, i, s) : j <= sl.i_batch

\* the loop between its handlers
LoopFits ==
    /\ main.pc \in {"run", "cancel", "next"} => main.cur.type = main.pc
    /\ main.pc \notin {"run", "cancel", "next"} => main.cur = NextResponse
    /\ main.pc # "calls" => main.calls = <<>>
    /\ ~InBatch => main.batch = <<>>
    /\ main.batch # <<>> => main.i < Len(main.batch)
    /\ Len(main.batch) <= NBatch
    /\ main.n_batch > 0 /\ ("kv" \notin Faults => main.n_batch = NBatch)
    /\ main.pc # "aborted" => main.n_empty <= 3

Fits ==
    /\ QueueTypeOK
    /\ reader \in [Reader -> [pc : ReaderStates, got : SUBSET Task]]
    /\ slots \in [Slot -> SlotType]
    /\ main \in MainType
    /\ LoopFits
    /\ \A s \in Slot : SlotFits(slots[s], s, main.batch, main.i)

-----------------------------------------------------------------------------
(* Where a task can be *)

Queued(t)   == \E i \in DOMAIN queue_tasks : queue_tasks[i] = Run(t)
Deferred(t) == \E i \in DOMAIN queue_tasks_deferred : queue_tasks_deferred[i] = t
InHand(t)   == main.cur = Run(t)
InSlot(t)   == \E s \in Slot : slots[s].task = t

\* it is yet to be launched
Ahead(t) == Queued(t) \/ Deferred(t) \/ InHand(t)

\* a result of it is about to be sent, the last one, was sent
SendsOf(t)   == {i \in DOMAIN main.calls : main.calls[i].call = "send" /\ main.calls[i].result.task = t}
Closed(t)    == \E i \in SendsOf(t) : main.calls[i].result.kind # "partial"
LastIsLast(t) == \A i, j \in SendsOf(t) : main.calls[i].result.kind # "partial" => j <= i
ResultsOf(t) == {i \in DOMAIN queue_results : queue_results[i].task = t}
Ended(t)     == t \in reader[Owner[t]].got
                \/ \E i \in ResultsOf(t) : queue_results[i].kind # "partial"

\* no call of the list sends a result of a task after its last one
Closing(C) ==
    \A i, j \in DOMAIN C :
       C[i].call = "send" /\ C[j].call = "send" /\ C[i].result.task = C[j].result.task
       /\ C[i].result.kind # "partial" => j <= i

\* it is not yet known to the server
Unborn(t) == reader[Owner[t]].pc \in {"new", "post"}

Once ==
    /\ \A i, j \in DOMAIN queue_tasks :
          queue_tasks[i] = queue_tasks[j] /\ queue_tasks[i].type = "run" => i = j
    /\ \A i, j \in DOMAIN queue_tasks_deferred :
          queue_tasks_deferred[i] = queue_tasks_deferred[j] => i = j
    /\ \A s, x \in Slot : slots[s].task = slots[x].task /\ slots[s].task # NoTask => s = x
    /\ \A t \in Task : /\ Queued(t) => ~Deferred(t) /\ ~InHand(t)
                       /\ Deferred(t) => ~InHand(t)
                       /\ Ahead(t) => ~InSlot(t)

\* a child is launched with its parent
Families ==
    \A t \in Task : /\ Ahead(t) => Parent[t] = NoTask
                    /\ InSlot(t) /\ Parent[t] # NoTask => ~Ahead(Parent[t])

Births ==
    \A t \in Task : Unborn(t) => ~Ahead(t) /\ ~InSlot(t) /\ SendsOf(t) = {} /\ ~Ended(t)

Ends ==
    \A t \in Task :
       /\ Ended(t) \/ Closed(t) => /\ ~Ahead(t) /\ ~InSlot(t)
                                   /\ Parent[t] # NoTask => ~Ahead(Parent[t])
       /\ Ended(t) => SendsOf(t) = {}
       /\ LastIsLast(t)

Waiters ==
    /\ \A r \in Reader : reader[r].got \subseteq TasksOf(r)
    /\ \A t \in Task : t \in waiting_task_ids <=> reader[Owner[t]].pc \in {"post", "read", "stop"}

Tracked == Once /\ Families /\ Births /\ Ends /\ Waiters /\ NoStrayResult /\ OneFinalResult

-----------------------------------------------------------------------------

(* Numbers *)

LEMMA LeastOf ==
  ASSUME NEW S \in SUBSET Nat, S # {}
  PROVE  Min(S) \in S /\ \A y \in S : Min(S) <= y
  BY HasLeast DEF Min

LEMMA MinOfTwo ==
  ASSUME NEW a \in Int, NEW b \in Int
  PROVE  Min({a, b}) = IF a <= b THEN a ELSE b
  BY DEF Min

LEMMA MaxOfInterval ==
  ASSUME NEW a \in Int, NEW b \in Int, a <= b
  PROVE  Max(a .. b) = b
<1>1. b \in a .. b /\ \A y \in a .. b : b >= y
  OBVIOUS
<1>2. \A x \in a .. b : (\A y \in a .. b : x >= y) => x = b
  BY <1>1
<1> QED BY <1>1, <1>2 DEF Max

-----------------------------------------------------------------------------
(* The loops that build a batch *)

LEMMA SlotIs ==
  /\ NSlot \in Nat \ {0} /\ Slot = 0 .. (NSlot - 1)
  /\ IsFiniteSet(Slot) /\ Cardinality(Slot) = NSlot /\ NSlot <= NBatch /\ NBatch \in Nat
<1>1. NSlot \in Nat \ {0} /\ Slot = 0 .. (NSlot - 1)
  BY TaskAssumption DEF Slot
<1>2. IsFiniteSet(0 .. (NSlot - 1)) /\ Cardinality(0 .. (NSlot - 1)) = NSlot
  BY <1>1, FS_Interval
<1> QED BY <1>1, <1>2, ServerAssumption

\* A task is given a slot that there is, whatever it asks for.
LEMMA SlotsForIs ==
  ASSUME NEW t \in Task
  PROVE  SlotsFor(t) \subseteq Slot
<1>1. CASE Pinned[t] = -1
  BY <1>1 DEF SlotsFor, IdleSlots
<1>2. CASE Pinned[t] # -1
  <2>1. Pinned[t] \in Nat /\ NSlot \in Nat \ {0}
    BY <1>2, TaskAssumption
  <2>2. Pinned[t] % NSlot \in 0 .. (NSlot - 1)
    BY <2>1
  <2> QED BY <1>2, <2>2 DEF SlotsFor, SlotAsked, Slot
<1> QED BY <1>1, <1>2

Started == [slots |-> slots, batch |-> <<>>, calls |-> <<>>]

\* The loop over the generating slots goes one slot further at every step.
LEMMA SampledIs ==
  /\ Sampled[0] = Started
  /\ \A k \in 0 .. NSlot - 1 : Sampled[k + 1] = AddSampled(Sampled[k], k)
<1> DEFINE Does(g, n) == g = [k \in 0 .. n |-> IF k = 0 THEN Started ELSE AddSampled(g[k - 1], k - 1)]
           T == {n \in Nat : \E g : Does(g, n)}
<1>0. NSlot \in Nat
  BY SlotIs
<1>1. 0 \in T
  <2> DEFINE g == [k \in 0 .. 0 |-> Started]
  <2>1. Does(g, 0)
    OBVIOUS
  <2> QED BY <2>1
<1>2. \A n \in 0 .. NSlot - 1 : n \in T => n + 1 \in T
  <2> TAKE n \in 0 .. NSlot - 1
  <2> HAVE n \in T
  <2>1. PICK g : Does(g, n)
    OBVIOUS
  <2> DEFINE h == [k \in 0 .. n + 1 |-> IF k <= n THEN g[k] ELSE AddSampled(g[n], n)]
  <2>2. ASSUME NEW k \in 0 .. n + 1
        PROVE  h[k] = IF k = 0 THEN Started ELSE AddSampled(h[k - 1], k - 1)
    <3>1. CASE k = 0
      BY <2>1, <3>1
    <3>2. CASE k # 0 /\ k <= n
      <4>1. k \in 0 .. n /\ k - 1 \in 0 .. n + 1 /\ k - 1 <= n
        BY <3>2
      <4>2. h[k] = g[k] /\ h[k - 1] = g[k - 1]
        BY <3>2, <4>1
      <4>3. g[k] = AddSampled(g[k - 1], k - 1)
        BY <2>1, <3>2, <4>1
      <4> QED BY <3>2, <4>2, <4>3
    <3>3. CASE k = n + 1
      <4>1. n \in 0 .. n + 1 /\ k - 1 = n /\ ~ k <= n /\ k # 0
        BY <3>3
      <4>2. h[k] = AddSampled(g[n], n) /\ h[n] = g[n]
        BY <4>1
      <4> QED BY <4>1, <4>2
    <3> QED BY <3>1, <3>2, <3>3
  <2>3. Does(h, n + 1)
    BY <2>2
  <2>4. \E f : Does(f, n + 1)
    BY <2>3
  <2>5. n + 1 \in Nat
    OBVIOUS
  <2> QED BY <2>4, <2>5
<1>3. NSlot \in T
  <2> HIDE DEF T
  <2>1. \A n \in 0 .. NSlot : n \in T
    BY <1>0, <1>1, <1>2, UpFromZero
  <2> QED BY <1>0, <2>1
<1>4. Does(Sampled, NSlot)
  BY <1>3 DEF Sampled, Started
<1>5. \A k \in 0 .. NSlot - 1 : k + 1 \in 0 .. NSlot /\ k + 1 # 0 /\ (k + 1) - 1 = k
  BY <1>0
<1> QED BY <1>0, <1>4, <1>5

Filled(reject, take) ==
  CHOOSE f : f = [k \in 0 .. NSlot |-> IF k = 0 THEN Sampled[NSlot]
                                      ELSE AddPrompt(f[k - 1], k - 1, reject, take)]

\* So does the loop over the prompts.
LEMMA FilledIs ==
  ASSUME NEW reject, NEW take
  PROVE  /\ Filled(reject, take)[0] = Sampled[NSlot]
         /\ \A k \in 0 .. NSlot - 1 :
              Filled(reject, take)[k + 1] = AddPrompt(Filled(reject, take)[k], k, reject, take)
         /\ Built(reject, take) = Filled(reject, take)[NSlot]
<1> DEFINE Does(g, n) == g = [k \in 0 .. n |-> IF k = 0 THEN Sampled[NSlot] ELSE AddPrompt(g[k - 1], k - 1, reject, take)]
           T == {n \in Nat : \E g : Does(g, n)}
<1>0. NSlot \in Nat
  BY SlotIs
<1>1. 0 \in T
  <2> DEFINE g == [k \in 0 .. 0 |-> Sampled[NSlot]]
  <2>1. Does(g, 0)
    OBVIOUS
  <2> QED BY <2>1
<1>2. \A n \in 0 .. NSlot - 1 : n \in T => n + 1 \in T
  <2> TAKE n \in 0 .. NSlot - 1
  <2> HAVE n \in T
  <2>1. PICK g : Does(g, n)
    OBVIOUS
  <2> DEFINE h == [k \in 0 .. n + 1 |-> IF k <= n THEN g[k] ELSE AddPrompt(g[n], n, reject, take)]
  <2>2. ASSUME NEW k \in 0 .. n + 1
        PROVE  h[k] = IF k = 0 THEN Sampled[NSlot] ELSE AddPrompt(h[k - 1], k - 1, reject, take)
    <3>1. CASE k = 0
      BY <2>1, <3>1
    <3>2. CASE k # 0 /\ k <= n
      <4>1. k \in 0 .. n /\ k - 1 \in 0 .. n + 1 /\ k - 1 <= n
        BY <3>2
      <4>2. h[k] = g[k] /\ h[k - 1] = g[k - 1]
        BY <3>2, <4>1
      <4>3. g[k] = AddPrompt(g[k - 1], k - 1, reject, take)
        BY <2>1, <3>2, <4>1
      <4> QED BY <3>2, <4>2, <4>3
    <3>3. CASE k = n + 1
      <4>1. n \in 0 .. n + 1 /\ k - 1 = n /\ ~ k <= n /\ k # 0
        BY <3>3
      <4>2. h[k] = AddPrompt(g[n], n, reject, take) /\ h[n] = g[n]
        BY <4>1
      <4> QED BY <4>1, <4>2
    <3> QED BY <3>1, <3>2, <3>3
  <2>3. Does(h, n + 1)
    BY <2>2
  <2>4. \E f : Does(f, n + 1)
    BY <2>3
  <2>5. n + 1 \in Nat
    OBVIOUS
  <2> QED BY <2>4, <2>5
<1>3. NSlot \in T
  <2> HIDE DEF T
  <2>1. \A n \in 0 .. NSlot : n \in T
    BY <1>0, <1>1, <1>2, UpFromZero
  <2> QED BY <1>0, <2>1
<1>4. Does(Filled(reject, take), NSlot)
  BY <1>3 DEF Filled
<1>5. \A k \in 0 .. NSlot - 1 : k + 1 \in 0 .. NSlot /\ k + 1 # 0 /\ (k + 1) - 1 = k
  BY <1>0
<1>6. Built(reject, take) = Filled(reject, take)[NSlot]
  BY DEF Built, Filled
<1> DEFINE F == Filled(reject, take)
<1>7. Does(F, NSlot)
  BY <1>4
<1> HIDE DEF F
<1>8. F[0] = Sampled[NSlot] /\ \A k \in 0 .. NSlot - 1 : F[k + 1] = AddPrompt(F[k], k, reject, take)
  BY <1>0, <1>5, <1>7
<1>9. Filled(reject, take) = F
  BY DEF F
<1> QED BY <1>6, <1>8, <1>9

-----------------------------------------------------------------------------
(* What is left of a batch *)

LEMMA LeftFinite ==
  ASSUME NEW batch \in Seq(Slot), NEW i \in Nat, NEW s
  PROVE  /\ IsFiniteSet(Left(batch, i, s)) /\ Cardinality(Left(batch, i, s)) \in Nat
         /\ Left(batch, i, s) = {} <=> Cardinality(Left(batch, i, s)) = 0
         /\ i >= Len(batch) => Left(batch, i, s) = {}
<1>1. Len(batch) \in Nat /\ i + 1 \in Int
  OBVIOUS
<1>2. IsFiniteSet((i + 1) .. Len(batch))
  BY <1>1, FS_Interval
<1>3. Left(batch, i, s) \subseteq (i + 1) .. Len(batch)
  BY DEF Left
<1>4. IsFiniteSet(Left(batch, i, s))
  BY <1>2, <1>3, FS_Subset
<1>5. i >= Len(batch) => Left(batch, i, s) = {}
  BY <1>1 DEF Left
<1> QED BY <1>4, <1>5, FS_CardinalityType, FS_EmptySet

\* the tokens of slot s between the i-th and the m-th
Viewed(batch, i, m, s) == {j \in (i + 1) .. m : batch[j] = s}

\* The tokens up to the m-th, and those after it.
LEMMA LeftSplit ==
  ASSUME NEW batch \in Seq(Slot), NEW i \in Nat, NEW m \in i .. Len(batch), NEW s
  PROVE  /\ Cardinality(Viewed(batch, i, m, s)) \in Nat
         /\ Cardinality(Left(batch, i, s)) = Cardinality(Viewed(batch, i, m, s)) + Cardinality(Left(batch, m, s))
         /\ Left(batch, m, s) \subseteq Left(batch, i, s)
<1> DEFINE L == Left(batch, i, s)
           M == Left(batch, m, s)
           V == Viewed(batch, i, m, s)
<1>1. IsFiniteSet(L) /\ IsFiniteSet(M) /\ Cardinality(L) \in Nat /\ Cardinality(M) \in Nat
  BY LeftFinite
<1>2. L = V \cup M /\ V \cap M = {} /\ V \subseteq L
  BY DEF Left, Viewed
<1> HIDE DEF L, M, V
<1>3. IsFiniteSet(V) /\ Cardinality(V) \in Nat
  BY <1>1, <1>2, FS_Subset, FS_CardinalityType
<1>4. Cardinality(V \cap M) = 0
  BY <1>2, FS_EmptySet
<1>5. Cardinality(V \cup M) = Cardinality(V) + Cardinality(M) - Cardinality(V \cap M)
  BY <1>1, <1>3, FS_Union
<1>6. Cardinality(L) = Cardinality(V) + Cardinality(M)
  BY <1>1, <1>2, <1>3, <1>4, <1>5
<1> QED BY <1>2, <1>3, <1>6 DEF L, M, V

\* c is b with k more tokens of slot s
Longer(c, b, k, s) ==
  /\ c \in Seq(Slot) /\ Len(c) = Len(b) + k
  /\ \A j \in 1 .. Len(b) : c[j] = b[j]
  /\ \A j \in 1 .. Len(c) : j > Len(b) => c[j] = s

LEMMA LongerLeft ==
  ASSUME NEW b \in Seq(Slot), NEW c, NEW k \in Nat, NEW s \in Slot, Longer(c, b, k, s)
  PROVE  /\ Cardinality(Left(c, 0, s)) = Cardinality(Left(b, 0, s)) + k
         /\ \A x \in Slot : x # s => Left(c, 0, x) = Left(b, 0, x)
<1>1. c \in Seq(Slot) /\ Len(c) = Len(b) + k /\ Len(b) \in Nat /\ Len(c) \in Nat
  BY DEF Longer
<1>2. \A x \in Slot : x # s => Left(c, 0, x) = Left(b, 0, x)
  BY <1>1 DEF Longer, Left
<1> DEFINE n == Len(b)
<1>3. Viewed(c, 0, n, s) = Left(b, 0, s)
  BY <1>1 DEF Longer, Left, Viewed
<1>4. Left(c, n, s) = (n + 1) .. n + k
  BY <1>1 DEF Longer, Left
<1>5. Cardinality((n + 1) .. n + k) = k
  <2>1. n + 1 \in Int /\ n + k \in Int /\ (n + 1 > n + k => k = 0) /\ (n + k) - (n + 1) + 1 = k
    BY <1>1
  <2> HIDE DEF n
  <2>2. Cardinality((n + 1) .. n + k) = IF n + 1 > n + k THEN 0 ELSE (n + k) - (n + 1) + 1
    BY <2>1, FS_Interval
  <2> QED BY <2>1, <2>2
<1>6. n \in 0 .. Len(c) /\ 0 \in Nat
  BY <1>1
<1> HIDE DEF n
<1>7. Cardinality(Left(c, 0, s)) = Cardinality(Viewed(c, 0, n, s)) + Cardinality(Left(c, n, s))
  BY <1>1, <1>6, LeftSplit
<1> QED BY <1>2, <1>3, <1>4, <1>5, <1>7

LEMMA AppendLonger ==
  ASSUME NEW b \in Seq(Slot), NEW s \in Slot
  PROVE  Longer(Append(b, s), b, 1, s)
  BY DEF Longer

LEMMA ConcatLonger ==
  ASSUME NEW b \in Seq(Slot), NEW s \in Slot, NEW k \in Nat
  PROVE  Longer(b \o [j \in 1 .. k |-> s], b, k, s)
<1> DEFINE t == [j \in 1 .. k |-> s]
<1>1. t \in Seq(Slot) /\ Len(t) = k /\ \A j \in 1 .. k : t[j] = s
  OBVIOUS
<1> HIDE DEF t
<1>2. /\ b \o t \in Seq(Slot) /\ Len(b \o t) = Len(b) + k /\ Len(b) \in Nat
      /\ \A j \in 1 .. Len(b) + k : (b \o t)[j] = IF j <= Len(b) THEN b[j] ELSE t[j - Len(b)]
  BY <1>1, Concat
<1>3. Longer(b \o t, b, k, s)
  BY <1>1, <1>2 DEF Longer
<1> QED BY <1>3 DEF t

-----------------------------------------------------------------------------
(* Building a batch *)

\* The slots with the batch built so far.
AllFit(ss, b) == ss \in [Slot -> SlotType] /\ \A s \in Slot : SlotFits(ss[s], s, b, 0)

LEMMA SlotChanges ==
  ASSUME NEW ss, NEW b \in Seq(Slot), AllFit(ss, b), NEW c, NEW k \in Nat, NEW s \in Slot,
         Longer(c, b, k, s), NEW sl \in SlotType, SlotFits(sl, s, c, 0)
  PROVE  AllFit([ss EXCEPT ![s] = sl], c)
<1>1. [ss EXCEPT ![s] = sl] \in [Slot -> SlotType]
  BY DEF AllFit
<1>2. ASSUME NEW x \in Slot
      PROVE  SlotFits([ss EXCEPT ![s] = sl][x], x, c, 0)
  <2>1. CASE x = s
    BY <2>1 DEF AllFit
  <2>2. CASE x # s
    <3>1. SlotFits(ss[x], x, b, 0) /\ Left(c, 0, x) = Left(b, 0, x)
      BY <2>2, LongerLeft DEF AllFit
    <3>2. Len(b) <= Len(c) /\ Len(b) \in Nat /\ Len(c) \in Nat
      BY DEF Longer
    <3>3. ss[x].i_batch \in (0 + 1) .. Len(b) => ss[x].i_batch \in (0 + 1) .. Len(c)
      BY <3>2
    <3>4. SlotFits(ss[x], x, c, 0)
      BY <3>1, <3>3 DEF SlotFits
    <3>5. [ss EXCEPT ![s] = sl][x] = ss[x]
      BY <2>2 DEF AllFit
    <3> QED BY <3>4, <3>5
  <2> QED BY <2>1, <2>2
<1> QED BY <1>1, <1>2 DEF AllFit

LEMMA ParamTypes ==
  PromptLen \in Nat \ {0} /\ NPredict \in Nat \ {0} /\ NBatch \in Nat
  BY ServerAssumption

SampleLoop(acc, k) ==
  /\ acc = [slots |-> acc.slots, batch |-> acc.batch, calls |-> acc.calls]
  /\ AllFit(acc.slots, acc.batch) /\ acc.batch \in Seq(Slot) /\ acc.calls = <<>>
  /\ Len(acc.batch) <= k
  /\ \A s \in Slot : acc.slots[s].task = slots[s].task /\ acc.slots[s].state = slots[s].state
  /\ \A s \in Slot : s >= k => acc.slots[s] = slots[s]

LEMMA AddSampledOk ==
  ASSUME Fits, main.batch = <<>>, NEW acc, NEW k \in 0 .. NSlot - 1, SampleLoop(acc, k)
  PROVE  SampleLoop(AddSampled(acc, k), k + 1)
<1>1. k \in Slot /\ k \in Nat /\ NSlot \in Nat /\ NSlot <= NBatch /\ NBatch \in Nat
  BY SlotIs
<1>2. acc.slots[k] = slots[k] /\ slots[k] \in SlotType /\ acc.slots \in [Slot -> SlotType]
  BY <1>1 DEF SampleLoop, Fits, AllFit
<1>3. CASE slots[k].state # "generating"
  <2>1. AddSampled(acc, k) = acc
    BY <1>2, <1>3 DEF AddSampled
  <2>2. \A s \in Slot : s >= k + 1 => s >= k
    BY <1>1 DEF Slot
  <2>3. Len(acc.batch) \in Nat
    BY DEF SampleLoop
  <2>4. Len(acc.batch) <= k + 1
    BY <1>1, <2>3 DEF SampleLoop
  <2> QED BY <2>1, <2>2, <2>4 DEF SampleLoop
<1>4. CASE slots[k].state = "generating"
  <2> DEFINE b == acc.batch
             c == Append(b, k)
             sl == [slots[k] EXCEPT !.n = @ + 1, !.i_batch = Len(b) + 1]
             o == [slots |-> [acc.slots EXCEPT ![k] = sl], batch |-> c, calls |-> <<>>]
  <2>1. AddSampled(acc, k) = o
    <3>1. AddSampled(acc, k) = [acc EXCEPT !.batch = Append(acc.batch, k), !.slots[k] =
                [acc.slots[k] EXCEPT !.n = @ + 1, !.i_batch = Len(acc.batch) + 1]]
      BY <1>2, <1>4 DEF AddSampled
    <3>2. acc = [slots |-> acc.slots, batch |-> b, calls |-> <<>>]
      BY DEF SampleLoop
    <3>3. [acc.slots[k] EXCEPT !.n = @ + 1, !.i_batch = Len(acc.batch) + 1] = sl
      BY <1>2
    <3>4. AddSampled(acc, k) = [acc EXCEPT !.batch = c, !.slots[k] = sl]
      BY <3>1, <3>3, Zenon
    <3> DEFINE S == acc.slots
    <3>5. acc = [slots |-> S, batch |-> b, calls |-> <<>>]
      BY <3>2
    <3>6. k \in Slot /\ S \in [Slot -> SlotType]
      BY <1>1, <1>2
    <3> HIDE DEF sl, c, S, b
    <3>7. AddSampled(acc, k) = [slots |-> [S EXCEPT ![k] = sl], batch |-> c, calls |-> <<>>]
      BY <3>4, <3>5, <3>6
    <3> QED BY <3>7 DEF S
  <2>2. b \in Seq(Slot) /\ Len(b) \in Nat /\ Len(b) <= k /\ AllFit(acc.slots, b)
    BY DEF SampleLoop
  <2>3. Longer(c, b, 1, k) /\ c \in Seq(Slot) /\ Len(c) = Len(b) + 1
    BY <1>1, <2>2, AppendLonger DEF Longer
  <2>4. /\ slots[k].n \in Nat /\ slots[k].n_decoded \in Nat /\ slots[k].kv \in Nat
        /\ slots[k].n_decoded < NPredict /\ slots[k].n <= PromptLen + slots[k].n_decoded
        /\ slots[k].task # NoTask
    <3>1. SlotFits(slots[k], k, <<>>, main.i) /\ main.i \in Nat
      BY <1>1 DEF Fits, MainType
    <3>2. slots[k].i_batch \notin (main.i + 1) .. Len(<<>>)
      BY <3>1
    <3> QED BY <1>2, <1>4, <3>1, <3>2, ParamTypes DEF SlotFits, SlotType
  <2>5. /\ sl.state = slots[k].state /\ sl.task = slots[k].task /\ sl.n = slots[k].n + 1
        /\ sl.kv = slots[k].kv /\ sl.i_batch = Len(b) + 1 /\ sl.n_decoded = slots[k].n_decoded
    BY <1>2 DEF SlotType
  <2>6. sl \in SlotType
    <3>1. slots[k].n + 1 \in 0 .. (PromptLen + NPredict) /\ Len(b) + 1 \in 0 .. NBatch
      BY <1>1, <2>2, <2>4, ParamTypes, SMTT(30)
    <3> QED BY <1>2, <3>1 DEF SlotType
  <2>7. /\ Cardinality(Left(b, 0, k)) \in Nat
        /\ Cardinality(Left(c, 0, k)) = Cardinality(Left(b, 0, k)) + 1
    BY <1>1, <2>2, <2>3, LongerLeft, LeftFinite
  <2>8. /\ slots[k].kv + Cardinality(Left(b, 0, k)) <= slots[k].n
        /\ Calm => slots[k].kv + Cardinality(Left(b, 0, k)) = slots[k].n
    BY <1>1, <1>2, <2>2 DEF AllFit, SlotFits
  <2>9. \A j \in Left(c, 0, k) : j <= Len(b) + 1
    BY <2>3 DEF Left
  <2>10. SlotFits(sl, k, c, 0)
    <3>1. /\ slots[k].kv + Cardinality(Left(c, 0, k)) <= slots[k].n + 1
          /\ Calm => slots[k].kv + Cardinality(Left(c, 0, k)) = slots[k].n + 1
      BY <2>4, <2>7, <2>8
    <3>2. Len(b) + 1 \in (0 + 1) .. Len(c) /\ slots[k].n + 1 <= PromptLen + slots[k].n_decoded + 1
      BY <2>2, <2>3, <2>4, ParamTypes
    <3> HIDE DEF sl, c, b
    <3> QED BY <1>4, <2>4, <2>5, <2>9, <3>1, <3>2 DEF SlotFits
  <2> HIDE DEF sl, c, b
  <2>11. AllFit([acc.slots EXCEPT ![k] = sl], c)
    BY <1>1, <2>2, <2>3, <2>6, <2>10, SlotChanges
  <2>12. /\ \A s \in Slot : [acc.slots EXCEPT ![k] = sl][s].task = slots[s].task
         /\ \A s \in Slot : [acc.slots EXCEPT ![k] = sl][s].state = slots[s].state
         /\ \A s \in Slot : s >= k + 1 => [acc.slots EXCEPT ![k] = sl][s] = slots[s]
    <3>1. \A s \in Slot : [acc.slots EXCEPT ![k] = sl][s] = IF s = k THEN sl ELSE acc.slots[s]
      BY <1>2
    <3>2. \A s \in Slot : s >= k + 1 => s >= k /\ s # k
      BY <1>1 DEF Slot
    <3> QED BY <2>5, <3>1, <3>2 DEF SampleLoop
  <2>13. Len(c) <= k + 1
    BY <1>1, <2>2, <2>3
  <2> QED BY <2>1, <2>3, <2>11, <2>12, <2>13 DEF SampleLoop
<1> QED BY <1>3, <1>4

LEMMA SampledOk ==
  ASSUME Fits, main.batch = <<>>
  PROVE  SampleLoop(Sampled[NSlot], NSlot)
<1> DEFINE T == {k \in Nat : k <= NSlot => SampleLoop(Sampled[k], k)}
<1>0. NSlot \in Nat
  BY SlotIs
<1>1. 0 \in T
  <2>1. Started.slots = slots /\ Started.batch = <<>> /\ Started.calls = <<>>
    BY DEF Started
  <2>2. Started = [slots |-> Started.slots, batch |-> Started.batch, calls |-> Started.calls]
    BY DEF Started
  <2>3. <<>> \in Seq(Slot) /\ Len(<<>>) <= 0 /\ main.i \in Nat
    BY DEF Fits, MainType
  <2>4. \A s : Left(<<>>, main.i, s) = {} /\ Left(<<>>, 0, s) = {}
    BY <2>3 DEF Left
  <2>5. (main.i + 1) .. Len(<<>>) = (0 + 1) .. Len(<<>>)
    BY <2>3
  <2>6. ASSUME NEW s \in Slot PROVE SlotFits(slots[s], s, <<>>, 0)
    <3>1. SlotFits(slots[s], s, <<>>, main.i)
      BY DEF Fits
    <3> QED BY <2>4, <2>5, <3>1 DEF SlotFits
  <2>7. AllFit(slots, <<>>)
    BY <2>6 DEF AllFit, Fits
  <2>8. SampleLoop(Started, 0)
    BY <2>1, <2>2, <2>3, <2>7 DEF SampleLoop
  <2> QED BY <2>8, SampledIs
<1>2. \A k \in 0 .. NSlot - 1 : k \in T => k + 1 \in T
  <2> TAKE k \in 0 .. NSlot - 1
  <2> HAVE k \in T
  <2>1. SampleLoop(Sampled[k], k)
    BY <1>0
  <2>2. SampleLoop(AddSampled(Sampled[k], k), k + 1)
    BY <2>1, AddSampledOk
  <2>3. SampleLoop(Sampled[k + 1], k + 1)
    BY <2>2, SampledIs
  <2> QED BY <1>0, <2>3
<1> HIDE DEF T
<1>3. \A k \in 0 .. NSlot : k \in T
  BY <1>0, <1>1, <1>2, UpFromZero
<1>4. NSlot \in T
  BY <1>0, <1>3
<1> QED BY <1>0, <1>4 DEF T

\* the slots hold different tasks
Apart == \A s, x \in Slot : slots[s].task = slots[x].task /\ slots[s].task # NoTask => s = x

\* the calls that reject the prompts of the first k slots, whose tasks leave them
Rejections(calls, ss, k) ==
  /\ calls \in Seq(Call)
  /\ \A s \in Slot : ss[s].task = slots[s].task \/ ss[s].task = NoTask
  /\ \A s \in Slot : s >= k => ss[s].task = slots[s].task
  /\ \A i \in DOMAIN calls : calls[i].call = "send" =>
        /\ calls[i].result.kind # "partial"
        /\ \E x \in Slot : x < k /\ calls[i].result.task = slots[x].task
                           /\ slots[x].task # NoTask /\ ss[x].task = NoTask
  /\ Apart => \A i, j \in DOMAIN calls :
        calls[i].call = "send" /\ calls[j].call = "send"
        /\ calls[i].result.task = calls[j].result.task => i = j

PromptLoop(acc, k) ==
  /\ acc = [slots |-> acc.slots, batch |-> acc.batch, calls |-> acc.calls]
  /\ AllFit(acc.slots, acc.batch) /\ acc.batch \in Seq(Slot) /\ Len(acc.batch) <= NBatch
  /\ Rejections(acc.calls, acc.slots, k)

LEMMA RejectsMore ==
  ASSUME NEW calls, NEW ss \in [Slot -> SlotType], NEW k \in 0 .. NSlot - 1, Rejections(calls, ss, k),
         NEW kind \in {"error", "final"}, slots[k].task \in Task, NEW t, t = slots[k].task
  PROVE  Rejections(calls \o <<SendOf(t, kind), ReleaseOf(k)>>, [ss EXCEPT ![k] = FreeSlot], k + 1)
<1> DEFINE more == <<SendOf(t, kind), ReleaseOf(k)>>
           all  == calls \o more
           n    == Len(calls)
           after == [ss EXCEPT ![k] = FreeSlot]
<1>1. k \in Slot /\ k \in Nat
  BY SlotIs
<1>2. /\ more \in Seq(Call) /\ Len(more) = 2
      /\ more[1] = SendOf(t, kind) /\ more[2].call = "release" /\ more[2] # more[1]
      /\ more[1].call = "send" /\ more[1].result.task = t /\ more[1].result.kind = kind
  <2>1. SendOf(t, kind) \in Call /\ ReleaseOf(k) \in Call
    BY <1>1 DEF SendOf, ReleaseOf, Call, Result
  <2> QED BY <2>1 DEF SendOf, ReleaseOf
<1>3. calls \in Seq(Call) /\ n \in Nat
  BY DEF Rejections
<1> HIDE DEF more
<1>4. /\ all \in Seq(Call) /\ Len(all) = n + 2
      /\ \A i \in 1 .. n + 2 : all[i] = IF i <= n THEN calls[i] ELSE more[i - n]
  <2>1. calls \in Seq(Call) /\ more \in Seq(Call)
    BY <1>2, <1>3
  <2>2. /\ calls \o more \in Seq(Call) /\ Len(calls \o more) = Len(calls) + Len(more)
        /\ \A m \in 1 .. Len(calls) + Len(more) :
             (calls \o more)[m] = IF m <= Len(calls) THEN calls[m] ELSE more[m - Len(calls)]
    BY <2>1, Concat
  <2>3. Len(more) = 2
    BY <1>2
  <2> QED BY <2>2, <2>3
<1> HIDE DEF all
<1>5. DOMAIN all = 1 .. n + 2 /\ DOMAIN calls = 1 .. n
  BY <1>3, <1>4
<1>6. ASSUME NEW i \in DOMAIN all, all[i].call = "send"
      PROVE  (i \in DOMAIN calls /\ all[i] = calls[i]) \/ (i = n + 1 /\ all[i] = SendOf(t, kind))
  <2>1. i \in 1 .. n \/ i = n + 1 \/ i = n + 2
    BY <1>3, <1>5
  <2>2. CASE i \in 1 .. n
    BY <1>3, <1>4, <1>5, <2>2
  <2>3. CASE i = n + 1
    <3>1. i \in 1 .. n + 2 /\ ~ i <= n /\ i - n = 1
      BY <1>3, <2>3
    <3> QED BY <1>2, <1>4, <2>3, <3>1
  <2>4. CASE i = n + 2
    <3>1. i \in 1 .. n + 2 /\ ~ i <= n /\ i - n = 2
      BY <1>3, <2>4
    <3> QED BY <1>2, <1>4, <1>6, <3>1
  <2> QED BY <2>1, <2>2, <2>3, <2>4
<1>7. /\ after[k].task = NoTask /\ \A s \in Slot : s # k => after[s] = ss[s]
  BY <1>1 DEF FreeSlot
<1> HIDE DEF after
<1>8. \A s \in Slot : after[s].task = slots[s].task \/ after[s].task = NoTask
  BY <1>7 DEF Rejections
<1>9. \A s \in Slot : s >= k + 1 => after[s].task = slots[s].task
  <2>1. \A s \in Slot : s >= k + 1 => s >= k /\ s # k
    BY <1>1, SlotIs
  <2> QED BY <1>7, <2>1 DEF Rejections
<1>10. ASSUME NEW i \in DOMAIN all, all[i].call = "send"
       PROVE  /\ all[i].result.kind # "partial"
              /\ \E x \in Slot : x < k + 1 /\ all[i].result.task = slots[x].task
                                 /\ slots[x].task # NoTask /\ after[x].task = NoTask
  <2>1. CASE i \in DOMAIN calls /\ all[i] = calls[i]
    <3>1. PICK x \in Slot : x < k /\ calls[i].result.task = slots[x].task
                            /\ slots[x].task # NoTask /\ ss[x].task = NoTask
      BY <1>10, <2>1 DEF Rejections
    <3>2. x < k + 1 /\ x # k
      BY <1>1, <3>1, SlotIs
    <3> QED BY <1>7, <1>10, <2>1, <3>1, <3>2 DEF Rejections
  <2>2. CASE i = n + 1 /\ all[i] = SendOf(t, kind)
    <3>1. k < k + 1 /\ slots[k].task # NoTask
      BY <1>1, TaskAssumption DEF NoTask
    <3> QED BY <1>1, <1>7, <2>2, <3>1 DEF SendOf
  <2> QED BY <1>6, <1>10, <2>1, <2>2
<1>11. ASSUME Apart, NEW i \in DOMAIN all, NEW j \in DOMAIN all,
              all[i].call = "send", all[j].call = "send", all[i].result.task = all[j].result.task
       PROVE  i = j
  <2>1. ASSUME NEW m \in DOMAIN calls, calls[m].call = "send", calls[m].result.task = t PROVE FALSE
    <3>1. PICK x \in Slot : x < k /\ calls[m].result.task = slots[x].task /\ slots[x].task # NoTask
      BY <2>1 DEF Rejections
    <3>2. x = k
      BY <1>1, <1>11, <2>1, <3>1 DEF Apart
    <3> QED BY <1>1, <3>1, <3>2
  <2>2. SendOf(t, kind).result.task = t
    BY DEF SendOf
  <2>3. \/ i \in DOMAIN calls /\ all[i] = calls[i]
        \/ i = n + 1 /\ all[i] = SendOf(t, kind)
    BY <1>6, <1>11
  <2>4. \/ j \in DOMAIN calls /\ all[j] = calls[j]
        \/ j = n + 1 /\ all[j] = SendOf(t, kind)
    BY <1>6, <1>11
  <2>5. \A u, v \in DOMAIN calls : calls[u].call = "send" /\ calls[v].call = "send"
           /\ calls[u].result.task = calls[v].result.task => u = v
    BY <1>11 DEF Rejections
  <2> QED BY <1>11, <2>1, <2>2, <2>3, <2>4, <2>5
<1>12. all \in Seq(Call)
  BY <1>4
<1>13. Apart => \A i, j \in DOMAIN all :
         all[i].call = "send" /\ all[j].call = "send"
         /\ all[i].result.task = all[j].result.task => i = j
  BY <1>11
<1>14. \A i \in DOMAIN all : all[i].call = "send" =>
         /\ all[i].result.kind # "partial"
         /\ \E x \in Slot : x < k + 1 /\ all[i].result.task = slots[x].task
                            /\ slots[x].task # NoTask /\ after[x].task = NoTask
  BY <1>10
<1>15. Rejections(all, after, k + 1)
  BY <1>8, <1>9, <1>12, <1>13, <1>14 DEF Rejections
<1> QED BY <1>15 DEF all, more, after

LEMMA RejectsSame ==
  ASSUME NEW calls, NEW ss \in [Slot -> SlotType], NEW k \in 0 .. NSlot - 1, Rejections(calls, ss, k),
         NEW after, \A s \in Slot : after[s].task = ss[s].task
  PROVE  Rejections(calls, after, k + 1)
<1>1. \A s \in Slot : (s >= k + 1 => s >= k) /\ (s < k => s < k + 1)
  BY SlotIs
<1> QED BY <1>1 DEF Rejections

\* A slot gives no more than there is left of its prompt and than there is room for.
LEMMA GivenIs ==
  ASSUME NEW k \in 0 .. NSlot - 1, NEW acc, PromptLoop(acc, k), NEW take \in [Slot -> 0 .. PromptLen],
         acc.slots[k].state \in {"started", "prompt"}
  PROVE  /\ Given(acc, k, take) \in Nat
         /\ acc.slots[k].n + Given(acc, k, take) <= PromptLen
         /\ Len(acc.batch) + Given(acc, k, take) <= NBatch
<1> DEFINE n  == acc.slots[k].n
           lb == Len(acc.batch)
           w  == IF acc.batch = <<>> THEN Max({1, take[k]}) ELSE take[k]
           room == PromptRoom(acc, acc.slots[k])
           m  == Given(acc, k, take)
<1>1. k \in Slot
  BY SlotIs
<1>2. acc.slots \in [Slot -> SlotType] /\ SlotFits(acc.slots[k], k, acc.batch, 0) /\ lb \in Nat /\ lb <= NBatch
  BY <1>1 DEF PromptLoop, AllFit
<1>3. n \in Nat /\ n <= PromptLen
  BY <1>1, <1>2, ParamTypes DEF SlotFits, SlotType
<1>4. take[k] \in Nat
  BY <1>1, ParamTypes
<1>5. w \in Nat
  <2> DEFINE v == take[k]
  <2>1. v \in Nat
    BY <1>4
  <2> HIDE DEF v
  <2>2. Max({1, v}) \in Nat
    <3>1. Max({1, v}) = IF v <= 1 THEN 1 ELSE v
      BY <2>1 DEF Max
    <3> QED BY <2>1, <3>1
  <2> QED BY <2>1, <2>2 DEF v
<1> HIDE DEF w
<1>6. PromptLen - n \in Nat /\ NBatch - lb \in Nat
  BY <1>2, <1>3, ParamTypes
<1>7. room = IF PromptLen - n <= NBatch - lb THEN PromptLen - n ELSE NBatch - lb
  BY <1>6, MinOfTwo DEF PromptRoom
<1> HIDE DEF n, lb, room
<1>8. room \in Nat /\ room <= PromptLen - n /\ room <= NBatch - lb
  BY <1>6, <1>7
<1>9. m = IF room <= w THEN room ELSE w
  <2>1. m = Min({room, w})
    BY DEF Given, room, w
  <2> QED BY <1>5, <1>8, <2>1, MinOfTwo
<1> HIDE DEF m
<1>10. m \in Nat /\ n + m <= PromptLen /\ lb + m <= NBatch
  BY <1>2, <1>3, <1>5, <1>8, <1>9, ParamTypes
<1> QED BY <1>10 DEF m, n, lb

\* the prompt of slot k is rejected, gives m tokens
Dropped(acc, k, kind) ==
    [acc EXCEPT !.slots[k] = FreeSlot, !.calls = @ \o <<SendOf(acc.slots[k].task, kind), ReleaseOf(k)>>]
Prompted(acc, k, m) ==
    LET all == acc.slots[k].n + m = PromptLen
    IN  [acc EXCEPT !.batch = @ \o [j \in 1 .. m |-> k],
                    !.slots[k] = [acc.slots[k] EXCEPT !.n = @ + m, !.state = IF all THEN "done" ELSE "prompt",
                                                      !.i_batch = IF all THEN Len(acc.batch) + m ELSE 0]]

LEMMA AddPromptIs ==
  ASSUME NEW acc, NEW k, NEW reject, NEW take
  PROVE  \/ AddPrompt(acc, k, reject, take) = acc
         \/ /\ acc.slots[k].state = "started" /\ reject[k] # "no"
            /\ AddPrompt(acc, k, reject, take) = Dropped(acc, k, reject[k])
         \/ /\ acc.slots[k].state \in {"started", "prompt"} /\ Given(acc, k, take) # 0
            /\ AddPrompt(acc, k, reject, take) = Prompted(acc, k, Given(acc, k, take))
<1> DEFINE sl  == acc.slots[k]
           m   == Given(acc, k, take)
<1>1. CASE PromptRoom(acc, sl) = 0 \/ sl.state \notin {"started", "prompt"}
  BY <1>1 DEF AddPrompt
<1>2. CASE ~ (PromptRoom(acc, sl) = 0 \/ sl.state \notin {"started", "prompt"})
  <2>1. CASE sl.state = "started" /\ reject[k] # "no"
    <3>1. AddPrompt(acc, k, reject, take) = Dropped(acc, k, reject[k])
      BY <1>2, <2>1 DEF AddPrompt, Dropped
    <3> QED BY <2>1, <3>1
  <2>2. CASE ~ (sl.state = "started" /\ reject[k] # "no") /\ m = 0
    BY <1>2, <2>2 DEF AddPrompt
  <2>3. CASE ~ (sl.state = "started" /\ reject[k] # "no") /\ m # 0
    <3>1. AddPrompt(acc, k, reject, take) = Prompted(acc, k, m)
      BY <1>2, <2>3 DEF AddPrompt, Prompted
    <3> QED BY <1>2, <2>3, <3>1
  <2> QED BY <2>1, <2>2, <2>3
<1> QED BY <1>1, <1>2

LEMMA AddPromptOk ==
  ASSUME NEW reject \in [Slot -> {"no", "error", "final"}],
         NEW take \in [Slot -> 0 .. PromptLen], NEW acc, NEW k \in 0 .. NSlot - 1, PromptLoop(acc, k)
  PROVE  PromptLoop(AddPrompt(acc, k, reject, take), k + 1)
<1> DEFINE b  == acc.batch
           S  == acc.slots
           cs == acc.calls
           sl == acc.slots[k]
           m  == Given(acc, k, take)
           all == sl.n + m = PromptLen
<1>1. k \in Slot /\ k \in Nat
  BY SlotIs
<1>2. /\ acc = [slots |-> S, batch |-> b, calls |-> cs] /\ AllFit(S, b)
      /\ b \in Seq(Slot) /\ Len(b) \in Nat /\ Len(b) <= NBatch /\ Rejections(cs, S, k)
  BY DEF PromptLoop
<1>3. S \in [Slot -> SlotType] /\ sl \in SlotType /\ SlotFits(sl, k, b, 0) /\ sl = S[k]
  BY <1>1, <1>2 DEF AllFit
<1>4. CASE AddPrompt(acc, k, reject, take) = acc
  <2>1. Rejections(cs, S, k + 1)
    BY <1>2, <1>3, RejectsSame
  <2> QED BY <1>2, <1>4, <2>1 DEF PromptLoop
<1>5. CASE sl.state \in {"started", "prompt"}
  <2>1. /\ sl.n \in 0 .. PromptLen /\ sl.n_decoded = 0 /\ sl.task \in Task
        /\ sl.kv \in Nat /\ sl.i_batch \in 0 .. NBatch
    <3>1. sl.state # "generating" /\ sl.state # "idle"
      BY <1>5
    <3> QED BY <1>3, <3>1, ParamTypes DEF SlotFits, SlotType
  <2>2. /\ m \in Nat /\ sl.n + m <= PromptLen /\ Len(b) + m <= NBatch
        /\ sl.n + m \in 0 .. (PromptLen + NPredict) /\ Len(b) + m \in 0 .. NBatch
    <3> DEFINE lb == Len(b)
               n  == sl.n
    <3>1. m \in Nat /\ n + m <= PromptLen /\ lb + m <= NBatch
      BY <1>5, GivenIs
    <3>2. lb \in Nat /\ n \in Nat
      BY <1>2, <2>1
    <3> HIDE DEF m, n, lb
    <3>3. n + m \in 0 .. (PromptLen + NPredict) /\ lb + m \in 0 .. NBatch
      BY <3>1, <3>2, ParamTypes
    <3> QED BY <3>1, <3>3 DEF n, lb
  <2>3. Cardinality(Left(b, 0, k)) \in Nat
    BY <1>2, LeftFinite
  <2>4. CASE /\ sl.state = "started" /\ reject[k] # "no"
             /\ AddPrompt(acc, k, reject, take) = Dropped(acc, k, reject[k])
    <3> DEFINE more == cs \o <<SendOf(sl.task, reject[k]), ReleaseOf(k)>>
    <3>1. AddPrompt(acc, k, reject, take) = [acc EXCEPT !.slots[k] = FreeSlot, !.calls = more]
      BY <1>2, <2>4 DEF Dropped
    <3>2. Rejections(more, [S EXCEPT ![k] = FreeSlot], k + 1)
      <4>1. sl.task = slots[k].task /\ reject[k] \in {"error", "final"}
        <5>1. slots[k].task = sl.task \/ sl.task = NoTask
          BY <1>1, <1>2, <1>3 DEF Rejections
        <5> QED BY <1>1, <2>1, <2>4, <5>1, TaskAssumption DEF NoTask
      <4>2. Rejections(cs \o <<SendOf(sl.task, reject[k]), ReleaseOf(k)>>, [S EXCEPT ![k] = FreeSlot], k + 1)
        <5> HIDE DEF S, cs, sl
        <5> QED BY <1>2, <1>3, <2>1, <4>1, RejectsMore
      <4> QED BY <4>2
    <3>3. sl.n = 0 /\ sl.kv = 0 /\ Cardinality(Left(b, 0, k)) = 0
      BY <1>3, <2>1, <2>3, <2>4 DEF SlotFits
    <3>4. FreeSlot \in SlotType /\ SlotFits(FreeSlot, k, b, 0)
      BY <3>3, ParamTypes DEF FreeSlot, SlotType, SlotStates, SlotFits
    <3>5. Longer(b, b, 0, k)
      BY <1>2 DEF Longer
    <3> HIDE DEF S, b, cs, more, sl
    <3>6. AllFit([S EXCEPT ![k] = FreeSlot], b)
      BY <1>1, <1>2, <3>4, <3>5, SlotChanges
    <3>7. AddPrompt(acc, k, reject, take) = [slots |-> [S EXCEPT ![k] = FreeSlot], batch |-> b, calls |-> more]
      BY <1>1, <1>2, <1>3, <3>1
    <3>8. b \in Seq(Slot) /\ Len(b) <= NBatch
      BY <1>2
    <3> QED BY <3>2, <3>6, <3>7, <3>8 DEF PromptLoop
  <2>5. CASE AddPrompt(acc, k, reject, take) = Prompted(acc, k, m)
    <3> DEFINE c == b \o [j \in 1 .. m |-> k]
               to == IF all THEN "done" ELSE "prompt"
               at == IF all THEN Len(b) + m ELSE 0
               new == [sl EXCEPT !.n = sl.n + m, !.state = to, !.i_batch = at]
    <3>1. AddPrompt(acc, k, reject, take) = [acc EXCEPT !.batch = c, !.slots[k] = new]
      <4>2. AddPrompt(acc, k, reject, take) =
              [acc EXCEPT !.batch = @ \o [j \in 1 .. m |-> k],
                          !.slots[k] = [sl EXCEPT !.n = @ + m, !.state = IF all THEN "done" ELSE "prompt",
                                                  !.i_batch = IF all THEN Len(acc.batch) + m ELSE 0]]
        <5> HIDE DEF m
        <5> QED BY <2>5 DEF Prompted
      <4>3. [sl EXCEPT !.n = @ + m, !.state = IF all THEN "done" ELSE "prompt",
                       !.i_batch = IF all THEN Len(acc.batch) + m ELSE 0] = new
        BY <1>3
      <4>4. [acc EXCEPT !.batch = @ \o [j \in 1 .. m |-> k], !.slots[k] = new] = [acc EXCEPT !.batch = c, !.slots[k] = new]
        BY <1>2
      <4> QED BY <4>2, <4>3, <4>4, Zenon
    <3>2. Longer(c, b, m, k) /\ c \in Seq(Slot) /\ Len(c) = Len(b) + m
      <4> HIDE DEF m
      <4>1. Longer(c, b, m, k)
        BY <1>1, <1>2, <2>2, ConcatLonger
      <4> QED BY <4>1 DEF Longer
    <3>3. /\ new.state = to /\ new.task = sl.task /\ new.n = sl.n + m /\ new.kv = sl.kv
          /\ new.i_batch = at /\ new.n_decoded = 0
      <4> HIDE DEF m
      <4> QED BY <1>3, <2>1 DEF SlotType
    <3>4. new \in SlotType
      <4>1. at \in 0 .. NBatch /\ to \in SlotStates
        BY <2>2, ParamTypes DEF SlotStates
      <4> HIDE DEF m, at, to
      <4> QED BY <1>3, <2>2, <4>1 DEF SlotType
    <3>5. Cardinality(Left(c, 0, k)) = Cardinality(Left(b, 0, k)) + m
      <4> HIDE DEF m, c
      <4> QED BY <1>1, <1>2, <2>2, <3>2, LongerLeft
    <3>6. all => \A j \in Left(c, 0, k) : j <= at
      <4>1. \A j \in Left(c, 0, k) : j <= Len(b) + m
        <5> HIDE DEF c, m
        <5> QED BY <3>2 DEF Left
      <4> QED BY <4>1
    <3>7. /\ sl.kv + Cardinality(Left(b, 0, k)) <= sl.n
          /\ Calm => sl.kv + Cardinality(Left(b, 0, k)) = sl.n
      BY <1>3 DEF SlotFits
    <3>8. SlotFits(new, k, c, 0)
      <4>1. /\ sl.kv + Cardinality(Left(c, 0, k)) <= sl.n + m
            /\ Calm => sl.kv + Cardinality(Left(c, 0, k)) = sl.n + m
        <5> DEFINE lc == Cardinality(Left(c, 0, k))
                   l  == Cardinality(Left(b, 0, k))
                   n  == sl.n
                   kv == sl.kv
        <5>1. l \in Nat /\ n \in Nat /\ kv \in Nat /\ m \in Nat /\ lc = l + m
          BY <2>1, <2>2, <2>3, <3>5
        <5>2. kv + l <= n /\ (Calm => kv + l = n)
          BY <3>7
        <5> HIDE DEF lc, l, n, kv, m
        <5>3. kv + lc <= n + m /\ (Calm => kv + lc = n + m)
          BY <5>1, <5>2
        <5> QED BY <5>3 DEF lc, l, n, kv
      <4>2. to = "done" \/ to = "prompt"
        OBVIOUS
      <4>3. to = "done" => all
        OBVIOUS
      <4>4. sl.task # NoTask
        BY <2>1, TaskAssumption DEF NoTask
      <4> HIDE DEF new, c, m, to, at, all
      <4> QED BY <2>2, <3>3, <3>6, <4>1, <4>2, <4>3, <4>4 DEF SlotFits
    <3>9. Rejections(cs, [S EXCEPT ![k] = new], k + 1)
      <4>1. \A s \in Slot : [S EXCEPT ![k] = new][s].task = S[s].task
        <5> HIDE DEF new
        <5> QED BY <1>1, <1>3, <3>3
      <4> HIDE DEF S, cs, new
      <4> QED BY <1>2, <1>3, <4>1, RejectsSame
    <3> HIDE DEF S, b, cs, sl, m, c, new, to, at, all
    <3>10. AllFit([S EXCEPT ![k] = new], c)
      BY <1>1, <1>2, <2>2, <3>2, <3>4, <3>8, SlotChanges
    <3>11. AddPrompt(acc, k, reject, take) = [slots |-> [S EXCEPT ![k] = new], batch |-> c, calls |-> cs]
      BY <1>1, <1>2, <1>3, <3>1
    <3>12. Len(c) <= NBatch
      BY <2>2, <3>2
    <3> QED BY <3>2, <3>9, <3>10, <3>11, <3>12 DEF PromptLoop
  <2> HIDE DEF m
  <2> QED BY <1>4, <2>4, <2>5, AddPromptIs DEF m
<1> HIDE DEF m
<1> QED BY <1>4, <1>5, AddPromptIs DEF m

\* The batch that is built fits the slots it is built from.
LEMMA FilledOk ==
  ASSUME Fits, main.batch = <<>>, NEW reject \in [Slot -> {"no", "error", "final"}],
         NEW take \in [Slot -> 0 .. PromptLen], NEW n \in 0 .. NSlot
  PROVE  PromptLoop(Filled(reject, take)[n], n)
<1> DEFINE F == Filled(reject, take)
           T == {k \in Nat : k <= NSlot => PromptLoop(F[k], k)}
<1>0. NSlot \in Nat /\ NSlot <= NBatch /\ NBatch \in Nat
  BY SlotIs
<1>1. 0 \in T
  <2> DEFINE acc == Sampled[NSlot]
  <2>1. SampleLoop(acc, NSlot)
    BY SampledOk
  <2>2. /\ acc = [slots |-> acc.slots, batch |-> acc.batch, calls |-> acc.calls]
        /\ AllFit(acc.slots, acc.batch) /\ acc.batch \in Seq(Slot) /\ acc.calls = <<>>
        /\ Len(acc.batch) <= NSlot /\ Len(acc.batch) \in Nat
        /\ \A s \in Slot : acc.slots[s].task = slots[s].task
    BY <2>1 DEF SampleLoop
  <2>3. Len(acc.batch) <= NBatch
    BY <1>0, <2>2
  <2> HIDE DEF acc
  <2>4. Rejections(<<>>, acc.slots, 0)
    BY <2>2 DEF Rejections
  <2>5. PromptLoop(acc, 0)
    BY <2>2, <2>3, <2>4 DEF PromptLoop
  <2>6. F[0] = acc
    BY FilledIs DEF acc
  <2> QED BY <2>5, <2>6
<1>2. \A k \in 0 .. NSlot - 1 : k \in T => k + 1 \in T
  <2> TAKE k \in 0 .. NSlot - 1
  <2> HAVE k \in T
  <2>1. PromptLoop(F[k], k)
    BY <1>0
  <2> HIDE DEF F
  <2>2. PromptLoop(AddPrompt(F[k], k, reject, take), k + 1)
    BY <2>1, AddPromptOk
  <2>3. F[k + 1] = AddPrompt(F[k], k, reject, take)
    BY FilledIs DEF F
  <2> QED BY <1>0, <2>2, <2>3
<1> HIDE DEF T
<1>3. \A k \in 0 .. NSlot : k \in T
  BY <1>0, <1>1, <1>2, UpFromZero
<1>4. n \in T /\ n <= NSlot
  BY <1>0, <1>3
<1> QED BY <1>4 DEF T

LEMMA BuiltOk ==
  ASSUME Fits, main.batch = <<>>, NEW reject \in [Slot -> {"no", "error", "final"}],
         NEW take \in [Slot -> 0 .. PromptLen]
  PROVE  PromptLoop(Built(reject, take), NSlot)
<1>1. NSlot \in 0 .. NSlot
  BY SlotIs
<1>2. PromptLoop(Filled(reject, take)[NSlot], NSlot)
  BY <1>1, FilledOk
<1> QED BY <1>2, FilledIs

-----------------------------------------------------------------------------
(* The queues *)

LEMMA Messages ==
  /\ \A t \in Task : /\ Run(t) \in Message /\ Run(t).type = "run" /\ Run(t).task = t /\ Run(t) # NextResponse
                     /\ CancelOf(t) \in Message /\ CancelOf(t).type = "cancel" /\ CancelOf(t).task = t
                     /\ \A u \in Task : Run(t) # CancelOf(u) /\ (Run(t) = Run(u) => t = u)
  /\ NextResponse \in Message /\ NextResponse.type = "next" /\ NextResponse.task = NoTask
  /\ \A m \in Message : /\ m.type \in {"run", "cancel", "next"}
                        /\ m.type = "run" => m.task \in Task /\ m = Run(m.task)
                        /\ m.type = "cancel" => m.task \in Task
  /\ NoTask \notin Task
<1>1. NoTask \notin Task
  BY TaskAssumption DEF NoTask
<1>2. NextResponse \in Message /\ NextResponse.type = "next" /\ NextResponse.task = NoTask
  BY DEF NextResponse, Message
<1>3. ASSUME NEW t \in Task
      PROVE  /\ Run(t) \in Message /\ Run(t).type = "run" /\ Run(t).task = t
             /\ CancelOf(t) \in Message /\ CancelOf(t).type = "cancel" /\ CancelOf(t).task = t
  BY DEF Run, CancelOf, Message
<1>4. ASSUME NEW m \in Message
      PROVE  /\ m.type \in {"run", "cancel", "next"}
             /\ m.type = "run" => m.task \in Task /\ m = Run(m.task)
             /\ m.type = "cancel" => m.task \in Task
  BY DEF Run, Message
<1>5. \A t \in Task : /\ Run(t) # NextResponse
                     /\ \A u \in Task : Run(t) # CancelOf(u) /\ (Run(t) = Run(u) => t = u)
  BY <1>2, <1>3
<1> QED BY <1>1, <1>2, <1>3, <1>4, <1>5

\* A sequence without its i-th element.
LEMMA RemovedAt ==
  ASSUME NEW S, NEW s \in Seq(S), NEW i \in 1 .. Len(s)
  PROVE  /\ RemoveAt(s, i) \in Seq(S) /\ Len(RemoveAt(s, i)) = Len(s) - 1
         /\ \A k \in 1 .. Len(s) - 1 : RemoveAt(s, i)[k] = s[IF k < i THEN k ELSE k + 1]
<1> DEFINE n == Len(s)
           a == SubSeq(s, 1, i - 1)
           b == SubSeq(s, i + 1, n)
<1>1. n \in Nat \ {0} /\ i \in 1 .. n
  OBVIOUS
<1>2. a \in Seq(S) /\ Len(a) = i - 1 /\ \A k \in 1 .. i - 1 : a[k] = s[k]
  <2>1. 1 \in 1 .. Len(s) + 1 /\ i - 1 \in 1 - 1 .. Len(s)
    BY <1>1
  <2>2. /\ SubSeq(s, 1, i - 1) \in Seq(S) /\ Len(SubSeq(s, 1, i - 1)) = (i - 1) - 1 + 1
        /\ \A k \in 1 .. (i - 1) - 1 + 1 : SubSeq(s, 1, i - 1)[k] = s[1 + k - 1]
    BY <2>1, Cut
  <2>3. (i - 1) - 1 + 1 = i - 1 /\ \A k \in 1 .. i - 1 : 1 + k - 1 = k
    BY <1>1
  <2> QED BY <2>2, <2>3
<1>3. b \in Seq(S) /\ Len(b) = n - i /\ \A k \in 1 .. n - i : b[k] = s[i + k]
  <2>1. i + 1 \in 1 .. Len(s) + 1 /\ Len(s) \in (i + 1) - 1 .. Len(s)
    BY <1>1
  <2>2. /\ SubSeq(s, i + 1, Len(s)) \in Seq(S) /\ Len(SubSeq(s, i + 1, Len(s))) = Len(s) - (i + 1) + 1
        /\ \A k \in 1 .. Len(s) - (i + 1) + 1 : SubSeq(s, i + 1, Len(s))[k] = s[(i + 1) + k - 1]
    BY <2>1, Cut
  <2>3. Len(s) - (i + 1) + 1 = n - i /\ \A k \in 1 .. n - i : (i + 1) + k - 1 = i + k
    BY <1>1
  <2> QED BY <2>2, <2>3
<1>4. RemoveAt(s, i) = a \o b
  BY DEF RemoveAt
<1> HIDE DEF a, b
<1>5. /\ a \o b \in Seq(S) /\ Len(a \o b) = Len(a) + Len(b)
      /\ \A k \in 1 .. Len(a) + Len(b) : (a \o b)[k] = IF k <= Len(a) THEN a[k] ELSE b[k - Len(a)]
  BY <1>2, <1>3, Concat
<1>6. Len(a) + Len(b) = n - 1
  BY <1>1, <1>2, <1>3
<1>7. ASSUME NEW k \in 1 .. n - 1 PROVE (a \o b)[k] = s[IF k < i THEN k ELSE k + 1]
  <2>1. (a \o b)[k] = IF k <= i - 1 THEN a[k] ELSE b[k - (i - 1)]
    BY <1>2, <1>5, <1>6
  <2>2. CASE k < i
    <3>1. k <= i - 1 /\ k \in 1 .. i - 1
      BY <1>1, <2>2
    <3> QED BY <1>2, <2>1, <2>2, <3>1
  <2>3. CASE ~ k < i
    <3>1. ~ k <= i - 1 /\ k - (i - 1) \in 1 .. n - i /\ i + (k - (i - 1)) = k + 1
      BY <1>1, <2>3
    <3> QED BY <1>3, <2>1, <2>3, <3>1
  <2> QED BY <2>2, <2>3
<1> QED BY <1>4, <1>5, <1>6, <1>7

\* The task that is taken up again is a deferred one.
LEMMA ResumedIs ==
  ASSUME QueueTypeOK, queue_tasks_deferred # <<>>, NEW s
  PROVE  Resumed(s) \in 1 .. Len(queue_tasks_deferred)
<1> DEFINE wants(t) == t \notin Action /\ Pinned[t] = s
           n == Len(queue_tasks_deferred)
           I == {i \in 1 .. n : wants(queue_tasks_deferred[i])}
<1>1. queue_tasks_deferred \in Seq(Task) /\ n \in Nat \ {0}
  BY NotEmpty DEF QueueTypeOK
<1>2. Resumed(s) = IF \E t \in Range(queue_tasks_deferred) : wants(t)
                   THEN IF I # {} THEN Min(I) ELSE 0 ELSE 1
  BY DEF Resumed, SelectInSeq
<1>3. (\E t \in Range(queue_tasks_deferred) : wants(t)) => I # {}
  BY <1>1 DEF Range
<1>4. I # {} => Min(I) \in 1 .. n
  <2>1. I \in SUBSET Nat
    OBVIOUS
  <2>2. I # {} => Min(I) \in I
    BY <2>1, LeastOf
  <2> QED BY <2>2
<1>5. 1 \in 1 .. n
  BY <1>1
<1> QED BY <1>2, <1>3, <1>4, <1>5

\* The result that is received is the first one for the reader's tasks.
LEMMA FirstOfIs ==
  ASSUME QueueTypeOK, NEW T, FirstOf(T) # 0
  PROVE  /\ FirstOf(T) \in 1 .. Len(queue_results)
         /\ queue_results[FirstOf(T)].task \in T
         /\ \A j \in 1 .. Len(queue_results) : queue_results[j].task \in T => FirstOf(T) <= j
<1> DEFINE I == {i \in 1 .. Len(queue_results) : queue_results[i].task \in T}
<1>1. FirstOf(T) = IF I # {} THEN Min(I) ELSE 0
  BY DEF FirstOf, SelectInSeq
<1>2. I \in SUBSET Nat /\ I # {}
  BY <1>1
<1>3. Min(I) \in I /\ \A y \in I : Min(I) <= y
  BY <1>2, LeastOf
<1> QED BY <1>1, <1>2, <1>3

LEMMA PostBackOk ==
  ASSUME QueueTypeOK, NEW ms \in Seq(Message), PostBack(ms)
  PROVE  QueueTypeOK'
  BY DEF PostBack, QueueTypeOK

\* the messages that cancel the tasks ts
Cancels(ts) == [i \in DOMAIN ts |-> CancelOf(ts[Len(ts) + 1 - i])]

LEMMA CancelsAre ==
  ASSUME NEW ts \in Seq(Task)
  PROVE  /\ Cancels(ts) \in Seq(Message) /\ Len(Cancels(ts)) = Len(ts)
         /\ \A i \in 1 .. Len(ts) : Cancels(ts)[i].type = "cancel"
<1>1. \A i \in 1 .. Len(ts) : Len(ts) + 1 - i \in 1 .. Len(ts)
  OBVIOUS
<1>2. \A i \in 1 .. Len(ts) : ts[Len(ts) + 1 - i] \in Task
  BY <1>1
<1>3. \A i \in 1 .. Len(ts) : /\ CancelOf(ts[Len(ts) + 1 - i]) \in Message
                              /\ CancelOf(ts[Len(ts) + 1 - i]).type = "cancel"
  BY <1>2, Messages
<1>4. DOMAIN ts = 1 .. Len(ts) /\ Len(ts) \in Nat
  OBVIOUS
<1>5. Cancels(ts) = [i \in 1 .. Len(ts) |-> CancelOf(ts[Len(ts) + 1 - i])]
  BY <1>4 DEF Cancels
<1> DEFINE c(i) == CancelOf(ts[Len(ts) + 1 - i])
           n == Len(ts)
<1>6. \A i \in 1 .. n : c(i) \in Message /\ c(i).type = "cancel"
  BY <1>3
<1>7. Cancels(ts) = [i \in 1 .. n |-> c(i)] /\ n \in Nat
  BY <1>4, <1>5
<1> HIDE DEF c, n
<1>8. Cancels(ts) \in Seq(Message) /\ Len(Cancels(ts)) = n
  BY <1>6, <1>7
<1>9. \A i \in 1 .. n : Cancels(ts)[i] = c(i)
  BY <1>7
<1> QED BY <1>6, <1>8, <1>9 DEF n

\* The queues without the tasks T: the others keep their order.
LEMMA CleanedIs ==
  ASSUME QueueTypeOK, NEW T
  PROVE  /\ CleanedQueue(T) \in Seq(Message)
         /\ \A k \in 1 .. Len(CleanedQueue(T)) : \E i \in 1 .. Len(queue_tasks) :
               CleanedQueue(T)[k] = queue_tasks[i] /\ queue_tasks[i] \notin {Run(t) : t \in T}
         /\ \A k, l \in 1 .. Len(CleanedQueue(T)) : k < l => \E i, j \in 1 .. Len(queue_tasks) :
               CleanedQueue(T)[k] = queue_tasks[i] /\ CleanedQueue(T)[l] = queue_tasks[j] /\ i < j
         /\ CleanedDeferred(T) \in Seq(Task)
         /\ \A k \in 1 .. Len(CleanedDeferred(T)) : \E i \in 1 .. Len(queue_tasks_deferred) :
               CleanedDeferred(T)[k] = queue_tasks_deferred[i] /\ queue_tasks_deferred[i] \notin T
         /\ \A k, l \in 1 .. Len(CleanedDeferred(T)) : k < l => \E i, j \in 1 .. Len(queue_tasks_deferred) :
               CleanedDeferred(T)[k] = queue_tasks_deferred[i]
               /\ CleanedDeferred(T)[l] = queue_tasks_deferred[j] /\ i < j
<1> DEFINE I == {i \in DOMAIN queue_tasks : queue_tasks[i] \notin {Run(t) : t \in T}}
           J == {i \in DOMAIN queue_tasks_deferred : queue_tasks_deferred[i] \notin T}
<1>1. queue_tasks \in Seq(Message) /\ I \in SUBSET (1 .. Len(queue_tasks))
  BY DEF QueueTypeOK
<1>2. queue_tasks_deferred \in Seq(Task) /\ J \in SUBSET (1 .. Len(queue_tasks_deferred))
  BY DEF QueueTypeOK
<1>3. \A i \in I : i \in 1 .. Len(queue_tasks) /\ queue_tasks[i] \notin {Run(t) : t \in T}
  BY <1>1
<1>4. \A i \in J : i \in 1 .. Len(queue_tasks_deferred) /\ queue_tasks_deferred[i] \notin T
  BY <1>2
<1>5. CleanedQueue(T) = Picked(queue_tasks, I) /\ CleanedDeferred(T) = Picked(queue_tasks_deferred, J)
  BY DEF CleanedQueue, CleanedDeferred
<1> HIDE DEF I, J
<1>6. /\ Picked(queue_tasks, I) \in Seq(Message)
      /\ \A k \in 1 .. Len(Picked(queue_tasks, I)) :
            /\ Nth(I, k) \in I
            /\ Picked(queue_tasks, I)[k] = queue_tasks[Nth(I, k)]
            /\ \A l \in 1 .. Len(Picked(queue_tasks, I)) : k < l => Nth(I, k) < Nth(I, l)
  BY <1>1, PickedFrom
<1>7. /\ Picked(queue_tasks_deferred, J) \in Seq(Task)
      /\ \A k \in 1 .. Len(Picked(queue_tasks_deferred, J)) :
            /\ Nth(J, k) \in J
            /\ Picked(queue_tasks_deferred, J)[k] = queue_tasks_deferred[Nth(J, k)]
            /\ \A l \in 1 .. Len(Picked(queue_tasks_deferred, J)) : k < l => Nth(J, k) < Nth(J, l)
  BY <1>2, PickedFrom
<1> DEFINE Q == Picked(queue_tasks, I)
           D == Picked(queue_tasks_deferred, J)
<1>8. \A k \in 1 .. Len(Q) : \E i \in 1 .. Len(queue_tasks) :
         Q[k] = queue_tasks[i] /\ queue_tasks[i] \notin {Run(t) : t \in T}
  <2> TAKE k \in 1 .. Len(Q)
  <2>1. Nth(I, k) \in I /\ Q[k] = queue_tasks[Nth(I, k)]
    BY <1>6
  <2> QED BY <1>3, <2>1
<1>9. \A k \in 1 .. Len(D) : \E i \in 1 .. Len(queue_tasks_deferred) :
         D[k] = queue_tasks_deferred[i] /\ queue_tasks_deferred[i] \notin T
  <2> TAKE k \in 1 .. Len(D)
  <2>1. Nth(J, k) \in J /\ D[k] = queue_tasks_deferred[Nth(J, k)]
    BY <1>7
  <2> QED BY <1>4, <2>1
<1>10. \A k, l \in 1 .. Len(Q) : k < l => \E i, j \in 1 .. Len(queue_tasks) :
          Q[k] = queue_tasks[i] /\ Q[l] = queue_tasks[j] /\ i < j
  BY <1>3, <1>6
<1>11. \A k, l \in 1 .. Len(D) : k < l => \E i, j \in 1 .. Len(queue_tasks_deferred) :
          D[k] = queue_tasks_deferred[i] /\ D[l] = queue_tasks_deferred[j] /\ i < j
  BY <1>4, <1>7
<1>12. CleanedQueue(T) = Q /\ CleanedDeferred(T) = D /\ Q \in Seq(Message) /\ D \in Seq(Task)
  BY <1>5, <1>6, <1>7
<1> HIDE DEF Q, D
<1> QED BY <1>8, <1>9, <1>10, <1>11, <1>12

LEMMA PostCancelsOk ==
  ASSUME QueueTypeOK, NEW ts \in Seq(Task), PostCancels(ts)
  PROVE  QueueTypeOK'
<1>1. queue_tasks' = Cancels(ts) \o CleanedQueue(Range(ts)) /\ queue_tasks_deferred' = CleanedDeferred(Range(ts))
      /\ UNCHANGED <<waiting_task_ids, queue_results>>
  BY DEF PostCancels, Cancels
<1>2. Cancels(ts) \in Seq(Message) /\ CleanedQueue(Range(ts)) \in Seq(Message) /\ CleanedDeferred(Range(ts)) \in Seq(Task)
  BY CancelsAre, CleanedIs
<1>3. queue_tasks' \in Seq(Message)
  BY <1>1, <1>2, Concat
<1> QED BY <1>1, <1>2, <1>3 DEF QueueTypeOK

LEMMA DeferOk ==
  ASSUME QueueTypeOK, NEW t \in Task, Defer(t)
  PROVE  QueueTypeOK'
  BY DEF Defer, QueueTypeOK

LEMMA PopDeferredOk ==
  ASSUME QueueTypeOK, NEW s, PopDeferred(s)
  PROVE  QueueTypeOK'
<1>1. CASE queue_tasks_deferred = <<>>
  BY <1>1 DEF PopDeferred, QueueTypeOK
<1>2. CASE queue_tasks_deferred # <<>>
  <2> DEFINE i == Resumed(s)
             t == queue_tasks_deferred[i]
  <2>1. queue_tasks_deferred \in Seq(Task) /\ i \in 1 .. Len(queue_tasks_deferred)
    BY <1>2, ResumedIs DEF QueueTypeOK
  <2>2. t \in Task /\ <<Run(t)>> \in Seq(Message)
    BY <2>1, Messages
  <2>3. /\ queue_tasks' = <<Run(t)>> \o queue_tasks /\ queue_tasks_deferred' = RemoveAt(queue_tasks_deferred, i)
        /\ UNCHANGED <<waiting_task_ids, queue_results>>
    BY <1>2 DEF PopDeferred
  <2> HIDE DEF i, t
  <2>4. queue_tasks' \in Seq(Message)
    BY <2>2, <2>3, Concat DEF QueueTypeOK
  <2>5. queue_tasks_deferred' \in Seq(Task)
    BY <2>1, <2>3, RemovedAt
  <2> QED BY <2>3, <2>4, <2>5 DEF QueueTypeOK
<1> QED BY <1>1, <1>2

LEMMA SendOk ==
  ASSUME QueueTypeOK, NEW r \in Result, Send(r)
  PROVE  QueueTypeOK'
  BY DEF Send, QueueTypeOK

LEMMA RecvOk ==
  ASSUME QueueTypeOK, NEW T, Recv(T)
  PROVE  QueueTypeOK'
<1>1. FirstOf(T) \in 1 .. Len(queue_results)
  BY FirstOfIs DEF Recv
<1>2. queue_results' \in Seq(Result)
  BY <1>1, RemovedAt DEF Recv, QueueTypeOK
<1> QED BY <1>2 DEF Recv, QueueTypeOK

LEMMA PurgedIs ==
  ASSUME QueueTypeOK, NEW T, RemoveWaitingAndResults(T)
  PROVE  /\ QueueTypeOK'
         /\ \A k \in 1 .. Len(queue_results') : \E i \in 1 .. Len(queue_results) :
               queue_results'[k] = queue_results[i] /\ queue_results[i].task \notin T
         /\ \A k, l \in 1 .. Len(queue_results') : k < l => \E i, j \in 1 .. Len(queue_results) :
               queue_results'[k] = queue_results[i] /\ queue_results'[l] = queue_results[j] /\ i < j
<1> DEFINE I == {i \in DOMAIN queue_results : queue_results[i].task \notin T}
<1>1. queue_results \in Seq(Result) /\ I \in SUBSET (1 .. Len(queue_results))
  BY DEF QueueTypeOK
<1>2. \A i \in I : i \in 1 .. Len(queue_results) /\ queue_results[i].task \notin T
  BY <1>1
<1>3. queue_results' = Picked(queue_results, I)
  BY DEF RemoveWaitingAndResults
<1> HIDE DEF I
<1>4. /\ Picked(queue_results, I) \in Seq(Result)
      /\ \A k \in 1 .. Len(Picked(queue_results, I)) :
            /\ Nth(I, k) \in I
            /\ Picked(queue_results, I)[k] = queue_results[Nth(I, k)]
            /\ \A l \in 1 .. Len(Picked(queue_results, I)) : k < l => Nth(I, k) < Nth(I, l)
  BY <1>1, PickedFrom
<1>5. QueueTypeOK'
  BY <1>3, <1>4 DEF RemoveWaitingAndResults, QueueTypeOK
<1> QED BY <1>2, <1>3, <1>4, <1>5

-----------------------------------------------------------------------------
(* The calls and the launches of a handler *)

\* The numbers of a set in their order: each of them once.
LEMMA InOrderIs ==
  ASSUME NEW S, \A x \in S : x \in Int, IsFiniteSet(S)
  PROVE  /\ Cardinality(S) \in Nat /\ InOrder(S) \in Seq(S) /\ Len(InOrder(S)) = Cardinality(S)
         /\ DOMAIN InOrder(S) = 1 .. Cardinality(S)
         /\ \A k, l \in 1 .. Cardinality(S) : InOrder(S)[k] = InOrder(S)[l] => k = l
         /\ \A x \in S : \E k \in 1 .. Cardinality(S) : InOrder(S)[k] = x
<1>1. Cardinality(S) \in Nat
  BY FS_CardinalityType
<1>2. \A k \in 1 .. Cardinality(S) : Nth(S, k) \in S
  BY NthPlace
<1>3. InOrder(S) = [k \in 1 .. Cardinality(S) |-> Nth(S, k)]
  BY DEF InOrder, Ascending
<1>4. \A k, l \in 1 .. Cardinality(S) : k < l => Nth(S, k) < Nth(S, l)
  BY NthAscends
<1>5. \A x \in S : \E k \in 1 .. Cardinality(S) : Nth(S, k) = x
  BY NthOnto
<1> DEFINE n == Cardinality(S)
           o == InOrder(S)
<1>6. n \in Nat /\ o = [k \in 1 .. n |-> Nth(S, k)]
  BY <1>1, <1>3
<1> HIDE DEF n, o
<1>7. o \in Seq(S) /\ Len(o) = n /\ DOMAIN o = 1 .. n
  BY <1>2, <1>6 DEF n
<1>8. ASSUME NEW k \in 1 .. n, NEW l \in 1 .. n, o[k] = o[l]
      PROVE  k = l
  <2>1. o[k] = Nth(S, k) /\ o[l] = Nth(S, l) /\ k \in Int /\ l \in Int
    BY <1>6
  <2>2. Nth(S, k) \in Int /\ Nth(S, l) \in Int
    BY <1>2 DEF n
  <2>3. Nth(S, k) = Nth(S, l)
    BY <1>8, <2>1
  <2>4. (k < l => Nth(S, k) < Nth(S, l)) /\ (l < k => Nth(S, l) < Nth(S, k))
    BY <1>4 DEF n
  <2>5. ~ k < l /\ ~ l < k
    BY <2>2, <2>3, <2>4
  <2> QED BY <2>1, <2>5
<1>9. \A x \in S : \E k \in 1 .. n : o[k] = x
  BY <1>5, <1>6 DEF n
<1> QED BY <1>6, <1>7, <1>8, <1>9 DEF n, o

\* The slots S send one result each, and nobody else.
LEMMA ResultCallsAre ==
  ASSUME NEW P \in SUBSET Slot, NEW R \in SUBSET Slot, \A x \in P \cup R : slots[x].task \in Task,
         NEW last \in {"error", "final"}
  PROVE  LET C == ResultCalls(P, R, last)
         IN  /\ C \in Seq(Call)
             /\ \A i \in DOMAIN C : C[i].call = "send" => \E x \in P \cup R :
                   /\ C[i].result.task = slots[x].task
                   /\ C[i].result.kind # "partial" => x \in R
             /\ (\A x, y \in P \cup R : slots[x].task = slots[y].task => x = y) => Closing(C)
<1> DEFINE S == P \cup R
           o == InOrder(S)
           n == Cardinality(S)
           at(i) == o[(i + 2) \div 3]
           e(i) == CASE i % 3 = 1 -> SendOf(slots[at(i)].task, "partial")
                     [] i % 3 = 2 -> SendOf(slots[at(i)].task, last)
                     [] OTHER     -> ReleaseOf(at(i))
           calls == [i \in 1 .. (3 * n) |-> e(i)]
           I == {i \in DOMAIN calls : IF i % 3 = 1 THEN at(i) \in P ELSE at(i) \in R}
           C == ResultCalls(P, R, last)
<1>1. (\A x \in S : x \in Int) /\ IsFiniteSet(S) /\ S \subseteq Slot
  <2>1. \A x \in Slot : x \in Int
    BY SlotIs
  <2>2. IsFiniteSet(S)
    BY SlotIs, FS_Subset
  <2> QED BY <2>1, <2>2
<1>3. C = Picked(calls, I)
  BY DEF ResultCalls
<1>0. \A x \in S : slots[x].task \in Task
  OBVIOUS
<1> HIDE DEF S
<1>2. /\ n \in Nat /\ o \in Seq(S) /\ Len(o) = n /\ DOMAIN o = 1 .. n
      /\ \A k, l \in 1 .. n : o[k] = o[l] => k = l
  BY <1>1, InOrderIs
<1> HIDE DEF o, n, C
<1>4. \A i \in 1 .. 3 * n : (i + 2) \div 3 \in 1 .. n
  BY <1>2
<1>5. \A i \in 1 .. 3 * n : at(i) \in S
  BY <1>2, <1>4
<1>7. 3 * n \in Nat /\ DOMAIN calls = 1 .. 3 * n /\ \A i \in 1 .. 3 * n : calls[i] = e(i)
  BY <1>2
<1>8. I \in SUBSET (1 .. 3 * n) /\ \A i \in I : i % 3 # 1 => at(i) \in R
  BY <1>7
<1> HIDE DEF at
<1>6. ASSUME NEW i \in 1 .. 3 * n
      PROVE  /\ e(i) \in Call
             /\ e(i).call = "send" =>
                  \/ i % 3 = 1 /\ e(i).result = [task |-> slots[at(i)].task, kind |-> "partial"]
                  \/ i % 3 = 2 /\ e(i).result = [task |-> slots[at(i)].task, kind |-> last]
  <2>1. at(i) \in S /\ slots[at(i)].task \in Task /\ at(i) \in Slot
    BY <1>0, <1>1, <1>5
  <2>3. CASE i % 3 = 1
    <3>1. e(i) = SendOf(slots[at(i)].task, "partial")
      BY <2>3
    <3> HIDE DEF e
    <3> QED BY <2>1, <2>3, <3>1 DEF SendOf, Call, Result
  <2>4. CASE i % 3 = 2
    <3>1. e(i) = SendOf(slots[at(i)].task, last)
      BY <2>4
    <3> HIDE DEF e
    <3> QED BY <2>1, <2>4, <3>1 DEF SendOf, Call, Result
  <2>5. CASE i % 3 # 1 /\ i % 3 # 2
    <3>1. e(i) = ReleaseOf(at(i))
      BY <2>5
    <3> HIDE DEF e
    <3> QED BY <2>1, <3>1 DEF ReleaseOf, Call
  <2> QED BY <2>3, <2>4, <2>5
<1>9. calls \in Seq(Call) /\ Len(calls) = 3 * n
  <2> DEFINE N == 3 * n
  <2>1. \A i \in 1 .. N : e(i) \in Call
    BY <1>6
  <2>2. calls = [i \in 1 .. N |-> e(i)] /\ N \in Nat
    BY <1>7
  <2> HIDE DEF calls, e, N
  <2>3. calls \in Seq(Call) /\ Len(calls) = N
    BY <2>1, <2>2
  <2> QED BY <2>3 DEF N
<1> HIDE DEF calls, I, e
<1>10. I \in SUBSET (1 .. Len(calls))
  BY <1>8, <1>9
<1>11. /\ C \in Seq(Call)
       /\ \A k \in 1 .. Len(C) :
             /\ Nth(I, k) \in I
             /\ C[k] = calls[Nth(I, k)]
             /\ \A l \in 1 .. Len(C) : k < l => Nth(I, k) < Nth(I, l)
  BY <1>3, <1>9, <1>10, PickedFrom
<1>12. DOMAIN C = 1 .. Len(C) /\ Len(C) \in Nat
  BY <1>11
<1>13. ASSUME NEW k \in DOMAIN C, C[k].call = "send"
       PROVE  LET p == Nth(I, k)
              IN  /\ p \in 1 .. 3 * n /\ at(p) \in S
                  /\ \/ p % 3 = 1 /\ C[k].result = [task |-> slots[at(p)].task, kind |-> "partial"]
                     \/ p % 3 = 2 /\ C[k].result = [task |-> slots[at(p)].task, kind |-> last] /\ at(p) \in R
  <2> DEFINE p == Nth(I, k)
  <2>1. p \in I /\ C[k] = calls[p]
    BY <1>11, <1>12
  <2> HIDE DEF p
  <2>2. p \in 1 .. 3 * n /\ C[k] = e(p)
    BY <1>7, <1>8, <2>1
  <2>3. \/ p % 3 = 1 /\ e(p).result = [task |-> slots[at(p)].task, kind |-> "partial"]
        \/ p % 3 = 2 /\ e(p).result = [task |-> slots[at(p)].task, kind |-> last]
    BY <1>6, <1>13, <2>2
  <2>4. p % 3 = 2 => at(p) \in R
    BY <1>8, <2>1
  <2> QED BY <1>5, <2>2, <2>3, <2>4 DEF p
<1>20. \A a, b : [task |-> a, kind |-> b].task = a /\ [task |-> a, kind |-> b].kind = b
  OBVIOUS
<1>14. \A k \in DOMAIN C : C[k].call = "send" => \E x \in S :
          /\ C[k].result.task = slots[x].task
          /\ C[k].result.kind # "partial" => x \in R
  <2> TAKE k \in DOMAIN C
  <2> HAVE C[k].call = "send"
  <2> DEFINE x == at(Nth(I, k))
  <2>1. /\ x \in S
        /\ \/ C[k].result = [task |-> slots[x].task, kind |-> "partial"]
           \/ C[k].result = [task |-> slots[x].task, kind |-> last] /\ x \in R
    BY <1>13
  <2> HIDE DEF x
  <2> QED BY <1>20, <2>1
<1>15. ASSUME \A x, y \in S : slots[x].task = slots[y].task => x = y,
              NEW k \in DOMAIN C, NEW l \in DOMAIN C, C[k].call = "send", C[l].call = "send",
              C[k].result.task = C[l].result.task, C[k].result.kind # "partial"
       PROVE  l <= k
  <2> DEFINE p == Nth(I, k)
             q == Nth(I, l)
  <2>1. /\ p \in 1 .. 3 * n /\ q \in 1 .. 3 * n /\ at(p) \in S /\ at(q) \in S
        /\ C[k].result.task = slots[at(p)].task /\ C[l].result.task = slots[at(q)].task
        /\ p % 3 = 2 /\ q % 3 \in {1, 2}
    <3>1. /\ p \in 1 .. 3 * n /\ at(p) \in S
          /\ \/ p % 3 = 1 /\ C[k].result = [task |-> slots[at(p)].task, kind |-> "partial"]
             \/ p % 3 = 2 /\ C[k].result = [task |-> slots[at(p)].task, kind |-> last]
      BY <1>13, <1>15
    <3>2. /\ q \in 1 .. 3 * n /\ at(q) \in S
          /\ \/ q % 3 = 1 /\ C[l].result = [task |-> slots[at(q)].task, kind |-> "partial"]
             \/ q % 3 = 2 /\ C[l].result = [task |-> slots[at(q)].task, kind |-> last]
      BY <1>13, <1>15
    <3> HIDE DEF p, q
    <3> QED BY <1>15, <1>20, <3>1, <3>2
  <2>3. at(p) = at(q)
    BY <1>15, <2>1
  <2>4. (p + 2) \div 3 = (q + 2) \div 3
    BY <1>2, <1>4, <2>1, <2>3 DEF at
  <2> HIDE DEF p, q
  <2>5. p \in Int /\ q \in Int
    BY <1>2, <2>1
  <2>6. q <= p
    BY <2>1, <2>4, <2>5
  <2>7. k \in Int /\ l \in Int /\ ~ k < l
    BY <1>11, <1>12, <2>5, <2>6 DEF p, q
  <2> QED BY <2>7
<1>16. (\A x, y \in S : slots[x].task = slots[y].task => x = y) => Closing(C)
  BY <1>15 DEF Closing
<1> QED BY <1>11, <1>14, <1>16 DEF C, S

\* A task and its children are launched on as many idle slots.
LEMMA LaunchesAre ==
  ASSUME NEW t \in Task, NEW s \in Slot, FitsOn(t, s)
  PROVE  LET L == Launches(t, s)
             n == Cardinality(Children(t))
         IN  /\ n \in Nat /\ Len(L) = n + 1 /\ DOMAIN L = 1 .. n + 1
             /\ \A i \in 1 .. n + 1 :
                   /\ L[i].slot \in IdleSlots
                   /\ L[i].task = t \/ (L[i].task \in Task /\ Parent[L[i].task] = t)
             /\ L[n + 1].task = t
             /\ \A i, j \in 1 .. n + 1 : L[i].task = L[j].task \/ L[i].slot = L[j].slot => i = j
<1> DEFINE T == Children(t)
           I == IdleSlots \ {s}
           cs == InOrder(T)
           others == InOrder(I)
           n == Cardinality(T)
           L == Launches(t, s)
           f == [i \in DOMAIN cs |-> [task |-> cs[i], slot |-> others[i]]]
<1>1. /\ T \in SUBSET Task /\ (\A c \in T : Parent[c] = t) /\ s \in IdleSlots
      /\ I \in SUBSET Slot /\ s \notin I /\ I \subseteq IdleSlots
      /\ Cardinality(I) >= n
  BY DEF Children, FitsOn, IdleSlots
<1>2. t \notin T
  <2> SUFFICES ASSUME Parent[t] = t PROVE FALSE
    BY <1>1
  <2> QED BY Messages, ServerAssumption
<1>3. /\ (\A x \in T : x \in Int) /\ IsFiniteSet(T)
      /\ (\A x \in I : x \in Int) /\ IsFiniteSet(I)
  <2>1. (\A x \in Task : x \in Int) /\ IsFiniteSet(Task)
    BY TaskAssumption
  <2>2. (\A x \in Slot : x \in Int) /\ IsFiniteSet(Slot)
    BY SlotIs
  <2>3. T \in SUBSET Task /\ I \in SUBSET Slot
    BY <1>1
  <2> HIDE DEF T, I
  <2>4. IsFiniteSet(T) /\ IsFiniteSet(I)
    BY <2>1, <2>2, <2>3, FS_Subset
  <2> QED BY <2>1, <2>2, <2>3, <2>4
<1>4. L = Append(f, [task |-> t, slot |-> s])
  BY DEF Launches
<1> HIDE DEF T, I, L
<1>5. /\ n \in Nat /\ cs \in Seq(T) /\ Len(cs) = n /\ DOMAIN cs = 1 .. n
      /\ \A k, l \in 1 .. n : cs[k] = cs[l] => k = l
  BY <1>3, InOrderIs
<1>6. /\ Cardinality(I) \in Nat /\ others \in Seq(I) /\ Len(others) = Cardinality(I)
      /\ \A k, l \in 1 .. Cardinality(I) : others[k] = others[l] => k = l
  BY <1>3, InOrderIs
<1> HIDE DEF cs, others, n
<1>7. \A i \in 1 .. n : i \in 1 .. Cardinality(I)
  BY <1>1, <1>5, <1>6
<1>8. \A i \in 1 .. n : cs[i] \in T /\ others[i] \in I
  BY <1>5, <1>6, <1>7
<1>9. f \in Seq([task : T, slot : I]) /\ Len(f) = n
  <2> DEFINE e(i) == [task |-> cs[i], slot |-> others[i]]
  <2>1. \A i \in 1 .. n : e(i) \in [task : T, slot : I]
    BY <1>8
  <2>2. f = [i \in 1 .. n |-> e(i)]
    BY <1>5
  <2> HIDE DEF e, f
  <2> QED BY <1>5, <2>1, <2>2
<1>10. \A i \in 1 .. n : f[i] = [task |-> cs[i], slot |-> others[i]]
  BY <1>5
<1> HIDE DEF f
<1>11. Len(L) = n + 1 /\ DOMAIN L = 1 .. n + 1
  BY <1>4, <1>5, <1>9
<1>12. \A i \in 1 .. n : L[i] = f[i]
  BY <1>4, <1>5, <1>9
<1>13. L[n + 1] = [task |-> t, slot |-> s]
  BY <1>4, <1>5, <1>9
<1>14. \A i \in 1 .. n : L[i].task = cs[i] /\ L[i].slot = others[i] /\ L[i].task \in T /\ L[i].slot \in I
  <2> TAKE i \in 1 .. n
  <2>1. L[i] = [task |-> cs[i], slot |-> others[i]]
    BY <1>10, <1>12
  <2>2. L[i].task = cs[i] /\ L[i].slot = others[i]
    BY <2>1
  <2> QED BY <1>8, <2>2
<1>15. L[n + 1].task = t /\ L[n + 1].slot = s
  BY <1>13
<1>16. \A i \in 1 .. n + 1 : i \in 1 .. n \/ i = n + 1
  BY <1>5
<1>17. \A i \in 1 .. n + 1 : /\ L[i].slot \in IdleSlots
                             /\ L[i].task = t \/ (L[i].task \in Task /\ Parent[L[i].task] = t)
  BY <1>1, <1>14, <1>15, <1>16
<1>18. ASSUME NEW i \in 1 .. n + 1, NEW j \in 1 .. n + 1, L[i].task = L[j].task \/ L[i].slot = L[j].slot
       PROVE  i = j
  <2>1. CASE i \in 1 .. n /\ j \in 1 .. n
    BY <1>5, <1>6, <1>7, <1>14, <1>18, <2>1
  <2>2. CASE i \in 1 .. n /\ j = n + 1
    BY <1>1, <1>2, <1>14, <1>15, <1>18, <2>2
  <2>3. CASE j \in 1 .. n /\ i = n + 1
    BY <1>1, <1>2, <1>14, <1>15, <1>18, <2>3
  <2> QED BY <1>16, <2>1, <2>2, <2>3
<1> QED BY <1>5, <1>11, <1>15, <1>17, <1>18 DEF L, n, T

-----------------------------------------------------------------------------
(* Fits is kept *)

LEMMA NoneLeft ==
  ASSUME NEW sl, NEW s, NEW i \in Nat, NEW j \in Nat
  PROVE  /\ Left(<<>>, i, s) = {} /\ Cardinality(Left(<<>>, i, s)) = 0
         /\ SlotFits(sl, s, <<>>, i) => SlotFits(sl, s, <<>>, j)
<1>1. Left(<<>>, i, s) = {} /\ Left(<<>>, j, s) = {}
  BY DEF Left
<1>2. Cardinality({}) = 0
  BY FS_EmptySet
<1>3. (i + 1) .. Len(<<>>) = (j + 1) .. Len(<<>>)
  OBVIOUS
<1> QED BY <1>1, <1>2, <1>3 DEF SlotFits

LEMMA FreeFits ==
  ASSUME NEW s, NEW i \in Nat
  PROVE  FreeSlot \in SlotType /\ SlotFits(FreeSlot, s, <<>>, i)
<1>1. Cardinality(Left(<<>>, i, s)) = 0
  BY NoneLeft
<1> QED BY <1>1, ParamTypes DEF FreeSlot, SlotType, SlotStates, SlotFits

LEMMA InitFits == Init => Fits
<1> SUFFICES ASSUME Init PROVE Fits
  OBVIOUS
<1>1. QueueTypeOK
  BY DEF Init, QueueInit, QueueTypeOK
<1>2. reader \in [Reader -> [pc : ReaderStates, got : SUBSET Task]]
  BY DEF Init, ReaderStates
<1>3. \A s \in Slot : slots[s] = FreeSlot
  BY DEF Init
<1>4. slots \in [Slot -> SlotType] /\ \A s \in Slot : SlotFits(slots[s], s, <<>>, 0)
  BY <1>3, FreeFits DEF Init
<1>5. main \in MainType
  BY Messages, ParamTypes DEF Init, IdleMain, MainType, MainStates
<1>6. NBatch \in Nat /\ NBatch > 0
  BY SlotIs
<1>7. LoopFits
  BY <1>6 DEF Init, IdleMain, LoopFits, InBatch
<1>8. main.batch = <<>> /\ main.i = 0
  BY DEF Init, IdleMain
<1> QED BY <1>1, <1>2, <1>4, <1>5, <1>7, <1>8 DEF Fits

\* What another thread does leaves the slots and the loop alone.
LEMMA FitsSame ==
  ASSUME Fits, QueueTypeOK', reader' \in [Reader -> [pc : ReaderStates, got : SUBSET Task]],
         UNCHANGED <<slots, main>>
  PROVE  Fits'
<1>1. slots' \in [Slot -> SlotType] /\ main' \in MainType
  BY DEF Fits
<1>2. LoopFits'
  BY DEF Fits, LoopFits, InBatch
<1>3. \A s \in Slot : SlotFits(slots'[s], s, main'.batch, main'.i)
  BY DEF Fits
<1> QED BY <1>1, <1>2, <1>3 DEF Fits

\* The batch and the slots stay as they are while the loop goes on.
LEMMA FitsGoesOn ==
  ASSUME Fits, QueueTypeOK', UNCHANGED <<reader, slots>>, main' \in MainType, LoopFits',
         main'.batch = main.batch, main'.i = main.i
  PROVE  Fits'
<1>1. reader' \in [Reader -> [pc : ReaderStates, got : SUBSET Task]] /\ slots' \in [Slot -> SlotType]
  BY DEF Fits
<1>2. \A s \in Slot : SlotFits(slots'[s], s, main'.batch, main'.i)
  BY DEF Fits
<1> QED BY <1>1, <1>2 DEF Fits

LEMMA QueuesSame ==
  ASSUME QueueTypeOK, UNCHANGED queues
  PROVE  QueueTypeOK'
  BY DEF QueueTypeOK, queues

LEMMA ReaderFits ==
  ASSUME Fits, NEW r \in Reader, ReaderStep(r)
  PROVE  Fits'
<1>1. QueueTypeOK /\ reader \in [Reader -> [pc : ReaderStates, got : SUBSET Task]]
  BY DEF Fits
<1>2. ASSUME NEW pc \in ReaderStates, Goto(r, pc)
      PROVE  reader' \in [Reader -> [pc : ReaderStates, got : SUBSET Task]]
  BY <1>1, <1>2 DEF Goto
<1>3. TasksOf(r) \in SUBSET Task /\ IsFiniteSet(TasksOf(r))
  <2>1. TasksOf(r) \in SUBSET Task
    BY DEF TasksOf
  <2> QED BY <2>1, TaskAssumption, FS_Subset
<1>4. UNCHANGED <<slots, main>>
  BY DEF ReaderStep, Register, Post, Receive, Leave, StopWaiting, Purge, Cancel
<1>5. QueueTypeOK' /\ reader' \in [Reader -> [pc : ReaderStates, got : SUBSET Task]]
  <2>1. CASE Register(r)
    <3>1. Goto(r, "post") /\ AddWaiting(TasksOf(r))
      BY <2>1 DEF Register
    <3>2. QueueTypeOK'
      BY <1>1, <1>3, <3>1 DEF AddWaiting, QueueTypeOK
    <3> QED BY <1>2, <3>1, <3>2 DEF ReaderStates
  <2>2. CASE Post(r)
    <3> DEFINE S == {t \in TasksOf(r) : Parent[t] = NoTask}
               ts == InOrder(S)
               ms == [i \in DOMAIN ts |-> Run(ts[i])]
    <3>1. Goto(r, "read") /\ PostBack(ms)
      BY <2>2 DEF Post
    <3>2. S \in SUBSET Task /\ (\A x \in S : x \in Int) /\ IsFiniteSet(S)
      <4>1. S \in SUBSET Task /\ S \in SUBSET TasksOf(r)
        BY <1>3
      <4> HIDE DEF S
      <4>2. IsFiniteSet(S)
        BY <1>3, <4>1, FS_Subset
      <4> QED BY <4>1, <4>2, TaskAssumption
    <3> HIDE DEF S
    <3>3. ts \in Seq(Task)
      BY <3>2, InOrderIs
    <3> HIDE DEF ts
    <3>4. ms \in Seq(Message)
      BY <3>3, Messages
    <3> HIDE DEF ms
    <3>5. QueueTypeOK'
      BY <1>1, <3>1, <3>4, PostBackOk
    <3> QED BY <1>2, <3>1, <3>5 DEF ReaderStates
  <2>3. CASE Receive(r)
    <3> DEFINE res == queue_results[FirstOf(TasksOf(r))]
               got == IF res.kind = "final" THEN reader[r].got \cup {res.task} ELSE reader[r].got
               pc  == IF res.kind = "error" \/ got = TasksOf(r) THEN "stop" ELSE "read"
    <3>1. Recv(TasksOf(r)) /\ reader' = [reader EXCEPT ![r] = [pc |-> pc, got |-> got]]
      BY <2>3 DEF Receive
    <3>2. QueueTypeOK'
      BY <1>1, <3>1, RecvOk
    <3>3. res \in Result
      <4>1. FirstOf(TasksOf(r)) \in 1 .. Len(queue_results)
        BY <1>1, <3>1, FirstOfIs DEF Recv
      <4> QED BY <1>1, <4>1 DEF QueueTypeOK
    <3> HIDE DEF res
    <3>4. got \in SUBSET Task
      BY <1>1, <3>3 DEF Result
    <3>5. pc \in ReaderStates
      BY DEF ReaderStates
    <3> HIDE DEF pc, got
    <3>6. [pc |-> pc, got |-> got] \in [pc : ReaderStates, got : SUBSET Task]
      BY <3>4, <3>5
    <3> QED BY <1>1, <3>1, <3>2, <3>6
  <2>4. CASE Leave(r)
    <3>1. Goto(r, "stop") /\ UNCHANGED queues
      BY <2>4 DEF Leave
    <3> QED BY <1>1, <1>2, <3>1, QueuesSame DEF ReaderStates
  <2>5. CASE StopWaiting(r)
    <3>1. (Goto(r, "purge") \/ Goto(r, "done")) /\ RemoveWaiting(TasksOf(r))
      BY <2>5 DEF StopWaiting
    <3>2. QueueTypeOK'
      BY <1>1, <3>1 DEF RemoveWaiting, QueueTypeOK
    <3> QED BY <1>2, <3>1, <3>2 DEF ReaderStates
  <2>6. CASE Purge(r)
    <3>1. Goto(r, "cancel") /\ RemoveWaitingAndResults(TasksOf(r))
      BY <2>6 DEF Purge
    <3>2. QueueTypeOK'
      BY <1>1, <3>1, PurgedIs
    <3> QED BY <1>2, <3>1, <3>2 DEF ReaderStates
  <2>7. CASE Cancel(r)
    <3>1. PICK ts \in SetToSeqs(TasksOf(r)) : PostCancels(ts)
      BY <2>7 DEF Cancel
    <3>2. ts \in Seq(Task)
      <4>1. ts \in [1 .. Cardinality(TasksOf(r)) -> TasksOf(r)] /\ Cardinality(TasksOf(r)) \in Nat
        BY <1>3, FS_CardinalityType DEF SetToSeqs
      <4> QED BY <1>3, <4>1
    <3>3. QueueTypeOK'
      BY <1>1, <3>1, <3>2, PostCancelsOk
    <3>4. Goto(r, "done")
      BY <2>7 DEF Cancel
    <3> QED BY <1>2, <3>3, <3>4 DEF ReaderStates
  <2> QED BY <2>1, <2>2, <2>3, <2>4, <2>5, <2>6, <2>7 DEF ReaderStep
<1> QED BY <1>4, <1>5, FitsSame

LEMMA ThenIs ==
  ASSUME main \in MainType, NEW pc \in {"wait", "pop", "decode"}, NEW calls \in Seq(Call)
  PROVE  /\ Then(pc, calls) = [pc |-> "calls", cur |-> NextResponse, calls |-> calls, next |-> pc,
                               batch |-> main.batch, i |-> main.i, n_batch |-> main.n_batch, n_empty |-> main.n_empty]
         /\ Then(pc, calls) \in MainType
<1>1. Then(pc, calls) = [pc |-> "calls", cur |-> NextResponse, calls |-> calls, next |-> pc,
                         batch |-> main.batch, i |-> main.i, n_batch |-> main.n_batch, n_empty |-> main.n_empty]
  <2> DEFINE p == main.pc
             u == main.cur
             c == main.calls
             x == main.next
             b == main.batch
             i == main.i
             v == main.n_batch
             e == main.n_empty
  <2>1. main = [pc |-> p, cur |-> u, calls |-> c, next |-> x, batch |-> b, i |-> i, n_batch |-> v, n_empty |-> e]
    BY DEF MainType
  <2>2. Then(pc, calls) = [main EXCEPT !.pc = "calls", !.calls = calls, !.next = pc, !.cur = NextResponse]
    BY DEF Then
  <2> HIDE DEF p, u, c, x, b, i, v, e
  <2>3. Then(pc, calls) = [pc |-> "calls", cur |-> NextResponse, calls |-> calls, next |-> pc,
                           batch |-> b, i |-> i, n_batch |-> v, n_empty |-> e]
    BY <2>1, <2>2
  <2> QED BY <2>3 DEF b, i, v, e
<1>2. NextResponse \in Message /\ "calls" \in MainStates
  BY Messages DEF MainStates
<1> QED BY <1>1, <1>2 DEF MainType

\* the loop with the calls of a handler before it
WithCalls(pc, cs, b, i, v, e) ==
  [pc |-> "calls", cur |-> NextResponse, calls |-> cs, next |-> pc, batch |-> b, i |-> i, n_batch |-> v, n_empty |-> e]

LEMMA CallsFields ==
  ASSUME NEW pc, NEW cs, NEW b, NEW i, NEW v, NEW e
  PROVE  LET m == WithCalls(pc, cs, b, i, v, e)
         IN  /\ m.pc = "calls" /\ m.cur = NextResponse /\ m.calls = cs /\ m.next = pc
             /\ m.batch = b /\ m.i = i /\ m.n_batch = v /\ m.n_empty = e
  BY DEF WithCalls

\* A handler of process_single_task() ends with its calls.
LEMMA AnswerFits ==
  ASSUME Fits, main.pc \in {"run", "cancel", "next"}, QueueTypeOK', UNCHANGED reader,
         NEW calls \in Seq(Call), NEW e \in 0 .. 3, main' = [Then("pop", calls) EXCEPT !.n_empty = e],
         slots' \in [Slot -> SlotType],
         \A s \in Slot : slots'[s] = slots[s] \/ SlotFits(slots'[s], s, <<>>, 0)
  PROVE  Fits'
<1>1. /\ main \in MainType /\ main.batch = <<>> /\ main.i \in Nat /\ LoopFits
      /\ main.n_batch > 0 /\ ("kv" \notin Faults => main.n_batch = NBatch)
  <2>1. main \in MainType /\ LoopFits /\ ~InBatch
    BY DEF Fits, InBatch
  <2> QED BY <2>1 DEF LoopFits, MainType
<1>2. main' = [pc |-> "calls", cur |-> NextResponse, calls |-> calls, next |-> "pop",
               batch |-> main.batch, i |-> main.i, n_batch |-> main.n_batch, n_empty |-> e]
  BY <1>1, ThenIs
<1>3. main' \in MainType
  <2>1. NextResponse \in Message /\ "calls" \in MainStates /\ e \in 0 .. 4
    BY Messages DEF MainStates
  <2>2. main.batch \in Seq(Slot) /\ main.i \in Nat /\ main.n_batch \in Nat
    BY <1>1 DEF MainType
  <2>3. main' \in [pc : MainStates, cur : Message, calls : Seq(Call), next : {"wait", "pop", "decode"},
                   batch : Seq(Slot), i : Nat, n_batch : Nat, n_empty : 0 .. 4]
    BY <1>2, <2>1, <2>2
  <2> QED BY <2>3 DEF MainType
<1>4. main'.batch = <<>> /\ main'.i = main.i /\ main'.pc = "calls" /\ main'.cur = NextResponse
      /\ main'.n_batch = main.n_batch /\ main'.n_empty = e /\ main'.next = "pop"
  BY <1>1, <1>2
<1>5. LoopFits'
  <2>1. Len(<<>>) <= NBatch /\ e <= 3
    BY SlotIs
  <2> QED BY <1>1, <1>4, <2>1 DEF LoopFits, InBatch
<1>6. ASSUME NEW s \in Slot PROVE SlotFits(slots'[s], s, main'.batch, main'.i)
  <2>1. SlotFits(slots[s], s, <<>>, main.i)
    BY <1>1 DEF Fits
  <2>2. SlotFits(slots'[s], s, <<>>, main.i)
    BY <1>1, <2>1, NoneLeft
  <2> QED BY <1>4, <2>2
<1>7. reader' \in [Reader -> [pc : ReaderStates, got : SUBSET Task]]
  BY DEF Fits
<1> QED BY <1>3, <1>5, <1>6, <1>7 DEF Fits

LEMMA TaskInHand ==
  ASSUME Fits, main.pc \in {"run", "cancel"}
  PROVE  main.cur.task \in Task /\ (main.pc = "run" => main.cur = Run(main.cur.task))
<1>1. main.cur \in Message /\ main.cur.type = main.pc
  BY DEF Fits, LoopFits, MainType
<1> QED BY <1>1, Messages

LEMMA LoopParts ==
  ASSUME Fits
  PROVE  /\ QueueTypeOK /\ main \in MainType /\ LoopFits /\ slots \in [Slot -> SlotType]
         /\ (main.pc # "aborted" => main.n_empty \in 0 .. 3)
         /\ main.i \in Nat /\ main.batch \in Seq(Slot) /\ main.n_batch \in Nat \ {0}
         /\ \A s \in Slot : SlotFits(slots[s], s, main.batch, main.i)
<1>1. main \in MainType /\ LoopFits
  BY DEF Fits
<1>2. main.n_empty \in 0 .. 4 /\ (main.pc # "aborted" => main.n_empty <= 3)
  BY <1>1 DEF LoopFits, MainType
<1>3. main.n_empty \in Nat
  BY <1>2
<1>4. main.pc # "aborted" => main.n_empty \in 0 .. 3
  BY <1>2, <1>3
<1>5. main.n_batch \in Nat \ {0}
  BY <1>1 DEF LoopFits, MainType
<1> QED BY <1>1, <1>4, <1>5 DEF Fits, MainType

LEMMA SameSlots ==
  ASSUME Fits, UNCHANGED slots
  PROVE  slots' \in [Slot -> SlotType] /\ \A s \in Slot : slots'[s] = slots[s] \/ SlotFits(slots'[s], s, <<>>, 0)
  BY DEF Fits

LEMMA LaunchedFits ==
  ASSUME NEW t \in Task, NEW s
  PROVE  Launched(t) \in SlotType /\ SlotFits(Launched(t), s, <<>>, 0) /\ Launched(t).task = t
<1>1. Cardinality(Left(<<>>, 0, s)) = 0 /\ Left(<<>>, 0, s) = {}
  BY NoneLeft
<1>2. Launched(t) = [state |-> IF Parent[t] = NoTask THEN "started" ELSE "waiting", task |-> t,
                     n |-> 0, kv |-> 0, i_batch |-> 0, n_decoded |-> 0]
  <2> DEFINE a == IF Parent[t] = NoTask THEN "started" ELSE "waiting"
  <2>1. Launched(t) = [FreeSlot EXCEPT !.state = a, !.task = t]
    BY DEF Launched
  <2> HIDE DEF a
  <2>2. Launched(t) = [state |-> a, task |-> t, n |-> 0, kv |-> 0, i_batch |-> 0, n_decoded |-> 0]
    BY <2>1 DEF FreeSlot
  <2> QED BY <2>2 DEF a
<1>3. Launched(t) \in SlotType
  BY <1>2, ParamTypes DEF SlotType, SlotStates
<1>4. t # NoTask
  BY Messages
<1> QED BY <1>1, <1>2, <1>3, <1>4, ParamTypes DEF SlotFits

\* The slots that a launch gives away.
LEMMA LaunchFits ==
  ASSUME Fits, Launch
  PROVE  Fits'
<1> DEFINE t == main.cur.task
<1>1. main.pc = "run" /\ t \in Task
  BY TaskInHand DEF Launch
<1>2. PICK s \in SlotsFor(t) :
         /\ FitsOn(t, s)
         /\ LET L == Launches(t, s)
                at(x) == {i \in DOMAIN L : L[i].slot = x}
            IN  slots' = [x \in Slot |-> IF at(x) = {} THEN slots[x]
                                         ELSE Launched(L[CHOOSE i \in at(x) : TRUE].task)]
  BY DEF Launch
<1> DEFINE L == Launches(t, s)
           at(x) == {i \in DOMAIN L : L[i].slot = x}
           of(x) == L[CHOOSE i \in at(x) : TRUE].task
<1> HIDE DEF t
<1>3. s \in Slot
  BY <1>1, SlotsForIs, <1>2
<1>4. slots' = [x \in Slot |-> IF at(x) = {} THEN slots[x] ELSE Launched(of(x))]
  BY <1>2
<1>5. \A i \in DOMAIN L : L[i].task \in Task
  BY <1>1, <1>2, <1>3, LaunchesAre
<1> HIDE DEF L
<1>6. \A x \in Slot : at(x) # {} => of(x) \in Task
  BY <1>5
<1> HIDE DEF at, of
<1>7. ASSUME NEW x \in Slot
      PROVE  /\ slots'[x] \in SlotType
             /\ slots'[x] = slots[x] \/ SlotFits(slots'[x], x, <<>>, 0)
  <2>1. CASE at(x) = {}
    BY <1>4, <2>1, LoopParts
  <2>2. CASE at(x) # {}
    BY <1>4, <1>6, <2>2, LaunchedFits
  <2> QED BY <2>1, <2>2
<1>8. slots' \in [Slot -> SlotType]
  BY <1>4, <1>7
<1>9. QueueTypeOK'
  BY LoopParts, QueuesSame DEF Launch
<1>10. main' = [Then("pop", <<>>) EXCEPT !.n_empty = 0] /\ UNCHANGED reader
  BY DEF Launch
<1>11. <<>> \in Seq(Call) /\ 0 \in 0 .. 3
  OBVIOUS
<1> QED BY <1>1, <1>7, <1>8, <1>9, <1>10, <1>11, AnswerFits

LEMMA AnswersFit ==
  ASSUME Fits, DeferTask \/ LaunchFails \/ ActOnSlot \/ CancelTask \/ IgnoreNext
  PROVE  Fits'
<1>0. QueueTypeOK /\ main \in MainType
  BY LoopParts
<1>1. ASSUME NEW calls \in Seq(Call), main' = Then("pop", calls), main.pc # "aborted"
      PROVE  main' = [Then("pop", calls) EXCEPT !.n_empty = main.n_empty] /\ main.n_empty \in 0 .. 3
  <2>1. Then("pop", calls) = [pc |-> "calls", cur |-> NextResponse, calls |-> calls, next |-> "pop",
                  batch |-> main.batch, i |-> main.i, n_batch |-> main.n_batch, n_empty |-> main.n_empty]
    BY <1>0, ThenIs
  <2>2. main.n_empty \in 0 .. 3
    BY <1>1, LoopParts
  <2> QED BY <1>1, <2>1, <2>2
<1>2. <<>> \in Seq(Call)
  OBVIOUS
<1>3. CASE DeferTask
  <2>1. main.pc = "run" /\ UNCHANGED <<reader, slots>> /\ Defer(main.cur.task) /\ main' = Then("pop", <<>>)
    BY <1>3 DEF DeferTask
  <2>2. QueueTypeOK'
    BY <1>0, <2>1, TaskInHand, DeferOk
  <2>3. main' = [Then("pop", <<>>) EXCEPT !.n_empty = main.n_empty] /\ main.n_empty \in 0 .. 3
    BY <1>1, <1>2, <2>1
  <2> QED BY <1>2, <2>1, <2>2, <2>3, SameSlots, AnswerFits
<1>4. CASE LaunchFails
  <2> DEFINE t == main.cur.task
  <2>1. main.pc = "run" /\ UNCHANGED <<queues, reader, slots>> /\ t \in Task
    BY <1>4, TaskInHand DEF LaunchFails
  <2>2. PICK s \in SlotsFor(t) :
          /\ FitsOn(t, s)
          /\ LET L == Launches(t, s)
             IN  \E k \in DOMAIN L :
                    LET gone == InOrder({L[i].slot : i \in 1..(k - 1)})
                    IN  main' = [Then("pop", <<SendOf(L[k].task, "error")>>
                                            \o [i \in DOMAIN gone |-> ReleaseOf(gone[i])])
                                 EXCEPT !.n_empty = IF k > 1 THEN 0 ELSE @]
    BY <1>4 DEF LaunchFails
  <2> DEFINE L == Launches(t, s)
  <2> HIDE DEF t
  <2>3. PICK k \in DOMAIN L :
           LET gone == InOrder({L[i].slot : i \in 1..(k - 1)})
           IN  main' = [Then("pop", <<SendOf(L[k].task, "error")>> \o [i \in DOMAIN gone |-> ReleaseOf(gone[i])])
                        EXCEPT !.n_empty = IF k > 1 THEN 0 ELSE @]
    BY <2>2
  <2> DEFINE G == {L[i].slot : i \in 1 .. k - 1}
             gone == InOrder(G)
             rel == [i \in DOMAIN gone |-> ReleaseOf(gone[i])]
             calls == <<SendOf(L[k].task, "error")>> \o rel
             e == IF k > 1 THEN 0 ELSE main.n_empty
  <2>4. s \in Slot
    BY <2>1, SlotsForIs, <2>2
  <2>5. /\ Cardinality(Children(t)) \in Nat /\ DOMAIN L = 1 .. Cardinality(Children(t)) + 1
        /\ \A i \in DOMAIN L : L[i].task \in Task /\ L[i].slot \in IdleSlots
    <3>1. Cardinality(Children(t)) \in Nat /\ DOMAIN L = 1 .. Cardinality(Children(t)) + 1
      BY <2>1, <2>2, <2>4, LaunchesAre
    <3>2. \A i \in 1 .. Cardinality(Children(t)) + 1 : L[i].task \in Task /\ L[i].slot \in IdleSlots
      BY <2>1, <2>2, <2>4, LaunchesAre
    <3> QED BY <3>1, <3>2
  <2>6. main' = [Then("pop", calls) EXCEPT !.n_empty = e]
    <3>1. main' = [Then("pop", calls) EXCEPT !.n_empty = IF k > 1 THEN 0 ELSE @]
      BY <2>3
    <3>2. Then("pop", calls).n_empty = main.n_empty
      BY <1>0 DEF Then, MainType
    <3> HIDE DEF calls
    <3> QED BY <3>1, <3>2
  <2> HIDE DEF L
  <2>7. \A i \in 1 .. k - 1 : i \in DOMAIN L
    BY <2>5
  <2>8. G \in SUBSET Slot
    BY <2>5, <2>7 DEF IdleSlots
  <2>9. (\A x \in G : x \in Int) /\ IsFiniteSet(G)
    <3>1. \A x \in Slot : x \in Int
      BY SlotIs
    <3> HIDE DEF G
    <3>2. IsFiniteSet(G)
      BY <2>8, SlotIs, FS_Subset
    <3> QED BY <2>8, <3>1, <3>2
  <2> HIDE DEF G
  <2>10. gone \in Seq(Slot)
    BY <2>8, <2>9, InOrderIs
  <2> HIDE DEF gone
  <2>11. rel \in Seq(Call)
    BY <2>10 DEF ReleaseOf, Call
  <2>12. <<SendOf(L[k].task, "error")>> \in Seq(Call)
    BY <2>5 DEF SendOf, Call, Result
  <2>13. calls \in Seq(Call)
    BY <2>11, <2>12, Concat
  <2>14. e \in 0 .. 3
    BY <2>1, LoopParts
  <2> HIDE DEF calls, e
  <2>15. QueueTypeOK'
    BY <1>0, <2>1, QueuesSame
  <2> QED BY <2>1, <2>6, <2>13, <2>14, <2>15, SameSlots, AnswerFits
<1>5. CASE ActOnSlot
  <2>1. main.pc = "run" /\ UNCHANGED <<queues, reader, slots>>
    BY <1>5 DEF ActOnSlot
  <2>2. PICK kind \in {"final", "error"} : main' = Then("pop", <<SendOf(main.cur.task, kind)>>)
    BY <1>5 DEF ActOnSlot
  <2> DEFINE calls == <<SendOf(main.cur.task, kind)>>
  <2>3. calls \in Seq(Call)
    BY <2>1, TaskInHand DEF SendOf, Call, Result
  <2> HIDE DEF calls
  <2>4. main' = [Then("pop", calls) EXCEPT !.n_empty = main.n_empty] /\ main.n_empty \in 0 .. 3
    BY <1>1, <2>1, <2>2, <2>3 DEF calls
  <2>5. QueueTypeOK'
    BY <1>0, <2>1, QueuesSame
  <2> QED BY <2>1, <2>3, <2>4, <2>5, SameSlots, AnswerFits
<1>6. CASE CancelTask
  <2>1. main.pc = "cancel" /\ UNCHANGED <<queues, reader>>
    BY <1>6 DEF CancelTask
  <2>2. QueueTypeOK'
    BY <1>0, <2>1, QueuesSame
  <2>3. CASE main' = Then("pop", <<>>) /\ UNCHANGED slots
    <3>1. main' = [Then("pop", <<>>) EXCEPT !.n_empty = main.n_empty] /\ main.n_empty \in 0 .. 3
      BY <1>1, <1>2, <2>1, <2>3
    <3> QED BY <1>2, <2>1, <2>2, <2>3, <3>1, SameSlots, AnswerFits
  <2>4. ASSUME NEW s \in Slot, slots' = [slots EXCEPT ![s] = FreeSlot], main' = Then("pop", <<ReleaseOf(s)>>)
        PROVE  Fits'
    <3> DEFINE calls == <<ReleaseOf(s)>>
    <3>1. calls \in Seq(Call)
      BY DEF ReleaseOf, Call
    <3> HIDE DEF calls
    <3>2. main' = [Then("pop", calls) EXCEPT !.n_empty = main.n_empty] /\ main.n_empty \in 0 .. 3
      BY <1>1, <2>1, <2>4, <3>1 DEF calls
    <3>3. FreeSlot \in SlotType /\ \A x \in Slot : SlotFits(FreeSlot, x, <<>>, 0)
      BY FreeFits
    <3>4. slots \in [Slot -> SlotType]
      BY LoopParts
    <3>5. slots' \in [Slot -> SlotType] /\ \A x \in Slot : slots'[x] = slots[x] \/ SlotFits(slots'[x], x, <<>>, 0)
      BY <2>4, <3>3, <3>4
    <3> QED BY <2>1, <2>2, <3>1, <3>2, <3>5, AnswerFits
  <2> QED BY <1>6, <2>3, <2>4 DEF CancelTask
<1>7. CASE IgnoreNext
  <2>1. main.pc = "next" /\ UNCHANGED <<queues, reader, slots>> /\ main' = Then("pop", <<>>)
    BY <1>7 DEF IgnoreNext
  <2>2. main' = [Then("pop", <<>>) EXCEPT !.n_empty = main.n_empty] /\ main.n_empty \in 0 .. 3
    BY <1>1, <1>2, <2>1
  <2>3. QueueTypeOK'
    BY <1>0, <2>1, QueuesSame
  <2> QED BY <1>2, <2>1, <2>2, <2>3, SameSlots, AnswerFits
<1> QED BY <1>3, <1>4, <1>5, <1>6, <1>7

\* The steps of the loop that only move it on.
LEMMA MovesFit ==
  ASSUME Fits, CallsMade \/ WakeUp \/ NoMoreTasks \/ AllIdle \/ PostNext \/ EmptyBatch \/ DecodeNoRoom \/ MakeCall \/ Pop
  PROVE  Fits'
<1>0. /\ QueueTypeOK /\ main \in MainType /\ LoopFits /\ (main.pc # "aborted" => main.n_empty \in 0 .. 3)
      /\ main.n_batch \in Nat \ {0}
  BY LoopParts
<1>1. CASE CallsMade
  <2>1. main.pc = "calls" /\ main.calls = <<>> /\ main' = [main EXCEPT !.pc = main.next, !.next = "wait"]
        /\ UNCHANGED <<queues, reader, slots>>
    BY <1>1 DEF CallsMade
  <2>2. main' \in MainType
    BY <1>0, <2>1 DEF MainType, MainStates
  <2>3. LoopFits'
    BY <1>0, <2>1 DEF MainType, LoopFits, InBatch
  <2>4. main'.batch = main.batch /\ main'.i = main.i
    BY <1>0, <2>1 DEF MainType
  <2> QED BY <1>0, <2>1, <2>2, <2>3, <2>4, QueuesSame, FitsGoesOn
<1>2. CASE WakeUp \/ NoMoreTasks \/ AllIdle \/ PostNext
  <2>1. PICK pc \in {"pop", "update", "wait", "build"} : main' = [main EXCEPT !.pc = pc]
    BY <1>2 DEF WakeUp, NoMoreTasks, AllIdle, PostNext
  <2>2. main.pc \in {"wait", "pop", "update"} /\ UNCHANGED <<reader, slots>>
    BY <1>2 DEF WakeUp, NoMoreTasks, AllIdle, PostNext
  <2>3. QueueTypeOK'
    <3>1. CASE UNCHANGED queues
      BY <1>0, <3>1, QueuesSame
    <3>2. CASE PostNext
      <4>1. <<NextResponse>> \in Seq(Message) /\ PostBack(<<NextResponse>>)
        BY <3>2, Messages DEF PostNext
      <4> QED BY <1>0, <4>1, PostBackOk
    <3> QED BY <1>2, <3>1, <3>2 DEF WakeUp, NoMoreTasks, AllIdle
  <2>4. main' \in MainType
    BY <1>0, <2>1 DEF MainType, MainStates
  <2>5. main'.pc = pc /\ main'.cur = main.cur /\ main'.calls = main.calls /\ main'.batch = main.batch
        /\ main'.i = main.i /\ main'.n_batch = main.n_batch /\ main'.n_empty = main.n_empty
    BY <1>0, <2>1 DEF MainType
  <2>6. LoopFits'
    BY <1>0, <2>1, <2>2, <2>5 DEF LoopFits, InBatch
  <2> QED BY <2>2, <2>3, <2>4, <2>5, <2>6, FitsGoesOn
<1>3. CASE EmptyBatch
  <2> DEFINE e == main.n_empty + 1
             pc == IF e > 3 THEN "aborted" ELSE "wait"
  <2>1. main.pc = "decode" /\ main.batch = <<>> /\ UNCHANGED <<queues, reader, slots>>
        /\ main' = [main EXCEPT !.n_empty = e, !.pc = pc]
    BY <1>0, <1>3 DEF EmptyBatch, MainType
  <2>2. e \in 0 .. 4 /\ (pc # "aborted" => e <= 3)
    BY <1>0, <2>1
  <2>3. pc \in {"aborted", "wait"}
    OBVIOUS
  <2> HIDE DEF pc, e
  <2>4. main' \in MainType
    BY <1>0, <2>1, <2>2, <2>3 DEF MainType, MainStates
  <2>5. main'.pc = pc /\ main'.cur = main.cur /\ main'.calls = main.calls /\ main'.batch = main.batch
        /\ main'.i = main.i /\ main'.n_batch = main.n_batch /\ main'.n_empty = e
    BY <1>0, <2>1 DEF MainType
  <2>6. LoopFits'
    BY <1>0, <2>1, <2>2, <2>3, <2>5 DEF LoopFits, InBatch
  <2> QED BY <1>0, <2>1, <2>4, <2>5, <2>6, QueuesSame, FitsGoesOn
<1>4. CASE DecodeNoRoom
  <2> DEFINE v == main.n_batch \div 2
  <2>1. main.pc = "decode" /\ main.n_batch > 1 /\ "kv" \in Faults /\ UNCHANGED <<queues, reader, slots>>
        /\ main' = [main EXCEPT !.n_batch = v, !.n_empty = 0]
    BY <1>0, <1>4 DEF DecodeNoRoom, MainType
  <2>2. v \in Nat /\ v > 0
    BY <1>0, <2>1
  <2> HIDE DEF v
  <2>3. main' \in MainType
    <3>1. main' = [main EXCEPT !.n_batch = v, !.n_empty = 0] /\ v \in Nat
      BY <2>1, <2>2
    <3>2. main \in MainType /\ 0 \in 0 .. 4
      BY <1>0
    <3> QED BY <3>1, <3>2 DEF MainType
  <2>4. main'.pc = main.pc /\ main'.cur = main.cur /\ main'.calls = main.calls /\ main'.batch = main.batch
        /\ main'.i = main.i /\ main'.n_batch = v /\ main'.n_empty = 0
    BY <1>0, <2>1 DEF MainType
  <2>5. LoopFits'
    BY <1>0, <2>1, <2>2, <2>4 DEF LoopFits, InBatch
  <2> QED BY <1>0, <2>1, <2>3, <2>4, <2>5, QueuesSame, FitsGoesOn
<1>5. CASE MakeCall
  <2>1. main.pc = "calls" /\ main.calls # <<>> /\ UNCHANGED <<reader, slots>> /\ main' = [main EXCEPT !.calls = Tail(main.calls)]
    BY <1>0, <1>5 DEF MakeCall, MainType
  <2>2. Head(main.calls) \in Call /\ Tail(main.calls) \in Seq(Call)
    BY <1>0, <2>1 DEF MainType
  <2>3. QueueTypeOK'
    <3>1. CASE Head(main.calls).call = "send" /\ Send(Head(main.calls).result)
      <4>1. Head(main.calls).result \in Result
        BY <2>2, <3>1 DEF Call
      <4> QED BY <1>0, <3>1, <4>1, SendOk
    <3>2. CASE Head(main.calls).call = "release" /\ PopDeferred(Head(main.calls).slot)
      BY <1>0, <3>2, PopDeferredOk
    <3> QED BY <1>5, <3>1, <3>2 DEF MakeCall
  <2>4. main' \in MainType
    <3> DEFINE rest == Tail(main.calls)
    <3>1. rest \in Seq(Call) /\ main' = [main EXCEPT !.calls = rest]
      BY <2>1, <2>2
    <3> HIDE DEF rest
    <3> QED BY <1>0, <3>1 DEF MainType, MainStates
  <2>5. main'.pc = main.pc /\ main'.cur = main.cur /\ main'.next = main.next /\ main'.batch = main.batch
        /\ main'.i = main.i /\ main'.n_batch = main.n_batch /\ main'.n_empty = main.n_empty
    BY <1>0, <2>1 DEF MainType
  <2>6. LoopFits'
    BY <1>0, <2>1, <2>5 DEF LoopFits, InBatch
  <2> QED BY <2>1, <2>3, <2>4, <2>5, <2>6, FitsGoesOn
<1>6. CASE Pop
  <2> DEFINE m == Head(queue_tasks)
  <2>1. main.pc = "pop" /\ queue_tasks # <<>> /\ UNCHANGED <<reader, slots>> /\ queue_tasks' = Tail(queue_tasks)
        /\ main' = [main EXCEPT !.pc = m.type, !.cur = m]
        /\ UNCHANGED <<queue_tasks_deferred, waiting_task_ids, queue_results>>
    BY <1>6 DEF Pop
  <2>2. m \in Message /\ Tail(queue_tasks) \in Seq(Message)
    BY <1>0, <2>1 DEF QueueTypeOK
  <2> HIDE DEF m
  <2>3. QueueTypeOK'
    BY <1>0, <2>1, <2>2 DEF QueueTypeOK
  <2>4. m.type \in {"run", "cancel", "next"}
    BY <2>2, Messages
  <2>5. main' \in MainType
    BY <1>0, <2>1, <2>2, <2>4 DEF MainType, MainStates
  <2>6. main'.pc = m.type /\ main'.cur = m /\ main'.calls = main.calls /\ main'.next = main.next /\ main'.batch = main.batch
        /\ main'.i = main.i /\ main'.n_batch = main.n_batch /\ main'.n_empty = main.n_empty
    BY <1>0, <2>1 DEF MainType
  <2>7. LoopFits'
    BY <1>0, <2>1, <2>4, <2>6 DEF LoopFits, InBatch
  <2> QED BY <2>1, <2>3, <2>5, <2>6, <2>7, FitsGoesOn
<1> QED BY <1>1, <1>2, <1>3, <1>4, <1>5, <1>6

\* A new batch begins with nothing of it decoded.
LEMMA BuildFits ==
  ASSUME Fits, BuildBatch
  PROVE  Fits'
<1>0. /\ QueueTypeOK /\ main \in MainType /\ LoopFits /\ main.pc = "build" /\ main.n_empty \in 0 .. 3
      /\ UNCHANGED <<queues, reader>>
  BY LoopParts DEF BuildBatch
<1>1. main.batch = <<>>
  BY <1>0 DEF LoopFits, InBatch
<1>2. PICK reject \in [Slot -> {"no", "error", "final"}], take \in [Slot -> 0 .. PromptLen] :
         /\ slots' = Built(reject, take).slots
         /\ main' = [Then("decode", Built(reject, take).calls) EXCEPT
                       !.batch = Built(reject, take).batch, !.i = 0, !.n_batch = NBatch]
  <2>1. PICK q \in Rejects, w \in Takes :
         /\ slots' = Built(q, w).slots
         /\ main' = [Then("decode", Built(q, w).calls) EXCEPT
                       !.batch = Built(q, w).batch, !.i = 0, !.n_batch = NBatch]
    BY DEF BuildBatch
  <2>2. q \in [Slot -> {"no", "error", "final"}] /\ w \in [Slot -> 0 .. PromptLen]
    BY DEF Rejects, Takes
  <2> QED BY <2>1, <2>2
<1> DEFINE b == Built(reject, take)
           cs == b.calls
           bt == b.batch
<1>3. PromptLoop(b, NSlot)
  BY <1>1, BuiltOk
<1> HIDE DEF b
<1>4. /\ AllFit(b.slots, bt) /\ bt \in Seq(Slot) /\ Len(bt) <= NBatch /\ cs \in Seq(Call)
  BY <1>3 DEF PromptLoop, Rejections
<1>5. slots' = b.slots /\ main' = [Then("decode", cs) EXCEPT !.batch = bt, !.i = 0, !.n_batch = NBatch]
  BY <1>2 DEF b
<1> HIDE DEF cs, bt
<1>12. main' = WithCalls("decode", cs, bt, 0, NBatch, main.n_empty)
  <2> DEFINE T == Then("decode", cs)
             x == main.batch
             y == main.i
             z == main.n_batch
             w == main.n_empty
             c == "calls"
             u == NextResponse
  <2>1. T = [pc |-> c, cur |-> u, calls |-> cs, next |-> "decode", batch |-> x, i |-> y, n_batch |-> z, n_empty |-> w]
    BY <1>0, <1>4, ThenIs
  <2>2. main' = [T EXCEPT !.batch = bt, !.i = 0, !.n_batch = NBatch]
    BY <1>5
  <2> HIDE DEF T, x, y, z, w, c, u
  <2>3. main' = [pc |-> c, cur |-> u, calls |-> cs, next |-> "decode", batch |-> bt, i |-> 0, n_batch |-> NBatch, n_empty |-> w]
    BY <2>1, <2>2
  <2> QED BY <2>3 DEF x, y, z, w, c, u, WithCalls
<1>6. main' = [pc |-> "calls", cur |-> NextResponse, calls |-> cs, next |-> "decode",
               batch |-> bt, i |-> 0, n_batch |-> NBatch, n_empty |-> main.n_empty]
  BY <1>12 DEF WithCalls
<1>7. NBatch \in Nat /\ NBatch > 0 /\ Len(bt) \in Nat
  BY <1>4, SlotIs
<1>8. main' \in MainType
  <2>1. NextResponse \in Message /\ "calls" \in MainStates
    BY Messages DEF MainStates
  <2>2. main' \in [pc : MainStates, cur : Message, calls : Seq(Call), next : {"wait", "pop", "decode"},
                   batch : Seq(Slot), i : Nat, n_batch : Nat, n_empty : 0 .. 4]
    BY <1>0, <1>4, <1>6, <1>7, <2>1
  <2> QED BY <2>2 DEF MainType
<1>9. LoopFits'
  <2>1. bt # <<>> => 0 < Len(bt)
    BY <1>4
  <2>2. main'.pc = "calls" /\ main'.cur = NextResponse /\ main'.next = "decode" /\ main'.batch = bt /\ main'.i = 0
        /\ main'.n_batch = NBatch /\ main'.n_empty <= 3
    BY <1>0, <1>6
  <2> QED BY <1>4, <1>7, <2>1, <2>2 DEF LoopFits, InBatch
<1>10. slots' \in [Slot -> SlotType] /\ \A s \in Slot : SlotFits(slots'[s], s, main'.batch, main'.i)
  BY <1>4, <1>5, <1>6 DEF AllFit
<1>11. QueueTypeOK' /\ reader' \in [Reader -> [pc : ReaderStates, got : SUBSET Task]]
  BY <1>0, QueuesSame DEF Fits
<1> QED BY <1>8, <1>9, <1>10, <1>11 DEF Fits

\* A handler that ends with calls of type Call keeps the types of the loop.
LEMMA LoopTypes ==
  ASSUME main \in MainType, NEW pc \in {"wait", "pop", "decode"}, NEW cs \in Seq(Call), NEW bt \in Seq(Slot),
         NEW i \in Nat, NEW v \in Nat \ {0}, Len(bt) <= NBatch, bt # <<>> => pc = "decode" /\ i < Len(bt),
         "kv" \notin Faults => v = NBatch,
         main' = WithCalls(pc, cs, bt, i, v, 0)
  PROVE  /\ main' \in MainType /\ LoopFits' /\ main'.batch = bt /\ main'.i = i
         /\ main'.pc = "calls" /\ main'.next = pc /\ main'.calls = cs
<1>1. main' = [pc |-> "calls", cur |-> NextResponse, calls |-> cs, next |-> pc,
               batch |-> bt, i |-> i, n_batch |-> v, n_empty |-> 0]
  BY DEF WithCalls
<1>2. main' \in MainType
  <2>1. NextResponse \in Message /\ "calls" \in MainStates /\ v \in Nat
    BY Messages DEF MainStates
  <2>2. main' \in [pc : MainStates, cur : Message, calls : Seq(Call), next : {"wait", "pop", "decode"},
                   batch : Seq(Slot), i : Nat, n_batch : Nat, n_empty : 0 .. 4]
    BY <1>1, <2>1
  <2> QED BY <2>2 DEF MainType
<1>3. /\ main'.pc = "calls" /\ main'.cur = NextResponse /\ main'.calls = cs /\ main'.next = pc
      /\ main'.batch = bt /\ main'.i = i /\ main'.n_batch = v /\ main'.n_empty = 0
  BY CallsFields
<1>4. LoopFits'
  BY <1>3 DEF LoopFits, InBatch
<1> QED BY <1>2, <1>3, <1>4

\* the slots that hold a task
LEMMA BusyHas ==
  ASSUME Fits, NEW s \in Slot, Busy(s)
  PROVE  slots[s].task \in Task
<1>1. slots[s] \in SlotType /\ slots[s].state # "idle" /\ SlotFits(slots[s], s, main.batch, main.i)
  BY LoopParts DEF Busy
<1> QED BY <1>1 DEF SlotFits, SlotType

LEMMA FailureFits ==
  ASSUME Fits, DecodeFails
  PROVE  Fits'
<1>0. /\ QueueTypeOK /\ main \in MainType /\ main.i \in Nat /\ main.n_batch \in Nat \ {0}
      /\ ("kv" \notin Faults => main.n_batch = NBatch)
      /\ UNCHANGED <<queues, reader>> /\ slots' = [s \in Slot |-> FreeSlot]
  BY LoopParts DEF DecodeFails, LoopFits
<1> DEFINE R  == Slot \ IdleSlots
           cs == ResultCalls({}, R, "error")
<1>1. cs \in Seq(Call)
  <2>1. R \in SUBSET Slot /\ {} \in SUBSET Slot /\ \A x \in {} \cup R : slots[x].task \in Task
    BY BusyHas DEF IdleSlots
  <2> HIDE DEF R
  <2> QED BY <2>1, ResultCallsAre
<1>2. main' = [Then("wait", cs) EXCEPT !.batch = <<>>, !.n_empty = 0]
  BY DEF DecodeFails
<1> HIDE DEF cs
<1>3. main' = WithCalls("wait", cs, <<>>, main.i, main.n_batch, 0)
  <2> DEFINE T == Then("wait", cs)
             x == main.batch
             y == main.i
             z == main.n_batch
             w == main.n_empty
             c == "calls"
             u == NextResponse
  <2>1. T = [pc |-> c, cur |-> u, calls |-> cs, next |-> "wait", batch |-> x, i |-> y, n_batch |-> z, n_empty |-> w]
    BY <1>0, <1>1, ThenIs
  <2>2. main' = [T EXCEPT !.batch = <<>>, !.n_empty = 0]
    BY <1>2
  <2> HIDE DEF T, x, y, z, w, c, u
  <2>3. main' = [pc |-> c, cur |-> u, calls |-> cs, next |-> "wait", batch |-> <<>>, i |-> y, n_batch |-> z, n_empty |-> 0]
    BY <2>1, <2>2
  <2> QED BY <2>3 DEF x, y, z, w, c, u, WithCalls
<1>4. <<>> \in Seq(Slot) /\ Len(<<>>) <= NBatch
  BY SlotIs
<1>5. main' \in MainType /\ LoopFits' /\ main'.batch = <<>> /\ main'.i = main.i
  BY <1>0, <1>1, <1>3, <1>4, LoopTypes
<1>6. slots' \in [Slot -> SlotType] /\ \A s \in Slot : SlotFits(slots'[s], s, main'.batch, main'.i)
  BY <1>0, <1>5, FreeFits
<1>7. QueueTypeOK' /\ reader' \in [Reader -> [pc : ReaderStates, got : SUBSET Task]]
  BY <1>0, QueuesSame DEF Fits
<1> QED BY <1>5, <1>6, <1>7 DEF Fits

\* how far the batch is decoded after the next view
ViewEnd == Min({main.i + main.n_batch, Len(main.batch)})

LEMMA ViewIs ==
  ASSUME Fits, main.batch # <<>>
  PROVE  /\ ViewEnd \in (main.i + 1) .. Len(main.batch) /\ View = (main.i + 1) .. ViewEnd /\ Max(View) = ViewEnd
         /\ main.i \in Nat /\ Len(main.batch) \in Nat /\ Len(main.batch) <= NBatch
         /\ "kv" \notin Faults => ViewEnd = Len(main.batch)
<1> DEFINE n == Len(main.batch)
           i == main.i
           v == main.n_batch
<1>1. /\ i \in Nat /\ n \in Nat /\ v \in Nat /\ v > 0 /\ i < n /\ n <= NBatch /\ ("kv" \notin Faults => v = NBatch)
      /\ NBatch \in Nat
  BY LoopParts, SlotIs DEF LoopFits
<1> HIDE DEF n, i, v
<1>2. i + v \in Int /\ n \in Int
  BY <1>1
<1>3. ViewEnd = IF i + v <= n THEN i + v ELSE n
  BY <1>2, MinOfTwo DEF ViewEnd, i, n, v
<1>4. ViewEnd \in (i + 1) .. n /\ ("kv" \notin Faults => ViewEnd = n)
  BY <1>1, <1>3
<1>5. View = (i + 1) .. ViewEnd
  BY DEF View, ViewEnd, i, n, v
<1>6. i + 1 \in Int /\ ViewEnd \in Int /\ i + 1 <= ViewEnd
  BY <1>1, <1>4
<1>7. Max(View) = ViewEnd
  BY <1>5, <1>6, MaxOfInterval
<1> QED BY <1>1, <1>4, <1>5, <1>7 DEF n, i

\* What is in the memory once the view is decoded.
LEMMA DecodedIs ==
  ASSUME Fits, main.batch # <<>>, NEW s \in Slot
  PROVE  /\ Decoded[s] \in SlotType
         /\ Decoded[s].state = slots[s].state /\ Decoded[s].task = slots[s].task /\ Decoded[s].n = slots[s].n
         /\ Decoded[s].i_batch = slots[s].i_batch /\ Decoded[s].n_decoded = slots[s].n_decoded
         /\ Decoded[s].kv + Cardinality(Left(main.batch, ViewEnd, s))
              = slots[s].kv + Cardinality(Left(main.batch, main.i, s))
         /\ Left(main.batch, ViewEnd, s) \subseteq Left(main.batch, main.i, s)
         /\ Decoded[s].kv \in Nat /\ Cardinality(Left(main.batch, ViewEnd, s)) \in Nat
<1> DEFINE a == Cardinality(Viewed(main.batch, main.i, ViewEnd, s))
           l == Cardinality(Left(main.batch, main.i, s))
           m == Cardinality(Left(main.batch, ViewEnd, s))
           kv == slots[s].kv
           n == slots[s].n
<1>1. /\ ViewEnd \in (main.i + 1) .. Len(main.batch) /\ main.i \in Nat /\ Len(main.batch) \in Nat
      /\ View = (main.i + 1) .. ViewEnd
  BY ViewIs
<1>2. main.batch \in Seq(Slot) /\ ViewEnd \in main.i .. Len(main.batch) /\ ViewEnd \in Nat
  BY <1>1, LoopParts
<1>3. a \in Nat /\ l = a + m /\ Left(main.batch, ViewEnd, s) \subseteq Left(main.batch, main.i, s)
  BY <1>1, <1>2, LeftSplit
<1>4. m \in Nat /\ l \in Nat
  BY <1>1, <1>2, LeftFinite
<1>5. slots[s] \in SlotType /\ SlotFits(slots[s], s, main.batch, main.i)
  BY LoopParts
<1>6. kv \in Nat /\ n \in 0 .. (PromptLen + NPredict) /\ kv + l <= n
  BY <1>5 DEF SlotType, SlotFits
<1>7. Decoded[s] = [slots[s] EXCEPT !.kv = kv + a]
  BY <1>1, <1>5 DEF Decoded, SlotType, Viewed
<1> HIDE DEF a, l, m, kv, n
<1>8. kv + a \in 0 .. (PromptLen + NPredict) /\ (kv + a) + m = kv + l
  BY <1>3, <1>4, <1>6, ParamTypes
<1> DEFINE u == kv + a
<1>9. Decoded[s] = [slots[s] EXCEPT !.kv = u] /\ u \in 0 .. (PromptLen + NPredict) /\ u + m = kv + l
  BY <1>7, <1>8
<1> HIDE DEF u
<1>10. Decoded[s] \in SlotType
  BY <1>5, <1>9 DEF SlotType
<1>11. /\ Decoded[s].state = slots[s].state /\ Decoded[s].task = slots[s].task /\ Decoded[s].n = slots[s].n
       /\ Decoded[s].i_batch = slots[s].i_batch /\ Decoded[s].n_decoded = slots[s].n_decoded
       /\ Decoded[s].kv = u
  BY <1>5, <1>9 DEF SlotType
<1>12. u \in Nat
  BY <1>9, ParamTypes
<1> QED BY <1>3, <1>4, <1>9, <1>10, <1>11, <1>12 DEF m, kv, l

LEMMA SpeculativeFits ==
  ASSUME Fits, SpeculativeFails
  PROVE  Fits'
<1>0. /\ QueueTypeOK /\ main \in MainType /\ main.i \in Nat /\ LoopFits /\ main.n_batch \in Nat \ {0}
      /\ UNCHANGED <<queues, reader>> /\ slots' = Decoded /\ main.pc = "decode" /\ main.batch # <<>>
      /\ ~ Calm
  BY LoopParts DEF SpeculativeFails, Calm
<1>1. main' = [main EXCEPT !.pc = "wait", !.batch = <<>>, !.n_empty = 0]
  BY DEF SpeculativeFails
<1>2. main' \in MainType
  <2>1. main \in MainType /\ 0 \in 0 .. 4 /\ <<>> \in Seq(Slot) /\ "wait" \in MainStates
    BY <1>0 DEF MainStates
  <2> QED BY <1>1, <2>1 DEF MainType
<1>3. /\ main'.pc = "wait" /\ main'.cur = main.cur /\ main'.calls = main.calls /\ main'.next = main.next
      /\ main'.batch = <<>> /\ main'.i = main.i /\ main'.n_batch = main.n_batch /\ main'.n_empty = 0
  BY <1>0, <1>1 DEF MainType
<1>4. LoopFits'
  <2>1. Len(<<>>) <= NBatch
    BY SlotIs
  <2> QED BY <1>0, <1>3, <2>1 DEF LoopFits, InBatch
<1>5. \A s \in Slot : slots[s].n <= PromptLen + slots[s].n_decoded
  BY DEF SpeculativeFails
<1>6. ASSUME NEW s \in Slot PROVE SlotFits(slots'[s], s, main'.batch, main'.i)
  <2> DEFINE d == Decoded[s]
             l == Cardinality(Left(main.batch, main.i, s))
             m == Cardinality(Left(main.batch, ViewEnd, s))
  <2>1. SlotFits(slots[s], s, main.batch, main.i)
    BY LoopParts
  <2>2. /\ d.state = slots[s].state /\ d.task = slots[s].task /\ d.n = slots[s].n
        /\ d.i_batch = slots[s].i_batch /\ d.n_decoded = slots[s].n_decoded
        /\ d.kv + m = slots[s].kv + l /\ d.kv \in Nat /\ m \in Nat
    BY <1>0, DecodedIs
  <2>3. slots[s].kv + l <= slots[s].n
    BY <2>1 DEF SlotFits
  <2>4. slots[s].n \in Nat
    BY LoopParts, ParamTypes DEF SlotType
  <2>5. d.kv <= d.n
    <3> DEFINE x == d.kv
               y == slots[s].n
               z == slots[s].kv + l
    <3>1. x + m = z /\ z <= y /\ x \in Nat /\ m \in Nat /\ y \in Nat
      BY <2>2, <2>3, <2>4
    <3> HIDE DEF x, y, z, m
    <3>2. x <= y
      BY <3>1
    <3> QED BY <2>2, <3>2 DEF x, y
  <2>6. Left(<<>>, main.i, s) = {} /\ Cardinality(Left(<<>>, main.i, s)) = 0
    BY <1>0, NoneLeft
  <2> HIDE DEF d, m, l
  <2>7. d.kv + 0 = d.kv
    BY <2>2
  <2>8. SlotFits(d, s, <<>>, main.i)
    BY <1>0, <1>5, <2>1, <2>2, <2>5, <2>6, <2>7 DEF SlotFits
  <2> QED BY <1>0, <1>3, <2>8 DEF d
<1>7. slots' \in [Slot -> SlotType]
  BY <1>0, DecodedIs DEF Decoded
<1>8. QueueTypeOK' /\ reader' \in [Reader -> [pc : ReaderStates, got : SUBSET Task]]
  BY <1>0, QueuesSame DEF Fits
<1> QED BY <1>2, <1>4, <1>6, <1>7, <1>8 DEF Fits

\* a slot once the view is decoded, before it is sampled
AfterView(sl, s) ==
  /\ sl \in SlotType
  /\ sl.state = "idle" <=> sl.task = NoTask
  /\ sl.state \in {"idle", "waiting", "started"} => sl.n = 0
  /\ sl.state # "generating" => sl.n <= PromptLen /\ sl.n_decoded = 0
  /\ sl.state = "generating" => /\ sl.n_decoded < NPredict
                                /\ sl.n <= PromptLen + sl.n_decoded + 1
                                /\ sl.n <= PromptLen + sl.n_decoded \/ sl.i_batch \in (main.i + 1) .. Len(main.batch)
  /\ sl.kv + Cardinality(Left(main.batch, ViewEnd, s)) <= sl.n
  /\ Calm => sl.kv + Cardinality(Left(main.batch, ViewEnd, s)) = sl.n
  /\ sl.state \in {"done", "generating"} => \A j \in Left(main.batch, ViewEnd, s) : j <= sl.i_batch

LEMMA DecodedAfter ==
  ASSUME Fits, main.batch # <<>>, NEW s \in Slot
  PROVE  AfterView(Decoded[s], s)
<1> DEFINE d == Decoded[s]
           l == Cardinality(Left(main.batch, main.i, s))
           m == Cardinality(Left(main.batch, ViewEnd, s))
<1>1. SlotFits(slots[s], s, main.batch, main.i)
  BY LoopParts
<1>2. /\ d \in SlotType /\ d.state = slots[s].state /\ d.task = slots[s].task /\ d.n = slots[s].n
      /\ d.i_batch = slots[s].i_batch /\ d.n_decoded = slots[s].n_decoded
      /\ d.kv + m = slots[s].kv + l
      /\ Left(main.batch, ViewEnd, s) \subseteq Left(main.batch, main.i, s)
  BY DecodedIs
<1>3. slots[s].kv + l <= slots[s].n /\ (Calm => slots[s].kv + l = slots[s].n)
  BY <1>1 DEF SlotFits
<1>4. d.kv + m <= d.n /\ (Calm => d.kv + m = d.n)
  <2> DEFINE x == d.kv + m
             y == slots[s].kv + l
  <2>1. x = y /\ y <= slots[s].n /\ (Calm => y = slots[s].n) /\ d.n = slots[s].n
    BY <1>2, <1>3
  <2> HIDE DEF x, y, d, m
  <2>2. x <= d.n /\ (Calm => x = d.n)
    BY <2>1
  <2> QED BY <2>2 DEF x
<1>5. slots[s].state \in {"done", "generating"} => \A j \in Left(main.batch, main.i, s) : j <= slots[s].i_batch
  BY <1>1 DEF SlotFits
<1>6. d.state \in {"done", "generating"} => \A j \in Left(main.batch, ViewEnd, s) : j <= d.i_batch
  BY <1>2, <1>5
<1> HIDE DEF d
<1>7. AfterView(d, s)
  BY <1>1, <1>2, <1>4, <1>6 DEF AfterView, SlotFits
<1> QED BY <1>7 DEF d

\* A child has nothing in the batch, so it holds what its parent holds.
LEMMA ActivatedAfter ==
  ASSUME Fits, main.batch # <<>>, NEW s \in Slot
  PROVE  AfterView(Activated(Decoded)[s], s) /\ Activated(Decoded)[s].task = slots[s].task
<1> DEFINE D == Decoded
           wakes == \E p \in Slot : /\ D[p].state = "done" /\ D[s].state = "waiting"
                                    /\ D[p].task = Parent[D[s].task]
<1>1. AfterView(D[s], s) /\ D[s].task = slots[s].task /\ D[s] \in SlotType
  BY DecodedAfter, DecodedIs
<1>2. CASE ~ wakes
  <2>1. Activated(D)[s] = D[s]
    BY <1>2 DEF Activated
  <2> QED BY <1>1, <2>1
<1>3. CASE wakes
  <2> DEFINE is(p) == D[p].state = "done" /\ D[p].task = Parent[D[s].task]
             p == CHOOSE p \in Slot : is(p)
             c == [D[p] EXCEPT !.task = D[s].task]
  <2>1. Activated(D)[s] = c
    BY <1>3 DEF Activated
  <2>2. \E q \in Slot : is(q)
    BY <1>3
  <2>3. p \in Slot /\ is(p)
    BY <2>2
  <2> HIDE DEF p
  <2>4. D[s].state = "waiting"
    BY <1>3
  <2>5. AfterView(D[p], p) /\ D[p] \in SlotType
    BY <2>3, DecodedAfter, DecodedIs
  <2> DEFINE m == Cardinality(Left(main.batch, ViewEnd, s))
             mp == Cardinality(Left(main.batch, ViewEnd, p))
  <2>6. m = 0 /\ Left(main.batch, ViewEnd, s) = {}
    <3>1. D[s].kv + m <= 0 /\ D[s].kv \in Nat /\ m \in Nat
      BY <1>1, <2>4, DecodedIs DEF AfterView
    <3> DEFINE x == D[s].kv
    <3> HIDE DEF x, m
    <3>2. x + m <= 0 /\ x \in Nat /\ m \in Nat
      BY <3>1 DEF x
    <3>3. m = 0
      BY <3>2
    <3>4. main.batch \in Seq(Slot) /\ ViewEnd \in Nat
      BY LoopParts, ViewIs
    <3> QED BY <3>3, <3>4, LeftFinite DEF m
  <2>7. D[s].task \in Task /\ D[s].task # NoTask
    BY <1>1, <2>4, Messages DEF AfterView, SlotType
  <2>8. /\ c \in SlotType /\ c.state = "done" /\ c.task = D[s].task /\ c.n = D[p].n /\ c.kv = D[p].kv
        /\ c.i_batch = D[p].i_batch /\ c.n_decoded = D[p].n_decoded
    <3> DEFINE t == D[s].task
               e == D[p]
    <3>1. e \in SlotType /\ t \in Task /\ e.state = "done"
      BY <2>3, <2>5, <2>7
    <3>2. c = [e EXCEPT !.task = t]
      OBVIOUS
    <3> HIDE DEF t, e, c
    <3>3. /\ c \in SlotType /\ c.state = "done" /\ c.task = t /\ c.n = e.n /\ c.kv = e.kv
          /\ c.i_batch = e.i_batch /\ c.n_decoded = e.n_decoded
      BY <3>1, <3>2 DEF SlotType
    <3> QED BY <3>3 DEF t, e
  <2>9. D[p].n <= PromptLen /\ D[p].n_decoded = 0
    BY <2>3, <2>5 DEF AfterView
  <2>10. /\ D[p].kv \in Nat /\ D[p].n \in Nat /\ mp \in Nat /\ D[p].kv + mp <= D[p].n
         /\ (Calm => D[p].kv + mp = D[p].n)
    BY <2>3, <2>5, DecodedIs, ParamTypes DEF AfterView, SlotType
  <2>11. Calm => mp = 0
    <3> SUFFICES ASSUME Calm PROVE mp = 0
      OBVIOUS
    <3>1. "kv" \notin Faults
      <4> SUFFICES ASSUME \A t \in Task : Parent[t] = NoTask PROVE FALSE
        BY DEF Calm
      <4>1. D[p].task = NoTask
        BY <2>3, <2>7
      <4>2. D[p].state = "idle"
        BY <2>5, <4>1 DEF AfterView
      <4> QED BY <2>3, <4>2
    <3>2. ViewEnd = Len(main.batch) /\ ViewEnd \in Nat /\ main.batch \in Seq(Slot)
      BY <3>1, ViewIs, LoopParts
    <3>3. ViewEnd >= Len(main.batch)
      BY <3>2
    <3> QED BY <3>2, <3>3, LeftFinite
  <2>12. c.kv + m <= c.n /\ (Calm => c.kv + m = c.n)
    <3> DEFINE x == D[p].kv
               y == D[p].n
    <3>1. x \in Nat /\ y \in Nat /\ mp \in Nat /\ x + mp <= y /\ (Calm => x + mp = y) /\ (Calm => mp = 0) /\ m = 0
      BY <2>6, <2>10, <2>11
    <3>2. c.kv = x /\ c.n = y
      BY <2>8
    <3> HIDE DEF x, y, m, mp
    <3>3. x + m <= y /\ (Calm => x + m = y)
      BY <3>1
    <3> HIDE DEF c
    <3> QED BY <3>2, <3>3
  <2> HIDE DEF c, m, mp, D
  <2>13. AfterView(c, s)
    BY <2>6, <2>7, <2>8, <2>9, <2>12 DEF AfterView, m
  <2> QED BY <1>1, <2>1, <2>8, <2>13 DEF D
<1> QED BY <1>2, <1>3

\* A slot that is sampled has nothing left in the batch; one that is not has its last
\* token beyond the view, or none.
LEMMA TokenFits ==
  ASSUME Fits, main.batch # <<>>, NEW s \in Slot, NEW sl, AfterView(sl, s), NEW stop \in BOOLEAN,
         Samples(sl), sl.n_decoded + 1 = NPredict => stop
  PROVE  AfterToken(sl, stop) \in SlotType /\ SlotFits(AfterToken(sl, stop), s, main.batch, ViewEnd)
<1> DEFINE m == Cardinality(Left(main.batch, ViewEnd, s))
           a == AfterToken(sl, stop)
<1>1. /\ ViewEnd \in (main.i + 1) .. Len(main.batch) /\ View = (main.i + 1) .. ViewEnd
      /\ main.i \in Nat /\ Len(main.batch) \in Nat /\ ViewEnd \in Nat /\ main.batch \in Seq(Slot)
  BY ViewIs, LoopParts
<1>2. /\ sl \in SlotType /\ sl.state \in {"done", "generating"} /\ sl.i_batch \in View
      /\ \A j \in Left(main.batch, ViewEnd, s) : j <= sl.i_batch
  BY DEF AfterView, Samples
<1>3. Left(main.batch, ViewEnd, s) = {}
  <2> SUFFICES ASSUME NEW j \in Left(main.batch, ViewEnd, s) PROVE FALSE
    OBVIOUS
  <2>1. j \in (ViewEnd + 1) .. Len(main.batch) /\ j <= sl.i_batch
    BY <1>2 DEF Left
  <2>2. sl.i_batch <= ViewEnd /\ sl.i_batch \in Int
    BY <1>1, <1>2
  <2> QED BY <1>1, <2>1, <2>2
<1>4. m = 0
  BY <1>1, <1>3, LeftFinite
<1>5. CASE stop
  <2>1. a = FreeSlot
    BY <1>5 DEF AfterToken
  <2>2. FreeSlot \in SlotType
    BY FreeFits
  <2> HIDE DEF a
  <2>3. SlotFits(FreeSlot, s, main.batch, ViewEnd)
    BY <1>3, <1>4, ParamTypes DEF FreeSlot, SlotFits, m
  <2> QED BY <2>1, <2>2, <2>3 DEF a
<1>6. CASE ~ stop
  <2> DEFINE d == sl.n_decoded + 1
             old == sl.n_decoded
             n == sl.n
             kv == sl.kv
  <2>1. a = [sl EXCEPT !.state = "generating", !.i_batch = 0, !.n_decoded = d]
    BY <1>2, <1>6 DEF AfterToken, SlotType
  <2>2. /\ old \in Nat /\ old < NPredict /\ d # NPredict /\ n \in Nat /\ kv \in Nat
        /\ n <= PromptLen + old + 1 /\ kv + m <= n /\ (Calm => kv + m = n)
    <3>1. sl.state = "done" => sl.n <= PromptLen /\ sl.n_decoded = 0
      BY DEF AfterView
    <3>2. sl.state = "generating" => sl.n_decoded < NPredict /\ sl.n <= PromptLen + sl.n_decoded + 1
      BY DEF AfterView
    <3>3. kv + m <= n /\ (Calm => kv + m = n)
      BY DEF AfterView
    <3>4. old \in Nat /\ n \in Nat /\ kv \in Nat /\ (sl.state = "done" \/ sl.state = "generating")
      BY <1>2, ParamTypes DEF SlotType
    <3>5. d # NPredict
      BY <1>6
    <3> HIDE DEF d, m
    <3> QED BY <3>1, <3>2, <3>3, <3>4, <3>5, ParamTypes
  <2>3. d = old + 1
    OBVIOUS
  <2> HIDE DEF d, old, n, kv, m, a
  <2>4. d \in 0 .. NPredict /\ d < NPredict /\ n <= PromptLen + d /\ n <= PromptLen + d + 1
    BY <2>2, <2>3, ParamTypes
  <2>5. kv + m <= n /\ (Calm => kv + m = n)
    BY <2>2
  <2>6. /\ a \in SlotType /\ a.state = "generating" /\ a.task = sl.task /\ a.n = n /\ a.kv = kv
        /\ a.i_batch = 0 /\ a.n_decoded = d
    <3>1. 0 \in 0 .. NBatch
      BY ParamTypes
    <3> QED BY <1>2, <2>1, <2>4, <3>1 DEF SlotType, SlotStates, n, kv
  <2>7. sl.task # NoTask
    BY <1>2 DEF AfterView
  <2>8. SlotFits(a, s, main.batch, ViewEnd)
    BY <1>3, <2>4, <2>5, <2>6, <2>7 DEF SlotFits, m
  <2> QED BY <2>6, <2>8 DEF a
<1> QED BY <1>5, <1>6

LEMMA UnsampledFits ==
  ASSUME Fits, main.batch # <<>>, NEW s \in Slot, NEW sl, AfterView(sl, s), ~ Samples(sl)
  PROVE  sl \in SlotType /\ SlotFits(sl, s, main.batch, ViewEnd)
<1>1. /\ ViewEnd \in (main.i + 1) .. Len(main.batch) /\ View = (main.i + 1) .. ViewEnd
      /\ main.i \in Nat /\ Len(main.batch) \in Nat
  BY ViewIs
<1>2. sl.state = "generating" /\ sl.i_batch \in (main.i + 1) .. Len(main.batch)
        => sl.i_batch \in (ViewEnd + 1) .. Len(main.batch)
  <2> SUFFICES ASSUME sl.state = "generating", sl.i_batch \in (main.i + 1) .. Len(main.batch)
               PROVE  sl.i_batch \in (ViewEnd + 1) .. Len(main.batch)
    OBVIOUS
  <2>1. sl.i_batch \notin (main.i + 1) .. ViewEnd
    BY <1>1 DEF Samples
  <2> QED BY <1>1, <2>1
<1> QED BY <1>2 DEF AfterView, SlotFits

\* The sampled slots hold tasks.
LEMMA SampledHas ==
  ASSUME Fits, main.batch # <<>>, NEW s \in Slot, Samples(Activated(Decoded)[s])
  PROVE  slots[s].task \in Task
<1> DEFINE sl == Activated(Decoded)[s]
<1>1. AfterView(sl, s) /\ sl.task = slots[s].task /\ sl.state \in {"done", "generating"}
  BY ActivatedAfter DEF Samples
<1> HIDE DEF sl
<1>2. sl.task # NoTask /\ sl.task \in Task \cup {NoTask}
  BY <1>1 DEF AfterView, SlotType
<1> QED BY <1>1, <1>2

LEMMA ViewFits ==
  ASSUME Fits, DecodeView
  PROVE  Fits'
<1> DEFINE ss == Activated(Decoded)
           sampled == {s \in Slot : Samples(ss[s])}
           last == Max(View) = Len(main.batch)
<1>0. /\ QueueTypeOK /\ main \in MainType /\ LoopFits /\ main.batch \in Seq(Slot) /\ main.batch # <<>>
      /\ Len(main.batch) <= NBatch /\ UNCHANGED <<queues, reader>>
  BY LoopParts DEF DecodeView, LoopFits
<1>1. PICK stop \in {S \in SUBSET sampled : \A s \in sampled : ss[s].n_decoded + 1 = NPredict => s \in S} :
         /\ slots' = [s \in Slot |-> IF s \in sampled THEN AfterToken(ss[s], s \in stop) ELSE ss[s]]
         /\ main' = [Then(IF last THEN "wait" ELSE "decode",
                          ResultCalls(IF Streaming THEN sampled ELSE {}, stop, "final"))
                     EXCEPT !.i = IF last THEN 0 ELSE Max(View),
                            !.batch = IF last THEN <<>> ELSE @,
                            !.n_batch = NBatch, !.n_empty = 0]
  BY DEF DecodeView
<1> DEFINE C == ResultCalls(IF Streaming THEN sampled ELSE {}, stop, "final")
           pc == IF last THEN "wait" ELSE "decode"
           i == IF last THEN 0 ELSE Max(View)
           b == IF last THEN <<>> ELSE main.batch
<1>2. /\ ViewEnd \in (main.i + 1) .. Len(main.batch) /\ Max(View) = ViewEnd /\ ViewEnd \in Nat
      /\ Len(main.batch) \in Nat /\ main.i \in Nat
  BY <1>0, ViewIs
<1>3. sampled \in SUBSET Slot /\ stop \in SUBSET sampled /\ \A s \in sampled : slots[s].task \in Task
  BY <1>0, SampledHas
<1>4. C \in Seq(Call)
  <2> DEFINE P == IF Streaming THEN sampled ELSE {}
  <2>1. P \in SUBSET Slot /\ stop \in SUBSET Slot /\ \A s \in P \cup stop : slots[s].task \in Task
    BY <1>3
  <2> HIDE DEF P, sampled
  <2>2. ResultCalls(P, stop, "final") \in Seq(Call)
    BY <2>1, ResultCallsAre
  <2> QED BY <2>2 DEF P
<1>5. ASSUME NEW s \in Slot
      PROVE  slots'[s] \in SlotType /\ SlotFits(slots'[s], s, main.batch, ViewEnd)
  <2>1. AfterView(ss[s], s)
    BY <1>0, ActivatedAfter
  <2>2. slots'[s] = IF s \in sampled THEN AfterToken(ss[s], s \in stop) ELSE ss[s]
    BY <1>1
  <2>3. CASE s \in sampled
    <3>1. Samples(ss[s]) /\ (ss[s].n_decoded + 1 = NPredict => s \in stop) /\ (s \in stop) \in BOOLEAN
      BY <1>1, <2>3
    <3> DEFINE sl == ss[s]
               x == s \in stop
    <3>2. AfterView(sl, s) /\ x \in BOOLEAN /\ Samples(sl) /\ (sl.n_decoded + 1 = NPredict => x)
      BY <2>1, <3>1
    <3>3. slots'[s] = AfterToken(sl, x)
      BY <2>2, <2>3
    <3> HIDE DEF sl, x, ss, sampled
    <3> QED BY <1>0, <3>2, <3>3, TokenFits
  <2>4. CASE s \notin sampled
    <3>1. ~ Samples(ss[s]) /\ slots'[s] = ss[s]
      BY <2>2, <2>4
    <3> HIDE DEF ss
    <3> QED BY <1>0, <2>1, <3>1, UnsampledFits
  <2> QED BY <2>3, <2>4
<1> HIDE DEF ss, sampled, C
<1>6. main' = WithCalls(pc, C, b, i, NBatch, 0)
  <2> DEFINE T == Then(pc, C)
             x == main.batch
             y == main.i
             z == main.n_batch
             w == main.n_empty
             c == "calls"
             u == NextResponse
  <2>0. pc \in {"wait", "pop", "decode"}
    OBVIOUS
  <2>1. T = [pc |-> c, cur |-> u, calls |-> C, next |-> pc, batch |-> x, i |-> y, n_batch |-> z, n_empty |-> w]
    <3> HIDE DEF pc
    <3> QED BY <1>0, <1>4, <2>0, ThenIs
  <2>2. main' = [T EXCEPT !.i = i, !.batch = IF last THEN <<>> ELSE @, !.n_batch = NBatch, !.n_empty = 0]
    BY <1>1 DEF C
  <2>3. b = IF last THEN <<>> ELSE x
    OBVIOUS
  <2> HIDE DEF T, x, y, z, w, c, u, last, i, b, pc
  <2>4. main' = [pc |-> c, cur |-> u, calls |-> C, next |-> pc, batch |-> b, i |-> i, n_batch |-> NBatch, n_empty |-> 0]
    BY <2>1, <2>2, <2>3
  <2> QED BY <2>4 DEF c, u, WithCalls
<1>7. /\ pc \in {"wait", "pop", "decode"} /\ b \in Seq(Slot) /\ i \in Nat /\ Len(b) <= NBatch
      /\ (b # <<>> => pc = "decode" /\ i < Len(b)) /\ NBatch \in Nat \ {0}
  <2>1. NBatch \in Nat \ {0} /\ Len(<<>>) = 0 /\ <<>> \in Seq(Slot)
    BY SlotIs
  <2>2. CASE last
    BY <2>1, <2>2
  <2>3. CASE ~ last
    <3>1. ViewEnd < Len(main.batch)
      BY <1>2, <2>3
    <3> QED BY <1>0, <1>2, <2>1, <2>3, <3>1
  <2> QED BY <2>2, <2>3
<1>8. main' \in MainType /\ LoopFits' /\ main'.batch = b /\ main'.i = i
  <2> HIDE DEF pc, b, i
  <2> QED BY <1>0, <1>4, <1>6, <1>7, LoopTypes
<1>9. ASSUME NEW s \in Slot PROVE SlotFits(slots'[s], s, main'.batch, main'.i)
  <2>1. CASE ~ last
    <3>1. b = main.batch /\ i = ViewEnd
      BY <1>2, <2>1
    <3> QED BY <1>5, <1>8, <3>1
  <2>2. CASE last
    <3>1. b = <<>> /\ i = 0 /\ ViewEnd = Len(main.batch)
      BY <1>2, <2>2
    <3>2. Left(main.batch, ViewEnd, s) = Left(<<>>, 0, s)
      <4>1. Left(main.batch, ViewEnd, s) = {}
        BY <1>0, <1>2, <3>1, LeftFinite
      <4>2. Left(<<>>, 0, s) = {}
        BY NoneLeft
      <4> QED BY <4>1, <4>2
    <3>3. \A x : x \notin (ViewEnd + 1) .. Len(main.batch)
      BY <1>2, <3>1
    <3>4. SlotFits(slots'[s], s, <<>>, 0)
      BY <1>5, <3>2, <3>3 DEF SlotFits
    <3> QED BY <1>8, <3>1, <3>4
  <2> QED BY <2>1, <2>2
<1>10. slots' \in [Slot -> SlotType]
  <2>1. slots' = [s \in Slot |-> slots'[s]]
    BY <1>1
  <2> QED BY <1>5, <2>1
<1>11. QueueTypeOK' /\ reader' \in [Reader -> [pc : ReaderStates, got : SUBSET Task]]
  BY <1>0, QueuesSame DEF Fits
<1> QED BY <1>8, <1>9, <1>10, <1>11 DEF Fits

LEMMA FitsStays == Fits /\ [Next]_vars => Fits'
<1> SUFFICES ASSUME Fits, [Next]_vars PROVE Fits'
  OBVIOUS
<1>1. CASE UNCHANGED vars
  <2>1. UNCHANGED <<queues, reader, slots, main>>
    BY <1>1 DEF vars
  <2>2. QueueTypeOK' /\ reader' \in [Reader -> [pc : ReaderStates, got : SUBSET Task]]
    BY <2>1, QueuesSame DEF Fits
  <2> QED BY <2>1, <2>2, FitsSame
<1>2. CASE Loop
  BY <1>2, AnswersFit, LaunchFits, MovesFit, BuildFits, FailureFits, SpeculativeFits, ViewFits DEF Loop
<1>3. CASE \E r \in Reader : ReaderStep(r)
  BY <1>3, ReaderFits
<1> QED BY <1>1, <1>2, <1>3 DEF Next

\* The queues, the readers, the slots and the loop keep their types: no slot takes more
\* tokens than its prompt and its prediction have, and no batch more than n_batch.
THEOREM TypeCorrect == Spec => []TypeOK
<1>1. Fits => TypeOK
  <2> SUFFICES ASSUME Fits PROVE TypeOK
    OBVIOUS
  <2>1. reader \in [Reader -> [pc : {"new", "post", "read", "stop", "purge", "cancel", "done"}, got : SUBSET Task]]
    BY DEF Fits, ReaderStates
  <2>2. main.pc \in MainStates /\ main.next \in MainStates /\ main.n_empty \in 0 .. 4
    BY DEF Fits, MainType, MainStates
  <2> QED BY <2>1, <2>2 DEF Fits, TypeOK, SlotType
<1> QED BY <1>1, InitFits, FitsStays, PTL DEF Spec

\* When no decode is given up on halfway (no speculative context that fails, and no batch
\* split for want of memory while a request has children), the memory holds between two
\* batches every token that was put into one, for the children as well.
THEOREM MemoryCorrect ==
  ASSUME Calm
  PROVE  Spec => []MemoryHoldsPrompt
<1>1. Fits => MemoryHoldsPrompt
  <2> SUFFICES ASSUME Fits, main.pc \in {"wait", "pop", "run", "cancel", "next", "update"}, NEW s \in Slot
               PROVE  slots[s].kv = slots[s].n
    BY DEF MemoryHoldsPrompt
  <2>1. main.batch = <<>> /\ main.i \in Nat
    <3>1. ~ InBatch
      BY DEF InBatch
    <3> QED BY <3>1, LoopParts DEF LoopFits
  <2>2. slots[s].kv + Cardinality(Left(main.batch, main.i, s)) = slots[s].n /\ slots[s].kv \in Nat
    BY LoopParts DEF SlotFits, SlotType
  <2>3. Cardinality(Left(<<>>, main.i, s)) = 0
    BY <2>1, NoneLeft
  <2> QED BY <2>1, <2>2, <2>3
<1> QED BY <1>1, InitFits, FitsStays, PTL DEF Spec

-----------------------------------------------------------------------------
(* Tracked is kept *)

\* Nothing becomes known of a task that was not, and no call is made.
LEMMA RestStays ==
  ASSUME Families, Births, Ends,
         \A t \in Task : /\ Ahead(t)' => Ahead(t)
                         /\ InSlot(t)' => InSlot(t)
                         /\ Unborn(t)' => Unborn(t)
                         /\ Ended(t)' => Ended(t),
         UNCHANGED main.calls
  PROVE  (Families /\ Births /\ Ends)'
<1>1. \A t \in Task : SendsOf(t)' = SendsOf(t) /\ Closed(t)' = Closed(t) /\ LastIsLast(t)' = LastIsLast(t)
  BY DEF SendsOf, Closed, LastIsLast
<1>2. \A t \in Task : Parent[t] # NoTask => Parent[t] \in Task
  BY ServerAssumption
<1>3. Families'
  BY <1>2 DEF Families
<1>4. Births'
  BY <1>1 DEF Births
<1>5. Ends'
  BY <1>1, <1>2 DEF Ends
<1> QED BY <1>3, <1>4, <1>5

LEMMA FamilyIs ==
  ASSUME NEW t \in Task
  PROVE  /\ Owner[t] \in Reader /\ Parent[t] \in Task \cup {NoTask}
         /\ Parent[t] # NoTask => /\ Parent[t] \in Task /\ Parent[Parent[t]] = NoTask
                                  /\ Owner[Parent[t]] = Owner[t]
  BY ServerAssumption

LEMMA InitTracked == Init => Tracked
<1> SUFFICES ASSUME Init PROVE Tracked
  OBVIOUS
<1>1. /\ queue_tasks = <<>> /\ queue_tasks_deferred = <<>> /\ queue_results = <<>> /\ waiting_task_ids = {}
      /\ main.cur = NextResponse /\ main.calls = <<>>
      /\ \A s \in Slot : slots[s].task = NoTask
      /\ \A r \in Reader : reader[r].pc = "new" /\ reader[r].got = {}
  BY DEF Init, QueueInit, IdleMain, FreeSlot
<1>2. ASSUME NEW t \in Task
      PROVE  /\ ~ Queued(t) /\ ~ Deferred(t) /\ ~ InHand(t) /\ ~ Ahead(t) /\ ~ InSlot(t)
             /\ SendsOf(t) = {} /\ ~ Closed(t) /\ LastIsLast(t) /\ ~ Ended(t)
  <2>1. t # NoTask /\ Run(t) # NextResponse
    BY Messages
  <2>2. ~ Queued(t) /\ ~ Deferred(t) /\ ~ InHand(t) /\ ~ InSlot(t)
    BY <1>1, <2>1 DEF Queued, Deferred, InHand, InSlot
  <2>3. SendsOf(t) = {}
    BY <1>1 DEF SendsOf
  <2>4. ~ Ended(t)
    BY <1>1, FamilyIs DEF Ended, ResultsOf
  <2> QED BY <2>2, <2>3, <2>4 DEF Ahead, Closed, LastIsLast
<1>3. Once
  BY <1>1, <1>2 DEF Once
<1>4. Families /\ Births /\ Ends
  BY <1>2, FamilyIs DEF Families, Births, Ends
<1>5. Waiters
  BY <1>1, FamilyIs DEF Waiters
<1>6. NoStrayResult /\ OneFinalResult
  BY <1>1 DEF NoStrayResult, OneFinalResult
<1> QED BY <1>3, <1>4, <1>5, <1>6 DEF Tracked

LEMMA PlacesSame ==
  ASSUME Once, UNCHANGED <<queue_tasks, queue_tasks_deferred, slots>>, main'.cur = main.cur
  PROVE  Once' /\ \A t \in Task : (Ahead(t)' => Ahead(t)) /\ (InSlot(t)' => InSlot(t))
<1>1. \A t \in Task : Queued(t)' = Queued(t) /\ Deferred(t)' = Deferred(t) /\ InHand(t)' = InHand(t) /\ InSlot(t)' = InSlot(t)
  BY DEF Queued, Deferred, InHand, InSlot
<1>2. \A t \in Task : Ahead(t)' = Ahead(t)
  BY <1>1 DEF Ahead
<1>3. Once'
  BY <1>1, <1>2 DEF Once
<1> QED BY <1>1, <1>2, <1>3

LEMMA AnswersSame ==
  ASSUME Waiters, NoStrayResult, OneFinalResult, UNCHANGED <<reader, waiting_task_ids, queue_results>>
  PROVE  /\ (Waiters /\ NoStrayResult /\ OneFinalResult)'
         /\ \A t \in Task : Unborn(t)' = Unborn(t) /\ Ended(t)' = Ended(t)
<1>1. \A t \in Task : Unborn(t)' = Unborn(t) /\ Ended(t)' = Ended(t)
  BY DEF Unborn, Ended, ResultsOf
<1>2. (Waiters /\ NoStrayResult /\ OneFinalResult)'
  BY DEF Waiters, NoStrayResult, OneFinalResult
<1> QED BY <1>1, <1>2

LEMMA GotoIs ==
  ASSUME Fits, NEW r \in Reader, NEW pc, Goto(r, pc)
  PROVE  \A x \in Reader : /\ reader'[x].pc = IF x = r THEN pc ELSE reader[x].pc
                           /\ reader'[x].got = reader[x].got
  BY DEF Goto, Fits

\* A result is for a task.
LEMMA ResultIs ==
  ASSUME QueueTypeOK, NEW i \in DOMAIN queue_results
  PROVE  /\ queue_results[i].task \in Task /\ queue_results[i].kind \in {"partial", "final", "error"}
         /\ Owner[queue_results[i].task] \in Reader
<1>1. queue_results[i] \in Result
  BY DEF QueueTypeOK
<1> QED BY <1>1, FamilyIs DEF Result

\* The steps of a reader that take nothing from the queues of tasks.
LEMMA WaitTracked ==
  ASSUME Fits, Tracked, NEW r \in Reader, Register(r) \/ Leave(r) \/ StopWaiting(r)
  PROVE  Tracked'
<1>0. Once /\ Families /\ Births /\ Ends /\ Waiters /\ NoStrayResult /\ OneFinalResult /\ QueueTypeOK
  BY LoopParts DEF Tracked
<1>1. UNCHANGED <<queue_tasks, queue_tasks_deferred, queue_results, slots, main>>
  BY DEF Register, Leave, StopWaiting, AddWaiting, RemoveWaiting, queues
<1>2. Once' /\ \A t \in Task : (Ahead(t)' => Ahead(t)) /\ (InSlot(t)' => InSlot(t))
  BY <1>0, <1>1, PlacesSame
<1>3. PICK pc \in {"post", "stop", "purge", "done"} : Goto(r, pc)
  BY DEF Register, Leave, StopWaiting
<1>4. \A x \in Reader : /\ reader'[x].pc = IF x = r THEN pc ELSE reader[x].pc
                        /\ reader'[x].got = reader[x].got
  BY <1>3, GotoIs
<1>5. \A t \in Task : Ended(t)' = Ended(t)
  BY <1>1, <1>4, FamilyIs DEF Ended, ResultsOf
<1>7. pc = "post" => reader[r].pc = "new"
  <2>1. CASE Register(r)
    BY <2>1 DEF Register
  <2>2. CASE Leave(r)
    <3>1. reader'[r].pc = "stop"
      BY <2>2, GotoIs DEF Leave
    <3> QED BY <1>4, <3>1
  <2>3. CASE StopWaiting(r)
    <3>1. reader'[r].pc \in {"purge", "done"}
      BY <2>3, GotoIs DEF StopWaiting
    <3> QED BY <1>4, <3>1
  <2> QED BY <2>1, <2>2, <2>3
<1>8. \A t \in Task : Unborn(t)' => Unborn(t)
  BY <1>4, <1>7, FamilyIs DEF Unborn
<1>9. (Families /\ Births /\ Ends)'
  BY <1>0, <1>1, <1>2, <1>5, <1>8, RestStays
<1>10. Waiters'
  <2>1. CASE Register(r)
    <3>1. \A x \in Reader : reader'[x].pc = IF x = r THEN "post" ELSE reader[x].pc
      BY <2>1, GotoIs DEF Register
    <3>2. waiting_task_ids' = waiting_task_ids \cup TasksOf(r)
      BY <2>1 DEF Register, AddWaiting
    <3> QED BY <1>0, <1>4, <3>1, <3>2, FamilyIs DEF Waiters, TasksOf
  <2>2. CASE Leave(r)
    <3>1. \A x \in Reader : reader'[x].pc = IF x = r THEN "stop" ELSE reader[x].pc
      BY <2>2, GotoIs DEF Leave
    <3>2. waiting_task_ids' = waiting_task_ids /\ reader[r].pc = "read"
      BY <2>2 DEF Leave, queues
    <3> QED BY <1>0, <1>4, <3>1, <3>2, FamilyIs DEF Waiters
  <2>3. CASE StopWaiting(r)
    <3>1. \A x \in Reader : x # r => reader'[x].pc = reader[x].pc
      BY <1>4
    <3>2. reader'[r].pc \in {"purge", "done"}
      BY <2>3, GotoIs DEF StopWaiting
    <3>3. waiting_task_ids' = waiting_task_ids \ TasksOf(r)
      BY <2>3 DEF StopWaiting, RemoveWaiting
    <3> QED BY <1>0, <1>4, <3>1, <3>2, <3>3, FamilyIs DEF Waiters, TasksOf
  <2> QED BY <2>1, <2>2, <2>3
<1>11. NoStrayResult'
  <2> SUFFICES ASSUME NEW i \in DOMAIN queue_results
               PROVE  reader'[Owner[queue_results[i].task]].pc \in {"post", "read", "stop", "purge"}
    BY <1>1 DEF NoStrayResult
  <2> DEFINE t == queue_results[i].task
  <2>1. t \in Task /\ Owner[t] \in Reader /\ reader[Owner[t]].pc \in {"post", "read", "stop", "purge"}
    BY <1>0, ResultIs DEF NoStrayResult
  <2>2. CASE pc # "done"
    BY <1>4, <2>1, <2>2
  <2>3. CASE pc = "done" /\ Owner[t] = r
    <3>1. StopWaiting(r)
      <4>1. CASE Register(r)
        <5>1. reader'[r].pc = "post"
          BY <4>1, GotoIs DEF Register
        <5> QED BY <1>4, <2>3, <5>1
      <4>2. CASE Leave(r)
        <5>1. reader'[r].pc = "stop"
          BY <4>2, GotoIs DEF Leave
        <5> QED BY <1>4, <2>3, <5>1
      <4> QED BY <4>1, <4>2
    <3>2. reader[r].got = TasksOf(r)
      <4>1. CASE HasNext(r)
        <5>1. reader'[r].pc = "purge"
          BY <3>1, <4>1, GotoIs DEF StopWaiting
        <5> QED BY <1>4, <2>3, <5>1
      <4> QED BY <4>1 DEF HasNext
    <3>3. t \in reader[Owner[t]].got
      BY <2>1, <2>3, <3>2 DEF TasksOf
    <3> QED BY <1>0, <3>3 DEF OneFinalResult
  <2>4. CASE Owner[t] # r
    BY <1>4, <2>1, <2>4
  <2> QED BY <2>2, <2>3, <2>4
<1>12. OneFinalResult'
  <2>1. \A i \in DOMAIN queue_results : reader'[Owner[queue_results[i].task]].got = reader[Owner[queue_results[i].task]].got
    BY <1>0, <1>4, ResultIs
  <2> QED BY <1>0, <1>1, <2>1 DEF OneFinalResult
<1> QED BY <1>2, <1>9, <1>10, <1>11, <1>12 DEF Tracked

\* The first result for a reader's tasks is taken; if it is the final one of its task,
\* there is no other.
LEMMA ReceiveTracked ==
  ASSUME Fits, Tracked, NEW r \in Reader, Receive(r)
  PROVE  Tracked'
<1>0. Once /\ Families /\ Births /\ Ends /\ Waiters /\ NoStrayResult /\ OneFinalResult /\ QueueTypeOK
  BY LoopParts DEF Tracked
<1> DEFINE f == FirstOf(TasksOf(r))
           res == queue_results[f]
           got == IF res.kind = "final" THEN reader[r].got \cup {res.task} ELSE reader[r].got
           pc == IF res.kind = "error" \/ got = TasksOf(r) THEN "stop" ELSE "read"
           n == Len(queue_results)
<1>1. /\ UNCHANGED <<queue_tasks, queue_tasks_deferred, waiting_task_ids, slots, main>>
      /\ queue_results' = RemoveAt(queue_results, f) /\ f # 0 /\ reader[r].pc = "read"
      /\ reader' = [reader EXCEPT ![r] = [pc |-> pc, got |-> got]]
  BY DEF Receive, Recv
<1>2. f \in 1 .. n /\ res.task \in TasksOf(r) /\ \A j \in 1 .. n : queue_results[j].task \in TasksOf(r) => f <= j
  BY <1>0, <1>1, FirstOfIs
<1>3. queue_results \in Seq(Result) /\ n \in Nat /\ DOMAIN queue_results = 1 .. n
  BY <1>0 DEF QueueTypeOK
<1> HIDE DEF f, n
<1>4. /\ queue_results' \in Seq(Result) /\ DOMAIN queue_results' = 1 .. n - 1
      /\ \A k \in 1 .. n - 1 : queue_results'[k] = queue_results[IF k < f THEN k ELSE k + 1]
  <2>1. /\ RemoveAt(queue_results, f) \in Seq(Result) /\ Len(RemoveAt(queue_results, f)) = n - 1
        /\ \A k \in 1 .. n - 1 : RemoveAt(queue_results, f)[k] = queue_results[IF k < f THEN k ELSE k + 1]
    BY <1>2, <1>3, RemovedAt DEF n
  <2>2. queue_results' \in Seq(Result) /\ Len(queue_results') = n - 1
    BY <1>1, <2>1
  <2> QED BY <1>1, <2>1, <2>2
<1> DEFINE at(k) == IF k < f THEN k ELSE k + 1
<1>5. /\ \A k \in DOMAIN queue_results' : at(k) \in DOMAIN queue_results /\ at(k) # f /\ queue_results'[k] = queue_results[at(k)]
      /\ \A k, l \in DOMAIN queue_results' : k < l => at(k) < at(l)
  <2>1. \A k \in 1 .. n - 1 : at(k) \in 1 .. n /\ at(k) # f
    BY <1>2, <1>3
  <2>2. \A k, l \in 1 .. n - 1 : k < l => at(k) < at(l)
    BY <1>2, <1>3
  <2> QED BY <1>3, <1>4, <2>1, <2>2
<1> HIDE DEF at
<1>6. \A x \in Reader : /\ reader'[x].pc = IF x = r THEN pc ELSE reader[x].pc
                        /\ reader'[x].got = IF x = r THEN got ELSE reader[x].got
  BY <1>1 DEF Fits
<1>7. pc \in {"read", "stop"}
  OBVIOUS
<1>8. res.task \in Task /\ Owner[res.task] = r
  BY <1>2 DEF TasksOf
<1> HIDE DEF pc
<1>9. Once' /\ \A t \in Task : (Ahead(t)' => Ahead(t)) /\ (InSlot(t)' => InSlot(t))
  BY <1>0, <1>1, PlacesSame
<1>10. \A t \in Task : Unborn(t)' => Unborn(t)
  BY <1>6, <1>7, FamilyIs DEF Unborn
<1>11. ASSUME NEW t \in Task, t \in reader'[Owner[t]].got
       PROVE  t \in reader[Owner[t]].got \/ (t = res.task /\ res.kind = "final")
  BY <1>6, <1>11, FamilyIs
<1>12. ASSUME NEW t \in Task, Ended(t)' PROVE Ended(t)
  <2>1. CASE t \in reader'[Owner[t]].got
    <3>1. CASE t = res.task /\ res.kind = "final"
      <4>1. f \in ResultsOf(t) /\ queue_results[f].kind # "partial"
        BY <1>2, <1>3, <3>1 DEF ResultsOf
      <4> QED BY <4>1 DEF Ended
    <3> QED BY <1>11, <2>1, <3>1 DEF Ended
  <2>2. CASE \E k \in DOMAIN queue_results' : queue_results'[k].task = t /\ queue_results'[k].kind # "partial"
    <3>1. PICK k \in DOMAIN queue_results' : queue_results'[k].task = t /\ queue_results'[k].kind # "partial"
      BY <2>2
    <3>2. at(k) \in ResultsOf(t) /\ queue_results[at(k)].kind # "partial"
      BY <1>5, <3>1 DEF ResultsOf
    <3> QED BY <3>2 DEF Ended
  <2> QED BY <1>12, <2>1, <2>2 DEF Ended, ResultsOf
<1>13. (Families /\ Births /\ Ends)'
  BY <1>0, <1>1, <1>9, <1>10, <1>12, RestStays
<1>14. Waiters'
  <2>1. got \in SUBSET TasksOf(r)
    BY <1>0, <1>2 DEF Waiters
  <2>2. \A x \in Reader : reader'[x].got \subseteq TasksOf(x)
    BY <1>0, <1>6, <2>1 DEF Waiters
  <2>3. \A x \in Reader : reader'[x].pc \in {"post", "read", "stop"} <=> reader[x].pc \in {"post", "read", "stop"}
    BY <1>1, <1>6, <1>7
  <2> QED BY <1>0, <1>1, <2>2, <2>3, FamilyIs DEF Waiters
<1>15. NoStrayResult'
  <2> SUFFICES ASSUME NEW k \in DOMAIN queue_results'
               PROVE  reader'[Owner[queue_results'[k].task]].pc \in {"post", "read", "stop", "purge"}
    BY DEF NoStrayResult
  <2> DEFINE t == queue_results[at(k)].task
  <2>1. queue_results'[k].task = t /\ Owner[t] \in Reader /\ reader[Owner[t]].pc \in {"post", "read", "stop", "purge"}
    BY <1>0, <1>5, ResultIs DEF NoStrayResult
  <2> QED BY <1>6, <1>7, <2>1
<1>16. OneFinalResult'
  <2>1. ASSUME NEW k \in DOMAIN queue_results'
        PROVE  queue_results'[k].task \notin reader'[Owner[queue_results'[k].task]].got
    <3> DEFINE t == queue_results[at(k)].task
    <3>1. /\ queue_results'[k].task = t /\ t \in Task /\ at(k) \in DOMAIN queue_results /\ at(k) # f
          /\ t \notin reader[Owner[t]].got
      BY <1>0, <1>5, ResultIs DEF OneFinalResult
    <3>2. ~ (t = res.task /\ res.kind = "final")
      <4> SUFFICES ASSUME t = res.task, res.kind = "final" PROVE FALSE
        OBVIOUS
      <4>1. at(k) \in 1 .. n /\ f <= at(k) /\ at(k) # f
        BY <1>2, <1>3, <3>1
      <4>2. f < at(k)
        BY <1>2, <1>3, <4>1
      <4>3. queue_results[f].kind = "partial"
        BY <1>0, <1>2, <1>3, <3>1, <4>2 DEF OneFinalResult
      <4> QED BY <4>3
    <3> HIDE DEF t
    <3> QED BY <1>11, <3>1, <3>2
  <2>2. ASSUME NEW k \in DOMAIN queue_results', NEW l \in DOMAIN queue_results', l > k,
               queue_results'[l].task = queue_results'[k].task
        PROVE  queue_results'[k].kind = "partial"
    <3>7. DOMAIN queue_results' = 1 .. n - 1
      BY <1>4
    <3>8. l > k
      BY <2>2
    <3>0. k \in 1 .. n - 1 /\ l \in 1 .. n - 1 /\ n \in Nat
      BY <1>3, <3>7
    <3>1. k < l
      BY <3>0, <3>8
    <3>2. at(k) < at(l) /\ at(k) \in DOMAIN queue_results /\ at(l) \in DOMAIN queue_results
          /\ queue_results'[k] = queue_results[at(k)] /\ queue_results'[l] = queue_results[at(l)]
      BY <1>5, <3>1
    <3>3. at(l) > at(k)
      BY <1>3, <3>2
    <3> QED BY <1>0, <2>2, <3>2, <3>3 DEF OneFinalResult
  <2> QED BY <2>1, <2>2 DEF OneFinalResult
<1> QED BY <1>9, <1>13, <1>14, <1>15, <1>16 DEF Tracked

\* Nothing of a reader's results is left behind.
LEMMA PurgeTracked ==
  ASSUME Fits, Tracked, NEW r \in Reader, Purge(r)
  PROVE  Tracked'
<1>0. Once /\ Families /\ Births /\ Ends /\ Waiters /\ NoStrayResult /\ OneFinalResult /\ QueueTypeOK
  BY LoopParts DEF Tracked
<1>1. /\ UNCHANGED <<queue_tasks, queue_tasks_deferred, slots, main>> /\ RemoveWaitingAndResults(TasksOf(r))
      /\ waiting_task_ids' = waiting_task_ids \ TasksOf(r) /\ Goto(r, "cancel") /\ reader[r].pc = "purge"
  BY DEF Purge, RemoveWaitingAndResults
<1>2. \A x \in Reader : /\ reader'[x].pc = IF x = r THEN "cancel" ELSE reader[x].pc
                        /\ reader'[x].got = reader[x].got
  BY <1>1, GotoIs
<1>3. /\ QueueTypeOK'
      /\ \A k \in 1 .. Len(queue_results') : \E i \in 1 .. Len(queue_results) :
            queue_results'[k] = queue_results[i] /\ queue_results[i].task \notin TasksOf(r)
      /\ \A k, l \in 1 .. Len(queue_results') : k < l => \E i, j \in 1 .. Len(queue_results) :
            queue_results'[k] = queue_results[i] /\ queue_results'[l] = queue_results[j] /\ i < j
  BY <1>0, <1>1, PurgedIs
<1>4. DOMAIN queue_results' = 1 .. Len(queue_results') /\ DOMAIN queue_results = 1 .. Len(queue_results)
  BY <1>0, <1>3 DEF QueueTypeOK
<1>5. Once' /\ \A t \in Task : (Ahead(t)' => Ahead(t)) /\ (InSlot(t)' => InSlot(t))
  BY <1>0, <1>1, PlacesSame
<1>6. \A t \in Task : Unborn(t)' => Unborn(t)
  BY <1>2, FamilyIs DEF Unborn
<1>7. ASSUME NEW t \in Task, Ended(t)' PROVE Ended(t)
  <2>1. CASE t \in reader'[Owner[t]].got
    BY <1>2, <2>1, FamilyIs DEF Ended
  <2>2. CASE \E k \in DOMAIN queue_results' : queue_results'[k].task = t /\ queue_results'[k].kind # "partial"
    <3>1. \E i \in DOMAIN queue_results : queue_results[i].task = t /\ queue_results[i].kind # "partial"
      <4>1. \A k \in DOMAIN queue_results' : \E i \in DOMAIN queue_results : queue_results'[k] = queue_results[i]
        BY <1>3, <1>4
      <4> QED BY <2>2, <4>1
    <3> QED BY <3>1 DEF Ended, ResultsOf
  <2> QED BY <1>7, <2>1, <2>2 DEF Ended, ResultsOf
<1>8. (Families /\ Births /\ Ends)'
  BY <1>0, <1>1, <1>5, <1>6, <1>7, RestStays
<1>9. Waiters'
  BY <1>0, <1>1, <1>2, FamilyIs DEF Waiters, TasksOf
<1>10. ASSUME NEW k \in DOMAIN queue_results'
       PROVE  /\ reader'[Owner[queue_results'[k].task]].pc \in {"post", "read", "stop", "purge"}
              /\ queue_results'[k].task \notin reader'[Owner[queue_results'[k].task]].got
  <2>1. PICK i \in DOMAIN queue_results : queue_results'[k] = queue_results[i] /\ queue_results[i].task \notin TasksOf(r)
    BY <1>3, <1>4
  <2> DEFINE t == queue_results[i].task
  <2>2. t \in Task /\ Owner[t] \in Reader /\ Owner[t] # r
    BY <1>0, <2>1, ResultIs DEF TasksOf
  <2>3. reader[Owner[t]].pc \in {"post", "read", "stop", "purge"} /\ t \notin reader[Owner[t]].got
    BY <1>0 DEF NoStrayResult, OneFinalResult
  <2> QED BY <1>2, <2>1, <2>2, <2>3
<1>11. NoStrayResult'
  BY <1>10 DEF NoStrayResult
<1>12. ASSUME NEW k \in DOMAIN queue_results', NEW l \in DOMAIN queue_results', l > k,
              queue_results'[l].task = queue_results'[k].task
       PROVE  queue_results'[k].kind = "partial"
  <2>1. k < l
    BY <1>4, <1>12
  <2>2. PICK i, j \in DOMAIN queue_results :
           queue_results'[k] = queue_results[i] /\ queue_results'[l] = queue_results[j] /\ i < j
    BY <1>3, <1>4, <2>1
  <2>3. j > i
    BY <1>4, <2>2
  <2> QED BY <1>0, <1>12, <2>2, <2>3 DEF OneFinalResult
<1>13. OneFinalResult'
  BY <1>10, <1>12 DEF OneFinalResult
<1> QED BY <1>5, <1>8, <1>9, <1>11, <1>13 DEF Tracked

LEMMA TasksOfFinite ==
  ASSUME NEW r
  PROVE  TasksOf(r) \in SUBSET Task /\ IsFiniteSet(TasksOf(r))
<1>1. TasksOf(r) \in SUBSET Task
  BY DEF TasksOf
<1> QED BY <1>1, TaskAssumption, FS_Subset

\* Cancelling takes tasks out of the queues and adds none.
LEMMA CancelTracked ==
  ASSUME Fits, Tracked, NEW r \in Reader, Cancel(r)
  PROVE  Tracked'
<1>0. Once /\ Families /\ Births /\ Ends /\ Waiters /\ NoStrayResult /\ OneFinalResult /\ QueueTypeOK
  BY LoopParts DEF Tracked
<1>1. PICK ts \in SetToSeqs(TasksOf(r)) : PostCancels(ts)
  BY DEF Cancel
<1>2. ts \in Seq(Task)
  <2>1. ts \in [1 .. Cardinality(TasksOf(r)) -> TasksOf(r)] /\ Cardinality(TasksOf(r)) \in Nat /\ TasksOf(r) \in SUBSET Task
    BY TasksOfFinite, FS_CardinalityType DEF SetToSeqs
  <2> QED BY <2>1
<1> DEFINE T == Range(ts)
           c == Cancels(ts)
           q == CleanedQueue(T)
           d == CleanedDeferred(T)
<1>3. /\ queue_tasks' = c \o q /\ queue_tasks_deferred' = d
      /\ UNCHANGED <<waiting_task_ids, queue_results, slots, main>>
      /\ Goto(r, "done") /\ reader[r].pc = "cancel"
  BY <1>1 DEF Cancel, PostCancels, Cancels
<1>4. /\ c \in Seq(Message) /\ \A i \in 1 .. Len(c) : c[i].type = "cancel"
  BY <1>2, CancelsAre
<1>5. /\ q \in Seq(Message)
      /\ \A k \in 1 .. Len(q) : \E i \in 1 .. Len(queue_tasks) : q[k] = queue_tasks[i]
      /\ \A k, l \in 1 .. Len(q) : k < l => \E i, j \in 1 .. Len(queue_tasks) :
            q[k] = queue_tasks[i] /\ q[l] = queue_tasks[j] /\ i < j
      /\ d \in Seq(Task)
      /\ \A k \in 1 .. Len(d) : \E i \in 1 .. Len(queue_tasks_deferred) : d[k] = queue_tasks_deferred[i]
      /\ \A k, l \in 1 .. Len(d) : k < l => \E i, j \in 1 .. Len(queue_tasks_deferred) :
            d[k] = queue_tasks_deferred[i] /\ d[l] = queue_tasks_deferred[j] /\ i < j
  BY <1>0, CleanedIs
<1> HIDE DEF T, c, q, d
<1>6. /\ c \o q \in Seq(Message) /\ Len(c \o q) = Len(c) + Len(q)
      /\ \A k \in 1 .. Len(c) + Len(q) : (c \o q)[k] = IF k <= Len(c) THEN c[k] ELSE q[k - Len(c)]
  BY <1>4, <1>5, Concat
<1> DEFINE N == Len(c)
           M == Len(q)
<1>7. /\ N \in Nat /\ M \in Nat /\ DOMAIN queue_tasks' = 1 .. N + M
      /\ \A k \in 1 .. N + M : queue_tasks'[k] = IF k <= N THEN c[k] ELSE q[k - N]
      /\ DOMAIN queue_tasks = 1 .. Len(queue_tasks) /\ DOMAIN queue_tasks_deferred = 1 .. Len(queue_tasks_deferred)
      /\ DOMAIN queue_tasks_deferred' = 1 .. Len(d) /\ Len(d) \in Nat
      /\ Len(queue_tasks) \in Nat /\ Len(queue_tasks_deferred) \in Nat
  BY <1>0, <1>3, <1>4, <1>5, <1>6 DEF QueueTypeOK
<1>8. ASSUME NEW k \in DOMAIN queue_tasks', queue_tasks'[k].type = "run"
      PROVE  k - N \in 1 .. M /\ queue_tasks'[k] = q[k - N] /\ k \in Int
  <2>1. k \in 1 .. N + M
    BY <1>7
  <2>2. CASE k <= N
    <3>1. k \in 1 .. N /\ queue_tasks'[k] = c[k]
      BY <1>7, <2>1, <2>2
    <3> QED BY <1>4, <1>8, <3>1
  <2>3. CASE ~ k <= N
    <3>1. k - N \in 1 .. M
      BY <1>7, <2>1, <2>3
    <3> QED BY <1>7, <2>1, <2>3, <3>1
  <2> QED BY <2>2, <2>3
<1> HIDE DEF N, M
<1>9. \A t \in Task : Queued(t)' => Queued(t)
  <2> SUFFICES ASSUME NEW t \in Task, NEW k \in DOMAIN queue_tasks', queue_tasks'[k] = Run(t) PROVE Queued(t)
    BY DEF Queued
  <2>1. k - N \in 1 .. M /\ queue_tasks'[k] = q[k - N]
    BY <1>8, Messages
  <2>2. \A a \in 1 .. M : \E i \in DOMAIN queue_tasks : q[a] = queue_tasks[i]
    BY <1>5, <1>7 DEF M
  <2>3. \E i \in DOMAIN queue_tasks : q[k - N] = queue_tasks[i]
    BY <2>1, <2>2
  <2> QED BY <2>1, <2>3 DEF Queued
<1>10. \A t \in Task : (Deferred(t)' => Deferred(t)) /\ InHand(t)' = InHand(t) /\ InSlot(t)' = InSlot(t)
  <2>1. \A a \in DOMAIN queue_tasks_deferred' : \E i \in DOMAIN queue_tasks_deferred :
           queue_tasks_deferred'[a] = queue_tasks_deferred[i]
    BY <1>3, <1>5, <1>7, SMTT(30)
  <2>2. \A t \in Task : Deferred(t)' => Deferred(t)
    BY <2>1 DEF Deferred
  <2>3. \A t \in Task : InHand(t)' = InHand(t) /\ InSlot(t)' = InSlot(t)
    BY <1>3 DEF InHand, InSlot
  <2> QED BY <2>2, <2>3
<1>11. \A t \in Task : Ahead(t)' => Ahead(t)
  BY <1>9, <1>10 DEF Ahead
<1>12. Once'
  <2>1. ASSUME NEW k \in DOMAIN queue_tasks', NEW l \in DOMAIN queue_tasks', queue_tasks'[k] = queue_tasks'[l],
               queue_tasks'[k].type = "run"
        PROVE  k = l
    <3>1. /\ k - N \in 1 .. M /\ queue_tasks'[k] = q[k - N] /\ k \in Int
          /\ l - N \in 1 .. M /\ queue_tasks'[l] = q[l - N] /\ l \in Int
      BY <1>8, <2>1
    <3>2. \A a, b \in 1 .. M : a < b => \E i, j \in DOMAIN queue_tasks :
            q[a] = queue_tasks[i] /\ q[b] = queue_tasks[j] /\ i < j
      BY <1>5, <1>7, ZenonT(60) DEF M
    <3>3. \A i, j \in DOMAIN queue_tasks : queue_tasks[i] = queue_tasks[j] /\ queue_tasks[i].type = "run" => ~ i < j
      <4>1. \A i \in DOMAIN queue_tasks : ~ i < i
        BY <1>7
      <4> QED BY <1>0, <4>1 DEF Once
    <3> DEFINE a == k - N
               b == l - N
    <3>4. a \in 1 .. M /\ b \in 1 .. M /\ q[a] = q[b] /\ q[a].type = "run"
      BY <2>1, <3>1
    <3> HIDE DEF a, b
    <3>5. ~ a < b /\ ~ b < a
      BY <3>2, <3>3, <3>4
    <3>6. a = b
      BY <1>7, <3>4, <3>5
    <3> QED BY <1>7, <3>1, <3>6 DEF a, b
  <2>2. ASSUME NEW k \in DOMAIN queue_tasks_deferred', NEW l \in DOMAIN queue_tasks_deferred',
               queue_tasks_deferred'[k] = queue_tasks_deferred'[l]
        PROVE  k = l
    <3>1. k \in 1 .. Len(d) /\ l \in 1 .. Len(d) /\ k \in Int /\ l \in Int /\ d[k] = d[l]
      BY <1>3, <1>7, <2>2
    <3>2. \A i, j \in 1 .. Len(queue_tasks_deferred) : queue_tasks_deferred[i] = queue_tasks_deferred[j] => ~ i < j
      <4>1. \A i, j \in 1 .. Len(queue_tasks_deferred) : queue_tasks_deferred[i] = queue_tasks_deferred[j] => i = j
        BY <1>0, <1>7 DEF Once
      <4>2. \A i \in 1 .. Len(queue_tasks_deferred) : ~ i < i
        BY <1>7
      <4> QED BY <4>1, <4>2
    <3>4. \A a, b \in 1 .. Len(d) : a < b => \E i, j \in 1 .. Len(queue_tasks_deferred) :
            d[a] = queue_tasks_deferred[i] /\ d[b] = queue_tasks_deferred[j] /\ i < j
      BY <1>5
    <3>3. ~ k < l /\ ~ l < k
      BY <3>1, <3>2, <3>4
    <3> QED BY <3>1, <3>3
  <2>3. \A s, x \in Slot : slots'[s].task = slots'[x].task /\ slots'[s].task # NoTask => s = x
    BY <1>0, <1>3 DEF Once
  <2>4. \A t \in Task : /\ Queued(t)' => ~ Deferred(t)' /\ ~ InHand(t)'
                        /\ Deferred(t)' => ~ InHand(t)'
                        /\ Ahead(t)' => ~ InSlot(t)'
    BY <1>0, <1>9, <1>10, <1>11 DEF Once
  <2> QED BY <2>1, <2>2, <2>3, <2>4 DEF Once
<1>13. \A x \in Reader : /\ reader'[x].pc = IF x = r THEN "done" ELSE reader[x].pc
                         /\ reader'[x].got = reader[x].got
  BY <1>3, GotoIs
<1>14. \A t \in Task : (Unborn(t)' => Unborn(t)) /\ Ended(t)' = Ended(t)
  BY <1>3, <1>13, FamilyIs DEF Unborn, Ended, ResultsOf
<1>15. (Families /\ Births /\ Ends)'
  BY <1>0, <1>3, <1>10, <1>11, <1>14, RestStays
<1>16. Waiters'
  BY <1>0, <1>3, <1>13, FamilyIs DEF Waiters
<1>17. \A i \in DOMAIN queue_results : /\ Owner[queue_results[i].task] \in Reader
                                       /\ reader[Owner[queue_results[i].task]].pc # "cancel"
  BY <1>0, ResultIs DEF NoStrayResult
<1>18. NoStrayResult' /\ OneFinalResult'
  <2>1. NoStrayResult'
    BY <1>0, <1>3, <1>13, <1>17 DEF NoStrayResult
  <2>2. OneFinalResult'
    BY <1>0, <1>3, <1>13, <1>17 DEF OneFinalResult
  <2> QED BY <2>1, <2>2
<1> QED BY <1>12, <1>15, <1>16, <1>18 DEF Tracked

\* A request brings tasks that the server has not seen.
LEMMA PostTracked ==
  ASSUME Fits, Tracked, NEW r \in Reader, Post(r)
  PROVE  Tracked'
<1>0. Once /\ Families /\ Births /\ Ends /\ Waiters /\ NoStrayResult /\ OneFinalResult /\ QueueTypeOK
  BY LoopParts DEF Tracked
<1> DEFINE S == {t \in TasksOf(r) : Parent[t] = NoTask}
           ts == InOrder(S)
           ms == [i \in DOMAIN ts |-> Run(ts[i])]
           n == Len(ms)
           N == Len(queue_tasks)
<1>1. /\ reader[r].pc = "post" /\ Goto(r, "read") /\ queue_tasks' = queue_tasks \o ms
      /\ UNCHANGED <<queue_tasks_deferred, waiting_task_ids, queue_results, slots, main>>
  BY DEF Post, PostBack
<1>2. \A x \in Reader : /\ reader'[x].pc = IF x = r THEN "read" ELSE reader[x].pc
                        /\ reader'[x].got = reader[x].got
  BY <1>1, GotoIs
<1>3. S \in SUBSET Task /\ (\A x \in S : x \in Int) /\ IsFiniteSet(S) /\ \A t \in S : Owner[t] = r /\ Parent[t] = NoTask
  <2>1. S \in SUBSET Task /\ S \in SUBSET TasksOf(r) /\ \A t \in S : Owner[t] = r /\ Parent[t] = NoTask
    BY DEF TasksOf
  <2> HIDE DEF S
  <2>2. IsFiniteSet(S)
    BY <2>1, TasksOfFinite, FS_Subset
  <2> QED BY <2>1, <2>2, TaskAssumption
<1> HIDE DEF S
<1>4. ts \in Seq(S) /\ DOMAIN ts = 1 .. Len(ts) /\ \A k, l \in DOMAIN ts : ts[k] = ts[l] => k = l
  BY <1>3, InOrderIs
<1> HIDE DEF ts
<1>5. /\ ms \in Seq(Message) /\ Len(ms) = Len(ts)
      /\ \A k \in 1 .. Len(ts) : ts[k] \in S /\ ms[k] = Run(ts[k])
  <2>1. \A k \in 1 .. Len(ts) : ts[k] \in S
    BY <1>4
  <2>2. \A k \in 1 .. Len(ts) : Run(ts[k]) \in Message
    BY <1>3, <2>1, Messages
  <2>3. ms = [k \in 1 .. Len(ts) |-> Run(ts[k])] /\ Len(ts) \in Nat
    BY <1>4
  <2> DEFINE run(k) == Run(ts[k])
  <2>4. ms = [k \in 1 .. Len(ts) |-> run(k)] /\ Len(ts) \in Nat /\ \A k \in 1 .. Len(ts) : run(k) \in Message
    BY <2>2, <2>3
  <2> HIDE DEF ms, run
  <2>5. ms \in Seq(Message) /\ Len(ms) = Len(ts) /\ \A k \in 1 .. Len(ts) : ms[k] = run(k)
    BY <2>4
  <2> QED BY <2>1, <2>5 DEF run
<1> HIDE DEF ms
<1>6. /\ queue_tasks \o ms \in Seq(Message) /\ Len(queue_tasks \o ms) = N + n
      /\ \A k \in 1 .. N + n : (queue_tasks \o ms)[k] = IF k <= N THEN queue_tasks[k] ELSE ms[k - N]
  BY <1>0, <1>5, Concat DEF QueueTypeOK
<1>7. N \in Nat /\ n \in Nat /\ DOMAIN queue_tasks = 1 .. N /\ DOMAIN queue_tasks' = 1 .. N + n /\ n = Len(ts)
  BY <1>0, <1>1, <1>5, <1>6 DEF QueueTypeOK
<1> HIDE DEF n, N
<1>8. ASSUME NEW k \in DOMAIN queue_tasks'
      PROVE  \/ k \in DOMAIN queue_tasks /\ queue_tasks'[k] = queue_tasks[k]
             \/ k - N \in 1 .. n /\ k \in Int /\ queue_tasks'[k] = Run(ts[k - N]) /\ ts[k - N] \in S
  <2>1. k \in 1 .. N + n
    BY <1>7
  <2>2. CASE k <= N
    BY <1>1, <1>6, <1>7, <2>1, <2>2
  <2>3. CASE ~ k <= N
    <3>1. k - N \in 1 .. n /\ k \in Int
      BY <1>7, <2>1, <2>3
    <3> QED BY <1>1, <1>5, <1>6, <1>7, <2>1, <2>3, <3>1
  <2> QED BY <2>2, <2>3
<1>9. \A t \in Task : Owner[t] = r => Unborn(t) /\ ~ Ahead(t) /\ ~ InSlot(t) /\ SendsOf(t) = {} /\ ~ Ended(t) /\ ~ Closed(t)
  <2>1. \A t \in Task : Owner[t] = r => Unborn(t)
    BY <1>1 DEF Unborn
  <2> QED BY <1>0, <2>1 DEF Births, Closed
<1>10. \A t \in Task : Queued(t)' => Queued(t) \/ t \in S
  <2> SUFFICES ASSUME NEW t \in Task, NEW k \in DOMAIN queue_tasks', queue_tasks'[k] = Run(t)
               PROVE  Queued(t) \/ t \in S
    BY DEF Queued
  <2>1. CASE k \in DOMAIN queue_tasks /\ queue_tasks'[k] = queue_tasks[k]
    BY <2>1 DEF Queued
  <2>2. CASE k - N \in 1 .. n /\ queue_tasks'[k] = Run(ts[k - N]) /\ ts[k - N] \in S
    <3> DEFINE u == ts[k - N]
    <3>1. u \in S /\ Run(u) = Run(t)
      BY <2>2
    <3> HIDE DEF u
    <3>2. u \in Task
      BY <1>3, <3>1
    <3>3. u = t
      BY <3>1, <3>2, Messages
    <3> QED BY <3>1, <3>3
  <2> QED BY <1>8, <2>1, <2>2
<1>11. \A t \in Task : Deferred(t)' = Deferred(t) /\ InHand(t)' = InHand(t) /\ InSlot(t)' = InSlot(t)
  BY <1>1 DEF Deferred, InHand, InSlot
<1>12. \A t \in Task : Ahead(t)' => Ahead(t) \/ t \in S
  BY <1>10, <1>11 DEF Ahead
<1>13. Once'
  <2>1. ASSUME NEW k \in DOMAIN queue_tasks', NEW l \in DOMAIN queue_tasks', queue_tasks'[k] = queue_tasks'[l],
               queue_tasks'[k].type = "run"
        PROVE  k = l
    <3> DEFINE old(i) == i \in DOMAIN queue_tasks /\ queue_tasks'[i] = queue_tasks[i]
               new(i) == i - N \in 1 .. n /\ i \in Int /\ queue_tasks'[i] = Run(ts[i - N]) /\ ts[i - N] \in S
    <3>1. \A i \in DOMAIN queue_tasks' : old(i) \/ new(i)
      BY <1>8
    <3>2. ASSUME NEW i \in DOMAIN queue_tasks', NEW j \in DOMAIN queue_tasks', old(i), new(j), queue_tasks'[i] = queue_tasks'[j]
          PROVE  FALSE
      <4>1. ts[j - N] \in Task /\ Owner[ts[j - N]] = r /\ queue_tasks[i] = Run(ts[j - N])
        BY <1>3, <3>2
      <4>2. Queued(ts[j - N])
        BY <3>2, <4>1 DEF Queued
      <4> QED BY <1>9, <4>1, <4>2 DEF Ahead
    <3>3. CASE old(k) /\ old(l)
      BY <1>0, <2>1, <3>3 DEF Once
    <3>4. CASE new(k) /\ new(l)
      <4>1. ts[k - N] = ts[l - N]
        <5> DEFINE u == ts[k - N]
                   v == ts[l - N]
        <5>1. u \in S /\ v \in S /\ Run(u) = Run(v)
          BY <2>1, <3>4
        <5> HIDE DEF u, v
        <5>2. u \in Task /\ v \in Task
          BY <1>3, <5>1
        <5>3. u = v
          BY <5>1, <5>2, Messages
        <5> QED BY <5>3 DEF u, v
      <4>2. k - N = l - N
        BY <1>4, <1>7, <3>4, <4>1
      <4> QED BY <1>7, <3>4, <4>2
    <3> QED BY <2>1, <3>1, <3>2, <3>3, <3>4
  <2>2. ASSUME NEW t \in Task
        PROVE  /\ Queued(t)' => ~ Deferred(t)' /\ ~ InHand(t)'
               /\ Deferred(t)' => ~ InHand(t)'
               /\ Ahead(t)' => ~ InSlot(t)'
    <3>1. CASE t \in S
      <4>1. ~ Ahead(t) /\ ~ InSlot(t)
        BY <1>3, <1>9, <3>1
      <4> QED BY <1>11, <4>1 DEF Ahead
    <3>2. CASE t \notin S
      BY <1>0, <1>10, <1>11, <1>12, <3>2 DEF Once
    <3> QED BY <3>1, <3>2
  <2>3. \A i, j \in DOMAIN queue_tasks_deferred' : queue_tasks_deferred'[i] = queue_tasks_deferred'[j] => i = j
    BY <1>0, <1>1 DEF Once
  <2>4. \A s, x \in Slot : slots'[s].task = slots'[x].task /\ slots'[s].task # NoTask => s = x
    BY <1>0, <1>1 DEF Once
  <2> QED BY <2>1, <2>2, <2>3, <2>4 DEF Once
<1>14. \A t \in Task : /\ Ended(t)' = Ended(t) /\ SendsOf(t)' = SendsOf(t) /\ Closed(t)' = Closed(t)
                       /\ LastIsLast(t)' = LastIsLast(t)
                       /\ Unborn(t)' => Unborn(t) /\ Owner[t] # r
  BY <1>1, <1>2, FamilyIs DEF Ended, ResultsOf, SendsOf, Closed, LastIsLast, Unborn
<1>15. Families'
  <2>1. ASSUME NEW t \in Task
        PROVE  /\ Ahead(t)' => Parent[t] = NoTask
               /\ InSlot(t)' /\ Parent[t] # NoTask => ~ Ahead(Parent[t])'
    <3>1. Ahead(t)' => Parent[t] = NoTask
      BY <1>0, <1>3, <1>12 DEF Families
    <3>2. ASSUME InSlot(t)', Parent[t] # NoTask, Ahead(Parent[t])' PROVE FALSE
      <4>1. Parent[t] \in Task /\ Owner[Parent[t]] = Owner[t] /\ InSlot(t)
        BY <1>11, <3>2, FamilyIs
      <4>2. Parent[t] \in S
        BY <1>0, <1>12, <3>2, <4>1 DEF Families
      <4> QED BY <1>3, <1>9, <4>1, <4>2
    <3> QED BY <3>1, <3>2
  <2> QED BY <2>1 DEF Families
<1>16. Births'
  <2>1. \A t \in Task : Owner[t] # r => t \notin S
    BY <1>3
  <2> QED BY <1>0, <1>11, <1>12, <1>14, <2>1 DEF Births
<1>17. Ends'
  <2>1. ASSUME NEW t \in Task, Ended(t)' \/ Closed(t)'
        PROVE  ~ Ahead(t)' /\ ~ InSlot(t)' /\ (Parent[t] # NoTask => ~ Ahead(Parent[t])')
    <3>1. Ended(t) \/ Closed(t)
      BY <1>14, <2>1
    <3>2. Owner[t] # r
      BY <1>9, <3>1
    <3>3. ~ Ahead(t) /\ ~ InSlot(t) /\ (Parent[t] # NoTask => ~ Ahead(Parent[t]))
      BY <1>0, <3>1 DEF Ends
    <3>4. t \notin S /\ (Parent[t] # NoTask => Parent[t] \notin S /\ Parent[t] \in Task)
      BY <1>3, <3>2, FamilyIs
    <3> QED BY <1>11, <1>12, <3>3, <3>4
  <2>2. \A t \in Task : (Ended(t)' => SendsOf(t)' = {}) /\ LastIsLast(t)'
    BY <1>0, <1>14 DEF Ends
  <2> QED BY <2>1, <2>2 DEF Ends
<1>18. Waiters'
  BY <1>0, <1>1, <1>2, FamilyIs DEF Waiters
<1>19. \A i \in DOMAIN queue_results : Owner[queue_results[i].task] \in Reader
  BY <1>0, ResultIs
<1>20. NoStrayResult'
  BY <1>0, <1>1, <1>2, <1>19 DEF NoStrayResult
<1>21. OneFinalResult'
  BY <1>0, <1>1, <1>2, <1>19 DEF OneFinalResult
<1> QED BY <1>13, <1>15, <1>16, <1>17, <1>18, <1>20, <1>21 DEF Tracked

\* A step that moves no task: some may be dropped.
LEMMA PlacesFewer ==
  ASSUME Once, UNCHANGED <<queue_tasks, queue_tasks_deferred>>,
         \A t \in Task : InHand(t)' => InHand(t),
         \A s \in Slot : slots'[s].task \in {slots[s].task, NoTask}
  PROVE  Once' /\ \A t \in Task : (Ahead(t)' => Ahead(t)) /\ (InSlot(t)' => InSlot(t))
<1>1. \A t \in Task : Queued(t)' = Queued(t) /\ Deferred(t)' = Deferred(t)
  BY DEF Queued, Deferred
<1>2. \A t \in Task : InSlot(t)' => InSlot(t)
  <2>1. \A t \in Task : t # NoTask
    BY Messages
  <2> QED BY <2>1 DEF InSlot
<1>3. \A t \in Task : Ahead(t)' => Ahead(t)
  BY <1>1 DEF Ahead
<1>4. \A s, x \in Slot : slots'[s].task = slots'[x].task /\ slots'[s].task # NoTask => s = x
  BY DEF Once
<1>5. Once'
  BY <1>1, <1>2, <1>3, <1>4 DEF Once
<1> QED BY <1>2, <1>3, <1>5

\* The same, with the results that are about to be sent: of tasks that had no last one,
\* and that are nowhere when this is the last one.
LEMMA HandlerTracked ==
  ASSUME Tracked, UNCHANGED <<queues, reader>>,
         \A t \in Task : InHand(t)' => InHand(t),
         \A s \in Slot : slots'[s].task \in {slots[s].task, NoTask},
         \A t \in Task : SendsOf(t)' # {} => ~ Ended(t) /\ ~ Unborn(t),
         \A t \in Task : LastIsLast(t)',
         \A t \in Task : Closed(t)' => /\ ~ Ahead(t)' /\ ~ InSlot(t)'
                                       /\ Parent[t] # NoTask => ~ Ahead(Parent[t])'
  PROVE  Tracked'
<1>0. /\ Once /\ Families /\ Births /\ Ends /\ Waiters /\ NoStrayResult /\ OneFinalResult
      /\ UNCHANGED <<queue_tasks, queue_tasks_deferred, waiting_task_ids, queue_results, reader>>
  BY DEF Tracked, queues
<1>1. Once' /\ \A t \in Task : (Ahead(t)' => Ahead(t)) /\ (InSlot(t)' => InSlot(t))
  BY <1>0, PlacesFewer
<1>2. (Waiters /\ NoStrayResult /\ OneFinalResult)' /\ \A t \in Task : Unborn(t)' = Unborn(t) /\ Ended(t)' = Ended(t)
  BY <1>0, AnswersSame
<1>3. \A t \in Task : Parent[t] # NoTask => Parent[t] \in Task
  BY FamilyIs
<1>4. Families'
  BY <1>0, <1>1, <1>3 DEF Families
<1>5. Births'
  BY <1>0, <1>1, <1>2 DEF Births
<1>6. Ends'
  BY <1>0, <1>1, <1>2, <1>3 DEF Ends
<1> QED BY <1>1, <1>2, <1>4, <1>5, <1>6 DEF Tracked

\* A handler that takes tasks out of slots and sends results for what the slots held.
LEMMA SlotsTracked ==
  ASSUME Tracked, UNCHANGED <<queues, reader>>, main'.cur = NextResponse,
         \A s \in Slot : slots'[s].task \in {slots[s].task, NoTask},
         \A i \in DOMAIN main'.calls : main'.calls[i].call = "send" => \E s \in Slot :
            /\ main'.calls[i].result.task = slots[s].task
            /\ main'.calls[i].result.kind # "partial" => slots'[s].task = NoTask,
         Closing(main'.calls)
  PROVE  Tracked'
<1>0. Once /\ Families /\ Births /\ Ends /\ UNCHANGED <<queue_tasks, queue_tasks_deferred>>
  BY DEF Tracked, queues
<1>1. \A t \in Task : InHand(t)' => InHand(t)
  BY Messages DEF InHand
<1>2. Once' /\ \A t \in Task : (Ahead(t)' => Ahead(t)) /\ (InSlot(t)' => InSlot(t))
  BY <1>0, <1>1, PlacesFewer
<1>3. \A t \in Task : SendsOf(t)' # {} => InSlot(t)
  BY DEF SendsOf, InSlot
<1>4. \A t \in Task : SendsOf(t)' # {} => ~ Ended(t) /\ ~ Unborn(t)
  BY <1>0, <1>3 DEF Births, Ends
<1>5. \A t \in Task : LastIsLast(t)'
  BY DEF SendsOf, LastIsLast, Closing
<1>6. ASSUME NEW t \in Task, Closed(t)'
      PROVE  ~ Ahead(t)' /\ ~ InSlot(t)' /\ (Parent[t] # NoTask => ~ Ahead(Parent[t])')
  <2>1. PICK i \in DOMAIN main'.calls : /\ main'.calls[i].call = "send" /\ main'.calls[i].result.task = t
                                        /\ main'.calls[i].result.kind # "partial"
    BY <1>6 DEF Closed, SendsOf
  <2>2. PICK s \in Slot : slots[s].task = t /\ slots'[s].task = NoTask
    BY <2>1
  <2>3. t # NoTask
    BY Messages
  <2>4. ~ InSlot(t)'
    BY <1>0, <2>2, <2>3 DEF InSlot, Once
  <2>5. InSlot(t)
    BY <2>2 DEF InSlot
  <2>6. ~ Ahead(t) /\ (Parent[t] # NoTask => ~ Ahead(Parent[t]) /\ Parent[t] \in Task)
    BY <1>0, <2>5, FamilyIs DEF Once, Families
  <2> QED BY <1>2, <2>4, <2>6
<1> QED BY <1>1, <1>4, <1>5, <1>6, HandlerTracked

\* A handler that answers the task in hand, or a child of it.
LEMMA HandTracked ==
  ASSUME Fits, Tracked, main.pc = "run", UNCHANGED <<queues, reader, slots>>, main'.cur = NextResponse,
         NEW x \in Task, x = main.cur.task \/ Parent[x] = main.cur.task,
         \A i \in DOMAIN main'.calls : main'.calls[i].call = "send" => i = 1 /\ main'.calls[i].result.task = x
  PROVE  Tracked'
<1>0. Once /\ Families /\ Births /\ Ends /\ UNCHANGED <<queue_tasks, queue_tasks_deferred>>
  BY DEF Tracked, queues
<1> PICK u \in Task : u = main.cur.task
  BY TaskInHand
<1>1. u \in Task /\ InHand(u) /\ Ahead(u) /\ u # NoTask
  BY TaskInHand, Messages DEF InHand, Ahead
<1>2. x = u \/ Parent[x] = u
  OBVIOUS
<1>3. \A t \in Task : ~ InHand(t)'
  BY Messages DEF InHand
<1>4. ~ Ahead(u)' /\ ~ InSlot(u) /\ Parent[u] = NoTask /\ ~ Ended(u) /\ ~ Unborn(u)
  <2>1. ~ Queued(u) /\ ~ Deferred(u) /\ ~ InSlot(u)
    BY <1>0, <1>1 DEF Once
  <2>2. ~ Queued(u)' /\ ~ Deferred(u)'
    BY <1>0, <2>1 DEF Queued, Deferred
  <2>3. ~ Ahead(u)'
    BY <1>1, <1>3, <2>2 DEF Ahead
  <2> QED BY <1>0, <1>1, <2>1, <2>3 DEF Families, Births, Ends
<1>5. \A t \in Task : Ahead(t)' => Ahead(t)
  BY <1>0, <1>3 DEF Ahead, Queued, Deferred
<1>7. ~ Ended(x) /\ ~ Unborn(x) /\ ~ Ahead(x)' /\ ~ InSlot(x) /\ (Parent[x] # NoTask => ~ Ahead(Parent[x])')
  <2>1. CASE x = u
    BY <1>4, <2>1
  <2>2. CASE Parent[x] = u
    <3>1. ~ Ahead(x) /\ ~ InSlot(x) /\ ~ Ended(x)
      BY <1>0, <1>1, <2>2 DEF Families, Ends
    <3>2. ~ Unborn(x)
      BY <1>1, <1>4, <2>2, FamilyIs DEF Unborn
    <3> QED BY <1>4, <1>5, <2>2, <3>1, <3>2
  <2> QED BY <1>2, <2>1, <2>2
<1>8. ~ InSlot(x)'
  BY <1>7 DEF InSlot
<1>9. \A t \in Task : SendsOf(t)' # {} => t = x
  BY DEF SendsOf
<1>10. \A t \in Task : LastIsLast(t)'
  BY DEF SendsOf, LastIsLast
<1>11. \A t \in Task : Closed(t)' => t = x
  BY <1>9 DEF Closed
<1>12. \A s \in Slot : slots'[s].task \in {slots[s].task, NoTask}
  OBVIOUS
<1>13. \A t \in Task : SendsOf(t)' # {} => ~ Ended(t) /\ ~ Unborn(t)
  BY <1>7, <1>9
<1>14. \A t \in Task : Closed(t)' => ~ Ahead(t)' /\ ~ InSlot(t)' /\ (Parent[t] # NoTask => ~ Ahead(Parent[t])')
  BY <1>7, <1>8, <1>11
<1>15. \A t \in Task : InHand(t)' => InHand(t)
  BY <1>3
<1> QED BY <1>10, <1>12, <1>13, <1>14, <1>15, HandlerTracked

\* The steps of the loop that make no call and take no task.
LEMMA MovesTracked ==
  ASSUME Fits, Tracked, \/ CallsMade \/ WakeUp \/ NoMoreTasks \/ AllIdle \/ IgnoreNext \/ EmptyBatch
                        \/ DecodeNoRoom \/ SpeculativeFails
  PROVE  Tracked'
<1>0. main \in MainType /\ LoopFits
  BY LoopParts
<1>1. UNCHANGED <<queues, reader>>
  BY DEF CallsMade, WakeUp, NoMoreTasks, AllIdle, IgnoreNext, EmptyBatch, DecodeNoRoom, SpeculativeFails
<1>2. main'.cur = NextResponse /\ main'.calls = <<>>
  <2>1. CASE IgnoreNext
    <3> DEFINE cs == <<>>
    <3>1. main' = Then("pop", cs) /\ cs \in Seq(Call)
      BY <2>1 DEF IgnoreNext
    <3> HIDE DEF cs
    <3>2. main'.cur = NextResponse /\ main'.calls = cs
      BY <1>0, <3>1, ThenIs
    <3> QED BY <3>2 DEF cs
  <2>2. CASE CallsMade \/ WakeUp \/ NoMoreTasks \/ AllIdle \/ EmptyBatch \/ DecodeNoRoom \/ SpeculativeFails
    <3>1. main'.cur = main.cur /\ main'.calls = main.calls
      BY <1>0, <2>2 DEF CallsMade, WakeUp, NoMoreTasks, AllIdle, EmptyBatch, DecodeNoRoom, SpeculativeFails, MainType
    <3>2. main.pc \in {"calls", "wait", "pop", "update", "decode"} /\ main.calls = <<>>
      BY <1>0, <2>2 DEF CallsMade, WakeUp, NoMoreTasks, AllIdle, EmptyBatch, DecodeNoRoom, SpeculativeFails, LoopFits
    <3> QED BY <1>0, <3>1, <3>2 DEF LoopFits
  <2> QED BY <2>1, <2>2
<1>3. \A s \in Slot : slots'[s].task = slots[s].task
  <2>1. CASE SpeculativeFails
    <3>1. main.batch # <<>> /\ slots' = Decoded
      BY <2>1 DEF SpeculativeFails
    <3> QED BY <3>1, DecodedIs
  <2>2. CASE UNCHANGED slots
    BY <2>2
  <2> QED BY <2>1, <2>2 DEF CallsMade, WakeUp, NoMoreTasks, AllIdle, IgnoreNext, EmptyBatch, DecodeNoRoom
<1>4. \A i \in DOMAIN main'.calls : FALSE
  BY <1>2
<1>5. Closing(main'.calls)
  BY <1>4 DEF Closing
<1> QED BY <1>1, <1>2, <1>3, <1>4, <1>5, SlotsTracked

\* A cancelled task leaves its slot.
LEMMA CancelTaskTracked ==
  ASSUME Fits, Tracked, CancelTask
  PROVE  Tracked'
<1>0. main \in MainType /\ UNCHANGED <<queues, reader>> /\ slots \in [Slot -> SlotType] /\ FreeSlot.task = NoTask
  BY LoopParts DEF CancelTask, FreeSlot
<1>1. CASE main' = Then("pop", <<>>) /\ UNCHANGED slots
  <2> DEFINE cs == <<>>
  <2>1. main' = Then("pop", cs) /\ cs \in Seq(Call) /\ \A i \in DOMAIN cs : FALSE
    BY <1>1
  <2> HIDE DEF cs
  <2>2. main'.cur = NextResponse /\ main'.calls = cs
    BY <1>0, <2>1, ThenIs
  <2>3. (\A i \in DOMAIN main'.calls : FALSE) /\ \A s \in Slot : slots'[s].task = slots[s].task
    BY <1>1, <2>1, <2>2
  <2>4. Closing(main'.calls)
    BY <2>3 DEF Closing
  <2> QED BY <1>0, <2>2, <2>3, <2>4, SlotsTracked
<1>2. ASSUME NEW s \in Slot, slots' = [slots EXCEPT ![s] = FreeSlot], main' = Then("pop", <<ReleaseOf(s)>>)
      PROVE  Tracked'
  <2> DEFINE cs == <<ReleaseOf(s)>>
  <2>1. cs \in Seq(Call) /\ \A i \in DOMAIN cs : cs[i].call # "send"
    BY DEF ReleaseOf, Call
  <2> HIDE DEF cs
  <2>2. main' = Then("pop", cs)
    BY <1>2 DEF cs
  <2>3. main'.cur = NextResponse /\ main'.calls = cs
    BY <1>0, <2>1, <2>2, ThenIs
  <2>4. \A x \in Slot : slots'[x].task \in {slots[x].task, NoTask}
    BY <1>0, <1>2
  <2>5. \A i \in DOMAIN main'.calls : main'.calls[i].call # "send"
    BY <2>1, <2>3
  <2>6. Closing(main'.calls)
    BY <2>5 DEF Closing
  <2> QED BY <1>0, <2>3, <2>4, <2>5, <2>6, SlotsTracked
<1> QED BY <1>1, <1>2 DEF CancelTask

\* A slot action is answered.
LEMMA ActTracked ==
  ASSUME Fits, Tracked, ActOnSlot
  PROVE  Tracked'
<1> DEFINE u == main.cur.task
<1>1. main.pc = "run" /\ UNCHANGED <<queues, reader, slots>> /\ main \in MainType
  BY LoopParts DEF ActOnSlot
<1>2. PICK kind \in {"final", "error"} : main' = Then("pop", <<SendOf(u, kind)>>)
  BY DEF ActOnSlot
<1>3. u \in Task
  BY <1>1, TaskInHand
<1> DEFINE cs == <<SendOf(u, kind)>>
<1>4. cs \in Seq(Call) /\ \A i \in DOMAIN cs : i = 1 /\ cs[i].result.task = u
  BY <1>3 DEF SendOf, Call, Result
<1> HIDE DEF cs
<1>5. main' = Then("pop", cs)
  BY <1>2 DEF cs
<1>6. main'.cur = NextResponse /\ main'.calls = cs
  BY <1>1, <1>4, <1>5, ThenIs
<1>7. \A i \in DOMAIN main'.calls : main'.calls[i].call = "send" => i = 1 /\ main'.calls[i].result.task = u
  BY <1>4, <1>6
<1> QED BY <1>1, <1>3, <1>6, <1>7, HandTracked

\* One launch fails: its task is answered with an error, what was launched is released.
LEMMA LaunchFailsTracked ==
  ASSUME Fits, Tracked, LaunchFails
  PROVE  Tracked'
<1> DEFINE t == main.cur.task
<1>1. main.pc = "run" /\ UNCHANGED <<queues, reader, slots>> /\ t \in Task /\ main \in MainType
  BY LoopParts, TaskInHand DEF LaunchFails
<1>2. PICK s \in SlotsFor(t) :
         /\ FitsOn(t, s)
         /\ LET L == Launches(t, s)
            IN  \E k \in DOMAIN L :
                   LET gone == InOrder({L[i].slot : i \in 1..(k - 1)})
                   IN  main' = [Then("pop", <<SendOf(L[k].task, "error")>>
                                           \o [i \in DOMAIN gone |-> ReleaseOf(gone[i])])
                                EXCEPT !.n_empty = IF k > 1 THEN 0 ELSE @]
  BY DEF LaunchFails
<1> DEFINE L == Launches(t, s)
<1>3. PICK k \in DOMAIN L :
         LET gone == InOrder({L[i].slot : i \in 1..(k - 1)})
         IN  main' = [Then("pop", <<SendOf(L[k].task, "error")>> \o [i \in DOMAIN gone |-> ReleaseOf(gone[i])])
                      EXCEPT !.n_empty = IF k > 1 THEN 0 ELSE @]
  BY <1>2
<1> DEFINE G == {L[i].slot : i \in 1 .. k - 1}
           gone == InOrder(G)
           rel == [i \in DOMAIN gone |-> ReleaseOf(gone[i])]
           x == L[k].task
           first == <<SendOf(x, "error")>>
           calls == first \o rel
<1>4. s \in Slot
  BY <1>1, SlotsForIs, <1>2
<1>5. main' = [Then("pop", calls) EXCEPT !.n_empty = IF k > 1 THEN 0 ELSE @]
  BY <1>3
<1> HIDE DEF t
<1>6. /\ Cardinality(Children(t)) \in Nat /\ DOMAIN L = 1 .. Cardinality(Children(t)) + 1
      /\ \A i \in DOMAIN L : /\ L[i].slot \in IdleSlots
                             /\ L[i].task = t \/ (L[i].task \in Task /\ Parent[L[i].task] = t)
  <2>1. Cardinality(Children(t)) \in Nat /\ DOMAIN L = 1 .. Cardinality(Children(t)) + 1
    BY <1>1, <1>2, <1>4, LaunchesAre
  <2>2. \A i \in 1 .. Cardinality(Children(t)) + 1 :
           L[i].slot \in IdleSlots /\ (L[i].task = t \/ (L[i].task \in Task /\ Parent[L[i].task] = t))
    BY <1>1, <1>2, <1>4, LaunchesAre
  <2> QED BY <2>1, <2>2
<1> HIDE DEF L
<1>7. x \in Task /\ (x = t \/ Parent[x] = t)
  BY <1>1, <1>6
<1>8. G \in SUBSET Slot
  <2>1. \A i \in 1 .. k - 1 : i \in DOMAIN L
    BY <1>6
  <2> QED BY <1>6, <2>1 DEF IdleSlots
<1>9. gone \in Seq(Slot)
  <2>1. \A y \in Slot : y \in Int
    BY SlotIs
  <2> HIDE DEF G
  <2>2. IsFiniteSet(G)
    BY <1>8, SlotIs, FS_Subset
  <2>3. \A y \in G : y \in Int
    BY <1>8, <2>1
  <2>4. gone \in Seq(G)
    BY <2>2, <2>3, InOrderIs
  <2> QED BY <1>8, <2>4
<1> HIDE DEF gone
<1>10. rel \in Seq(Call) /\ \A i \in 1 .. Len(rel) : rel[i].call = "release"
  BY <1>9 DEF ReleaseOf, Call
<1> HIDE DEF rel, x
<1>11. first \in Seq(Call) /\ Len(first) = 1 /\ first[1].call = "send" /\ first[1].result.task = x
  BY <1>7 DEF SendOf, Call, Result
<1> HIDE DEF first
<1>12. /\ calls \in Seq(Call) /\ Len(calls) = Len(first) + Len(rel)
       /\ \A i \in 1 .. Len(first) + Len(rel) : calls[i] = IF i <= Len(first) THEN first[i] ELSE rel[i - Len(first)]
  BY <1>10, <1>11, Concat
<1> HIDE DEF calls
<1>13. ASSUME NEW i \in DOMAIN calls, calls[i].call = "send" PROVE i = 1 /\ calls[i].result.task = x
  <2>1. Len(rel) \in Nat /\ i \in 1 .. 1 + Len(rel)
    BY <1>10, <1>11, <1>12
  <2>2. CASE i <= 1
    <3>1. i = 1 /\ calls[i] = first[1]
      BY <1>11, <1>12, <2>1, <2>2
    <3> QED BY <1>11, <3>1
  <2>3. CASE ~ i <= 1
    <3>1. i - 1 \in 1 .. Len(rel) /\ calls[i] = rel[i - 1]
      BY <1>11, <1>12, <2>1, <2>3
    <3> QED BY <1>10, <1>13, <3>1
  <2> QED BY <2>2, <2>3
<1>14. main'.cur = NextResponse /\ main'.calls = calls
  <2> DEFINE T == Then("pop", calls)
             e == IF k > 1 THEN 0 ELSE T.n_empty
             b == main.batch
             i == main.i
             v == main.n_batch
             w == main.n_empty
  <2>1. T = [pc |-> "calls", cur |-> NextResponse, calls |-> calls, next |-> "pop",
             batch |-> b, i |-> i, n_batch |-> v, n_empty |-> w]
    BY <1>1, <1>12, ThenIs
  <2>2. main' = [T EXCEPT !.n_empty = e]
    BY <1>5
  <2> HIDE DEF T, e, b, i, v, w
  <2> QED BY <2>1, <2>2
<1>15. \A i \in DOMAIN main'.calls : main'.calls[i].call = "send" => i = 1 /\ main'.calls[i].result.task = x
  BY <1>13, <1>14
<1>16. x = main.cur.task \/ Parent[x] = main.cur.task
  BY <1>7 DEF t
<1> QED BY <1>1, <1>7, <1>14, <1>15, <1>16, HandTracked

\* The computation failed: every task leaves its slot with an error.
LEMMA FailureTracked ==
  ASSUME Fits, Tracked, DecodeFails
  PROVE  Tracked'
<1> DEFINE S == Slot \ IdleSlots
           cs == ResultCalls({}, S, "error")
<1>0. Once /\ UNCHANGED <<queues, reader>> /\ slots' = [s \in Slot |-> FreeSlot] /\ main \in MainType
  BY LoopParts DEF DecodeFails, Tracked
<1>1. S \in SUBSET Slot /\ \A x \in S : slots[x].task \in Task
  BY BusyHas DEF IdleSlots
<1>2. main' = [Then("wait", cs) EXCEPT !.batch = <<>>, !.n_empty = 0]
  BY DEF DecodeFails
<1>3. \A x, y \in S : slots[x].task = slots[y].task => x = y
  <2>1. \A x \in S : slots[x].task # NoTask
    BY <1>1, Messages
  <2> QED BY <1>0, <1>1, <2>1 DEF Once
<1> HIDE DEF S
<1>4. /\ cs \in Seq(Call)
      /\ \A i \in DOMAIN cs : cs[i].call = "send" => \E x \in S : cs[i].result.task = slots[x].task
      /\ Closing(cs)
  <2> DEFINE P == {}
             T == P \cup S
  <2>1. P \in SUBSET Slot /\ T = S
    OBVIOUS
  <2>2. \A x \in T : slots[x].task \in Task
    BY <1>1, <2>1
  <2> HIDE DEF P
  <2>3. /\ ResultCalls(P, S, "error") \in Seq(Call)
        /\ \A i \in DOMAIN ResultCalls(P, S, "error") : ResultCalls(P, S, "error")[i].call = "send" =>
              \E x \in T : ResultCalls(P, S, "error")[i].result.task = slots[x].task
        /\ (\A x, y \in T : slots[x].task = slots[y].task => x = y) => Closing(ResultCalls(P, S, "error"))
    BY <1>1, <2>1, <2>2, ResultCallsAre
  <2> QED BY <1>3, <2>1, <2>3 DEF P
<1> HIDE DEF cs
<1>5. main'.cur = NextResponse /\ main'.calls = cs
  <2> DEFINE T == Then("wait", cs)
             b == main.batch
             i == main.i
             v == main.n_batch
             w == main.n_empty
             c == "calls"
             u == NextResponse
  <2>1. T = [pc |-> c, cur |-> u, calls |-> cs, next |-> "wait", batch |-> b, i |-> i, n_batch |-> v, n_empty |-> w]
    BY <1>0, <1>4, ThenIs
  <2>2. main' = [T EXCEPT !.batch = <<>>, !.n_empty = 0]
    BY <1>2
  <2> HIDE DEF T, b, i, v, w, c, u
  <2>3. main'.cur = u /\ main'.calls = cs
    BY <2>1, <2>2
  <2> QED BY <2>3 DEF u
<1>6. \A s \in Slot : slots'[s].task = NoTask
  BY <1>0 DEF FreeSlot
<1>7. \A i \in DOMAIN main'.calls : main'.calls[i].call = "send" => \E s \in Slot :
         /\ main'.calls[i].result.task = slots[s].task
         /\ main'.calls[i].result.kind # "partial" => slots'[s].task = NoTask
  BY <1>1, <1>4, <1>5, <1>6
<1>8. Closing(main'.calls)
  BY <1>4, <1>5
<1> QED BY <1>0, <1>5, <1>6, <1>7, <1>8, SlotsTracked

\* The prompts that are rejected leave their slots, each with one result.
LEMMA BuildTracked ==
  ASSUME Fits, Tracked, BuildBatch
  PROVE  Tracked'
<1>0. Once /\ main \in MainType /\ LoopFits /\ main.pc = "build" /\ UNCHANGED <<queues, reader>> /\ main.batch = <<>>
  BY LoopParts DEF BuildBatch, Tracked, LoopFits, InBatch
<1>1. PICK reject \in [Slot -> {"no", "error", "final"}], take \in [Slot -> 0 .. PromptLen] :
         /\ slots' = Built(reject, take).slots
         /\ main' = [Then("decode", Built(reject, take).calls) EXCEPT
                       !.batch = Built(reject, take).batch, !.i = 0, !.n_batch = NBatch]
  <2>1. PICK q \in Rejects, w \in Takes :
         /\ slots' = Built(q, w).slots
         /\ main' = [Then("decode", Built(q, w).calls) EXCEPT
                       !.batch = Built(q, w).batch, !.i = 0, !.n_batch = NBatch]
    BY DEF BuildBatch
  <2>2. q \in [Slot -> {"no", "error", "final"}] /\ w \in [Slot -> 0 .. PromptLen]
    BY DEF Rejects, Takes
  <2> QED BY <2>1, <2>2
<1> DEFINE B == Built(reject, take)
           ss == B.slots
           cs == B.calls
           bt == B.batch
<1>2. PromptLoop(B, NSlot)
  BY <1>0, BuiltOk
<1>3. slots' = ss /\ main' = [Then("decode", cs) EXCEPT !.batch = bt, !.i = 0, !.n_batch = NBatch]
  BY <1>1
<1> HIDE DEF B
<1>4. Rejections(cs, ss, NSlot)
  BY <1>2 DEF PromptLoop
<1> HIDE DEF cs, ss, bt
<1>5. Apart
  BY <1>0 DEF Once, Apart
<1>6. cs \in Seq(Call)
  BY <1>4 DEF Rejections
<1>7. main'.cur = NextResponse /\ main'.calls = cs
  <2> DEFINE T == Then("decode", cs)
             b == main.batch
             i == main.i
             v == main.n_batch
             w == main.n_empty
             c == "calls"
             u == NextResponse
  <2>1. T = [pc |-> c, cur |-> u, calls |-> cs, next |-> "decode", batch |-> b, i |-> i, n_batch |-> v, n_empty |-> w]
    BY <1>0, <1>6, ThenIs
  <2>2. main' = [T EXCEPT !.batch = bt, !.i = 0, !.n_batch = NBatch]
    BY <1>3
  <2> HIDE DEF T, b, i, v, w, c, u
  <2>3. main'.cur = u /\ main'.calls = cs
    BY <2>1, <2>2
  <2> QED BY <2>3 DEF u
<1>8. \A s \in Slot : slots'[s].task \in {slots[s].task, NoTask}
  BY <1>3, <1>4 DEF Rejections
<1>9. \A i \in DOMAIN main'.calls : main'.calls[i].call = "send" => \E s \in Slot :
         main'.calls[i].result.task = slots[s].task /\ slots'[s].task = NoTask
  BY <1>3, <1>4, <1>7 DEF Rejections
<1>10. Closing(main'.calls)
  <2>1. \A i \in DOMAIN cs : i \in Int
    BY <1>6
  <2> QED BY <1>4, <1>5, <1>7, <2>1 DEF Rejections, Closing
<1> QED BY <1>0, <1>7, <1>8, <1>9, <1>10, SlotsTracked

\* A decoded view: each sampled slot sends a partial result when it streams, and its last
\* one when it stops.
LEMMA ViewTracked ==
  ASSUME Fits, Tracked, DecodeView
  PROVE  Tracked'
<1> DEFINE ss == Activated(Decoded)
           sampled == {s \in Slot : Samples(ss[s])}
           last == Max(View) = Len(main.batch)
<1>0. Once /\ main \in MainType /\ main.batch # <<>> /\ UNCHANGED <<queues, reader>>
  BY LoopParts DEF DecodeView, Tracked
<1>1. PICK stop \in {S \in SUBSET sampled : \A s \in sampled : ss[s].n_decoded + 1 = NPredict => s \in S} :
         /\ slots' = [s \in Slot |-> IF s \in sampled THEN AfterToken(ss[s], s \in stop) ELSE ss[s]]
         /\ main' = [Then(IF last THEN "wait" ELSE "decode",
                          ResultCalls(IF Streaming THEN sampled ELSE {}, stop, "final"))
                     EXCEPT !.i = IF last THEN 0 ELSE Max(View),
                            !.batch = IF last THEN <<>> ELSE @,
                            !.n_batch = NBatch, !.n_empty = 0]
  BY DEF DecodeView
<1> DEFINE P == IF Streaming THEN sampled ELSE {}
           S == P \cup stop
           cs == ResultCalls(P, stop, "final")
           pc == IF last THEN "wait" ELSE "decode"
           i == IF last THEN 0 ELSE Max(View)
           bt == IF last THEN <<>> ELSE main.batch
<1>2. stop \in SUBSET sampled /\ sampled \in SUBSET Slot /\ \A s \in sampled : slots[s].task \in Task
  BY <1>0, SampledHas
<1>3. S \in SUBSET Slot /\ \A x \in S : slots[x].task \in Task
  BY <1>2
<1>4. \A x, y \in S : slots[x].task = slots[y].task => x = y
  <2>1. \A x \in S : slots[x].task # NoTask
    BY <1>3, Messages
  <2> QED BY <1>0, <1>3, <2>1 DEF Once
<1>5. main' = [Then(pc, cs) EXCEPT !.i = i, !.batch = bt, !.n_batch = NBatch, !.n_empty = 0]
  <2>1. Then(pc, cs).batch = main.batch
    BY <1>0 DEF Then, MainType
  <2>2. main' = [Then(pc, cs) EXCEPT !.i = i, !.batch = IF last THEN <<>> ELSE @, !.n_batch = NBatch, !.n_empty = 0]
    BY <1>1
  <2> HIDE DEF cs, pc, i, last
  <2> QED BY <2>1, <2>2
<1>6. pc \in {"wait", "pop", "decode"}
  OBVIOUS
<1>7. ASSUME NEW s \in Slot
      PROVE  slots'[s].task \in {slots[s].task, NoTask} /\ (s \in stop => slots'[s].task = NoTask)
  <2>1. ss[s].task = slots[s].task /\ ss[s] \in SlotType
    BY <1>0, ActivatedAfter DEF AfterView
  <2>2. slots'[s] = IF s \in sampled THEN AfterToken(ss[s], s \in stop) ELSE ss[s]
    BY <1>1
  <2> HIDE DEF ss, sampled
  <2>3. CASE s \in stop
    <3>1. slots'[s] = FreeSlot
      BY <1>2, <2>2, <2>3 DEF AfterToken
    <3> QED BY <3>1 DEF FreeSlot
  <2>4. CASE s \in sampled /\ s \notin stop
    <3> DEFINE sl == ss[s]
    <3>1. slots'[s] = [sl EXCEPT !.state = "generating", !.i_batch = 0, !.n_decoded = @ + 1] /\ sl \in SlotType
      BY <2>1, <2>2, <2>4 DEF AfterToken
    <3> HIDE DEF sl
    <3>2. slots'[s].task = sl.task
      BY <3>1 DEF SlotType
    <3> QED BY <2>1, <2>4, <3>2 DEF sl
  <2>5. CASE s \notin sampled
    BY <1>2, <2>1, <2>2, <2>5
  <2> QED BY <2>3, <2>4, <2>5
<1>13. P \in SUBSET Slot /\ stop \in SUBSET Slot
  BY <1>2
<1> HIDE DEF P, ss, sampled
<1>8. /\ cs \in Seq(Call)
      /\ \A k \in DOMAIN cs : cs[k].call = "send" => \E x \in S :
            /\ cs[k].result.task = slots[x].task
            /\ cs[k].result.kind # "partial" => x \in stop
      /\ Closing(cs)
  BY <1>3, <1>4, <1>13, ResultCallsAre
<1> HIDE DEF S
<1> HIDE DEF cs, pc, i, bt
<1>9. main'.cur = NextResponse /\ main'.calls = cs
  <2> DEFINE T == Then(pc, cs)
             b == main.batch
             j == main.i
             v == main.n_batch
             w == main.n_empty
             c == "calls"
             u == NextResponse
  <2>1. T = [pc |-> c, cur |-> u, calls |-> cs, next |-> pc, batch |-> b, i |-> j, n_batch |-> v, n_empty |-> w]
    BY <1>0, <1>6, <1>8, ThenIs
  <2>2. main' = [T EXCEPT !.i = i, !.batch = bt, !.n_batch = NBatch, !.n_empty = 0]
    BY <1>5
  <2> HIDE DEF T, b, j, v, w, c, u
  <2>3. main'.cur = u /\ main'.calls = cs
    BY <2>1, <2>2
  <2> QED BY <2>3 DEF u
<1>10. \A k \in DOMAIN main'.calls : main'.calls[k].call = "send" => \E s \in Slot :
          /\ main'.calls[k].result.task = slots[s].task
          /\ main'.calls[k].result.kind # "partial" => slots'[s].task = NoTask
  <2> SUFFICES ASSUME NEW k \in DOMAIN cs, cs[k].call = "send"
               PROVE  \E s \in Slot : /\ cs[k].result.task = slots[s].task
                                      /\ cs[k].result.kind # "partial" => slots'[s].task = NoTask
    BY <1>9
  <2>1. PICK x \in S : cs[k].result.task = slots[x].task /\ (cs[k].result.kind # "partial" => x \in stop)
    BY <1>8
  <2>2. x \in Slot /\ (x \in stop => slots'[x].task = NoTask)
    BY <1>3, <1>7
  <2> QED BY <2>1, <2>2
<1>11. Closing(main'.calls)
  BY <1>8, <1>9
<1>12. \A s \in Slot : slots'[s].task \in {slots[s].task, NoTask}
  BY <1>7
<1> QED BY <1>0, <1>9, <1>10, <1>11, <1>12, SlotsTracked

\* The task that finds no slot is deferred.
LEMMA DeferTracked ==
  ASSUME Fits, Tracked, DeferTask
  PROVE  Tracked'
<1> DEFINE u == main.cur.task
<1>0. /\ Once /\ Families /\ Births /\ Ends /\ Waiters /\ NoStrayResult /\ OneFinalResult
      /\ QueueTypeOK /\ main \in MainType /\ LoopFits
  BY LoopParts DEF Tracked
<1>1. /\ main.pc = "run" /\ queue_tasks_deferred' = Append(queue_tasks_deferred, u) /\ main' = Then("pop", <<>>)
      /\ UNCHANGED <<queue_tasks, waiting_task_ids, queue_results, reader, slots>>
  BY DEF DeferTask, Defer
<1>2. u \in Task /\ InHand(u) /\ \A t \in Task : InHand(t) => t = u
  BY <1>1, TaskInHand, Messages DEF InHand
<1> HIDE DEF u
<1>3. main'.cur = NextResponse /\ main'.calls = <<>> /\ main.calls = <<>>
  <2> DEFINE cs == <<>>
  <2>1. main' = Then("pop", cs) /\ cs \in Seq(Call)
    BY <1>1
  <2>2. main.calls = <<>>
    BY <1>0, <1>1 DEF LoopFits
  <2> HIDE DEF cs
  <2>3. main'.cur = NextResponse /\ main'.calls = cs
    BY <1>0, <2>1, ThenIs
  <2> QED BY <2>2, <2>3 DEF cs
<1> DEFINE n == Len(queue_tasks_deferred)
<1>4. /\ n \in Nat /\ DOMAIN queue_tasks_deferred = 1 .. n /\ DOMAIN queue_tasks_deferred' = 1 .. n + 1
      /\ (\A i \in 1 .. n : queue_tasks_deferred'[i] = queue_tasks_deferred[i]) /\ queue_tasks_deferred'[n + 1] = u
  BY <1>0, <1>1, <1>2 DEF QueueTypeOK
<1> HIDE DEF n
<1>5. \A t \in Task : /\ ~ InHand(t)'
                      /\ Queued(t)' = Queued(t)
                      /\ Deferred(t)' => Deferred(t) \/ t = u
                      /\ InSlot(t)' = InSlot(t)
  <2>1. \A t \in Task : ~ InHand(t)' /\ Queued(t)' = Queued(t) /\ InSlot(t)' = InSlot(t)
    BY <1>1, <1>3, Messages DEF InHand, Queued, InSlot
  <2>2. \A i \in DOMAIN queue_tasks_deferred' :
           queue_tasks_deferred'[i] = u \/ \E j \in DOMAIN queue_tasks_deferred : queue_tasks_deferred'[i] = queue_tasks_deferred[j]
    <3> TAKE i \in DOMAIN queue_tasks_deferred'
    <3>1. i = n + 1 \/ i \in 1 .. n
      BY <1>4
    <3> QED BY <1>4, <3>1
  <2>3. \A t \in Task : Deferred(t)' => Deferred(t) \/ t = u
    BY <2>2 DEF Deferred
  <2> QED BY <2>1, <2>3
<1>6. ~ Queued(u) /\ ~ Deferred(u) /\ ~ InSlot(u)
  BY <1>0, <1>2 DEF Once, Ahead
<1>7. \A t \in Task : Ahead(t)' => Ahead(t)
  BY <1>2, <1>5 DEF Ahead
<1>8. Once'
  <2>1. ASSUME NEW i \in DOMAIN queue_tasks_deferred', NEW j \in DOMAIN queue_tasks_deferred',
               queue_tasks_deferred'[i] = queue_tasks_deferred'[j]
        PROVE  i = j
    <3>1. (i = n + 1 \/ i \in 1 .. n) /\ (j = n + 1 \/ j \in 1 .. n)
      BY <1>4
    <3>2. \A k \in 1 .. n : queue_tasks_deferred[k] # u
      BY <1>4, <1>6 DEF Deferred
    <3>3. \A k, l \in 1 .. n : queue_tasks_deferred[k] = queue_tasks_deferred[l] => k = l
      BY <1>0, <1>4 DEF Once
    <3> QED BY <1>4, <2>1, <3>1, <3>2, <3>3
  <2>2. \A t \in Task : /\ Queued(t)' => ~ Deferred(t)' /\ ~ InHand(t)'
                        /\ Deferred(t)' => ~ InHand(t)'
                        /\ Ahead(t)' => ~ InSlot(t)'
    BY <1>0, <1>5, <1>6, <1>7 DEF Once
  <2>3. \A i, j \in DOMAIN queue_tasks' : queue_tasks'[i] = queue_tasks'[j] /\ queue_tasks'[i].type = "run" => i = j
    BY <1>0, <1>1 DEF Once
  <2>4. \A s, x \in Slot : slots'[s].task = slots'[x].task /\ slots'[s].task # NoTask => s = x
    BY <1>0, <1>1 DEF Once
  <2> QED BY <2>1, <2>2, <2>3, <2>4 DEF Once
<1>9. (Waiters /\ NoStrayResult /\ OneFinalResult)' /\ \A t \in Task : Unborn(t)' = Unborn(t) /\ Ended(t)' = Ended(t)
  BY <1>0, <1>1, AnswersSame
<1>10. (Families /\ Births /\ Ends)'
  <2>1. \A t \in Task : /\ Ahead(t)' => Ahead(t)
                        /\ InSlot(t)' => InSlot(t)
                        /\ Unborn(t)' => Unborn(t)
                        /\ Ended(t)' => Ended(t)
    BY <1>5, <1>7, <1>9
  <2> QED BY <1>0, <1>3, <2>1, RestStays
<1> QED BY <1>8, <1>9, <1>10 DEF Tracked

\* The next task is taken in hand.
LEMMA PopTracked ==
  ASSUME Fits, Tracked, Pop
  PROVE  Tracked'
<1> DEFINE m == Head(queue_tasks)
           n == Len(queue_tasks)
<1>0. /\ Once /\ Families /\ Births /\ Ends /\ Waiters /\ NoStrayResult /\ OneFinalResult
      /\ QueueTypeOK /\ main \in MainType /\ LoopFits
  BY LoopParts DEF Tracked
<1>1. /\ main.pc = "pop" /\ queue_tasks # <<>> /\ queue_tasks' = Tail(queue_tasks)
      /\ main' = [main EXCEPT !.pc = m.type, !.cur = m]
      /\ UNCHANGED <<queue_tasks_deferred, waiting_task_ids, queue_results, reader, slots>>
  BY DEF Pop
<1>2. /\ queue_tasks \in Seq(Message) /\ n \in Nat /\ n >= 1 /\ m = queue_tasks[1] /\ DOMAIN queue_tasks = 1 .. n
      /\ DOMAIN queue_tasks' = 1 .. n - 1 /\ \A k \in 1 .. n - 1 : queue_tasks'[k] = queue_tasks[k + 1]
  BY <1>0, <1>1 DEF QueueTypeOK
<1> HIDE DEF m, n
<1>3. main'.cur = m /\ main'.calls = main.calls /\ main.cur = NextResponse
  BY <1>0, <1>1 DEF MainType, LoopFits
<1>4. \A k \in DOMAIN queue_tasks' : k + 1 \in DOMAIN queue_tasks /\ k + 1 # 1 /\ queue_tasks'[k] = queue_tasks[k + 1]
  BY <1>2
<1>5. \A i, j \in DOMAIN queue_tasks : queue_tasks[i] = queue_tasks[j] /\ queue_tasks[i].type = "run" => i = j
  BY <1>0 DEF Once
<1>6. ASSUME NEW t \in Task
      PROVE  /\ Queued(t)' => Queued(t) /\ ~ InHand(t)'
             /\ InHand(t)' => Queued(t)
             /\ Deferred(t)' = Deferred(t) /\ InSlot(t)' = InSlot(t)
  <2>1. Run(t).type = "run"
    BY Messages
  <2>2. InHand(t)' => queue_tasks[1] = Run(t) /\ 1 \in DOMAIN queue_tasks
    BY <1>2, <1>3 DEF InHand
  <2>3. ASSUME NEW k \in DOMAIN queue_tasks', queue_tasks'[k] = Run(t) PROVE Queued(t) /\ queue_tasks[1] # Run(t)
    <3> DEFINE i == k + 1
    <3>1. i \in DOMAIN queue_tasks /\ i # 1 /\ queue_tasks[i] = Run(t) /\ 1 \in DOMAIN queue_tasks
      BY <1>2, <1>4, <2>3
    <3> HIDE DEF i
    <3> QED BY <1>5, <2>1, <3>1 DEF Queued
  <2>4. Queued(t)' => Queued(t) /\ queue_tasks[1] # Run(t)
    BY <2>3 DEF Queued
  <2>5. InHand(t)' => Queued(t)
    BY <2>2 DEF Queued
  <2>6. Deferred(t)' = Deferred(t) /\ InSlot(t)' = InSlot(t)
    BY <1>1 DEF Deferred, InSlot
  <2> QED BY <2>2, <2>4, <2>5, <2>6
<1>7. \A t \in Task : Ahead(t)' => Ahead(t)
  BY <1>6 DEF Ahead
<1>8. Once'
  <2>1. ASSUME NEW k \in DOMAIN queue_tasks', NEW l \in DOMAIN queue_tasks', queue_tasks'[k] = queue_tasks'[l],
               queue_tasks'[k].type = "run"
        PROVE  k = l
    <3>1. k + 1 = l + 1
      BY <1>4, <1>5, <2>1
    <3> QED BY <1>2, <3>1
  <2>2. \A t \in Task : /\ Queued(t)' => ~ Deferred(t)' /\ ~ InHand(t)'
                        /\ Deferred(t)' => ~ InHand(t)'
                        /\ Ahead(t)' => ~ InSlot(t)'
    BY <1>0, <1>6, <1>7 DEF Once
  <2>3. \A i, j \in DOMAIN queue_tasks_deferred' : queue_tasks_deferred'[i] = queue_tasks_deferred'[j] => i = j
    BY <1>0, <1>1 DEF Once
  <2>4. \A s, x \in Slot : slots'[s].task = slots'[x].task /\ slots'[s].task # NoTask => s = x
    BY <1>0, <1>1 DEF Once
  <2> QED BY <2>1, <2>2, <2>3, <2>4 DEF Once
<1>9. (Waiters /\ NoStrayResult /\ OneFinalResult)' /\ \A t \in Task : Unborn(t)' = Unborn(t) /\ Ended(t)' = Ended(t)
  BY <1>0, <1>1, AnswersSame
<1>10. (Families /\ Births /\ Ends)'
  <2>1. \A t \in Task : /\ Ahead(t)' => Ahead(t)
                        /\ InSlot(t)' => InSlot(t)
                        /\ Unborn(t)' => Unborn(t)
                        /\ Ended(t)' => Ended(t)
    BY <1>6, <1>7, <1>9
  <2> QED BY <1>0, <1>3, <2>1, RestStays
<1> QED BY <1>8, <1>9, <1>10 DEF Tracked

\* The message the loop posts to itself runs no task.
LEMMA PostNextTracked ==
  ASSUME Fits, Tracked, PostNext
  PROVE  Tracked'
<1> DEFINE n == Len(queue_tasks)
<1>0. /\ Once /\ Families /\ Births /\ Ends /\ Waiters /\ NoStrayResult /\ OneFinalResult
      /\ QueueTypeOK /\ main \in MainType
  BY LoopParts DEF Tracked
<1>1. /\ queue_tasks' = queue_tasks \o <<NextResponse>> /\ main' = [main EXCEPT !.pc = "build"]
      /\ UNCHANGED <<queue_tasks_deferred, waiting_task_ids, queue_results, reader, slots>>
  BY DEF PostNext, PostBack
<1>2. main'.cur = main.cur /\ main'.calls = main.calls
  BY <1>0, <1>1 DEF MainType
<1>3. /\ queue_tasks \in Seq(Message) /\ n \in Nat /\ DOMAIN queue_tasks = 1 .. n
      /\ DOMAIN queue_tasks' = 1 .. n + 1 /\ (\A k \in 1 .. n : queue_tasks'[k] = queue_tasks[k])
      /\ queue_tasks'[n + 1] = NextResponse
  BY <1>0, <1>1 DEF QueueTypeOK
<1> HIDE DEF n
<1>4. NextResponse.type # "run" /\ \A t \in Task : Run(t).type = "run"
  BY Messages
<1>5. ASSUME NEW k \in DOMAIN queue_tasks', queue_tasks'[k].type = "run"
      PROVE  k \in DOMAIN queue_tasks /\ queue_tasks'[k] = queue_tasks[k]
  <2>1. k = n + 1 \/ k \in 1 .. n
    BY <1>3
  <2> QED BY <1>3, <1>4, <1>5, <2>1
<1>6. \A t \in Task : Queued(t)' => Queued(t)
  BY <1>4, <1>5 DEF Queued
<1>7. \A t \in Task : Deferred(t)' = Deferred(t) /\ InHand(t)' = InHand(t) /\ InSlot(t)' = InSlot(t)
  BY <1>1, <1>2 DEF Deferred, InHand, InSlot
<1>8. \A t \in Task : Ahead(t)' => Ahead(t)
  BY <1>6, <1>7 DEF Ahead
<1>9. Once'
  <2>1. \A k, l \in DOMAIN queue_tasks' : queue_tasks'[k] = queue_tasks'[l] /\ queue_tasks'[k].type = "run" => k = l
    BY <1>0, <1>5 DEF Once
  <2>2. \A t \in Task : /\ Queued(t)' => ~ Deferred(t)' /\ ~ InHand(t)'
                        /\ Deferred(t)' => ~ InHand(t)'
                        /\ Ahead(t)' => ~ InSlot(t)'
    BY <1>0, <1>6, <1>7, <1>8 DEF Once
  <2>3. \A i, j \in DOMAIN queue_tasks_deferred' : queue_tasks_deferred'[i] = queue_tasks_deferred'[j] => i = j
    BY <1>0, <1>1 DEF Once
  <2>4. \A s, x \in Slot : slots'[s].task = slots'[x].task /\ slots'[s].task # NoTask => s = x
    BY <1>0, <1>1 DEF Once
  <2> QED BY <2>1, <2>2, <2>3, <2>4 DEF Once
<1>10. (Waiters /\ NoStrayResult /\ OneFinalResult)' /\ \A t \in Task : Unborn(t)' = Unborn(t) /\ Ended(t)' = Ended(t)
  BY <1>0, <1>1, AnswersSame
<1>11. (Families /\ Births /\ Ends)'
  <2>1. \A t \in Task : /\ Ahead(t)' => Ahead(t)
                        /\ InSlot(t)' => InSlot(t)
                        /\ Unborn(t)' => Unborn(t)
                        /\ Ended(t)' => Ended(t)
    BY <1>7, <1>8, <1>10
  <2> QED BY <1>0, <1>2, <2>1, RestStays
<1> QED BY <1>9, <1>10, <1>11 DEF Tracked

\* A launch puts the task in hand and its children into idle slots, one each.
LEMMA LaunchTracked ==
  ASSUME Fits, Tracked, Launch
  PROVE  Tracked'
<1> PICK u \in Task : u = main.cur.task
  BY TaskInHand DEF Launch
<1>0. /\ Once /\ Families /\ Births /\ Ends /\ Waiters /\ NoStrayResult /\ OneFinalResult
      /\ main \in MainType /\ LoopFits
  BY LoopParts DEF Tracked
<1>1. /\ main.pc = "run" /\ main' = [Then("pop", <<>>) EXCEPT !.n_empty = 0]
      /\ UNCHANGED <<queue_tasks, queue_tasks_deferred, waiting_task_ids, queue_results, reader>>
  BY DEF Launch, queues
<1>2. u \in Task /\ InHand(u) /\ u # NoTask /\ \A t \in Task : InHand(t) => t = u
  BY <1>1, TaskInHand, Messages DEF InHand
<1>3. PICK s \in SlotsFor(u) :
         /\ FitsOn(u, s)
         /\ LET L == Launches(u, s)
                at(x) == {i \in DOMAIN L : L[i].slot = x}
            IN  slots' = [x \in Slot |-> IF at(x) = {} THEN slots[x]
                                         ELSE Launched(L[CHOOSE i \in at(x) : TRUE].task)]
  BY DEF Launch
<1> DEFINE L == Launches(u, s)
           at(x) == {i \in DOMAIN L : L[i].slot = x}
           one(x) == CHOOSE i \in at(x) : TRUE
<1>4. slots' = [x \in Slot |-> IF at(x) = {} THEN slots[x] ELSE Launched(L[one(x)].task)]
  BY <1>3
<1>5. s \in Slot
  BY <1>2, <1>3, SlotsForIs
<1>6. /\ \A i \in DOMAIN L : L[i].task \in Task /\ (L[i].task = u \/ Parent[L[i].task] = u)
      /\ \A i, j \in DOMAIN L : L[i].task = L[j].task => i = j
  <2> DEFINE n == Cardinality(Children(u))
  <2>1. /\ DOMAIN L = 1 .. n + 1
        /\ \A i \in 1 .. n + 1 : L[i].task = u \/ (L[i].task \in Task /\ Parent[L[i].task] = u)
        /\ \A i, j \in 1 .. n + 1 : L[i].task = L[j].task => i = j
    BY <1>2, <1>3, <1>5, LaunchesAre
  <2> HIDE DEF L, n
  <2> QED BY <1>2, <2>1
<1>7. ASSUME NEW x \in Slot
      PROVE  \/ slots'[x].task = slots[x].task
             \/ one(x) \in DOMAIN L /\ L[one(x)].slot = x /\ slots'[x].task = L[one(x)].task
  <2>1. CASE at(x) = {}
    BY <1>4, <2>1
  <2>2. CASE at(x) # {}
    <3>1. one(x) \in at(x)
      BY <2>2
    <3>2. one(x) \in DOMAIN L /\ L[one(x)].slot = x
      BY <3>1
    <3> HIDE DEF L
    <3>3. Launched(L[one(x)].task).task = L[one(x)].task
      BY <1>6, <3>2, LaunchedFits
    <3>4. slots'[x] = Launched(L[one(x)].task)
      BY <1>4, <2>2
    <3> QED BY <3>2, <3>3, <3>4
  <2> QED BY <2>1, <2>2
<1> HIDE DEF L, at, one
<1>8. main'.cur = NextResponse /\ main'.calls = <<>> /\ main.calls = <<>>
  <2> DEFINE T == Then("pop", <<>>)
             b == main.batch
             i == main.i
             v == main.n_batch
             w == main.n_empty
  <2>1. <<>> \in Seq(Call)
    OBVIOUS
  <2>2. T = [pc |-> "calls", cur |-> NextResponse, calls |-> <<>>, next |-> "pop",
             batch |-> b, i |-> i, n_batch |-> v, n_empty |-> w]
    BY <1>0, <2>1, ThenIs
  <2>3. main' = [T EXCEPT !.n_empty = 0]
    BY <1>1
  <2>4. main.calls = <<>>
    BY <1>0, <1>1 DEF LoopFits
  <2> HIDE DEF T, b, i, v, w
  <2> QED BY <2>2, <2>3, <2>4
<1>9. Ahead(u) /\ ~ Queued(u) /\ ~ Deferred(u) /\ ~ InSlot(u) /\ Parent[u] = NoTask /\ ~ Ended(u) /\ ~ Unborn(u)
  <2>1. Ahead(u)
    BY <1>2 DEF Ahead
  <2> QED BY <1>0, <1>2, <2>1 DEF Once, Families, Births, Ends
<1>10. \A t \in Task : Parent[t] = u => ~ InSlot(t) /\ ~ Ahead(t) /\ ~ Ended(t) /\ ~ Unborn(t)
  <2>1. \A t \in Task : Parent[t] = u => ~ InSlot(t) /\ ~ Ahead(t) /\ ~ Ended(t)
    BY <1>0, <1>2, <1>9 DEF Families, Ends
  <2>2. \A t \in Task : Parent[t] = u => ~ Unborn(t)
    BY <1>2, <1>9, FamilyIs DEF Unborn
  <2> QED BY <2>1, <2>2
<1>11. \A t \in Task : ~ InHand(t)' /\ Queued(t)' = Queued(t) /\ Deferred(t)' = Deferred(t)
  BY <1>1, <1>8, Messages DEF InHand, Queued, Deferred
<1>12. ~ Ahead(u)' /\ \A t \in Task : Ahead(t)' => Ahead(t)
  BY <1>2, <1>9, <1>11 DEF Ahead
<1>13. \A t \in Task : InSlot(t)' => InSlot(t) \/ t = u \/ Parent[t] = u
  BY <1>6, <1>7 DEF InSlot
<1>14. ASSUME NEW x \in Slot, NEW y \in Slot, slots'[x].task = slots'[y].task, slots'[x].task # NoTask
       PROVE  x = y
  <2> DEFINE new(z) == one(z) \in DOMAIN L /\ L[one(z)].slot = z /\ slots'[z].task = L[one(z)].task
             old(z) == slots'[z].task = slots[z].task
  <2>1. (old(x) \/ new(x)) /\ (old(y) \/ new(y))
    BY <1>7
  <2>2. \A z \in Slot : \A i \in DOMAIN L : slots[z].task # L[i].task
    BY <1>6, <1>9, <1>10 DEF InSlot
  <2>3. CASE old(x) /\ old(y)
    BY <1>0, <1>14, <2>3 DEF Once
  <2>4. CASE new(x) /\ new(y)
    BY <1>6, <1>14, <2>4
  <2>5. CASE (old(x) /\ new(y)) \/ (new(x) /\ old(y))
    BY <1>14, <2>2, <2>5
  <2> QED BY <2>1, <2>3, <2>4, <2>5
<1>15. Once'
  <2>1. \A t \in Task : /\ Queued(t)' => ~ Deferred(t)' /\ ~ InHand(t)'
                        /\ Deferred(t)' => ~ InHand(t)'
                        /\ Ahead(t)' => ~ InSlot(t)'
    BY <1>0, <1>10, <1>11, <1>12, <1>13 DEF Once
  <2>2. \A i, j \in DOMAIN queue_tasks' : queue_tasks'[i] = queue_tasks'[j] /\ queue_tasks'[i].type = "run" => i = j
    BY <1>0, <1>1 DEF Once
  <2>3. \A i, j \in DOMAIN queue_tasks_deferred' : queue_tasks_deferred'[i] = queue_tasks_deferred'[j] => i = j
    BY <1>0, <1>1 DEF Once
  <2> QED BY <1>14, <2>1, <2>2, <2>3 DEF Once
<1>16. (Waiters /\ NoStrayResult /\ OneFinalResult)' /\ \A t \in Task : Unborn(t)' = Unborn(t) /\ Ended(t)' = Ended(t)
  BY <1>0, <1>1, AnswersSame
<1>17. \A t \in Task : SendsOf(t)' = {} /\ SendsOf(t) = {} /\ ~ Closed(t)' /\ LastIsLast(t)'
  BY <1>8 DEF SendsOf, Closed, LastIsLast
<1>18. \A t \in Task : Parent[t] # NoTask => Parent[t] \in Task
  BY FamilyIs
<1>19. Families'
  BY <1>0, <1>9, <1>12, <1>13, <1>18 DEF Families
<1>20. Births'
  BY <1>0, <1>9, <1>10, <1>12, <1>13, <1>16, <1>17 DEF Births
<1>21. Ends'
  BY <1>0, <1>9, <1>10, <1>12, <1>13, <1>16, <1>17, <1>18 DEF Ends
<1> QED BY <1>15, <1>16, <1>19, <1>20, <1>21 DEF Tracked

\* One call fewer: no result of the task follows when the one in it is the last.
LEMMA CallIsMade ==
  ASSUME Ends, main \in MainType, main.calls # <<>>, main' = [main EXCEPT !.calls = Tail(main.calls)]
  PROVE  /\ main'.cur = main.cur /\ Head(main.calls) \in Call
         /\ \A t \in Task :
               /\ SendsOf(t)' # {} => SendsOf(t) # {}
               /\ Closed(t)' => Closed(t)
               /\ LastIsLast(t)'
               /\ Head(main.calls).call = "send" /\ Head(main.calls).result.task = t =>
                     /\ SendsOf(t) # {}
                     /\ Head(main.calls).result.kind # "partial" => Closed(t) /\ SendsOf(t)' = {}
<1> DEFINE n == Len(main.calls)
           c == Head(main.calls)
<1>1. main.calls \in Seq(Call) /\ n \in Nat /\ n >= 1 /\ DOMAIN main.calls = 1 .. n /\ c = main.calls[1] /\ c \in Call
  BY DEF MainType
<1>2. main'.calls = Tail(main.calls) /\ main'.cur = main.cur
  BY DEF MainType
<1>3. DOMAIN main'.calls = 1 .. n - 1 /\ \A k \in 1 .. n - 1 : main'.calls[k] = main.calls[k + 1]
  BY <1>1, <1>2
<1> HIDE DEF n, c
<1>4. \A k \in DOMAIN main'.calls : k + 1 \in DOMAIN main.calls /\ k + 1 # 1 /\ main'.calls[k] = main.calls[k + 1]
  BY <1>1, <1>3
<1>5. \A t \in Task : LastIsLast(t)
  BY DEF Ends
<1>6. ASSUME NEW t \in Task, NEW k \in SendsOf(t)'
      PROVE  k + 1 \in SendsOf(t) /\ k + 1 # 1 /\ main'.calls[k] = main.calls[k + 1] /\ k \in Int
  <2>1. k \in DOMAIN main'.calls /\ main'.calls[k].call = "send" /\ main'.calls[k].result.task = t
    BY <1>6 DEF SendsOf
  <2> DEFINE l == k + 1
  <2>2. l \in DOMAIN main.calls /\ l # 1 /\ main'.calls[k] = main.calls[l]
    BY <1>4, <2>1
  <2>3. k \in Int
    BY <1>3, <2>1
  <2> HIDE DEF l
  <2>4. l \in SendsOf(t)
    BY <2>1, <2>2 DEF SendsOf
  <2> QED BY <2>2, <2>3, <2>4 DEF l
<1>7. ASSUME NEW t \in Task
      PROVE  /\ SendsOf(t)' # {} => SendsOf(t) # {}
             /\ Closed(t)' => Closed(t)
             /\ LastIsLast(t)'
             /\ c.call = "send" /\ c.result.task = t =>
                   SendsOf(t) # {} /\ (c.result.kind # "partial" => Closed(t) /\ SendsOf(t)' = {})
  <2>1. SendsOf(t)' # {} => SendsOf(t) # {}
    BY <1>6
  <2>2. Closed(t)' => Closed(t)
    <3> SUFFICES ASSUME NEW k \in SendsOf(t)', main'.calls[k].result.kind # "partial" PROVE Closed(t)
      BY DEF Closed
    <3> QED BY <1>6 DEF Closed
  <2>3. LastIsLast(t)'
    <3> SUFFICES ASSUME NEW i \in SendsOf(t)', NEW j \in SendsOf(t)', main'.calls[i].result.kind # "partial"
                 PROVE  j <= i
      BY DEF LastIsLast
    <3> DEFINE k == i + 1
               l == j + 1
    <3>1. k \in SendsOf(t) /\ l \in SendsOf(t) /\ main'.calls[i] = main.calls[k] /\ i \in Int /\ j \in Int
      BY <1>6
    <3>2. l <= k
      <4> HIDE DEF k, l
      <4> QED BY <1>5, <3>1 DEF LastIsLast
    <3> QED BY <3>1, <3>2
  <2>4. ASSUME c.call = "send", c.result.task = t
        PROVE  SendsOf(t) # {} /\ (c.result.kind # "partial" => Closed(t) /\ SendsOf(t)' = {})
    <3>1. 1 \in DOMAIN main.calls
      BY <1>1
    <3>2. 1 \in SendsOf(t)
      BY <1>1, <2>4, <3>1 DEF SendsOf
    <3>3. ASSUME c.result.kind # "partial", NEW k \in SendsOf(t)' PROVE FALSE
      <4> DEFINE l == k + 1
      <4>1. l \in SendsOf(t) /\ k \in SendsOf(t)' /\ k \in DOMAIN main'.calls
        BY <1>6, <3>3 DEF SendsOf
      <4>2. k >= 1 /\ k \in Int
        BY <1>1, <1>3, <4>1
      <4>3. l <= 1
        <5> HIDE DEF l
        <5> QED BY <1>1, <1>5, <3>2, <3>3, <4>1 DEF LastIsLast
      <4> QED BY <4>2, <4>3
    <3>4. c.result.kind # "partial" => Closed(t)
      BY <1>1, <3>2 DEF Closed
    <3> QED BY <3>2, <3>3, <3>4
  <2> QED BY <2>1, <2>2, <2>3, <2>4
<1> QED BY <1>1, <1>2, <1>7 DEF c

\* A result is sent.  Its task is nowhere, or goes on and this is a partial one.
LEMMA SendTracked ==
  ASSUME Fits, Tracked, MakeCall, Head(main.calls).call = "send", Send(Head(main.calls).result)
  PROVE  Tracked'
<1> DEFINE n == Len(queue_results)
<1>0. /\ Once /\ Families /\ Births /\ Ends /\ Waiters /\ NoStrayResult /\ OneFinalResult
      /\ QueueTypeOK /\ main \in MainType
  BY LoopParts DEF Tracked
<1> PICK res \in Result : res = Head(main.calls).result
  <2>1. main.calls # <<>> /\ main' = [main EXCEPT !.calls = Tail(main.calls)]
    BY <1>0 DEF MakeCall, MainType
  <2>2. Head(main.calls) \in Call
    BY <1>0, <2>1, CallIsMade
  <2> QED BY <2>2 DEF Call
<1> DEFINE u == res.task
<1>1. /\ main.calls # <<>> /\ main' = [main EXCEPT !.calls = Tail(main.calls)]
      /\ queue_results' = IF u \in waiting_task_ids THEN Append(queue_results, res) ELSE queue_results
      /\ UNCHANGED <<queue_tasks, queue_tasks_deferred, waiting_task_ids, reader, slots>>
  BY <1>0 DEF MakeCall, Send, MainType
<1>2. /\ main'.cur = main.cur /\ Head(main.calls) \in Call
      /\ \A t \in Task : /\ SendsOf(t)' # {} => SendsOf(t) # {}
                         /\ Closed(t)' => Closed(t)
                         /\ LastIsLast(t)'
                         /\ u = t => /\ SendsOf(t) # {}
                                     /\ res.kind # "partial" => Closed(t) /\ SendsOf(t)' = {}
  BY <1>0, <1>1, CallIsMade
<1>3. res \in Result /\ u \in Task
  BY DEF Result
<1>4. /\ SendsOf(u) # {} /\ ~ Ended(u) /\ ~ Unborn(u)
      /\ res.kind # "partial" => Closed(u) /\ SendsOf(u)' = {}
  BY <1>0, <1>2, <1>3 DEF Births, Ends
<1> HIDE DEF u
<1>5. Once' /\ \A t \in Task : (Ahead(t)' => Ahead(t)) /\ (InSlot(t)' => InSlot(t))
  BY <1>0, <1>1, <1>2, PlacesSame
<1>6. \A t \in Task : Unborn(t)' = Unborn(t)
  BY <1>1 DEF Unborn
<1>7. queue_results \in Seq(Result) /\ n \in Nat /\ DOMAIN queue_results = 1 .. n
  BY <1>0 DEF QueueTypeOK
<1> HIDE DEF n
<1>8. CASE u \notin waiting_task_ids
  <2>1. UNCHANGED <<reader, waiting_task_ids, queue_results>>
    BY <1>1, <1>8
  <2>2. (Waiters /\ NoStrayResult /\ OneFinalResult)' /\ \A t \in Task : Ended(t)' = Ended(t)
    BY <1>0, <2>1, AnswersSame
  <2>3. Families'
    BY <1>0, <1>5, FamilyIs DEF Families
  <2>4. Births'
    BY <1>0, <1>2, <1>5, <1>6, <2>2 DEF Births
  <2>5. Ends'
    BY <1>0, <1>2, <1>5, <2>2, FamilyIs DEF Ends
  <2> QED BY <1>5, <2>2, <2>3, <2>4, <2>5 DEF Tracked
<1>9. CASE u \in waiting_task_ids
  <2>1. /\ DOMAIN queue_results' = 1 .. n + 1 /\ (\A k \in 1 .. n : queue_results'[k] = queue_results[k])
        /\ queue_results'[n + 1] = res
    BY <1>1, <1>3, <1>7, <1>9 DEF n
  <2>2. \A k \in DOMAIN queue_results' : \/ k = n + 1 /\ queue_results'[k] = res
                                         \/ k \in DOMAIN queue_results /\ queue_results'[k] = queue_results[k]
    <3> TAKE k \in DOMAIN queue_results'
    <3>1. k = n + 1 \/ k \in 1 .. n
      BY <1>7, <2>1
    <3> QED BY <1>7, <2>1, <3>1
  <2>3. res.task = u
    BY DEF u
  <2>4. \A t \in Task : Ended(t)' => Ended(t) \/ (t = u /\ res.kind # "partial")
    <3> SUFFICES ASSUME NEW t \in Task, Ended(t)' PROVE Ended(t) \/ (t = u /\ res.kind # "partial")
      OBVIOUS
    <3>1. CASE t \in reader'[Owner[t]].got
      BY <1>1, <3>1 DEF Ended
    <3>2. CASE \E k \in DOMAIN queue_results' : queue_results'[k].task = t /\ queue_results'[k].kind # "partial"
      BY <2>2, <2>3, <3>2 DEF Ended, ResultsOf
    <3> QED BY <3>1, <3>2 DEF Ended, ResultsOf
  <2>5. \A t \in Task : Ended(t)' \/ Closed(t)' => Ended(t) \/ Closed(t)
    BY <1>2, <1>4, <2>4
  <2>6. \A t \in Task : Ended(t)' => SendsOf(t)' = {}
    BY <1>0, <1>2, <1>4, <2>4 DEF Ends
  <2>7. Families'
    BY <1>0, <1>5, FamilyIs DEF Families
  <2>8. Births'
    BY <1>0, <1>2, <1>4, <1>5, <1>6, <2>4 DEF Births
  <2>9. Ends'
    BY <1>0, <1>2, <1>5, <2>5, <2>6, FamilyIs DEF Ends
  <2>10. Waiters'
    BY <1>0, <1>1 DEF Waiters
  <2>11. reader[Owner[u]].pc \in {"post", "read", "stop"} /\ u \notin reader[Owner[u]].got
    BY <1>0, <1>3, <1>4, <1>9, <2>3 DEF Waiters, Ended
  <2>12. NoStrayResult'
    BY <1>0, <1>1, <2>2, <2>3, <2>11 DEF NoStrayResult
  <2>13. ASSUME NEW k \in DOMAIN queue_results'
         PROVE  /\ queue_results'[k].task \notin reader'[Owner[queue_results'[k].task]].got
                /\ \A l \in DOMAIN queue_results' :
                      l > k /\ queue_results'[l].task = queue_results'[k].task => queue_results'[k].kind = "partial"
    <3>1. queue_results'[k].task \notin reader'[Owner[queue_results'[k].task]].got
      BY <1>0, <1>1, <2>2, <2>3, <2>11 DEF OneFinalResult
    <3>2. ASSUME NEW l \in DOMAIN queue_results', l > k, queue_results'[l].task = queue_results'[k].task
          PROVE  queue_results'[k].kind = "partial"
      <4>1. k \in 1 .. n
        BY <1>7, <2>1, <3>2
      <4>2. k \in DOMAIN queue_results /\ queue_results'[k] = queue_results[k]
        BY <1>7, <2>1, <4>1
      <4>3. CASE l = n + 1
        <5>1. queue_results[k].task = u
          BY <2>1, <2>3, <3>2, <4>2, <4>3
        <5> QED BY <1>4, <4>2, <5>1 DEF Ended, ResultsOf
      <4>4. CASE l \in DOMAIN queue_results /\ queue_results'[l] = queue_results[l]
        BY <1>0, <3>2, <4>2, <4>4 DEF OneFinalResult
      <4> QED BY <2>2, <4>3, <4>4
    <3> QED BY <3>1, <3>2
  <2>14. OneFinalResult'
    BY <2>13 DEF OneFinalResult
  <2> QED BY <1>5, <2>7, <2>8, <2>9, <2>10, <2>12, <2>14 DEF Tracked
<1> QED BY <1>8, <1>9

\* A slot is released: a deferred task is taken up again, in front of the queue.
LEMMA ReleaseTracked ==
  ASSUME Fits, Tracked, MakeCall, Head(main.calls).call = "release", PopDeferred(Head(main.calls).slot)
  PROVE  Tracked'
<1> DEFINE s == Head(main.calls).slot
<1>0. /\ Once /\ Families /\ Births /\ Ends /\ Waiters /\ NoStrayResult /\ OneFinalResult
      /\ QueueTypeOK /\ main \in MainType
  BY LoopParts DEF Tracked
<1>1. /\ main.calls # <<>> /\ main' = [main EXCEPT !.calls = Tail(main.calls)]
      /\ PopDeferred(s) /\ UNCHANGED <<waiting_task_ids, queue_results, reader, slots>>
  BY <1>0 DEF MakeCall, PopDeferred, MainType
<1>2. /\ main'.cur = main.cur
      /\ \A t \in Task : /\ SendsOf(t)' # {} => SendsOf(t) # {}
                         /\ Closed(t)' => Closed(t)
                         /\ LastIsLast(t)'
  BY <1>0, <1>1, CallIsMade
<1> HIDE DEF s
<1>3. (Waiters /\ NoStrayResult /\ OneFinalResult)' /\ \A t \in Task : Unborn(t)' = Unborn(t) /\ Ended(t)' = Ended(t)
  BY <1>0, <1>1, AnswersSame
<1>4. Once' /\ \A t \in Task : (Ahead(t)' => Ahead(t)) /\ (InSlot(t)' => InSlot(t))
  <2>1. CASE queue_tasks_deferred = <<>>
    <3>1. UNCHANGED <<queue_tasks, queue_tasks_deferred, slots>>
      BY <1>1, <2>1 DEF PopDeferred
    <3> QED BY <1>0, <1>2, <3>1, PlacesSame
  <2>2. CASE queue_tasks_deferred # <<>>
    <3> DEFINE f == Resumed(s)
               u == queue_tasks_deferred[f]
               n == Len(queue_tasks)
               m == Len(queue_tasks_deferred)
    <3>1. /\ queue_tasks_deferred \in Seq(Task) /\ f \in 1 .. m /\ m \in Nat /\ DOMAIN queue_tasks_deferred = 1 .. m
          /\ queue_tasks \in Seq(Message) /\ n \in Nat /\ DOMAIN queue_tasks = 1 .. n
      BY <1>0, <2>2, ResumedIs DEF QueueTypeOK
    <3>2. queue_tasks' = <<Run(u)>> \o queue_tasks /\ queue_tasks_deferred' = RemoveAt(queue_tasks_deferred, f)
      BY <1>1, <2>2 DEF PopDeferred
    <3>3. u \in Task /\ Run(u) \in Message /\ Run(u).type = "run" /\ \A t \in Task : Run(t) = Run(u) => t = u
      BY <3>1, Messages
    <3>4. /\ RemoveAt(queue_tasks_deferred, f) \in Seq(Task) /\ Len(RemoveAt(queue_tasks_deferred, f)) = m - 1
          /\ \A k \in 1 .. m - 1 : RemoveAt(queue_tasks_deferred, f)[k] = queue_tasks_deferred[IF k < f THEN k ELSE k + 1]
      BY <3>1, RemovedAt
    <3> HIDE DEF f, n, m
    <3>5. Deferred(u) /\ ~ Queued(u) /\ ~ InHand(u)
      BY <1>0, <3>1, <3>3 DEF Deferred, Once
    <3> HIDE DEF u
    <3> DEFINE at(k) == IF k < f THEN k ELSE k + 1
    <3>6. DOMAIN queue_tasks_deferred' = 1 .. m - 1 /\ \A k \in 1 .. m - 1 : queue_tasks_deferred'[k] = queue_tasks_deferred[at(k)]
      BY <3>1, <3>2, <3>4
    <3>7. /\ \A k \in 1 .. m - 1 : at(k) \in 1 .. m /\ at(k) # f
          /\ \A k, l \in 1 .. m - 1 : at(k) = at(l) => k = l
      BY <3>1
    <3> HIDE DEF at
    <3>8. /\ DOMAIN queue_tasks' = 1 .. n + 1 /\ queue_tasks'[1] = Run(u)
          /\ \A k \in 1 .. n + 1 : k # 1 => queue_tasks'[k] = queue_tasks[k - 1] /\ k - 1 \in 1 .. n
      <4> DEFINE one == <<Run(u)>>
      <4>1. one \in Seq(Message) /\ Len(one) = 1 /\ one[1] = Run(u)
        BY <3>3
      <4> HIDE DEF one
      <4>2. /\ one \o queue_tasks \in Seq(Message) /\ Len(one \o queue_tasks) = 1 + n
            /\ \A k \in 1 .. 1 + n : (one \o queue_tasks)[k] = IF k <= 1 THEN one[k] ELSE queue_tasks[k - 1]
        <5>1. Len(queue_tasks) = n /\ queue_tasks \in Seq(Message)
          BY <3>1 DEF n
        <5>2. /\ one \o queue_tasks \in Seq(Message) /\ Len(one \o queue_tasks) = Len(one) + Len(queue_tasks)
              /\ \A k \in 1 .. Len(one) + Len(queue_tasks) :
                    (one \o queue_tasks)[k] = IF k <= Len(one) THEN one[k] ELSE queue_tasks[k - Len(one)]
          BY <4>1, <5>1, Concat
        <5> QED BY <4>1, <5>1, <5>2
      <4>3. queue_tasks' = one \o queue_tasks
        BY <3>2 DEF one
      <4>4. 1 + n = n + 1 /\ 1 \in 1 .. 1 + n /\ \A k \in 1 .. n + 1 : k # 1 => ~ k <= 1 /\ k - 1 \in 1 .. n
        BY <3>1
      <4>5. DOMAIN queue_tasks' = 1 .. n + 1
        BY <3>1, <4>2, <4>3, <4>4
      <4> QED BY <4>1, <4>2, <4>3, <4>4, <4>5
    <3>9. \A t \in Task : Queued(t)' => Queued(t) \/ t = u
      <4> SUFFICES ASSUME NEW t \in Task, NEW k \in DOMAIN queue_tasks', queue_tasks'[k] = Run(t) PROVE Queued(t) \/ t = u
        BY DEF Queued
      <4>1. CASE k = 1
        BY <3>3, <3>8, <4>1
      <4>2. CASE k # 1
        <5> DEFINE i == k - 1
        <5>1. i \in DOMAIN queue_tasks /\ queue_tasks[i] = Run(t)
          BY <3>1, <3>8, <4>2
        <5> HIDE DEF i
        <5> QED BY <5>1 DEF Queued
      <4> QED BY <4>1, <4>2
    <3>10. \A i, j \in DOMAIN queue_tasks_deferred : queue_tasks_deferred[i] = queue_tasks_deferred[j] => i = j
      BY <1>0 DEF Once
    <3>11. ASSUME NEW t \in Task, Deferred(t)' PROVE Deferred(t) /\ t # u
      <4>1. PICK k \in 1 .. m - 1 : queue_tasks_deferred'[k] = t
        BY <3>6, <3>11 DEF Deferred
      <4>2. at(k) \in DOMAIN queue_tasks_deferred /\ queue_tasks_deferred[at(k)] = t /\ at(k) # f /\ f \in DOMAIN queue_tasks_deferred
        BY <3>1, <3>6, <3>7, <4>1
      <4>3. queue_tasks_deferred[f] = u
        BY DEF u
      <4> QED BY <3>10, <4>2, <4>3 DEF Deferred
    <3>12. \A t \in Task : InHand(t)' = InHand(t) /\ InSlot(t)' = InSlot(t)
      BY <1>1, <1>2 DEF InHand, InSlot
    <3>13. \A t \in Task : Ahead(t)' => Ahead(t)
      BY <3>5, <3>9, <3>11, <3>12 DEF Ahead
    <3>14. Once'
      <4>1. ASSUME NEW k \in DOMAIN queue_tasks', NEW l \in DOMAIN queue_tasks', queue_tasks'[k] = queue_tasks'[l],
                   queue_tasks'[k].type = "run"
            PROVE  k = l
        <5>1. \A i \in DOMAIN queue_tasks : queue_tasks[i] # Run(u)
          BY <3>5 DEF Queued
        <5>2. \A i, j \in DOMAIN queue_tasks : queue_tasks[i] = queue_tasks[j] /\ queue_tasks[i].type = "run" => i = j
          BY <1>0 DEF Once
        <5>3. /\ k # 1 => k - 1 \in DOMAIN queue_tasks /\ queue_tasks'[k] = queue_tasks[k - 1]
              /\ l # 1 => l - 1 \in DOMAIN queue_tasks /\ queue_tasks'[l] = queue_tasks[l - 1]
              /\ k \in Int /\ l \in Int
          BY <3>1, <3>8
        <5>4. (k = 1 /\ l # 1) \/ (k # 1 /\ l = 1) => FALSE
          BY <3>8, <4>1, <5>1, <5>3
        <5>5. k # 1 /\ l # 1 => k - 1 = l - 1
          BY <4>1, <5>2, <5>3
        <5> QED BY <5>3, <5>4, <5>5
      <4>2. ASSUME NEW k \in DOMAIN queue_tasks_deferred', NEW l \in DOMAIN queue_tasks_deferred',
                   queue_tasks_deferred'[k] = queue_tasks_deferred'[l]
            PROVE  k = l
        <5>1. at(k) \in DOMAIN queue_tasks_deferred /\ at(l) \in DOMAIN queue_tasks_deferred
              /\ queue_tasks_deferred[at(k)] = queue_tasks_deferred[at(l)]
          BY <3>1, <3>6, <3>7, <4>2
        <5>2. at(k) = at(l)
          BY <3>10, <5>1
        <5> QED BY <3>6, <3>7, <5>2
      <4>3. \A t \in Task : /\ Queued(t)' => ~ Deferred(t)' /\ ~ InHand(t)'
                            /\ Deferred(t)' => ~ InHand(t)'
                            /\ Ahead(t)' => ~ InSlot(t)'
        BY <1>0, <3>5, <3>9, <3>11, <3>12, <3>13 DEF Once
      <4>4. \A x, y \in Slot : slots'[x].task = slots'[y].task /\ slots'[x].task # NoTask => x = y
        BY <1>0, <1>1 DEF Once
      <4> QED BY <4>1, <4>2, <4>3, <4>4 DEF Once
    <3> QED BY <3>12, <3>13, <3>14
  <2> QED BY <2>1, <2>2
<1>5. Families'
  BY <1>0, <1>4, FamilyIs DEF Families
<1>6. Births'
  BY <1>0, <1>2, <1>3, <1>4 DEF Births
<1>7. Ends'
  BY <1>0, <1>2, <1>3, <1>4, FamilyIs DEF Ends
<1> QED BY <1>3, <1>4, <1>5, <1>6, <1>7 DEF Tracked

LEMMA TrackedStays == Fits /\ Tracked /\ [Next]_vars => Tracked'
<1> SUFFICES ASSUME Fits, Tracked, [Next]_vars PROVE Tracked'
  OBVIOUS
<1>1. CASE UNCHANGED vars
  <2>0. Once /\ Families /\ Births /\ Ends /\ Waiters /\ NoStrayResult /\ OneFinalResult
    BY DEF Tracked
  <2>1. UNCHANGED <<queue_tasks, queue_tasks_deferred, waiting_task_ids, queue_results, reader, slots>>
        /\ main'.cur = main.cur /\ main'.calls = main.calls
    BY <1>1 DEF vars, queues
  <2>2. Once' /\ \A t \in Task : (Ahead(t)' => Ahead(t)) /\ (InSlot(t)' => InSlot(t))
    BY <2>0, <2>1, PlacesSame
  <2>3. (Waiters /\ NoStrayResult /\ OneFinalResult)' /\ \A t \in Task : Unborn(t)' = Unborn(t) /\ Ended(t)' = Ended(t)
    BY <2>0, <2>1, AnswersSame
  <2>4. (Families /\ Births /\ Ends)'
    BY <2>0, <2>1, <2>2, <2>3, RestStays
  <2> QED BY <2>2, <2>3, <2>4 DEF Tracked
<1>2. CASE MakeCall
  BY <1>2, SendTracked, ReleaseTracked DEF MakeCall
<1>3. CASE Loop /\ ~ MakeCall
  BY <1>3, MovesTracked, PopTracked, DeferTracked, LaunchTracked, LaunchFailsTracked, ActTracked, CancelTaskTracked,
     PostNextTracked, BuildTracked, FailureTracked, ViewTracked DEF Loop
<1>4. ASSUME NEW r \in Reader, ReaderStep(r) PROVE Tracked'
  BY <1>4, WaitTracked, PostTracked, ReceiveTracked, PurgeTracked, CancelTracked DEF ReaderStep
<1> QED BY <1>1, <1>2, <1>3, <1>4 DEF Next

LEMMA AtMostOne ==
  ASSUME NEW S, \A x, y \in S : x = y
  PROVE  Cardinality(S) \in {0, 1} /\ (S = {} => Cardinality(S) = 0)
<1>1. CASE S = {}
  BY <1>1, FS_EmptySet
<1>2. CASE S # {}
  <2>1. PICK x \in S : TRUE
    BY <1>2
  <2>2. S = {x}
    BY <2>1
  <2> QED BY <1>2, <2>2, FS_Singleton
<1> QED BY <1>1, <1>2

LEMMA OnePlace ==
  ASSUME Once
  PROVE  InOnePlace
<1> SUFFICES ASSUME NEW t \in Task PROVE Places(t) <= 1
  BY DEF InOnePlace
<1> DEFINE Q == {i \in DOMAIN queue_tasks : queue_tasks[i] = Run(t)}
           D == {i \in DOMAIN queue_tasks_deferred : queue_tasks_deferred[i] = t}
           S == {s \in Slot : slots[s].task = t}
           h == IF main.cur = Run(t) THEN 1 ELSE 0
           q == Cardinality(Q)
           d == Cardinality(D)
           n == Cardinality(S)
<1>1. Places(t) = q + d + h + n
  BY DEF Places, Count
<1>2. Run(t).type = "run" /\ t # NoTask
  BY Messages
<1>3. (\A i, j \in Q : i = j) /\ (\A i, j \in D : i = j) /\ (\A s, x \in S : s = x)
  BY <1>2 DEF Once
<1>4. (Queued(t) <=> Q # {}) /\ (Deferred(t) <=> D # {}) /\ (InSlot(t) <=> S # {}) /\ (InHand(t) <=> h # 0)
  BY DEF Queued, Deferred, InSlot, InHand
<1>5. h \in {0, 1}
  OBVIOUS
<1> HIDE DEF Q, D, S, h
<1>6. /\ q \in {0, 1} /\ (Q = {} => q = 0)
      /\ d \in {0, 1} /\ (D = {} => d = 0)
      /\ n \in {0, 1} /\ (S = {} => n = 0)
  BY <1>3, AtMostOne
<1>7. /\ Queued(t) => ~ Deferred(t) /\ ~ InHand(t)
      /\ Deferred(t) => ~ InHand(t)
      /\ Ahead(t) => ~ InSlot(t)
  BY DEF Once
<1> HIDE DEF q, d, n
<1>8. q + d + h + n <= 1
  BY <1>4, <1>5, <1>6, <1>7 DEF Ahead
<1> QED BY <1>1, <1>8

\* The invariant of the four theorems below.
THEOREM TrackedCorrect == Spec => [](Fits /\ Tracked)
<1>1. Init => Fits /\ Tracked
  BY InitFits, InitTracked
<1>2. Fits /\ Tracked /\ [Next]_vars => (Fits /\ Tracked)'
  BY FitsStays, TrackedStays
<1> QED BY <1>1, <1>2, PTL DEF Spec

\* A task is queued, deferred, in the hand of the loop or in a slot, once, whatever
\* fails: it never runs twice.
THEOREM PlaceCorrect == Spec => []InOnePlace
<1>1. Fits /\ Tracked => InOnePlace
  BY OnePlace DEF Tracked
<1> QED BY <1>1, TrackedCorrect, PTL

\* A result that nobody will ever take is not left behind.
THEOREM ResultsCorrect == Spec => []NoStrayResult
<1>1. Fits /\ Tracked => NoStrayResult
  BY DEF Tracked
<1> QED BY <1>1, TrackedCorrect, PTL

\* A task gets at most one final result and nothing after it.
THEOREM FinalCorrect == Spec => []OneFinalResult
<1>1. Fits /\ Tracked => OneFinalResult
  BY DEF Tracked
<1> QED BY <1>1, TrackedCorrect, PTL

-----------------------------------------------------------------------------
(* Cancelled tasks and waiting children *)

\* the cancellation of t is in the queue
Noted(t) == \E i \in DOMAIN queue_tasks : queue_tasks[i] = CancelOf(t)

\* the task that brings t to the server
Root(t) == IF Parent[t] = NoTask THEN t ELSE Parent[t]

\* p and its children are all that a client asks for, and the client does not leave
Patient(p) == Owner[p] \notin Impatient /\ \A t \in TasksOf(Owner[p]) : Root(t) = p

\* there is always a slot for p, so that it is never deferred
Spacious(p) == Cardinality(Task) <= NSlot /\ Pinned[p] = -1

\* a task that is not deferred once it is cancelled
Firm(t) == Patient(Root(t)) \/ Spacious(Root(t))

\* when a patient client stops, its task has been launched or refused
Quits ==
    \A p \in Task : Patient(p) /\ reader[Owner[p]].pc \in {"stop", "purge", "cancel", "done"} => ~Ahead(p)

\* a cancelled task is yet to be launched or in a slot only as long as its cancellation
\* is on the way
Withdrawn(t) ==
    Cancelled(Owner[t]) => /\ ~Queued(t) /\ ~Deferred(t)
                           /\ InHand(Root(t)) => Noted(t)
                           /\ InSlot(t) => CancelQueued(t)

\* what is cancelled was wanted
Wanted ==
    /\ \A r \in Reader : reader[r].pc \in {"purge", "cancel"} => HasNext(r)
    /\ \A t \in Task : CancelQueued(t) => Cancelled(Owner[t])

\* who waits for a parent has one that has yet to hand over its prompt
Minded(s) ==
    slots[s].state = "waiting" =>
        /\ Parent[slots[s].task] # NoTask
        /\ Firm(slots[s].task) =>
              \/ CancelQueued(slots[s].task)
              \/ \E p \in Slot : /\ slots[p].task = Parent[slots[s].task]
                                 /\ slots[p].state \in {"started", "prompt", "done"}

Obeyed ==
    /\ Quits /\ Wanted
    /\ \A t \in Task : Firm(t) => Withdrawn(t)

LEMMA NotedIs ==
  ASSUME NEW t
  PROVE  /\ CancelQueued(t) <=> main.cur = CancelOf(t) \/ Noted(t)
         /\ CancelQueued(t)' <=> main'.cur = CancelOf(t) \/ Noted(t)'
  BY DEF CancelQueued, Noted, Range

LEMMA RootIs ==
  ASSUME NEW t \in Task
  PROVE  /\ Root(t) \in Task /\ Root(Root(t)) = Root(t) /\ Owner[Root(t)] = Owner[t]
         /\ Owner[t] \in Reader /\ (Firm(Root(t)) <=> Firm(t))
<1>1. t # NoTask
  BY Messages
<1>2. Root(t) \in Task /\ Root(Root(t)) = Root(t) /\ Owner[Root(t)] = Owner[t] /\ Owner[t] \in Reader
  BY <1>1, FamilyIs DEF Root
<1> QED BY <1>2 DEF Firm

\* After a step of the loop it has in hand what it had, nothing, or what it has popped.
LEMMA CurAfter ==
  ASSUME Fits, Fits', Loop, ~ Pop
  PROVE  main'.cur = NextResponse \/ main'.cur = main.cur
<1>0. main \in MainType /\ LoopFits'
  BY DEF Fits
<1>1. CASE \/ MakeCall \/ CallsMade \/ WakeUp \/ NoMoreTasks \/ AllIdle \/ PostNext \/ EmptyBatch
           \/ DecodeNoRoom \/ SpeculativeFails
  BY <1>0, <1>1 DEF MakeCall, CallsMade, WakeUp, NoMoreTasks, AllIdle, PostNext, EmptyBatch,
     DecodeNoRoom, SpeculativeFails, MainType
<1>2. CASE DeferTask \/ Launch \/ LaunchFails \/ ActOnSlot \/ CancelTask \/ IgnoreNext
           \/ BuildBatch \/ DecodeFails \/ DecodeView
  <2>1. main'.pc = "calls"
    <3>1. \A pc, cs : Then(pc, cs).pc = "calls" /\ "pc" \in DOMAIN Then(pc, cs)
      BY <1>0 DEF Then, MainType
    <3>2. CASE DeferTask \/ ActOnSlot \/ CancelTask \/ IgnoreNext
      BY <3>1, <3>2 DEF DeferTask, ActOnSlot, CancelTask, IgnoreNext
    <3>3. CASE Launch
      BY <3>1, <3>3 DEF Launch
    <3>4. CASE LaunchFails
      BY <3>1, <3>4 DEF LaunchFails
    <3>5. CASE BuildBatch
      BY <3>1, <3>5 DEF BuildBatch
    <3>6. CASE DecodeFails
      BY <3>1, <3>6 DEF DecodeFails
    <3>7. CASE DecodeView
      BY <3>1, <3>7 DEF DecodeView
    <3> QED BY <1>2, <3>2, <3>3, <3>4, <3>5, <3>6, <3>7
  <2> QED BY <1>0, <2>1 DEF LoopFits
<1> QED BY <1>1, <1>2 DEF Loop

\* How a step of the loop moves a task and its cancellation.
Flows(t) ==
    /\ Queued(t)' => Queued(t) \/ Deferred(t)
    /\ Deferred(t)' => Deferred(t) \/ (DeferTask /\ InHand(t))
    /\ InHand(t)' => InHand(t) \/ Queued(t)
    /\ \A u \in Task : InHand(u)' /\ Noted(t) => Noted(t)'
    /\ CancelQueued(t)' => CancelQueued(t)
    /\ CancelQueued(t) => CancelQueued(t)' \/ (CancelTask /\ main.cur = CancelOf(t))

\* The steps that leave the queue alone.
LEMMA QuietFlows ==
  ASSUME Fits, Loop, UNCHANGED queue_tasks, main'.cur = NextResponse \/ main'.cur = main.cur, NEW t \in Task,
         Deferred(t)' => Deferred(t) \/ (DeferTask /\ InHand(t))
  PROVE  Flows(t)
<1>1. Queued(t)' = Queued(t) /\ Noted(t)' = Noted(t)
  BY DEF Queued, Noted
<1>2. CancelOf(t).type = "cancel" /\ NextResponse.type = "next" /\ Run(t).type = "run"
  BY Messages
<1>3. InHand(t)' => InHand(t)
  BY <1>2 DEF InHand
<1>4. CancelQueued(t)' => CancelQueued(t)
  BY <1>1, <1>2, NotedIs
<1>5. ASSUME CancelQueued(t), ~ CancelQueued(t)' PROVE CancelTask /\ main.cur = CancelOf(t)
  <2>1. main.cur = CancelOf(t) /\ main'.cur # main.cur
    BY <1>1, <1>5, NotedIs
  <2>2. main.pc = "cancel"
    <3>1. main.cur # NextResponse /\ main.cur.type # "run" /\ main.cur.type # "next"
      BY <1>2, <2>1
    <3> QED BY <3>1, LoopParts DEF LoopFits
  <2>3. CancelTask
    BY <2>2 DEF Loop, MakeCall, CallsMade, WakeUp, Pop, NoMoreTasks, DeferTask, Launch, LaunchFails, ActOnSlot,
       IgnoreNext, AllIdle, PostNext, BuildBatch, EmptyBatch, DecodeNoRoom, DecodeFails, SpeculativeFails, DecodeView
  <2> QED BY <2>1, <2>3
<1> QED BY <1>1, <1>3, <1>4, <1>5 DEF Flows

LEMMA PopFlows ==
  ASSUME Fits, Pop, NEW t \in Task
  PROVE  Flows(t)
<1> DEFINE n == Len(queue_tasks)
           m == Head(queue_tasks)
<1>0. QueueTypeOK /\ main \in MainType /\ LoopFits
  BY LoopParts
<1>1. /\ main.pc = "pop" /\ queue_tasks # <<>> /\ queue_tasks' = Tail(queue_tasks)
      /\ main' = [main EXCEPT !.pc = m.type, !.cur = m] /\ UNCHANGED queue_tasks_deferred
  BY DEF Pop
<1>2. /\ n \in Nat /\ n >= 1 /\ m = queue_tasks[1] /\ DOMAIN queue_tasks = 1 .. n
      /\ DOMAIN queue_tasks' = 1 .. n - 1 /\ \A k \in 1 .. n - 1 : queue_tasks'[k] = queue_tasks[k + 1]
  BY <1>0, <1>1 DEF QueueTypeOK
<1> HIDE DEF m
<1>3. main'.cur = m /\ main.cur = NextResponse
  BY <1>0, <1>1 DEF MainType, LoopFits
<1>4. \A k \in DOMAIN queue_tasks' : \E i \in DOMAIN queue_tasks : queue_tasks'[k] = queue_tasks[i]
  BY <1>2
<1>5. \A i \in DOMAIN queue_tasks : queue_tasks[i] = m \/ \E k \in DOMAIN queue_tasks' : queue_tasks'[k] = queue_tasks[i]
  <2> TAKE i \in DOMAIN queue_tasks
  <2>1. CASE i = 1
    BY <1>2, <2>1
  <2>2. CASE i # 1
    <3> DEFINE k == i - 1
    <3>1. k \in DOMAIN queue_tasks' /\ k + 1 = i /\ k \in 1 .. n - 1
      BY <1>2, <2>2
    <3> HIDE DEF k
    <3> QED BY <1>2, <3>1
  <2> QED BY <2>1, <2>2
<1>6. \E i \in DOMAIN queue_tasks : queue_tasks[i] = m
  BY <1>2
<1> HIDE DEF n
<1>7. /\ Queued(t)' => Queued(t)
      /\ InHand(t)' => Queued(t)
      /\ Noted(t)' => Noted(t)
      /\ main'.cur = CancelOf(t) => Noted(t)
      /\ Noted(t) => Noted(t)' \/ main'.cur = CancelOf(t)
  BY <1>3, <1>4, <1>5, <1>6 DEF Queued, InHand, Noted
<1>8. \A u \in Task : Run(u) # CancelOf(t)
  BY Messages
<1>9. \A u \in Task : InHand(u)' /\ Noted(t) => Noted(t)'
  BY <1>7, <1>8 DEF InHand
<1>10. CancelQueued(t)' <=> CancelQueued(t)
  <2>1. main.cur # CancelOf(t)
    BY <1>3, Messages
  <2> QED BY <1>7, <2>1, NotedIs
<1>11. Deferred(t)' = Deferred(t)
  BY <1>1 DEF Deferred
<1> QED BY <1>7, <1>9, <1>10, <1>11 DEF Flows

LEMMA PostNextFlows ==
  ASSUME Fits, PostNext, NEW t \in Task
  PROVE  Flows(t)
<1> DEFINE n == Len(queue_tasks)
<1>0. QueueTypeOK /\ main \in MainType
  BY LoopParts
<1>1. /\ queue_tasks' = queue_tasks \o <<NextResponse>> /\ main' = [main EXCEPT !.pc = "build"]
      /\ UNCHANGED queue_tasks_deferred
  BY DEF PostNext, PostBack
<1>2. /\ n \in Nat /\ DOMAIN queue_tasks = 1 .. n
      /\ DOMAIN queue_tasks' = 1 .. n + 1 /\ (\A k \in 1 .. n : queue_tasks'[k] = queue_tasks[k])
      /\ queue_tasks'[n + 1] = NextResponse
  BY <1>0, <1>1 DEF QueueTypeOK
<1> HIDE DEF n
<1>3. main'.cur = main.cur
  BY <1>0, <1>1 DEF MainType
<1>4. Run(t) # NextResponse /\ CancelOf(t) # NextResponse
  BY Messages
<1>5. /\ \A k \in DOMAIN queue_tasks' : queue_tasks'[k] = NextResponse \/ (k \in DOMAIN queue_tasks /\ queue_tasks'[k] = queue_tasks[k])
      /\ \A i \in DOMAIN queue_tasks : i \in DOMAIN queue_tasks' /\ queue_tasks'[i] = queue_tasks[i]
  <2>1. \A k \in 1 .. n + 1 : k = n + 1 \/ k \in 1 .. n
    BY <1>2
  <2>2. \A i \in 1 .. n : i \in 1 .. n + 1
    BY <1>2
  <2> QED BY <1>2, <2>1, <2>2
<1>6. (Queued(t)' <=> Queued(t)) /\ (Noted(t)' <=> Noted(t))
  BY <1>4, <1>5 DEF Queued, Noted
<1>7. (InHand(t)' <=> InHand(t)) /\ (Deferred(t)' <=> Deferred(t)) /\ (CancelQueued(t)' <=> CancelQueued(t))
  BY <1>1, <1>3, <1>6, NotedIs DEF InHand, Deferred
<1> QED BY <1>6, <1>7 DEF Flows

\* A released slot resumes a deferred task.
LEMMA ReleaseFlows ==
  ASSUME Fits, MakeCall, PopDeferred(Head(main.calls).slot), NEW t \in Task
  PROVE  Flows(t)
<1> DEFINE s == Head(main.calls).slot
<1>0. QueueTypeOK /\ main \in MainType /\ main' = [main EXCEPT !.calls = Tail(@)] /\ PopDeferred(s)
  BY LoopParts DEF MakeCall
<1>1. main'.cur = main.cur
  BY <1>0 DEF MainType
<1>2. CASE queue_tasks_deferred = <<>>
  <2>1. UNCHANGED <<queue_tasks, queue_tasks_deferred>>
    BY <1>0, <1>2 DEF PopDeferred
  <2>2. Deferred(t)' = Deferred(t)
    BY <2>1 DEF Deferred
  <2> QED BY <1>1, <2>1, <2>2, QuietFlows DEF Loop
<1>3. CASE queue_tasks_deferred # <<>>
  <2> DEFINE f == Resumed(s)
             u == queue_tasks_deferred[f]
             n == Len(queue_tasks)
             m == Len(queue_tasks_deferred)
  <2>1. /\ queue_tasks_deferred \in Seq(Task) /\ f \in 1 .. m /\ m \in Nat /\ DOMAIN queue_tasks_deferred = 1 .. m
        /\ queue_tasks \in Seq(Message) /\ n \in Nat /\ DOMAIN queue_tasks = 1 .. n
    BY <1>0, <1>3, ResumedIs DEF QueueTypeOK
  <2>2. queue_tasks' = <<Run(u)>> \o queue_tasks /\ queue_tasks_deferred' = RemoveAt(queue_tasks_deferred, f)
    BY <1>0, <1>3 DEF PopDeferred
  <2>3. u \in Task /\ Run(u) \in Message /\ Run(u) # CancelOf(t) /\ (Run(t) = Run(u) => t = u)
    BY <2>1, Messages
  <2>4. /\ RemoveAt(queue_tasks_deferred, f) \in Seq(Task) /\ Len(RemoveAt(queue_tasks_deferred, f)) = m - 1
        /\ \A k \in 1 .. m - 1 : RemoveAt(queue_tasks_deferred, f)[k] = queue_tasks_deferred[IF k < f THEN k ELSE k + 1]
    BY <2>1, RemovedAt
  <2>5. \E i \in DOMAIN queue_tasks_deferred : queue_tasks_deferred[i] = u
    BY <2>1
  <2>6. \A k \in DOMAIN queue_tasks_deferred' : \E i \in DOMAIN queue_tasks_deferred : queue_tasks_deferred'[k] = queue_tasks_deferred[i]
    <3>1. DOMAIN queue_tasks_deferred' = 1 .. m - 1
      BY <2>1, <2>2, <2>4
    <3>2. \A k \in 1 .. m - 1 : (IF k < f THEN k ELSE k + 1) \in 1 .. m
      BY <2>1
    <3> HIDE DEF f
    <3> QED BY <2>1, <2>2, <2>4, <3>1, <3>2
  <2> HIDE DEF u, f, m
  <2>7. DOMAIN queue_tasks' = 1 .. n + 1 /\ \A k \in 1 .. n + 1 : queue_tasks'[k] = IF k = 1 THEN Run(u) ELSE queue_tasks[k - 1]
    BY <2>1, <2>2, <2>3
  <2>8. /\ \A k \in DOMAIN queue_tasks' : queue_tasks'[k] = Run(u) \/ \E i \in DOMAIN queue_tasks : queue_tasks'[k] = queue_tasks[i]
        /\ \A i \in DOMAIN queue_tasks : \E k \in DOMAIN queue_tasks' : queue_tasks'[k] = queue_tasks[i]
    <3>1. ASSUME NEW k \in 1 .. n + 1, k # 1 PROVE k - 1 \in 1 .. n
      BY <2>1, <3>1
    <3>2. ASSUME NEW i \in 1 .. n PROVE i + 1 \in 1 .. n + 1 /\ i + 1 # 1 /\ (i + 1) - 1 = i
      BY <2>1, <3>2
    <3>3. ASSUME NEW i \in 1 .. n PROVE \E k \in 1 .. n + 1 : queue_tasks'[k] = queue_tasks[i]
      <4> DEFINE k == i + 1
      <4>1. k \in 1 .. n + 1 /\ k # 1 /\ k - 1 = i
        BY <3>2, <3>3
      <4> HIDE DEF k
      <4> QED BY <2>7, <4>1
    <3> QED BY <2>1, <2>7, <3>1, <3>3
  <2>9. (Queued(t)' => Queued(t) \/ Deferred(t)) /\ (Noted(t)' <=> Noted(t)) /\ (Deferred(t)' => Deferred(t))
    BY <2>3, <2>5, <2>6, <2>8 DEF Queued, Noted, Deferred
  <2>10. (InHand(t)' <=> InHand(t)) /\ (CancelQueued(t)' <=> CancelQueued(t))
    BY <1>1, <2>9, NotedIs DEF InHand
  <2> QED BY <2>9, <2>10 DEF Flows
<1> QED BY <1>2, <1>3

LEMMA LoopFlows ==
  ASSUME Fits, Fits', Loop, NEW t \in Task
  PROVE  Flows(t)
<1>1. CASE Pop
  BY <1>1, PopFlows
<1>2. CASE PostNext
  BY <1>2, PostNextFlows
<1>3. CASE MakeCall /\ PopDeferred(Head(main.calls).slot)
  BY <1>3, ReleaseFlows
<1>4. CASE ~ Pop /\ ~ PostNext /\ ~ (MakeCall /\ PopDeferred(Head(main.calls).slot))
  <2>1. UNCHANGED queue_tasks /\ (UNCHANGED queue_tasks_deferred \/ (DeferTask /\ Defer(main.cur.task)))
    <3>1. CASE MakeCall
      BY <1>4, <3>1 DEF MakeCall, Send
    <3>2. CASE DeferTask
      BY <3>2 DEF DeferTask, Defer
    <3>3. CASE ~ MakeCall /\ ~ DeferTask
      BY <1>4, <3>3 DEF Loop, CallsMade, WakeUp, NoMoreTasks, Launch, LaunchFails, ActOnSlot, CancelTask,
         IgnoreNext, AllIdle, BuildBatch, EmptyBatch, DecodeNoRoom, DecodeFails, SpeculativeFails, DecodeView, queues
    <3> QED BY <3>1, <3>2, <3>3
  <2>2. main'.cur = NextResponse \/ main'.cur = main.cur
    BY <1>4, CurAfter
  <2>3. Deferred(t)' => Deferred(t) \/ (DeferTask /\ InHand(t))
    <3>1. CASE UNCHANGED queue_tasks_deferred
      BY <3>1 DEF Deferred
    <3>2. CASE DeferTask /\ Defer(main.cur.task)
      <4> DEFINE n == Len(queue_tasks_deferred)
                 u == main.cur.task
      <4>1. main.pc = "run" /\ u \in Task /\ main.cur = Run(u)
        BY <3>2, TaskInHand DEF DeferTask
      <4> HIDE DEF u
      <4>2. queue_tasks_deferred \in Seq(Task) /\ queue_tasks_deferred' = Append(queue_tasks_deferred, u)
        BY <3>2, LoopParts DEF Defer, QueueTypeOK, u
      <4>3. /\ n \in Nat /\ DOMAIN queue_tasks_deferred = 1 .. n /\ DOMAIN queue_tasks_deferred' = 1 .. n + 1
            /\ (\A i \in 1 .. n : queue_tasks_deferred'[i] = queue_tasks_deferred[i]) /\ queue_tasks_deferred'[n + 1] = u
        BY <4>1, <4>2
      <4>4. \A i \in DOMAIN queue_tasks_deferred' :
               queue_tasks_deferred'[i] = u \/ \E j \in DOMAIN queue_tasks_deferred : queue_tasks_deferred'[i] = queue_tasks_deferred[j]
        <5> TAKE i \in DOMAIN queue_tasks_deferred'
        <5>1. i = n + 1 \/ i \in 1 .. n
          BY <4>3
        <5> QED BY <4>3, <5>1
      <4>5. Deferred(t)' => Deferred(t) \/ t = u
        BY <4>4 DEF Deferred
      <4> QED BY <3>2, <4>1, <4>5 DEF InHand
    <3> QED BY <2>1, <3>1, <3>2
  <2> QED BY <2>1, <2>2, <2>3, QuietFlows
<1> QED BY <1>1, <1>2, <1>3, <1>4

\* A launch gives idle slots to the task in hand and its children.
LEMMA LaunchPlaces ==
  ASSUME Fits, Families, Launch
  PROVE  /\ \A x \in Slot : \/ slots'[x] = slots[x]
                            \/ ~ Busy(x) /\ \E t \in Task : slots'[x] = Launched(t) /\ InHand(Root(t))
         /\ \E p \in Slot : slots'[p] = Launched(main.cur.task)
<1> PICK u \in Task : u = main.cur.task
  BY TaskInHand DEF Launch
<1>1. u \in Task /\ InHand(u) /\ Parent[u] = NoTask /\ u # NoTask
  BY TaskInHand, Messages DEF InHand, Launch, Families, Ahead
<1>2. PICK s \in SlotsFor(u) :
         /\ FitsOn(u, s)
         /\ LET L == Launches(u, s)
                at(y) == {i \in DOMAIN L : L[i].slot = y}
            IN  slots' = [y \in Slot |-> IF at(y) = {} THEN slots[y]
                                         ELSE Launched(L[CHOOSE i \in at(y) : TRUE].task)]
  BY DEF Launch
<1>3. s \in Slot
  BY <1>1, <1>2, SlotsForIs
<1> DEFINE L == Launches(u, s)
           n == Cardinality(Children(u))
           at(y) == {i \in DOMAIN L : L[i].slot = y}
           one(y) == CHOOSE i \in at(y) : TRUE
<1>4. slots' = [y \in Slot |-> IF at(y) = {} THEN slots[y] ELSE Launched(L[one(y)].task)]
  BY <1>2
<1>5. /\ n \in Nat /\ DOMAIN L = 1 .. n + 1 /\ L[n + 1].task = u
      /\ \A i \in 1 .. n + 1 : L[i].slot \in IdleSlots /\ (L[i].task = u \/ (L[i].task \in Task /\ Parent[L[i].task] = u))
      /\ \A i, j \in 1 .. n + 1 : L[i].slot = L[j].slot => i = j
  BY <1>1, <1>2, <1>3, LaunchesAre
<1> HIDE DEF L, n
<1>6. ASSUME NEW x \in Slot, at(x) # {}
      PROVE  one(x) \in DOMAIN L /\ L[one(x)].slot = x /\ slots'[x] = Launched(L[one(x)].task)
  <2>1. one(x) \in at(x)
    BY <1>6
  <2> QED BY <1>4, <1>6, <2>1
<1>7. ASSUME NEW x \in Slot, slots'[x] # slots[x]
      PROVE  ~ Busy(x) /\ \E t \in Task : slots'[x] = Launched(t) /\ InHand(Root(t))
  <2> DEFINE t == L[one(x)].task
  <2>1. at(x) # {}
    BY <1>4, <1>7
  <2>2. one(x) \in DOMAIN L /\ L[one(x)].slot = x /\ slots'[x] = Launched(t)
    BY <1>6, <2>1
  <2>3. x \in IdleSlots /\ (t = u \/ (t \in Task /\ Parent[t] = u))
    BY <1>5, <2>2
  <2> HIDE DEF t, one
  <2>4. t \in Task /\ Root(t) = u
    BY <1>1, <2>3 DEF Root
  <2> QED BY <1>1, <2>2, <2>3, <2>4 DEF IdleSlots
<1>8. \E p \in Slot : slots'[p] = Launched(u)
  <2> DEFINE p == L[n + 1].slot
  <2>1. n + 1 \in DOMAIN L /\ n + 1 \in 1 .. n + 1
    BY <1>5
  <2>2. p \in Slot
    BY <1>5, <2>1 DEF IdleSlots
  <2>3. n + 1 \in at(p)
    BY <2>1
  <2>4. one(p) \in DOMAIN L /\ L[one(p)].slot = p /\ slots'[p] = Launched(L[one(p)].task)
    BY <1>6, <2>2, <2>3
  <2>5. one(p) = n + 1
    BY <1>5, <2>1, <2>4
  <2> QED BY <1>5, <2>2, <2>4, <2>5
<1> QED BY <1>7, <1>8

\* A slot holds on to its task, and its prompt may have gone on.
Onward(new, old) ==
    /\ new.task = old.task
    /\ \/ new.state = old.state
       \/ old.state \in {"started", "prompt"} /\ new.state \in {"prompt", "done"}

\* When no prompt is rejected they all go on.
LEMMA PromptOnward ==
  ASSUME NEW acc, NEW k \in 0 .. NSlot - 1, PromptLoop(acc, k), NEW reject \in [Slot -> {"no"}],
         NEW take \in [Slot -> 0 .. PromptLen], \A s \in Slot : Onward(acc.slots[s], slots[s])
  PROVE  \A s \in Slot : Onward(AddPrompt(acc, k, reject, take).slots[s], slots[s])
<1> DEFINE b  == acc.batch
           S  == acc.slots
           cs == acc.calls
           sl == S[k]
           m  == Given(acc, k, take)
           to == IF sl.n + m = PromptLen THEN "done" ELSE "prompt"
           at == IF sl.n + m = PromptLen THEN Len(b) + m ELSE 0
           c  == b \o [j \in 1 .. m |-> k]
           new == [sl EXCEPT !.n = @ + m, !.state = to, !.i_batch = at]
<1>1. k \in Slot /\ reject[k] = "no"
  BY SlotIs
<1>2. acc = [slots |-> S, batch |-> b, calls |-> cs] /\ S \in [Slot -> SlotType]
  BY DEF PromptLoop, AllFit
<1>3. sl \in SlotType /\ Onward(sl, slots[k])
  BY <1>1, <1>2
<1>4. CASE AddPrompt(acc, k, reject, take) = acc
  BY <1>4
<1>5. CASE /\ sl.state \in {"started", "prompt"}
           /\ AddPrompt(acc, k, reject, take) = Prompted(acc, k, m)
  <2>1. AddPrompt(acc, k, reject, take) = [acc EXCEPT !.batch = @ \o [j \in 1 .. m |-> k], !.slots[k] = new]
    <3> HIDE DEF m
    <3> QED BY <1>5 DEF Prompted
  <2>2. new.task = sl.task /\ new.state \in {"done", "prompt"}
    <3>1. to \in {"done", "prompt"}
      OBVIOUS
    <3> HIDE DEF sl, m, to, at
    <3> QED BY <1>3, <3>1 DEF SlotType
  <2>3. Onward(new, slots[k])
    <3> HIDE DEF new, m
    <3> QED BY <1>3, <1>5, <2>2 DEF Onward
  <2> HIDE DEF new, m, sl, b, S, cs
  <2>4. AddPrompt(acc, k, reject, take).slots = [S EXCEPT ![k] = new]
    BY <1>1, <1>2, <2>1
  <2>5. \A s \in Slot : [S EXCEPT ![k] = new][s] = IF s = k THEN new ELSE S[s]
    BY <1>2
  <2> QED BY <2>3, <2>4, <2>5 DEF S
<1> HIDE DEF m, new, to, at, c
<1> QED BY <1>1, <1>4, <1>5, AddPromptIs DEF m

LEMMA BuiltOnward ==
  ASSUME Fits, main.batch = <<>>, NEW reject \in [Slot -> {"no"}], NEW take \in [Slot -> 0 .. PromptLen]
  PROVE  \A s \in Slot : Onward(Built(reject, take).slots[s], slots[s])
<1> DEFINE F == Filled(reject, take)
           T == {k \in Nat : k <= NSlot => \A s \in Slot : Onward(F[k].slots[s], slots[s])}
<1>0. NSlot \in Nat /\ reject \in [Slot -> {"no", "error", "final"}]
  BY SlotIs
<1>1. 0 \in T
  <2>1. SampleLoop(Sampled[NSlot], NSlot) /\ F[0] = Sampled[NSlot]
    BY SampledOk, FilledIs
  <2> HIDE DEF F
  <2>2. \A s \in Slot : Onward(F[0].slots[s], slots[s])
    BY <2>1 DEF SampleLoop, Onward
  <2> QED BY <2>2
<1>2. \A k \in 0 .. NSlot - 1 : k \in T => k + 1 \in T
  <2> TAKE k \in 0 .. NSlot - 1
  <2> HAVE k \in T
  <2>1. k \in 0 .. NSlot /\ PromptLoop(F[k], k) /\ F[k + 1] = AddPrompt(F[k], k, reject, take)
    BY <1>0, FilledOk, FilledIs
  <2>2. \A s \in Slot : Onward(F[k].slots[s], slots[s])
    BY <1>0
  <2> HIDE DEF F
  <2>3. \A s \in Slot : Onward(F[k + 1].slots[s], slots[s])
    BY <2>1, <2>2, PromptOnward
  <2> QED BY <1>0, <2>3
<1> HIDE DEF T
<1>3. \A k \in 0 .. NSlot : k \in T
  BY <1>0, <1>1, <1>2, UpFromZero
<1>4. NSlot \in T
  BY <1>0, <1>3
<1>5. \A s \in Slot : Onward(F[NSlot].slots[s], slots[s])
  BY <1>0, <1>4 DEF T
<1> QED BY <1>5, FilledIs DEF F

LEMMA BuildPlaces ==
  ASSUME Fits, BuildBatch, NEW s \in Slot
  PROVE  /\ slots'[s].task \in {slots[s].task, NoTask}
         /\ "prompt" \notin Faults => Onward(slots'[s], slots[s])
<1>0. main.batch = <<>>
  BY LoopParts DEF BuildBatch, LoopFits, InBatch
<1>1. PICK reject \in Rejects, take \in Takes : slots' = Built(reject, take).slots
  BY DEF BuildBatch
<1>2. /\ reject \in [Slot -> {"no", "error", "final"}] /\ take \in [Slot -> 0 .. PromptLen]
      /\ "prompt" \notin Faults => reject \in [Slot -> {"no"}]
  BY DEF Rejects, Takes
<1>3. PromptLoop(Built(reject, take), NSlot)
  BY <1>0, <1>2, BuiltOk
<1>4. slots'[s].task \in {slots[s].task, NoTask}
  BY <1>1, <1>3 DEF PromptLoop, Rejections
<1> QED BY <1>0, <1>1, <1>2, <1>4, BuiltOnward

\* A decoded view leaves the prompts that are being read; a child that still waits
\* afterwards has no parent whose prompt was done.
LEMMA ViewPlaces ==
  ASSUME Fits, DecodeView, NEW s \in Slot
  PROVE  /\ slots'[s].task \in {slots[s].task, NoTask}
         /\ slots[s].state \in {"started", "prompt"} =>
               slots'[s].task = slots[s].task /\ slots'[s].state = slots[s].state
         /\ slots'[s].state = "waiting" =>
               /\ slots'[s].task = slots[s].task /\ slots[s].state = "waiting"
               /\ ~ \E p \in Slot : slots[p].state = "done" /\ slots[p].task = Parent[slots[s].task]
<1> DEFINE ss == Activated(Decoded)
           sampled == {x \in Slot : Samples(ss[x])}
           sl == ss[s]
           D == Decoded
           wakes == \E p \in Slot : /\ D[p].state = "done" /\ D[s].state = "waiting"
                                    /\ D[p].task = Parent[D[s].task]
<1>0. main.batch # <<>>
  BY DEF DecodeView
<1>1. PICK stop \in SUBSET sampled :
         slots' = [x \in Slot |-> IF x \in sampled THEN AfterToken(ss[x], x \in stop) ELSE ss[x]]
  BY DEF DecodeView
<1>2. sl.task = slots[s].task /\ sl \in SlotType
  BY <1>0, ActivatedAfter DEF AfterView
<1>3. \A p \in Slot : D[p].state = slots[p].state /\ D[p].task = slots[p].task
  BY <1>0, DecodedIs
<1>4. sl.state \in {"waiting", "started", "prompt"} => sl = D[s] /\ ~ wakes
  <2>1. CASE ~ wakes
    BY <2>1 DEF Activated
  <2>2. CASE wakes
    <3> DEFINE is(q) == D[q].state = "done" /\ D[q].task = Parent[D[s].task]
               p == CHOOSE q \in Slot : is(q)
               c == [D[p] EXCEPT !.task = D[s].task]
    <3>1. sl = c
      BY <2>2 DEF Activated
    <3>2. \E q \in Slot : is(q)
      BY <2>2
    <3>3. p \in Slot /\ D[p].state = "done"
      BY <3>2
    <3> HIDE DEF p
    <3>4. D[p] \in SlotType
      BY <1>0, <3>3, DecodedIs
    <3>5. c.state = "done"
      BY <3>3, <3>4 DEF SlotType
    <3> QED BY <3>1, <3>5
  <2> QED BY <2>1, <2>2
<1>5. slots[s].state \in {"started", "prompt"} => sl = D[s]
  BY <1>3 DEF Activated
<1>6. s \in sampled => sl.state \in {"done", "generating"}
  BY DEF Samples
<1>7. slots'[s] = IF s \in sampled THEN AfterToken(sl, s \in stop) ELSE sl
  BY <1>1
<1> HIDE DEF sl, sampled, D
<1>8. AfterToken(sl, s \in stop).task \in {sl.task, NoTask} /\ AfterToken(sl, s \in stop).state \in {"idle", "generating"}
  <2>1. CASE s \in stop
    BY <2>1 DEF AfterToken, FreeSlot
  <2>2. CASE s \notin stop
    <3>1. AfterToken(sl, s \in stop) = [sl EXCEPT !.state = "generating", !.i_batch = 0, !.n_decoded = @ + 1]
      BY <2>2 DEF AfterToken
    <3> QED BY <1>2, <3>1 DEF SlotType
  <2> QED BY <2>1, <2>2
<1>9. slots'[s].task \in {slots[s].task, NoTask}
  BY <1>2, <1>7, <1>8
<1>10. slots[s].state \in {"started", "prompt"} => slots'[s].task = slots[s].task /\ slots'[s].state = slots[s].state
  <2> HAVE slots[s].state \in {"started", "prompt"}
  <2>1. sl.state = slots[s].state /\ sl.task = slots[s].task
    BY <1>3, <1>5
  <2>2. s \notin sampled
    BY <1>6, <2>1
  <2> QED BY <1>7, <2>1, <2>2
<1>11. ASSUME slots'[s].state = "waiting"
       PROVE  slots'[s].task = slots[s].task /\ slots[s].state = "waiting" /\ ~ wakes
  <2>1. s \notin sampled
    BY <1>7, <1>8, <1>11
  <2>2. slots'[s] = sl
    BY <1>7, <2>1
  <2>3. sl = D[s] /\ ~ wakes
    BY <1>4, <1>11, <2>2
  <2> QED BY <1>3, <1>11, <2>2, <2>3
<1> QED BY <1>3, <1>9, <1>10, <1>11

\* A slot keeps its task or loses it, or gets the task in hand or a child of that.
LEMMA SlotsAfter ==
  ASSUME Fits, Families, Loop, NEW t \in Task, InSlot(t)'
  PROVE  InSlot(t) \/ (Launch /\ InHand(Root(t)))
<1>1. PICK s \in Slot : slots'[s].task = t
  BY DEF InSlot
<1>2. t # NoTask /\ slots \in [Slot -> SlotType]
  BY LoopParts, Messages
<1>3. CASE UNCHANGED slots
  BY <1>1, <1>3 DEF InSlot
<1>4. CASE Launch
  <2>1. CASE slots'[s] = slots[s]
    BY <1>1, <2>1 DEF InSlot
  <2>2. CASE slots'[s] # slots[s]
    <3>1. PICK u \in Task : slots'[s] = Launched(u) /\ InHand(Root(u))
      BY <1>4, <2>2, LaunchPlaces
    <3>2. u = t
      BY <1>1, <3>1, LaunchedFits
    <3> QED BY <1>4, <3>1, <3>2
  <2> QED BY <2>1, <2>2
<1>5. CASE CancelTask /\ ~ UNCHANGED slots
  <2>1. PICK x \in Slot : slots' = [slots EXCEPT ![x] = FreeSlot]
    BY <1>5 DEF CancelTask
  <2>2. slots[s].task = t
    BY <1>1, <1>2, <2>1 DEF FreeSlot
  <2> QED BY <2>2 DEF InSlot
<1>6. CASE BuildBatch
  BY <1>1, <1>2, <1>6, BuildPlaces DEF InSlot
<1>7. CASE DecodeFails
  <2>1. slots'[s] = FreeSlot
    BY <1>7 DEF DecodeFails
  <2> QED BY <1>1, <1>2, <2>1 DEF FreeSlot
<1>8. CASE SpeculativeFails
  <2>1. slots' = Decoded /\ main.batch # <<>>
    BY <1>8 DEF SpeculativeFails
  <2>2. slots[s].task = t
    BY <1>1, <2>1, DecodedIs
  <2> QED BY <2>2 DEF InSlot
<1>9. CASE DecodeView
  BY <1>1, <1>2, <1>9, ViewPlaces DEF InSlot
<1> QED BY <1>3, <1>4, <1>5, <1>6, <1>7, <1>8, <1>9 DEF Loop, MakeCall, CallsMade, WakeUp, Pop, NoMoreTasks,
     DeferTask, LaunchFails, ActOnSlot, IgnoreNext, AllIdle, PostNext, EmptyBatch, DecodeNoRoom

\* With as many slots as tasks, the busy ones leave room for a task and its children.
LEMMA RoomFor ==
  ASSUME Fits, Once, Families, NEW t \in Task, InHand(t), Spacious(t)
  PROVE  \E s \in SlotsFor(t) : FitsOn(t, s)
<1> DEFINE C == Children(t)
           F == C \cup {t}
           R == Task \ F
           I == IdleSlots
           B == Slot \ I
           f == [s \in B |-> slots[s].task]
<1>1. Ahead(t) /\ Parent[t] = NoTask /\ t # NoTask /\ ~ InSlot(t) /\ SlotsFor(t) = I /\ Cardinality(Task) <= NSlot
  BY Messages DEF Ahead, Once, Families, SlotsFor, Spacious
<1>2. f \in Injection(B, R)
  <2>1. ASSUME NEW s \in B PROVE slots[s].task \in R /\ slots[s].task # NoTask
    <3>1. s \in Slot /\ slots[s].state # "idle" /\ slots[s] \in SlotType
      BY LoopParts DEF IdleSlots, Busy
    <3>2. slots[s].task \in Task /\ slots[s].task # NoTask
      BY <3>1, LoopParts DEF SlotFits, SlotType
    <3>3. slots[s].task # t
      BY <1>1, <3>1 DEF InSlot
    <3>4. Parent[slots[s].task] # t
      BY <1>1, <3>1, <3>2 DEF InSlot, Families
    <3> QED BY <3>2, <3>3, <3>4 DEF Children
  <2>2. \A s, x \in B : f[s] = f[x] => s = x
    BY <2>1 DEF Once
  <2> HIDE DEF B, R
  <2> QED BY <2>1, <2>2 DEF Injection, IsInjective
<1>3. C \in SUBSET Task /\ IsFiniteSet(C) /\ IsFiniteSet(Task) /\ I \in SUBSET Slot /\ IsFiniteSet(Slot) /\ t \notin C
  <2>1. C \in SUBSET Task /\ t \notin C /\ I \in SUBSET Slot
    BY <1>1 DEF Children, IdleSlots
  <2> HIDE DEF C
  <2> QED BY <2>1, TaskAssumption, SlotIs, FS_Subset
<1> HIDE DEF C, I, f
<1>4. IsFiniteSet(I) /\ IsFiniteSet(B) /\ IsFiniteSet(R) /\ IsFiniteSet(F)
  BY <1>3, FS_Subset, FS_Difference, FS_AddElement
<1>5. Cardinality(F) = Cardinality(C) + 1
  BY <1>3, FS_AddElement
<1>6. Cardinality(R) = Cardinality(Task) - Cardinality(F)
  <2>1. Task \cap F = F
    BY <1>3
  <2> QED BY <1>3, <2>1, FS_Difference
<1>7. Cardinality(B) = NSlot - Cardinality(I)
  <2>1. Slot \cap I = I
    BY <1>3
  <2> QED BY <1>3, <2>1, SlotIs, FS_Difference, ZenonT(60)
<1>8. Cardinality(B) <= Cardinality(R)
  BY <1>2, <1>4, FS_Injection
<1>9. Cardinality(C) \in Nat /\ Cardinality(I) \in Nat /\ Cardinality(Task) \in Nat /\ NSlot \in Nat
  BY <1>3, <1>4, SlotIs, FS_CardinalityType
<1>10. Cardinality(I) >= Cardinality(C) + 1
  <2> HIDE DEF F, R, B
  <2> QED BY <1>1, <1>5, <1>6, <1>7, <1>8, <1>9
<1>11. PICK s \in I : TRUE
  BY <1>4, <1>9, <1>10, FS_EmptySet
<1>12. Cardinality(I \ {s}) = Cardinality(I) - 1
  BY <1>4, FS_RemoveElement
<1>13. Cardinality(I \ {s}) >= Cardinality(C)
  BY <1>9, <1>10, <1>12
<1>14. FitsOn(t, s)
  BY <1>13 DEF FitsOn, I, C, IdleSlots
<1> QED BY <1>1, <1>14

\* A firm task is not deferred any more once it is cancelled.
LEMMA NotDeferred ==
  ASSUME Fits, Tracked, Quits, NEW t \in Task, Firm(t), Cancelled(Owner[t]), DeferTask, InHand(t)
  PROVE  FALSE
<1>1. Once /\ Families /\ Ahead(t)
  BY DEF Tracked, Ahead
<1>2. Root(t) = t
  BY <1>1 DEF Families, Root
<1>3. ~ Patient(t)
  BY <1>1 DEF Quits, Cancelled
<1>4. Spacious(t)
  BY <1>2, <1>3 DEF Firm
<1>5. main.cur.task = t
  BY Messages DEF InHand
<1> QED BY <1>1, <1>4, <1>5, RoomFor DEF DeferTask

\* The cancellation that is carried out takes the task from its slot.
LEMMA CancelFrees ==
  ASSUME Fits, Once, CancelTask, NEW t \in Task, main.cur = CancelOf(t)
  PROVE  ~ InSlot(t)'
<1>1. main.cur.task = t /\ t # NoTask /\ slots \in [Slot -> SlotType]
  BY LoopParts, Messages
<1>2. CASE (\A s \in Slot : slots[s].task # main.cur.task) /\ UNCHANGED slots
  BY <1>1, <1>2 DEF InSlot
<1>3. CASE \E s \in Slot : slots[s].task = main.cur.task /\ slots' = [slots EXCEPT ![s] = FreeSlot]
  <2>1. PICK s \in Slot : slots[s].task = t /\ slots' = [slots EXCEPT ![s] = FreeSlot]
    BY <1>1, <1>3
  <2>2. \A x \in Slot : slots'[x].task # t
    BY <1>1, <2>1 DEF Once, FreeSlot
  <2> QED BY <2>2 DEF InSlot
<1> QED BY <1>2, <1>3 DEF CancelTask

\* The loop does nothing for a cancelled task but what its cancellation asks for.
LEMMA LoopWithdraws ==
  ASSUME Fits, Fits', Tracked, Obeyed, Loop, NEW t \in Task, Firm(t)
  PROVE  Withdrawn(t)'
<1>0. /\ Once /\ Families /\ Quits /\ Flows(t) /\ UNCHANGED reader /\ Root(t) \in Task /\ Owner[Root(t)] = Owner[t]
      /\ Firm(Root(t))
  <2>1. UNCHANGED reader
    BY DEF Loop, MakeCall, CallsMade, WakeUp, Pop, NoMoreTasks, DeferTask, Launch, LaunchFails, ActOnSlot, CancelTask,
       IgnoreNext, AllIdle, PostNext, BuildBatch, EmptyBatch, DecodeNoRoom, DecodeFails, SpeculativeFails, DecodeView
  <2> QED BY <2>1, LoopFlows, RootIs DEF Tracked, Obeyed
<1> SUFFICES ASSUME Cancelled(Owner[t])
             PROVE  /\ ~ Queued(t)' /\ ~ Deferred(t)'
                    /\ InHand(Root(t))' => Noted(t)'
                    /\ InSlot(t)' => CancelQueued(t)'
  BY <1>0 DEF Withdrawn, Cancelled, HasNext
<1>1. /\ ~ Queued(t) /\ ~ Deferred(t) /\ ~ Queued(Root(t))
      /\ InHand(Root(t)) => Noted(t)
      /\ InSlot(t) => CancelQueued(t)
  BY <1>0 DEF Obeyed, Withdrawn
<1>2. ~ Queued(t)'
  BY <1>0, <1>1 DEF Flows
<1>3. ~ Deferred(t)'
  BY <1>0, <1>1, NotDeferred DEF Flows
<1>4. InHand(Root(t))' => Noted(t)'
  <2>1. InHand(Root(t))' => InHand(Root(t)) \/ Queued(Root(t))
    BY <1>0, LoopFlows DEF Flows
  <2> QED BY <1>0, <1>1, <2>1 DEF Flows
<1>5. ASSUME InSlot(t)' PROVE CancelQueued(t)'
  <2>1. CancelQueued(t)
    BY <1>0, <1>1, <1>5, SlotsAfter, NotedIs
  <2>2. CancelQueued(t)' \/ (CancelTask /\ main.cur = CancelOf(t))
    BY <1>0, <2>1 DEF Flows
  <2> QED BY <1>0, <1>5, <2>2, CancelFrees
<1> QED BY <1>2, <1>3, <1>4, <1>5

\* A request puts its tasks at the end of the queue.
LEMMA PostAppends ==
  ASSUME Fits, NEW r \in Reader, Post(r)
  PROVE  \E ms \in Seq(Message) : /\ queue_tasks' = queue_tasks \o ms
                                  /\ \A k \in 1 .. Len(ms) : \E t \in TasksOf(r) : ms[k] = Run(t)
<1> DEFINE S == {t \in TasksOf(r) : Parent[t] = NoTask}
           ts == InOrder(S)
           ms == [i \in DOMAIN ts |-> Run(ts[i])]
           run(k) == Run(ts[k])
<1>1. queue_tasks' = queue_tasks \o ms
  BY DEF Post, PostBack
<1>2. S \in SUBSET Task /\ S \in SUBSET TasksOf(r)
  BY DEF TasksOf
<1>3. (\A x \in S : x \in Int) /\ IsFiniteSet(S)
  <2> HIDE DEF S
  <2>1. IsFiniteSet(S)
    BY <1>2, TasksOfFinite, FS_Subset
  <2> QED BY <1>2, <2>1, TaskAssumption
<1> HIDE DEF S
<1>4. ts \in Seq(S)
  BY <1>3, InOrderIs
<1> HIDE DEF ts
<1>5. /\ Len(ts) \in Nat /\ ms = [k \in 1 .. Len(ts) |-> run(k)]
      /\ \A k \in 1 .. Len(ts) : run(k) \in Message /\ \E t \in TasksOf(r) : run(k) = Run(t)
  <2>1. \A k \in 1 .. Len(ts) : ts[k] \in S
    BY <1>4
  <2> QED BY <1>2, <1>4, <2>1, Messages
<1> HIDE DEF ms, run
<1>6. ms \in Seq(Message) /\ Len(ms) = Len(ts) /\ \A k \in 1 .. Len(ts) : ms[k] = run(k)
  BY <1>5
<1> QED BY <1>1, <1>5, <1>6

LEMMA PostPlaces ==
  ASSUME Fits, NEW r \in Reader, Post(r), NEW t \in Task
  PROVE  /\ Owner[t] # r => (Queued(t)' => Queued(t))
         /\ Noted(t)' <=> Noted(t)
<1>1. PICK ms \in Seq(Message) : /\ queue_tasks' = queue_tasks \o ms
                                 /\ \A k \in 1 .. Len(ms) : \E u \in TasksOf(r) : ms[k] = Run(u)
  BY PostAppends
<1> DEFINE n == Len(queue_tasks)
           m == Len(ms)
<1>2. /\ DOMAIN queue_tasks = 1 .. n /\ DOMAIN queue_tasks' = 1 .. n + m /\ n \in Nat /\ m \in Nat
      /\ \A k \in 1 .. n + m : queue_tasks'[k] = IF k <= n THEN queue_tasks[k] ELSE ms[k - n]
  BY <1>1, LoopParts, Concat DEF QueueTypeOK
<1>3. \A k \in 1 .. n + m : k \in 1 .. n \/ (~ k <= n /\ k - n \in 1 .. m)
  BY <1>2
<1>4. \A k \in 1 .. n : k \in 1 .. n + m /\ k <= n
  BY <1>2
<1> HIDE DEF n, m
<1>5. \A k \in DOMAIN queue_tasks' : \/ k \in DOMAIN queue_tasks /\ queue_tasks'[k] = queue_tasks[k]
                                     \/ \E u \in TasksOf(r) : queue_tasks'[k] = Run(u)
  BY <1>1, <1>2, <1>3, <1>4 DEF m
<1>6. \A k \in DOMAIN queue_tasks : k \in DOMAIN queue_tasks' /\ queue_tasks'[k] = queue_tasks[k]
  BY <1>2, <1>4
<1>7. \A u \in TasksOf(r) : u \in Task /\ Owner[u] = r /\ Run(u) # CancelOf(t) /\ (Run(u) = Run(t) => u = t)
  BY Messages DEF TasksOf
<1>8. ASSUME Owner[t] # r, Queued(t)' PROVE Queued(t)
  BY <1>5, <1>7, <1>8 DEF Queued
<1>9. Noted(t)' <=> Noted(t)
  BY <1>5, <1>6, <1>7 DEF Noted
<1> QED BY <1>8, <1>9

\* What is kept of the queue is all but the tasks of T.
LEMMA CleanedKeeps ==
  ASSUME QueueTypeOK, NEW T, NEW i \in DOMAIN queue_tasks, queue_tasks[i] \notin {Run(t) : t \in T}
  PROVE  \E k \in 1 .. Len(CleanedQueue(T)) : CleanedQueue(T)[k] = queue_tasks[i]
<1> DEFINE I == {j \in DOMAIN queue_tasks : queue_tasks[j] \notin {Run(t) : t \in T}}
<1>1. queue_tasks \in Seq(Message) /\ I \in SUBSET (1 .. Len(queue_tasks)) /\ i \in I
  BY DEF QueueTypeOK
<1>2. CleanedQueue(T) = Picked(queue_tasks, I)
  BY DEF CleanedQueue
<1> HIDE DEF I
<1>3. (\A x \in I : x \in Int) /\ IsFiniteSet(I)
  BY <1>1, PlacesFinite
<1>4. PICK k \in 1 .. Cardinality(I) : Nth(I, k) = i
  BY <1>1, <1>3, NthOnto
<1>5. Len(Picked(queue_tasks, I)) = Cardinality(I)
  BY <1>1, PickedFrom
<1>6. Picked(queue_tasks, I)[k] = queue_tasks[Nth(I, k)]
  BY <1>1, <1>4, <1>5, PickedFrom
<1> QED BY <1>2, <1>4, <1>5, <1>6

\* A reader that stops takes its tasks out of the queues and posts their cancellations.
LEMMA CancelPlaces ==
  ASSUME Fits, NEW r \in Reader, Cancel(r), NEW t \in Task
  PROVE  /\ Queued(t)' => Queued(t) /\ Owner[t] # r
         /\ Deferred(t)' => Deferred(t) /\ Owner[t] # r
         /\ Noted(t)' <=> Noted(t) \/ Owner[t] = r
<1>0. QueueTypeOK
  BY LoopParts
<1>1. PICK ts \in SetToSeqs(TasksOf(r)) : PostCancels(ts)
  BY DEF Cancel
<1> DEFINE T == TasksOf(r)
           c == Cancels(ts)
           q == CleanedQueue(T)
           d == CleanedDeferred(T)
<1>2. ts \in Seq(Task) /\ Range(ts) = T /\ \A u \in T : \E i \in 1 .. Len(ts) : ts[i] = u
  <2> DEFINE n == Cardinality(T)
  <2>1. n \in Nat /\ IsFiniteSet(T) /\ T \in SUBSET Task
    BY TasksOfFinite, FS_CardinalityType
  <2>2. ts \in [1 .. n -> T] /\ \A i, j \in 1 .. n : i # j => ts[i] # ts[j]
    BY DEF SetToSeqs
  <2> HIDE DEF T
  <2>3. ts \in Injection(1 .. n, T)
    BY <2>2 DEF Injection, IsInjective
  <2>4. Cardinality(1 .. n) = n
    BY <2>1, FS_Interval
  <2>5. ts \in Surjection(1 .. n, T)
    BY <2>1, <2>3, <2>4, FS_Injection
  <2>6. \A u \in T : \E i \in 1 .. n : ts[i] = u
    BY <2>5 DEF Surjection
  <2>7. ts \in Seq(Task) /\ Len(ts) = n /\ DOMAIN ts = 1 .. n
    BY <2>1, <2>2
  <2>8. Range(ts) = T
    BY <2>2, <2>6, <2>7 DEF Range
  <2> QED BY <2>6, <2>7, <2>8
<1>3. queue_tasks' = c \o q /\ queue_tasks_deferred' = d
  BY <1>1, <1>2 DEF PostCancels, Cancels
<1>4. /\ c \in Seq(Message) /\ Len(c) = Len(ts) /\ Len(ts) \in Nat
      /\ \A i \in 1 .. Len(ts) : c[i] = CancelOf(ts[Len(ts) + 1 - i]) /\ Len(ts) + 1 - i \in 1 .. Len(ts)
  BY <1>2, CancelsAre DEF Cancels
<1>5. /\ q \in Seq(Message)
      /\ \A k \in 1 .. Len(q) : \E i \in 1 .. Len(queue_tasks) :
            q[k] = queue_tasks[i] /\ queue_tasks[i] \notin {Run(u) : u \in T}
      /\ d \in Seq(Task)
      /\ \A k \in 1 .. Len(d) : \E i \in 1 .. Len(queue_tasks_deferred) :
            d[k] = queue_tasks_deferred[i] /\ queue_tasks_deferred[i] \notin T
  BY <1>0, CleanedIs
<1>6. \A i \in DOMAIN queue_tasks : queue_tasks[i] \notin {Run(u) : u \in T} => \E k \in 1 .. Len(q) : q[k] = queue_tasks[i]
  BY <1>0, CleanedKeeps
<1> DEFINE N == Len(ts)
           M == Len(q)
<1> HIDE DEF c, q, d
<1>7. /\ DOMAIN queue_tasks' = 1 .. N + M /\ N \in Nat /\ M \in Nat
      /\ \A k \in 1 .. N + M : queue_tasks'[k] = IF k <= N THEN c[k] ELSE q[k - N]
      /\ DOMAIN queue_tasks = 1 .. Len(queue_tasks) /\ DOMAIN queue_tasks_deferred = 1 .. Len(queue_tasks_deferred)
      /\ DOMAIN queue_tasks_deferred' = 1 .. Len(d)
  <2>1. /\ c \o q \in Seq(Message) /\ Len(c \o q) = Len(c) + Len(q)
        /\ \A k \in 1 .. Len(c) + Len(q) : (c \o q)[k] = IF k <= Len(c) THEN c[k] ELSE q[k - Len(c)]
    <3>1. c \in Seq(Message) /\ q \in Seq(Message)
      BY <1>4, <1>5
    <3> QED BY <3>1, Concat
  <2>2. queue_tasks \in Seq(Message) /\ queue_tasks_deferred \in Seq(Task) /\ d \in Seq(Task) /\ q \in Seq(Message)
    BY <1>0, <1>5 DEF QueueTypeOK
  <2> QED BY <1>3, <1>4, <2>1, <2>2
<1>8. \A u \in T : \E i \in 1 .. N : c[i] = CancelOf(u)
  <2> TAKE u \in T
  <2>1. PICK j \in 1 .. N : ts[j] = u
    BY <1>2
  <2> DEFINE i == N + 1 - j
  <2>2. i \in 1 .. N /\ N + 1 - i = j
    BY <1>7
  <2>3. c[i] = CancelOf(ts[N + 1 - i])
    BY <1>4, <2>2
  <2> QED BY <2>1, <2>2, <2>3
<1>9. \A i \in 1 .. N : \E u \in T : c[i] = CancelOf(u)
  <2> TAKE i \in 1 .. N
  <2>1. c[i] = CancelOf(ts[N + 1 - i]) /\ N + 1 - i \in 1 .. N
    BY <1>4
  <2>2. \A j \in 1 .. N : ts[j] \in Range(ts)
    BY <1>2 DEF Range
  <2> QED BY <1>2, <2>1, <2>2
<1>10. \A k \in 1 .. N + M : k \in 1 .. N \/ (~ k <= N /\ k - N \in 1 .. M)
  BY <1>7
<1>11. \A k \in 1 .. N : k \in 1 .. N + M /\ k <= N
  BY <1>7
<1>12. \A k \in 1 .. M : \E l \in 1 .. N + M : queue_tasks'[l] = q[k]
  <2> TAKE k \in 1 .. M
  <2> DEFINE l == k + N
  <2>1. l \in 1 .. N + M /\ ~ l <= N /\ l - N = k
    BY <1>7
  <2> HIDE DEF l
  <2> QED BY <1>7, <2>1
<1> HIDE DEF N
<1>13. \A k \in DOMAIN queue_tasks' :
          \/ \E u \in T : queue_tasks'[k] = CancelOf(u)
          \/ \E i \in DOMAIN queue_tasks : queue_tasks'[k] = queue_tasks[i] /\ queue_tasks[i] \notin {Run(u) : u \in T}
  <2> TAKE k \in DOMAIN queue_tasks'
  <2>1. CASE k \in 1 .. N
    <3>1. queue_tasks'[k] = c[k]
      BY <1>7, <1>11, <2>1
    <3> QED BY <1>9, <2>1, <3>1
  <2>2. CASE ~ k <= N /\ k - N \in 1 .. M
    <3>1. queue_tasks'[k] = q[k - N]
      BY <1>7, <2>2
    <3> HIDE DEF T
    <3>2. \E i \in 1 .. Len(queue_tasks) : q[k - N] = queue_tasks[i] /\ queue_tasks[i] \notin {Run(u) : u \in T}
      BY <1>5, <2>2
    <3> QED BY <1>7, <3>1, <3>2
  <2> QED BY <1>7, <1>10, <2>1, <2>2
<1>14. \A u \in T : \E k \in DOMAIN queue_tasks' : queue_tasks'[k] = CancelOf(u)
  BY <1>7, <1>8, <1>11
<1>15. \A i \in DOMAIN queue_tasks : queue_tasks[i] \notin {Run(u) : u \in T}
          => \E k \in DOMAIN queue_tasks' : queue_tasks'[k] = queue_tasks[i]
  BY <1>6, <1>7, <1>12
<1>16. \A u : u \in T <=> u \in Task /\ Owner[u] = r
  BY DEF TasksOf
<1> HIDE DEF T
<1>17. \A u \in Task : CancelOf(u) # Run(t) /\ CancelOf(t) # Run(u) /\ (CancelOf(u) = CancelOf(t) => u = t)
  BY Messages DEF CancelOf
<1>18. Queued(t)' => Queued(t) /\ Owner[t] # r
  <2> SUFFICES ASSUME NEW k \in DOMAIN queue_tasks', queue_tasks'[k] = Run(t) PROVE Queued(t) /\ t \notin T
    BY <1>16 DEF Queued
  <2> QED BY <1>13, <1>16, <1>17 DEF Queued
<1>19. Noted(t)' <=> Noted(t) \/ Owner[t] = r
  <2>1. CancelOf(t) \notin {Run(u) : u \in T}
    BY <1>16, <1>17
  <2>2. Noted(t) => Noted(t)'
    BY <1>15, <2>1 DEF Noted
  <2>3. Owner[t] = r => Noted(t)'
    BY <1>14, <1>16 DEF Noted
  <2>4. Noted(t)' => Noted(t) \/ Owner[t] = r
    BY <1>13, <1>16, <1>17 DEF Noted
  <2> QED BY <2>2, <2>3, <2>4
<1>20. Deferred(t)' => Deferred(t) /\ Owner[t] # r
  <2>1. \A k \in DOMAIN queue_tasks_deferred' : \E i \in DOMAIN queue_tasks_deferred :
           queue_tasks_deferred'[k] = queue_tasks_deferred[i] /\ queue_tasks_deferred[i] \notin T
    BY <1>3, <1>5, <1>7
  <2>2. Deferred(t)' => Deferred(t) /\ t \notin T
    BY <2>1 DEF Deferred
  <2> QED BY <1>16, <2>2
<1> QED BY <1>18, <1>19, <1>20

Stopping == {"stop", "purge", "cancel", "done"}

\* The steps of a reader that take nothing from the queues of tasks.
LEMMA WaitObeyed ==
  ASSUME Obeyed, UNCHANGED <<queue_tasks, queue_tasks_deferred, slots, main>>,
         \A x \in Reader : Cancelled(x)' <=> Cancelled(x),
         \A x \in Reader : reader'[x].pc \in {"purge", "cancel"} => HasNext(x)',
         \A p \in Task : Patient(p) /\ reader'[Owner[p]].pc \in Stopping => reader[Owner[p]].pc \in Stopping \/ ~ Ahead(p)
  PROVE  Obeyed'
<1>1. ASSUME NEW t \in Task
      PROVE  /\ Owner[t] \in Reader /\ Queued(t)' = Queued(t) /\ Deferred(t)' = Deferred(t) /\ InHand(t)' = InHand(t)
             /\ InSlot(t)' = InSlot(t) /\ Noted(t)' = Noted(t) /\ CancelQueued(t)' = CancelQueued(t)
             /\ Ahead(t)' = Ahead(t)
  BY FamilyIs DEF Queued, Deferred, InHand, InSlot, Noted, CancelQueued, Ahead
<1>2. Quits'
  BY <1>1 DEF Obeyed, Quits, Stopping
<1>3. Wanted'
  BY <1>1 DEF Obeyed, Wanted
<1>4. ASSUME NEW t \in Task, Firm(t) PROVE Withdrawn(t)'
  BY <1>1, <1>4, RootIs DEF Obeyed, Withdrawn
<1> QED BY <1>2, <1>3, <1>4 DEF Obeyed

\* A patient client stops when its task has a last result.
LEMMA ReceiveObeyed ==
  ASSUME Fits, Tracked, Obeyed, NEW r \in Reader, Receive(r)
  PROVE  Obeyed'
<1> DEFINE T == TasksOf(r)
           f == FirstOf(T)
           res == queue_results[f]
           got == IF res.kind = "final" THEN reader[r].got \cup {res.task} ELSE reader[r].got
           to == IF res.kind = "error" \/ got = T THEN "stop" ELSE "read"
<1>0. QueueTypeOK /\ Ends /\ reader \in [Reader -> [pc : ReaderStates, got : SUBSET Task]]
  BY LoopParts DEF Tracked, Fits
<1>1. /\ reader[r].pc = "read" /\ f # 0 /\ reader' = [reader EXCEPT ![r] = [pc |-> to, got |-> got]]
      /\ UNCHANGED <<queue_tasks, queue_tasks_deferred, slots, main>>
  BY DEF Receive, Recv
<1>2. f \in DOMAIN queue_results /\ res.task \in T
  BY <1>0, <1>1, FirstOfIs DEF QueueTypeOK
<1>3. \A x \in Reader : /\ reader'[x].pc = IF x = r THEN to ELSE reader[x].pc
                        /\ x # r => reader'[x].got = reader[x].got
  BY <1>0, <1>1
<1>4. ASSUME NEW p \in Task, Patient(p), Owner[p] = r, to = "stop" PROVE ~ Ahead(p)
  <2>1. res.task \in Task /\ Owner[res.task] = r /\ Root(res.task) = p /\ p \in T
    BY <1>2, <1>4 DEF Patient, TasksOf
  <2>2. CASE res.kind # "partial"
    <3>1. Ended(res.task)
      BY <1>2, <2>2 DEF Ended, ResultsOf
    <3>2. ~ Ahead(Root(res.task))
      BY <1>0, <2>1, <3>1 DEF Ends, Root
    <3> QED BY <2>1, <3>2
  <2>3. CASE res.kind = "partial"
    <3>1. p \in reader[r].got
      BY <1>4, <2>1, <2>3
    <3>2. Ended(p)
      BY <1>4, <3>1 DEF Ended
    <3> QED BY <1>0, <3>2 DEF Ends
  <2> QED BY <2>2, <2>3
<1>5. to \in {"stop", "read"}
  OBVIOUS
<1> HIDE DEF to
<1>6. \A x \in Reader : Cancelled(x)' <=> Cancelled(x)
  BY <1>1, <1>3, <1>5 DEF Cancelled, HasNext
<1>7. \A x \in Reader : reader'[x].pc \in {"purge", "cancel"} => HasNext(x)'
  BY <1>3, <1>5 DEF Obeyed, Wanted, HasNext
<1>8. \A p \in Task : Patient(p) /\ reader'[Owner[p]].pc \in Stopping => reader[Owner[p]].pc \in Stopping \/ ~ Ahead(p)
  BY <1>3, <1>4, <1>5, FamilyIs DEF Stopping
<1> QED BY <1>1, <1>6, <1>7, <1>8, WaitObeyed

LEMMA PostObeyed ==
  ASSUME Fits, Obeyed, NEW r \in Reader, Post(r)
  PROVE  Obeyed'
<1>1. /\ reader[r].pc = "post" /\ Goto(r, "read") /\ UNCHANGED <<queue_tasks_deferred, slots, main>>
  BY DEF Post, PostBack
<1>2. \A x \in Reader : /\ reader'[x].pc = IF x = r THEN "read" ELSE reader[x].pc
                        /\ reader'[x].got = reader[x].got
  BY <1>1, GotoIs
<1>3. \A x \in Reader : (Cancelled(x)' <=> Cancelled(x)) /\ (Cancelled(x) => x # r)
  BY <1>1, <1>2 DEF Cancelled, HasNext
<1>4. ASSUME NEW t \in Task
      PROVE  /\ Owner[t] \in Reader /\ Deferred(t)' = Deferred(t) /\ InHand(t)' = InHand(t)
             /\ InSlot(t)' = InSlot(t) /\ (Noted(t)' <=> Noted(t)) /\ (CancelQueued(t)' <=> CancelQueued(t))
             /\ Owner[t] # r => (Queued(t)' => Queued(t)) /\ (Ahead(t)' => Ahead(t))
  <2>1. (Noted(t)' <=> Noted(t)) /\ (Owner[t] # r => (Queued(t)' => Queued(t)))
    BY PostPlaces
  <2>2. Deferred(t)' = Deferred(t) /\ InHand(t)' = InHand(t) /\ InSlot(t)' = InSlot(t)
    BY <1>1 DEF Deferred, InHand, InSlot
  <2> QED BY <1>1, <2>1, <2>2, NotedIs, FamilyIs DEF Ahead
<1>5. Quits'
  BY <1>2, <1>4 DEF Obeyed, Quits
<1>6. Wanted'
  <2>1. \A x \in Reader : reader'[x].pc \in {"purge", "cancel"} => HasNext(x)'
    BY <1>2 DEF Obeyed, Wanted, HasNext
  <2> QED BY <1>3, <1>4, <2>1 DEF Obeyed, Wanted
<1>7. ASSUME NEW t \in Task, Firm(t) PROVE Withdrawn(t)'
  BY <1>3, <1>4, <1>7, RootIs DEF Obeyed, Withdrawn
<1> QED BY <1>5, <1>6, <1>7 DEF Obeyed

LEMMA CancelObeyed ==
  ASSUME Fits, Obeyed, NEW r \in Reader, Cancel(r)
  PROVE  Obeyed'
<1>1. reader[r].pc = "cancel" /\ Goto(r, "done") /\ UNCHANGED <<slots, main>>
  BY DEF Cancel
<1>2. \A x \in Reader : /\ reader'[x].pc = IF x = r THEN "done" ELSE reader[x].pc
                        /\ reader'[x].got = reader[x].got
  BY <1>1, GotoIs
<1>3. \A x \in Reader : Cancelled(x)' <=> Cancelled(x) \/ x = r
  BY <1>1, <1>2 DEF Obeyed, Wanted, Cancelled, HasNext
<1>4. ASSUME NEW t \in Task
      PROVE  /\ Owner[t] \in Reader /\ InHand(t)' = InHand(t) /\ InSlot(t)' = InSlot(t)
             /\ Queued(t)' => Queued(t) /\ Owner[t] # r
             /\ Deferred(t)' => Deferred(t) /\ Owner[t] # r
             /\ Ahead(t)' => Ahead(t)
             /\ Noted(t)' <=> Noted(t) \/ Owner[t] = r
             /\ CancelQueued(t)' <=> CancelQueued(t) \/ Owner[t] = r
  <2>1. /\ Queued(t)' => Queued(t) /\ Owner[t] # r
        /\ Deferred(t)' => Deferred(t) /\ Owner[t] # r
        /\ Noted(t)' <=> Noted(t) \/ Owner[t] = r
    BY CancelPlaces
  <2>2. InHand(t)' = InHand(t) /\ InSlot(t)' = InSlot(t)
    BY <1>1 DEF InHand, InSlot
  <2> QED BY <1>1, <2>1, <2>2, NotedIs, FamilyIs DEF Ahead
<1>5. Quits'
  BY <1>1, <1>2, <1>4 DEF Obeyed, Quits
<1>6. Wanted'
  <2>1. \A x \in Reader : reader'[x].pc \in {"purge", "cancel"} => HasNext(x)'
    BY <1>2 DEF Obeyed, Wanted, HasNext
  <2> QED BY <1>3, <1>4, <2>1 DEF Obeyed, Wanted
<1>7. ASSUME NEW t \in Task, Firm(t) PROVE Withdrawn(t)'
  BY <1>3, <1>4, <1>7, RootIs DEF Obeyed, Withdrawn
<1> QED BY <1>5, <1>6, <1>7 DEF Obeyed

LEMMA ReaderObeyed ==
  ASSUME Fits, Tracked, Obeyed, NEW r \in Reader, ReaderStep(r)
  PROVE  Obeyed'
<1>1. CASE Post(r)
  BY <1>1, PostObeyed
<1>2. CASE Receive(r)
  BY <1>2, ReceiveObeyed
<1>3. CASE Cancel(r)
  BY <1>3, CancelObeyed
<1>4. ASSUME NEW from, NEW to, reader[r].pc = from, Goto(r, to), from # "done",
             UNCHANGED <<queue_tasks, queue_tasks_deferred, slots, main>>,
             to = "done" => ~ HasNext(r),
             to \in {"purge", "cancel"} => HasNext(r),
             to \in Stopping => r \in Impatient \/ from \in Stopping
      PROVE  Obeyed'
  <2>1. \A x \in Reader : /\ reader'[x].pc = IF x = r THEN to ELSE reader[x].pc
                          /\ reader'[x].got = reader[x].got
    BY <1>4, GotoIs
  <2>2. \A x \in Reader : HasNext(x)' <=> HasNext(x)
    BY <2>1 DEF HasNext
  <2>3. \A x \in Reader : Cancelled(x)' <=> Cancelled(x)
    BY <1>4, <2>1, <2>2 DEF Cancelled
  <2>4. \A x \in Reader : reader'[x].pc \in {"purge", "cancel"} => HasNext(x)'
    BY <1>4, <2>1, <2>2 DEF Obeyed, Wanted
  <2>5. \A p \in Task : Patient(p) /\ reader'[Owner[p]].pc \in Stopping => reader[Owner[p]].pc \in Stopping
    BY <1>4, <2>1, FamilyIs DEF Patient
  <2> QED BY <1>4, <2>3, <2>4, <2>5, WaitObeyed
<1>5. CASE Register(r)
  BY <1>4, <1>5 DEF Register, AddWaiting, Stopping
<1>6. CASE Leave(r)
  BY <1>4, <1>6 DEF Leave, queues
<1>7. CASE StopWaiting(r)
  <2> DEFINE to == IF HasNext(r) THEN "purge" ELSE "done"
  <2>1. /\ reader[r].pc = "stop" /\ Goto(r, to) /\ UNCHANGED <<queue_tasks, queue_tasks_deferred, slots, main>>
        /\ to = "done" => ~ HasNext(r)
        /\ to \in {"purge", "cancel"} => HasNext(r)
    BY <1>7 DEF StopWaiting, RemoveWaiting
  <2> HIDE DEF to
  <2> QED BY <1>4, <2>1 DEF Stopping
<1>8. CASE Purge(r)
  <2>1. reader[r].pc = "purge" /\ Goto(r, "cancel") /\ UNCHANGED <<queue_tasks, queue_tasks_deferred, slots, main>>
    BY <1>8 DEF Purge, RemoveWaitingAndResults
  <2>2. HasNext(r)
    BY <2>1 DEF Obeyed, Wanted
  <2> QED BY <1>4, <2>1, <2>2 DEF Stopping
<1> QED BY <1>1, <1>2, <1>3, <1>5, <1>6, <1>7, <1>8 DEF ReaderStep

LEMMA LoopObeyed ==
  ASSUME Fits, Fits', Tracked, Obeyed, Loop
  PROVE  Obeyed'
<1>1. UNCHANGED reader
  BY DEF Loop, MakeCall, CallsMade, WakeUp, Pop, NoMoreTasks, DeferTask, Launch, LaunchFails, ActOnSlot, CancelTask,
     IgnoreNext, AllIdle, PostNext, BuildBatch, EmptyBatch, DecodeNoRoom, DecodeFails, SpeculativeFails, DecodeView
<1>2. \A t \in Task : Flows(t)
  BY LoopFlows
<1>3. \A t \in Task : (Ahead(t)' => Ahead(t)) /\ (CancelQueued(t)' => CancelQueued(t))
  BY <1>2 DEF Flows, Ahead
<1>4. Quits'
  BY <1>1, <1>3 DEF Obeyed, Quits
<1>5. Wanted'
  BY <1>1, <1>3 DEF Obeyed, Wanted, Cancelled, HasNext
<1>6. \A t \in Task : Firm(t) => Withdrawn(t)'
  BY LoopWithdraws
<1> QED BY <1>4, <1>5, <1>6 DEF Obeyed

LEMMA InitObeyed == Init => Obeyed
<1> SUFFICES ASSUME Init PROVE Obeyed
  OBVIOUS
<1>1. \A r \in Reader : reader[r].pc = "new"
  BY DEF Init
<1>2. main.cur = NextResponse /\ queue_tasks = <<>>
  BY DEF Init, IdleMain, QueueInit
<1>3. \A t \in Task : ~ CancelQueued(t) /\ ~ Cancelled(Owner[t]) /\ reader[Owner[t]].pc = "new"
  <2>1. \A t \in Task : CancelOf(t) # NextResponse
    BY Messages
  <2> QED BY <1>1, <1>2, <2>1, NotedIs, FamilyIs DEF Noted, Cancelled
<1> QED BY <1>1, <1>3 DEF Obeyed, Quits, Wanted, Withdrawn

LEMMA ObeyedStays == Fits /\ Fits' /\ Tracked /\ Obeyed /\ [Next]_vars => Obeyed'
<1> SUFFICES ASSUME Fits, Fits', Tracked, Obeyed, [Next]_vars PROVE Obeyed'
  OBVIOUS
<1>1. CASE Loop
  BY <1>1, LoopObeyed
<1>2. ASSUME NEW r \in Reader, ReaderStep(r) PROVE Obeyed'
  BY <1>2, ReaderObeyed
<1>3. CASE UNCHANGED vars
  <2>1. UNCHANGED <<queue_tasks, queue_tasks_deferred, slots, main, reader>>
    BY <1>3 DEF vars, queues
  <2>2. \A x \in Reader : (Cancelled(x)' <=> Cancelled(x)) /\ (reader'[x].pc \in {"purge", "cancel"} => HasNext(x)')
    BY <2>1 DEF Cancelled, HasNext, Obeyed, Wanted
  <2> QED BY <2>1, <2>2, WaitObeyed
<1> QED BY <1>1, <1>2, <1>3 DEF Next

\* The invariant of the two theorems below.
THEOREM ObeyedCorrect == Spec => [](Fits /\ Tracked /\ Obeyed)
<1>1. Init => Fits /\ Tracked /\ Obeyed
  BY InitFits, InitTracked, InitObeyed
<1>2. Fits /\ Tracked /\ Obeyed /\ [Next]_vars => (Fits /\ Tracked /\ Obeyed)'
  BY FitsStays, TrackedStays, ObeyedStays
<1> QED BY <1>1, <1>2, PTL DEF Spec

LEMMA NowhereElse ==
  ASSUME Fits, Tracked, Obeyed, NEW t \in Task, Firm(t), Cancelled(Owner[t]), ~ CancelQueued(t)
  PROVE  Places(t) = 0
<1> DEFINE Q == {i \in DOMAIN queue_tasks : queue_tasks[i] = Run(t)}
           D == {i \in DOMAIN queue_tasks_deferred : queue_tasks_deferred[i] = t}
           S == {s \in Slot : slots[s].task = t}
<1>1. ~ Queued(t) /\ ~ Deferred(t) /\ ~ InSlot(t) /\ (InHand(Root(t)) => Noted(t))
  BY DEF Obeyed, Withdrawn
<1>2. ~ InHand(t)
  <2>1. InHand(t) => Root(t) = t
    BY DEF Tracked, Families, Ahead, Root
  <2> QED BY <1>1, <2>1, NotedIs
<1>3. Q = {} /\ D = {} /\ S = {} /\ main.cur # Run(t)
  BY <1>1, <1>2 DEF Queued, Deferred, InSlot, InHand
<1>4. Places(t) = Cardinality(Q) + Cardinality(D) + (IF main.cur = Run(t) THEN 1 ELSE 0) + Cardinality(S)
  BY DEF Places, Count
<1> HIDE DEF Q, D, S
<1> QED BY <1>3, <1>4, FS_EmptySet

\* Once the cancellation of a task has been carried out the task is nowhere: when its
\* client stays until its tasks are launched, or there is always a slot for it.
THEOREM CancelledCorrect ==
  ASSUME \A t \in Task : Firm(t)
  PROVE  Spec => []CancelledGone
<1>1. Fits /\ Tracked /\ Obeyed => CancelledGone
  BY NowhereElse DEF CancelledGone
<1> QED BY <1>1, ObeyedCorrect, PTL

\* What a waiting child holds on to is kept: a parent leaves its slot before it has handed
\* over its prompt only when it is cancelled, and then its children are cancelled too.
LEMMA LoopMinded ==
  ASSUME Fits, Fits', Tracked, Obeyed, \A s \in Slot : Minded(s), "prompt" \notin Faults, Loop, NEW s \in Slot
  PROVE  Minded(s)'
<1> DEFINE Hands(sl) == sl.state \in {"started", "prompt", "done"}
           kept(t) == /\ Parent[t] # NoTask
                      /\ Firm(t) => \/ CancelQueued(t)'
                                    \/ \E p \in Slot : slots'[p].task = Parent[t] /\ Hands(slots'[p])
<1>0. Once /\ Families /\ Wanted /\ slots \in [Slot -> SlotType] /\ slots' \in [Slot -> SlotType]
  BY LoopParts DEF Tracked, Obeyed, Fits
<1> SUFFICES ASSUME NEW t, t = slots'[s].task, slots'[s].state = "waiting"
             PROVE  kept(t)
  BY DEF Minded, CancelQueued
<1>1. t \in Task /\ InSlot(t)'
  <2>1. SlotFits(slots[s], s, main.batch, main.i)' /\ slots'[s] \in SlotType
    BY <1>0 DEF Fits
  <2>2. t # NoTask
    BY <2>1 DEF SlotFits
  <2> QED BY <2>1, <2>2 DEF SlotType, InSlot
<1>2. ASSUME slots[s].state = "waiting", slots[s].task = t,
             \A p \in Slot : slots[p].task = Parent[t] /\ Hands(slots[p]) =>
                (Firm(t) => CancelQueued(t)') \/ (slots'[p].task = Parent[t] /\ Hands(slots'[p]))
      PROVE  kept(t)
  <2> SUFFICES ASSUME Firm(t) PROVE CancelQueued(t)' \/ \E p \in Slot : slots'[p].task = Parent[t] /\ Hands(slots'[p])
    BY <1>2 DEF Minded
  <2>1. CancelQueued(t) \/ \E p \in Slot : slots[p].task = Parent[t] /\ Hands(slots[p])
    BY <1>2 DEF Minded
  <2>2. CASE CancelQueued(t)
    <3>1. CancelQueued(t)' \/ (CancelTask /\ main.cur = CancelOf(t))
      BY <1>1, <2>2, LoopFlows DEF Flows
    <3> QED BY <1>0, <1>1, <3>1, CancelFrees
  <2>3. CASE \E p \in Slot : slots[p].task = Parent[t] /\ Hands(slots[p])
    BY <1>2, <2>3
  <2> QED BY <2>1, <2>2, <2>3
<1>3. CASE UNCHANGED slots
  BY <1>2, <1>3
<1>4. CASE Launch
  <2>1. \A x \in Slot : \/ slots'[x] = slots[x]
                        \/ ~ Busy(x) /\ \E u \in Task : slots'[x] = Launched(u) /\ InHand(Root(u))
    BY <1>0, <1>4, LaunchPlaces
  <2>2. CASE slots'[s] = slots[s]
    <3>1. \A p \in Slot : Hands(slots[p]) => slots'[p] = slots[p]
      BY <2>1 DEF Busy
    <3> QED BY <1>2, <2>2, <3>1
  <2>3. CASE slots'[s] # slots[s]
    <3>1. PICK u \in Task : slots'[s] = Launched(u) /\ InHand(Root(u))
      BY <2>1, <2>3
    <3>2. u = t
      BY <3>1, LaunchedFits
    <3>3. Parent[t] # NoTask
      BY <3>1, <3>2 DEF Launched, FreeSlot
    <3>4. main.cur.task = Parent[t] /\ Parent[t] \in Task /\ Parent[Parent[t]] = NoTask
      BY <1>1, <3>1, <3>2, <3>3, FamilyIs DEF InHand, Root, Run
    <3>5. PICK p \in Slot : slots'[p] = Launched(Parent[t])
      BY <1>0, <1>4, <3>4, LaunchPlaces
    <3>6. slots'[p].task = Parent[t] /\ slots'[p].state = "started"
      BY <3>4, <3>5, LaunchedFits DEF Launched, FreeSlot
    <3> QED BY <3>3, <3>6
  <2> QED BY <2>2, <2>3
<1>5. CASE CancelTask /\ ~ UNCHANGED slots
  <2>1. PICK x \in Slot : slots[x].task = main.cur.task /\ slots' = [slots EXCEPT ![x] = FreeSlot]
    BY <1>5 DEF CancelTask
  <2>2. \A y \in Slot : slots'[y] = IF y = x THEN FreeSlot ELSE slots[y]
    BY <1>0, <2>1
  <2>3. s # x
    BY <2>2 DEF FreeSlot
  <2>4. ASSUME NEW p \in Slot, slots[p].task = Parent[t], Hands(slots[p]), p = x, Firm(t) PROVE CancelQueued(t)'
    <3>1. SlotFits(slots[p], p, main.batch, main.i)
      BY LoopParts
    <3>2. Parent[t] # NoTask
      BY <2>4, <3>1 DEF SlotFits
    <3>3. Parent[t] \in Task /\ Owner[Parent[t]] = Owner[t]
      BY <1>1, <3>2, FamilyIs
    <3>4. main.cur = CancelOf(Parent[t])
      <4>1. main.cur \in Message /\ main.cur.type = "cancel"
        BY <1>5, LoopParts DEF CancelTask, LoopFits, MainType
      <4>2. main.cur.task = Parent[t]
        BY <2>1, <2>4
      <4> QED BY <4>1, <4>2 DEF Message, CancelOf
    <3>5. Cancelled(Owner[t])
      BY <1>0, <3>3, <3>4 DEF Wanted, CancelQueued
    <3>6. Cancelled(Owner[t])'
      BY <1>5, <3>5 DEF CancelTask, Cancelled, HasNext
    <3>7. Withdrawn(t)'
      BY <1>1, <2>4, LoopWithdraws
    <3> QED BY <1>1, <3>6, <3>7 DEF Withdrawn
  <2> QED BY <1>2, <2>2, <2>3, <2>4
<1>6. CASE BuildBatch
  <2>1. \A y \in Slot : Onward(slots'[y], slots[y])
    BY <1>6, BuildPlaces
  <2>2. slots[s].state = "waiting" /\ slots[s].task = t
    BY <2>1 DEF Onward
  <2>3. \A p \in Slot : Hands(slots[p]) => slots'[p].task = slots[p].task /\ Hands(slots'[p])
    BY <2>1 DEF Onward
  <2> QED BY <1>2, <2>2, <2>3
<1>7. CASE DecodeFails
  <2>1. slots'[s] = FreeSlot
    BY <1>7 DEF DecodeFails
  <2> QED BY <2>1 DEF FreeSlot
<1>8. CASE SpeculativeFails
  <2>1. slots' = Decoded /\ main.batch # <<>>
    BY <1>8 DEF SpeculativeFails
  <2>2. \A y \in Slot : slots'[y].state = slots[y].state /\ slots'[y].task = slots[y].task
    BY <2>1, DecodedIs
  <2> QED BY <1>2, <2>2
<1>9. CASE DecodeView
  <2>1. /\ slots[s].task = t /\ slots[s].state = "waiting"
        /\ ~ \E p \in Slot : slots[p].state = "done" /\ slots[p].task = Parent[t]
    BY <1>9, ViewPlaces
  <2>2. \A p \in Slot : slots[p].state \in {"started", "prompt"} =>
           slots'[p].task = slots[p].task /\ slots'[p].state = slots[p].state
    BY <1>9, ViewPlaces
  <2> QED BY <1>2, <2>1, <2>2
<1> QED BY <1>3, <1>4, <1>5, <1>6, <1>7, <1>8, <1>9 DEF Loop, MakeCall, CallsMade, WakeUp, Pop, NoMoreTasks,
     DeferTask, LaunchFails, ActOnSlot, IgnoreNext, AllIdle, PostNext, EmptyBatch, DecodeNoRoom

LEMMA ReaderMinded ==
  ASSUME Fits, NEW r \in Reader, ReaderStep(r), NEW s \in Slot, Minded(s)
  PROVE  Minded(s)'
<1>1. UNCHANGED slots
  BY DEF ReaderStep, Register, Post, Receive, Leave, StopWaiting, Purge, Cancel
<1>2. ASSUME slots[s].state = "waiting", CancelQueued(slots[s].task) PROVE CancelQueued(slots[s].task)'
  <2> PICK t \in Task : t = slots[s].task
    <3>1. SlotFits(slots[s], s, main.batch, main.i) /\ slots[s] \in SlotType
      BY LoopParts
    <3> QED BY <1>2, <3>1 DEF SlotFits, SlotType
  <2>1. CASE UNCHANGED <<queue_tasks, main>>
    BY <1>1, <1>2, <2>1 DEF CancelQueued
  <2>2. CASE Post(r)
    <3>1. UNCHANGED main
      BY <2>2 DEF Post
    <3>2. CancelQueued(t)'
      BY <1>2, <2>2, <3>1, PostPlaces, NotedIs
    <3> QED BY <1>1, <3>2 DEF CancelQueued
  <2>3. CASE Cancel(r)
    <3>1. UNCHANGED main
      BY <2>3 DEF Cancel
    <3>2. CancelQueued(t)'
      BY <1>2, <2>3, <3>1, CancelPlaces, NotedIs
    <3> QED BY <1>1, <3>2 DEF CancelQueued
  <2> QED BY <2>1, <2>2, <2>3 DEF ReaderStep, Register, Receive, Leave, StopWaiting, Purge, AddWaiting, Recv,
       RemoveWaiting, RemoveWaitingAndResults, queues
<1> QED BY <1>1, <1>2 DEF Minded

LEMMA MindedStays ==
  ASSUME "prompt" \notin Faults
  PROVE  Fits /\ Fits' /\ Tracked /\ Obeyed /\ (\A s \in Slot : Minded(s)) /\ [Next]_vars => (\A s \in Slot : Minded(s))'
<1> SUFFICES ASSUME Fits, Fits', Tracked, Obeyed, \A s \in Slot : Minded(s), [Next]_vars, NEW s \in Slot PROVE Minded(s)'
  OBVIOUS
<1>1. CASE Loop
  BY <1>1, LoopMinded
<1>2. ASSUME NEW r \in Reader, ReaderStep(r) PROVE Minded(s)'
  BY <1>2, ReaderMinded
<1>3. CASE UNCHANGED vars
  BY <1>3 DEF vars, queues, Minded, CancelQueued
<1> QED BY <1>1, <1>2, <1>3 DEF Next

\* A child waits for a parent that has yet to hand over its prompt, or for its own
\* cancellation: when the clients of families stay until their tasks are launched, or
\* there are always slots for them, and no prompt is rejected.
THEOREM ChildrenCorrect ==
  ASSUME "prompt" \notin Faults, \A t \in Task : Parent[t] # NoTask => Firm(t)
  PROVE  Spec => []ChildHasParent
<1> DEFINE Inv == Fits /\ Tracked /\ Obeyed /\ \A s \in Slot : Minded(s)
<1>1. Init => Inv
  <2>1. Init => \A s \in Slot : Minded(s)
    BY DEF Init, FreeSlot, Minded
  <2> QED BY <2>1, InitFits, InitTracked, InitObeyed
<1>2. Inv /\ [Next]_vars => Inv'
  BY FitsStays, TrackedStays, ObeyedStays, MindedStays
<1>3. Inv => ChildHasParent
  <2> SUFFICES ASSUME Inv, NEW s \in Slot, slots[s].state = "waiting"
               PROVE  \/ CancelQueued(slots[s].task)
                      \/ \E p \in Slot : /\ slots[p].task = Parent[slots[s].task]
                                         /\ slots[p].state \in {"started", "prompt", "done"}
    BY DEF ChildHasParent
  <2>1. SlotFits(slots[s], s, main.batch, main.i) /\ slots[s] \in SlotType
    BY LoopParts
  <2>2. slots[s].task \in Task
    BY <2>1 DEF SlotFits, SlotType
  <2> QED BY <2>2 DEF Minded
<1> QED BY <1>1, <1>2, <1>3, PTL DEF Spec
=============================================================================
