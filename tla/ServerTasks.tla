----------------------------- MODULE ServerTasks -----------------------------
(***************************************************************************)
(* llama-server between an HTTP request and its answer: the readers of the *)
(* HTTP threads (server_response_reader), the queues (ServerQueue), and    *)
(* the inference thread (server_queue::start_loop), which launches tasks   *)
(* on slots and runs update_slots of server-context.cpp.                   *)
(*                                                                         *)
(* Slots belong to the inference thread.  A handler changes them at once   *)
(* and then makes its calls on the queues one by one, in the order of the  *)
(* code: main.calls holds the calls still to be made, and main.next where  *)
(* the loop goes after them.                                               *)
(*                                                                         *)
(* The prompt and the memory of a slot are abstracted to counts: n tokens  *)
(* were put into a batch, kv of them were decoded.                         *)
(***************************************************************************)
EXTENDS ServerQueue

CONSTANTS Reader,      \* requests; each reads the results of its own tasks
          Owner,       \* the request a task belongs to
          Parent,      \* id_parent of a child task, NoTask for the others
          Impatient,   \* requests whose client may close the connection
          Streaming,   \* partial results are sent
          Faults,      \* what may fail: "launch", "prompt", "kv", "decode", "spec"
          PromptLen,   \* tokens of a prompt
          NPredict,    \* bound on the tokens generated
          NBatch       \* n_batch

ASSUME ServerAssumption ==
    /\ Owner \in [Task -> Reader]
    /\ Parent \in [Task -> Task \cup {NoTask}]
    /\ \A t \in Task : Parent[t] # NoTask =>   \* a child comes with its parent, and has none
         Parent[Parent[t]] = NoTask /\ Owner[Parent[t]] = Owner[t]
    /\ Impatient \subseteq Reader /\ Streaming \in BOOLEAN
    /\ PromptLen \in Nat \ {0} /\ NPredict \in Nat \ {0}
    /\ NBatch \in Nat /\ NBatch >= Cardinality(Slot)

VARIABLES reader,   \* the HTTP threads
          slots,
          main      \* the inference thread

vars == <<queues, reader, slots, main>>

TasksOf(r)  == {t \in Task : Owner[t] = r}
Children(t) == {c \in Task : Parent[c] = t}
InOrder(S)  == Ascending(S)

FreeSlot == [state |-> "idle", task |-> NoTask, n |-> 0, kv |-> 0, i_batch |-> 0, n_decoded |-> 0]

IdleMain == [pc |-> "wait", cur |-> NextResponse, calls |-> <<>>, next |-> "wait",
             batch |-> <<>>, i |-> 0, n_batch |-> NBatch, n_empty |-> 0]

Init ==
    /\ QueueInit
    /\ reader = [r \in Reader |-> [pc |-> "new", got |-> {}]]
    /\ slots = [s \in Slot |-> FreeSlot]
    /\ main = IdleMain

-----------------------------------------------------------------------------
(* server_response_reader, in an HTTP thread *)

Goto(r, pc) == reader' = [reader EXCEPT ![r].pc = pc]

\* post_tasks(), first half: the results are wanted before the tasks exist
Register(r) ==
    /\ reader[r].pc = "new"
    /\ AddWaiting(TasksOf(r))
    /\ Goto(r, "post")
    /\ UNCHANGED <<slots, main>>

\* second half; children travel inside their parent
Post(r) ==
    LET ts == InOrder({t \in TasksOf(r) : Parent[t] = NoTask})
    IN  /\ reader[r].pc = "post"
        /\ PostBack([i \in DOMAIN ts |-> Run(ts[i])])
        /\ Goto(r, "read")
        /\ UNCHANGED <<slots, main>>

\* next(): an error stops the reader; once every task has had its last result
\* the reader is destroyed, which calls stop() as well
Receive(r) ==
    /\ reader[r].pc = "read"
    /\ Recv(TasksOf(r))
    /\ LET res == queue_results[FirstOf(TasksOf(r))]
           got == IF res.kind = "final" THEN reader[r].got \cup {res.task} ELSE reader[r].got
       IN  reader' = [reader EXCEPT ![r] =
                        [pc  |-> IF res.kind = "error" \/ got = TasksOf(r) THEN "stop" ELSE "read",
                         got |-> got]]
    /\ UNCHANGED <<slots, main>>

\* should_stop(): the client has gone
Leave(r) ==
    /\ r \in Impatient
    /\ reader[r].pc = "read"
    /\ Goto(r, "stop")
    /\ UNCHANGED <<queues, slots, main>>

HasNext(r) == reader[r].got # TasksOf(r)

\* stop(), step by step: nobody waits for the tasks; their results are removed;
\* they are cancelled
StopWaiting(r) ==
    /\ reader[r].pc = "stop"
    /\ RemoveWaiting(TasksOf(r))
    /\ Goto(r, IF HasNext(r) THEN "purge" ELSE "done")
    /\ UNCHANGED <<slots, main>>

\* variant for the runs: the results are left behind
PurgeNothing(r) ==
    /\ reader[r].pc = "purge"
    /\ RemoveWaiting(TasksOf(r))
    /\ Goto(r, "cancel")
    /\ UNCHANGED <<slots, main>>

Purge(r) ==
    /\ reader[r].pc = "purge"
    /\ RemoveWaitingAndResults(TasksOf(r))
    /\ Goto(r, "cancel")
    /\ UNCHANGED <<slots, main>>

Cancel(r) ==
    /\ reader[r].pc = "cancel"
    /\ \E ts \in SetToSeqs(TasksOf(r)) : PostCancels(ts)
    /\ Goto(r, "done")
    /\ UNCHANGED <<slots, main>>

-----------------------------------------------------------------------------
(* The inference thread: the loop, and the calls a handler still has to make *)

Busy(s)      == slots[s].state # "idle"
IdleSlots    == {s \in Slot : ~Busy(s)}
SendOf(t, k) == [call |-> "send", result |-> [task |-> t, kind |-> k]]
ReleaseOf(s) == [call |-> "release", slot |-> s]

\* go on at pc, after the calls
Then(pc, calls) == [main EXCEPT !.pc = "calls", !.calls = calls, !.next = pc, !.cur = NextResponse]

MakeCall ==
    /\ main.pc = "calls" /\ main.calls # <<>>
    /\ \/ Head(main.calls).call = "send" /\ Send(Head(main.calls).result)
       \/ Head(main.calls).call = "release" /\ PopDeferred(Head(main.calls).slot)
    /\ main' = [main EXCEPT !.calls = Tail(@)]
    /\ UNCHANGED <<reader, slots>>

CallsMade ==
    /\ main.pc = "calls" /\ main.calls = <<>>
    /\ main' = [main EXCEPT !.pc = main.next, !.next = "wait"]
    /\ UNCHANGED <<queues, reader, slots>>

\* start_loop(): wait for a task, pop every one of them, then update_slots()
WakeUp ==
    /\ main.pc = "wait" /\ queue_tasks # <<>>
    /\ main' = [main EXCEPT !.pc = "pop"]
    /\ UNCHANGED <<queues, reader, slots>>

Pop ==
    /\ main.pc = "pop" /\ queue_tasks # <<>>
    /\ main' = [main EXCEPT !.pc = Head(queue_tasks).type, !.cur = Head(queue_tasks)]
    /\ queue_tasks' = Tail(queue_tasks)
    /\ UNCHANGED <<queue_tasks_deferred, waiting_task_ids, queue_results, reader, slots>>

NoMoreTasks ==
    /\ main.pc = "pop" /\ queue_tasks = <<>>
    /\ main' = [main EXCEPT !.pc = "update"]
    /\ UNCHANGED <<queues, reader, slots>>

-----------------------------------------------------------------------------
(* process_single_task() *)

\* get_slot_by_id() of what t asks for: an id beyond the slots wraps around
SlotAsked(t) == Pinned[t] % NSlot

\* the slot a task asks for, or any idle one
SlotsFor(t) == IF Pinned[t] # -1 THEN {SlotAsked(t)} ELSE IdleSlots

\* slot s can take t, and as many others are idle as t has children
FitsOn(t, s) == ~Busy(s) /\ Cardinality(IdleSlots \ {s}) >= Cardinality(Children(t))

DeferTask ==
    /\ main.pc = "run"
    /\ LET t == main.cur.task
       IN  /\ ~\E s \in SlotsFor(t) : FitsOn(t, s)
           /\ Defer(t)
    /\ main' = Then("pop", <<>>)
    /\ UNCHANGED <<reader, slots>>

\* children first, on the first idle slots, then the task itself on s
Launches(t, s) ==
    LET others == InOrder(IdleSlots \ {s})
        cs     == InOrder(Children(t))
    IN  Append([i \in DOMAIN cs |-> [task |-> cs[i], slot |-> others[i]]], [task |-> t, slot |-> s])

Launched(t) ==
    [FreeSlot EXCEPT !.state = IF Parent[t] = NoTask THEN "started" ELSE "waiting", !.task = t]

Launch ==
    /\ main.pc = "run" /\ main.cur.task \notin Action
    /\ \E s \in SlotsFor(main.cur.task) :
          /\ FitsOn(main.cur.task, s)
          /\ LET L == Launches(main.cur.task, s)
                 at(x) == {i \in DOMAIN L : L[i].slot = x}
             IN  slots' = [x \in Slot |-> IF at(x) = {} THEN slots[x]
                                          ELSE Launched(L[CHOOSE i \in at(x) : TRUE].task)]
    /\ main' = [Then("pop", <<>>) EXCEPT !.n_empty = 0]
    /\ UNCHANGED <<queues, reader>>

\* variant for the runs: the slots launched so far are not released
LaunchFailsHalfway ==
    /\ "launch" \in Faults
    /\ main.pc = "run" /\ main.cur.task \notin Action
    /\ \E s \in SlotsFor(main.cur.task) :
          /\ FitsOn(main.cur.task, s)
          /\ LET L == Launches(main.cur.task, s)
                 at(x, k) == {i \in 1..(k - 1) : L[i].slot = x}
             IN  \E k \in DOMAIN L :
                    /\ main' = Then("pop", <<SendOf(L[k].task, "error")>>)
                    /\ slots' = [x \in Slot |-> IF at(x, k) = {} THEN slots[x]
                                     ELSE Launched(L[CHOOSE i \in at(x, k) : TRUE].task)]
    /\ UNCHANGED <<queues, reader>>

\* the k-th launch fails: an error is sent, the slots launched so far released
LaunchFails ==
    /\ "launch" \in Faults
    /\ main.pc = "run" /\ main.cur.task \notin Action
    /\ \E s \in SlotsFor(main.cur.task) :
          /\ FitsOn(main.cur.task, s)
          /\ LET L == Launches(main.cur.task, s)
             IN  \E k \in DOMAIN L :
                    LET gone == InOrder({L[i].slot : i \in 1..(k - 1)})
                    IN  main' = [Then("pop", <<SendOf(L[k].task, "error")>>
                                            \o [i \in DOMAIN gone |-> ReleaseOf(gone[i])])
                                 EXCEPT !.n_empty = IF k > 1 THEN 0 ELSE @]
    /\ UNCHANGED <<queues, reader, slots>>

\* save, restore or erase an idle slot; a restore may fail
ActOnSlot ==
    /\ main.pc = "run" /\ main.cur.task \in Action
    /\ ~Busy(SlotAsked(main.cur.task))
    /\ \E kind \in {"final", "error"} : main' = Then("pop", <<SendOf(main.cur.task, kind)>>)
    /\ UNCHANGED <<queues, reader, slots>>

CancelTask ==
    /\ main.pc = "cancel"
    /\ \/ /\ \A s \in Slot : slots[s].task # main.cur.task
          /\ main' = Then("pop", <<>>)
          /\ UNCHANGED slots
       \/ \E s \in Slot :
          /\ slots[s].task = main.cur.task
          /\ slots' = [slots EXCEPT ![s] = FreeSlot]
          /\ main' = Then("pop", <<ReleaseOf(s)>>)
    /\ UNCHANGED <<queues, reader>>

IgnoreNext ==
    /\ main.pc = "next"
    /\ main' = Then("pop", <<>>)
    /\ UNCHANGED <<queues, reader, slots>>

-----------------------------------------------------------------------------
(* update_slots() *)

AllIdle ==
    /\ main.pc = "update" /\ IdleSlots = Slot
    /\ main' = [main EXCEPT !.pc = "wait"]
    /\ UNCHANGED <<queues, reader, slots>>

PostNext ==
    /\ main.pc = "update" /\ IdleSlots # Slot
    /\ PostBack(<<NextResponse>>)
    /\ main' = [main EXCEPT !.pc = "build"]
    /\ UNCHANGED <<reader, slots>>

\* the batch gets one token of each generating slot
AddSampled(acc, s) ==
    LET sl == acc.slots[s]
    IN  IF sl.state # "generating" THEN acc
        ELSE [acc EXCEPT !.batch = Append(@, s),
                         !.slots[s] = [sl EXCEPT !.n = @ + 1, !.i_batch = Len(acc.batch) + 1]]

\* variant for the runs: the room left in the batch is not looked at
PromptRoomAny(acc, sl) == PromptLen - sl.n

\* how many tokens of its prompt a slot can give to the batch
PromptRoom(acc, sl) == Min({PromptLen - sl.n, NBatch - Len(acc.batch)})

\* how many it gives.  It gives fewer to leave a checkpoint behind, and waits for the
\* next batch, or is passed over, when it cannot be batched with those before it, when
\* its prompt has to be in one batch or when prompts are not batched with generated
\* tokens: take[s] is what it would give.  One that gives nothing keeps its state, so
\* that its prompt may still be rejected (the code has then looked at some of them)
Given(acc, s, take) ==
    Min({PromptRoom(acc, acc.slots[s]),
         IF acc.batch = <<>> THEN Max({1, take[s]}) ELSE take[s]})

\* then prompt tokens while there is room.  reject[s] is what happens to the prompt of
\* a slot just started: "error" (too long), "final" (empty) or "no".
AddPrompt(acc, s, reject, take) ==
    LET sl   == acc.slots[s]
        k    == Given(acc, s, take)
        all  == sl.n + k = PromptLen
    IN  IF PromptRoom(acc, sl) = 0 \/ sl.state \notin {"started", "prompt"} THEN acc
        ELSE IF sl.state = "started" /\ reject[s] # "no"
        THEN [acc EXCEPT !.slots[s] = FreeSlot,
                         !.calls = @ \o <<SendOf(sl.task, reject[s]), ReleaseOf(s)>>]
        ELSE IF k = 0 THEN acc
        ELSE [acc EXCEPT !.batch = @ \o [j \in 1..k |-> s],
                         !.slots[s] = [sl EXCEPT !.n = @ + k,
                                                 !.state = IF all THEN "done" ELSE "prompt",
                                                 !.i_batch = IF all THEN Len(acc.batch) + k ELSE 0]]

\* the loops over the slots, up to the k-th
Sampled[k \in 0..NSlot] ==
    IF k = 0 THEN [slots |-> slots, batch |-> <<>>, calls |-> <<>>]
    ELSE AddSampled(Sampled[k - 1], k - 1)

Built(reject, take) ==
    LET filled[k \in 0..NSlot] ==
            IF k = 0 THEN Sampled[NSlot] ELSE AddPrompt(filled[k - 1], k - 1, reject, take)
    IN  filled[NSlot]

\* what may become of the prompts
Rejects ==
    {f \in [Slot -> IF "prompt" \in Faults THEN {"no", "error", "final"} ELSE {"no"}] :
        \A s \in Slot : slots[s].state # "started" => f[s] = "no"}
Takes ==
    {f \in [Slot -> 0..PromptLen] :
        \A s \in Slot : slots[s].state \notin {"started", "prompt"} => f[s] = 0}

BuildBatch ==
    /\ main.pc = "build"
    /\ \E reject \in Rejects, take \in Takes :
          LET b == Built(reject, take)
          IN  /\ slots' = b.slots
              /\ main' = [Then("decode", b.calls) EXCEPT
                            !.batch = b.batch, !.i = 0, !.n_batch = NBatch]
    /\ UNCHANGED <<queues, reader>>

\* GGML_ABORT the fourth time in a row that there is nothing to decode
EmptyBatch ==
    /\ main.pc = "decode" /\ main.batch = <<>>
    /\ main' = [main EXCEPT !.n_empty = @ + 1,
                            !.pc = IF main.n_empty + 1 > 3 THEN "aborted" ELSE "wait"]
    /\ UNCHANGED <<queues, reader, slots>>

\* the tokens of the batch that the next llama_decode() is given
View == (main.i + 1)..Min({main.i + main.n_batch, Len(main.batch)})

\* the slots once the view is decoded
Decoded ==
    [s \in Slot |-> [slots[s] EXCEPT !.kv = @ + Cardinality({j \in View : main.batch[j] = s})]]

\* no room in the KV cache: try again with half as many tokens
DecodeNoRoom ==
    /\ "kv" \in Faults
    /\ main.pc = "decode" /\ main.batch # <<>> /\ main.n_batch > 1
    /\ main' = [main EXCEPT !.n_batch = @ \div 2, !.n_empty = 0]
    /\ UNCHANGED <<queues, reader, slots>>

\* the slots P send a partial result, those of R the last one, and then they are
\* released: one slot after the other
ResultCalls(P, R, last) ==
    LET at(i) == InOrder(P \cup R)[(i + 2) \div 3]
        calls == [i \in 1..(3 * Cardinality(P \cup R)) |->
                    CASE i % 3 = 1 -> SendOf(slots[at(i)].task, "partial")
                      [] i % 3 = 2 -> SendOf(slots[at(i)].task, last)
                      [] OTHER     -> ReleaseOf(at(i))]
    IN  Picked(calls, {i \in DOMAIN calls : IF i % 3 = 1 THEN at(i) \in P ELSE at(i) \in R})

\* the context is full or the computation failed: every task gets an error
DecodeFails ==
    /\ main.pc = "decode" /\ main.batch # <<>>
    /\ "decode" \in Faults \/ ("kv" \in Faults /\ main.n_batch = 1)
    /\ main' = [Then("wait", ResultCalls({}, Slot \ IdleSlots, "error"))
                EXCEPT !.batch = <<>>, !.n_empty = 0]
    /\ slots' = [s \in Slot |-> FreeSlot]
    /\ UNCHANGED <<queues, reader>>

\* the view is in the memory but the speculative context failed: the loop ends.
\* (Bound: a token that was not sampled is put into a batch again once only.)
SpeculativeFails ==
    /\ "spec" \in Faults
    /\ main.pc = "decode" /\ main.batch # <<>>
    /\ \A s \in Slot : slots[s].n <= PromptLen + slots[s].n_decoded
    /\ main' = [main EXCEPT !.pc = "wait", !.batch = <<>>, !.n_empty = 0]
    /\ slots' = Decoded
    /\ UNCHANGED <<queues, reader>>

\* variant for the runs: the children are not woken
ActivatedNone(ss) == ss

\* the children of a slot whose prompt is done get a copy of its state
Activated(ss) ==
    [s \in Slot |->
        IF \E p \in Slot : /\ ss[p].state = "done" /\ ss[s].state = "waiting"
                           /\ ss[p].task = Parent[ss[s].task]
        THEN LET p == CHOOSE p \in Slot : ss[p].state = "done" /\ ss[p].task = Parent[ss[s].task]
             IN  [ss[p] EXCEPT !.task = ss[s].task]
        ELSE ss[s]]

\* variant for the runs: the view is not looked at
SamplesAny(sl) == sl.state \in {"done", "generating"}

\* a slot is sampled when its last token is in the view
Samples(sl) == sl.state \in {"done", "generating"} /\ sl.i_batch \in View

\* variant for the runs: a slot that stops is not released
AfterTokenKept(sl, stop) ==
    [sl EXCEPT !.state = "generating", !.i_batch = 0, !.n_decoded = @ + 1]

\* process_token(): the slot after one more token, stop when it was the last
AfterToken(sl, stop) ==
    IF stop THEN FreeSlot
    ELSE [sl EXCEPT !.state = "generating", !.i_batch = 0, !.n_decoded = @ + 1]

\* a decoded view: children are woken, slots sampled, the rest of the batch follows
DecodeView ==
    /\ main.pc = "decode" /\ main.batch # <<>>
    /\ LET ss      == Activated(Decoded)
           sampled == {s \in Slot : Samples(ss[s])}
           last    == Max(View) = Len(main.batch)
       IN  \E stop \in {S \in SUBSET sampled :
                            \A s \in sampled : ss[s].n_decoded + 1 = NPredict => s \in S} :
              /\ slots' = [s \in Slot |-> IF s \in sampled
                                          THEN AfterToken(ss[s], s \in stop) ELSE ss[s]]
              /\ main' = [Then(IF last THEN "wait" ELSE "decode",
                               ResultCalls(IF Streaming THEN sampled ELSE {}, stop, "final"))
                          EXCEPT !.i = IF last THEN 0 ELSE Max(View),
                                 !.batch = IF last THEN <<>> ELSE @,
                                 !.n_batch = NBatch, !.n_empty = 0]
    /\ UNCHANGED <<queues, reader>>

-----------------------------------------------------------------------------
ReaderStep(r) == \/ Register(r) \/ Post(r) \/ Receive(r) \/ Leave(r)
                 \/ StopWaiting(r) \/ Purge(r) \/ Cancel(r)

Loop == \/ MakeCall \/ CallsMade \/ WakeUp \/ Pop \/ NoMoreTasks
        \/ DeferTask \/ Launch \/ LaunchFails \/ ActOnSlot \/ CancelTask \/ IgnoreNext
        \/ AllIdle \/ PostNext \/ BuildBatch \/ EmptyBatch
        \/ DecodeNoRoom \/ DecodeFails \/ SpeculativeFails \/ DecodeView

Next == Loop \/ \E r \in Reader : ReaderStep(r)

\* The inference thread keeps running.  A thread that has begun a request goes
\* on with it, but nobody has to make a request or to close a connection.
Fairness ==
    /\ WF_vars(Loop)
    /\ \A r \in Reader : WF_vars(Post(r) \/ Receive(r) \/ StopWaiting(r) \/ Purge(r) \/ Cancel(r))

Spec == Init /\ [][Next]_vars

FairSpec == Spec /\ Fairness

-----------------------------------------------------------------------------
(* Properties *)

SlotStates == {"idle", "waiting", "started", "prompt", "done", "generating"}
MainStates == {"wait", "pop", "run", "cancel", "next", "calls", "update", "build", "decode",
               "aborted"}

\* Type invariant of the queues, the readers, the slots and the loop.
TypeOK ==
    /\ QueueTypeOK
    /\ reader \in [Reader -> [pc : {"new", "post", "read", "stop", "purge", "cancel", "done"},
                              got : SUBSET Task]]
    /\ slots \in [Slot -> [state : SlotStates, task : Task \cup {NoTask},
                           n : 0..(PromptLen + NPredict), kv : 0..(PromptLen + NPredict),
                           i_batch : 0..NBatch, n_decoded : 0..NPredict]]
    /\ main.pc \in MainStates /\ main.next \in MainStates /\ main.n_empty \in 0..4

Count(seq, Test(_)) == Cardinality({i \in DOMAIN seq : Test(seq[i])})

\* how often t is queued, deferred, in the hand of the inference thread, in a slot
Places(t) ==
    Count(queue_tasks, LAMBDA m : m = Run(t)) + Count(queue_tasks_deferred, LAMBDA u : u = t)
    + (IF main.cur = Run(t) THEN 1 ELSE 0) + Cardinality({s \in Slot : slots[s].task = t})

\* A task is in one place at a time, however often it is deferred and resumed,
\* cancelled, or dropped by a failing launch; otherwise it would run twice.
InOnePlace == \A t \in Task : Places(t) <= 1

\* No result is left in queue_results once its reader has stopped: nobody would
\* ever remove it.
NoStrayResult ==
    \A i \in DOMAIN queue_results :
        reader[Owner[queue_results[i].task]].pc \in {"post", "read", "stop", "purge"}

\* A task has at most one final result, and nothing follows it: what the
\* assertion "duplicate result received" of wait_for_all relies on.
OneFinalResult ==
    \A i \in DOMAIN queue_results : LET t == queue_results[i].task IN
        /\ t \notin reader[Owner[t]].got
        /\ \A j \in DOMAIN queue_results :
              j > i /\ queue_results[j].task = t => queue_results[i].kind = "partial"

CancelQueued(t) == main.cur = CancelOf(t) \/ CancelOf(t) \in Range(queue_tasks)

\* A child slot waits only while its parent has yet to hand over its prompt, or
\* its own cancellation is on the way: otherwise nobody would ever wake it.
ChildHasParent ==
    main.pc \notin {"calls", "decode"} =>
        \A s \in Slot : slots[s].state = "waiting" =>
            \/ CancelQueued(slots[s].task)
            \/ \E p \in Slot : /\ slots[p].task = Parent[slots[s].task]
                               /\ slots[p].state \in {"started", "prompt", "done"}

\* Between two batches the memory holds every token that was put into a batch:
\* the prompt and the memory of a slot agree, for the children as well.
MemoryHoldsPrompt ==
    main.pc \in {"wait", "pop", "run", "cancel", "next", "update"} =>
        \A s \in Slot : slots[s].kv = slots[s].n

Cancelled(r) == reader[r].pc = "done" /\ HasNext(r)

\* Once the cancellation of a task has been carried out the task is nowhere.
CancelledGone ==
    \A t \in Task : Cancelled(Owner[t]) /\ ~CancelQueued(t) => Places(t) = 0

\* The inference thread never aborts the process.
NeverAborts == main.pc # "aborted"

\* A request whose client waits is answered, whatever the others do.
Answered ==
    \A r \in Reader \ Impatient : reader[r].pc = "read" ~> reader[r].pc = "done"
=============================================================================
