----------------------------- MODULE ServerQueue -----------------------------
(***************************************************************************)
(* The two queues between the HTTP threads and the inference thread of     *)
(* llama-server: server_queue and server_response of                       *)
(* src/tools/server/server-queue.cpp.  Every operation runs under the      *)
(* mutex of its queue, so each is one step of the thread that calls it.    *)
(* Threads wait on condition variables with predicates over these          *)
(* variables; a wait is an action that is enabled when the predicate       *)
(* holds.  (ServerSleep looks at the condition variable itself.)           *)
(*                                                                         *)
(* A message of the task queue runs a task, cancels one, or is the         *)
(* NEXT_RESPONSE the inference thread posts to itself.                     *)
(***************************************************************************)
EXTENDS Integers, Sequences, FiniteSets, SequencesExt, Functions, Subsequences

CONSTANTS Task,     \* ids of the tasks, children included
          NSlot,    \* n_parallel, the slots
          Pinned,   \* the slot a task asks for, which may be no slot; -1: it asks for none
          Action    \* tasks that act on their slot (save, restore, erase)

Slot == 0..(NSlot - 1)

ASSUME TaskAssumption ==
    /\ Task \subseteq Nat \ {0} /\ IsFiniteSet(Task)
    /\ NSlot \in Nat \ {0}
    /\ Pinned \in [Task -> Nat \cup {-1}]
    /\ Action \subseteq Task /\ \A t \in Action : Pinned[t] # -1

NoTask == 0

VARIABLES queue_tasks,            \* messages, the next one first
          queue_tasks_deferred,   \* tasks that found no slot
          waiting_task_ids,       \* tasks whose results somebody wants
          queue_results           \* results not yet received

queues == <<queue_tasks, queue_tasks_deferred, waiting_task_ids, queue_results>>

Message == [type : {"run", "cancel"}, task : Task] \cup [type : {"next"}, task : {NoTask}]
Result  == [task : Task, kind : {"partial", "final", "error"}]

Run(t)       == [type |-> "run", task |-> t]
CancelOf(t)  == [type |-> "cancel", task |-> t]
NextResponse == [type |-> "next", task |-> NoTask]

QueueInit ==
    /\ queue_tasks = <<>>
    /\ queue_tasks_deferred = <<>>
    /\ waiting_task_ids = {}
    /\ queue_results = <<>>

-----------------------------------------------------------------------------
(* server_queue *)

\* post(), at the back
PostBack(ms) ==
    /\ queue_tasks' = queue_tasks \o ms
    /\ UNCHANGED <<queue_tasks_deferred, waiting_task_ids, queue_results>>

\* variant for the runs: pending tasks stay in the queue
QueueUncleaned(T) == queue_tasks

\* cleanup_pending_task() for the tasks T: what is left of the two queues
CleanedQueue(T) ==
    Picked(queue_tasks, {i \in DOMAIN queue_tasks : queue_tasks[i] \notin {Run(t) : t \in T}})
CleanedDeferred(T) ==
    Picked(queue_tasks_deferred, {i \in DOMAIN queue_tasks_deferred : queue_tasks_deferred[i] \notin T})

\* post() of cancel tasks for ts, each pushed to the front
PostCancels(ts) ==
    /\ queue_tasks' = [i \in DOMAIN ts |-> CancelOf(ts[Len(ts) + 1 - i])] \o CleanedQueue(Range(ts))
    /\ queue_tasks_deferred' = CleanedDeferred(Range(ts))
    /\ UNCHANGED <<waiting_task_ids, queue_results>>

\* defer()
Defer(t) ==
    /\ queue_tasks_deferred' = Append(queue_tasks_deferred, t)
    /\ UNCHANGED <<queue_tasks, waiting_task_ids, queue_results>>

\* the place of the deferred task pop_deferred_task(s) takes: the first one with
\* id_slot = s (slot actions keep their slot elsewhere), else the first
Resumed(s) ==
    LET wants(t) == t \notin Action /\ Pinned[t] = s
    IN  IF \E t \in Range(queue_tasks_deferred) : wants(t)
        THEN SelectInSeq(queue_tasks_deferred, wants)
        ELSE 1

\* variants for the runs: nothing is taken; what is taken stays deferred
PopDeferredNothing(s) == UNCHANGED queues

PopDeferredKept(s) ==
    /\ IF queue_tasks_deferred = <<>>
       THEN UNCHANGED queue_tasks
       ELSE queue_tasks' = <<Run(queue_tasks_deferred[Resumed(s)])>> \o queue_tasks
    /\ UNCHANGED <<queue_tasks_deferred, waiting_task_ids, queue_results>>

\* pop_deferred_task(s)
PopDeferred(s) ==
    /\ IF queue_tasks_deferred = <<>>
       THEN UNCHANGED <<queue_tasks, queue_tasks_deferred>>
       ELSE /\ queue_tasks' = <<Run(queue_tasks_deferred[Resumed(s)])>> \o queue_tasks
            /\ queue_tasks_deferred' = RemoveAt(queue_tasks_deferred, Resumed(s))
    /\ UNCHANGED <<waiting_task_ids, queue_results>>

-----------------------------------------------------------------------------
(* server_response *)

\* add_waiting_task_ids()
AddWaiting(T) ==
    /\ waiting_task_ids' = waiting_task_ids \cup T
    /\ UNCHANGED <<queue_tasks, queue_tasks_deferred, queue_results>>

\* remove_waiting_task_ids(), which leaves the results in the queue
RemoveWaiting(T) ==
    /\ waiting_task_ids' = waiting_task_ids \ T
    /\ UNCHANGED <<queue_tasks, queue_tasks_deferred, queue_results>>

\* remove_waiting_task_id() of each task of T, which removes the results too
RemoveWaitingAndResults(T) ==
    /\ waiting_task_ids' = waiting_task_ids \ T
    /\ queue_results' = Picked(queue_results, {i \in DOMAIN queue_results : queue_results[i].task \notin T})
    /\ UNCHANGED <<queue_tasks, queue_tasks_deferred>>

\* send(): a result nobody waits for is dropped
Send(r) ==
    /\ queue_results' = IF r.task \in waiting_task_ids
                        THEN Append(queue_results, r) ELSE queue_results
    /\ UNCHANGED <<queue_tasks, queue_tasks_deferred, waiting_task_ids>>

\* the place of the result recv(T) returns, 0 when there is none
FirstOf(T) == SelectInSeq(queue_results, LAMBDA r : r.task \in T)

\* recv_with_timeout() when there is a result for T
Recv(T) ==
    /\ FirstOf(T) # 0
    /\ queue_results' = RemoveAt(queue_results, FirstOf(T))
    /\ UNCHANGED <<queue_tasks, queue_tasks_deferred, waiting_task_ids>>

-----------------------------------------------------------------------------
QueueTypeOK ==
    /\ queue_tasks \in Seq(Message)
    /\ queue_tasks_deferred \in Seq(Task)
    /\ waiting_task_ids \subseteq Task
    /\ queue_results \in Seq(Result)
=============================================================================
