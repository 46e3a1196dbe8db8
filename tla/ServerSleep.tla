----------------------------- MODULE ServerSleep -----------------------------
(***************************************************************************)
(* The sleep mode of llama-server at the level of mutex_tasks and          *)
(* condition_tasks: the main loop of server_queue::start_loop, and the     *)
(* HTTP threads, each of which calls wait_until_no_sleep(), uses the model *)
(* to tokenize its request, and posts a task.                              *)
(*                                                                         *)
(* The one condition variable is waited on by the main loop and by the     *)
(* HTTP threads, with different predicates, so that a notification may     *)
(* reach a thread that has no use for it.  waiting is the wait set; a      *)
(* thread that is notified, or wakes up spuriously, leaves it, and its     *)
(* next step is under the mutex again.  A critical section is one action.  *)
(* Time is abstract: unless a constant says otherwise the idle period may  *)
(* have passed at any check.                                               *)
(***************************************************************************)
EXTENDS Naturals, FiniteSets

CONSTANTS Client,      \* HTTP threads, each serves one request
          Main,        \* the thread of start_loop
          MaxSleeps,   \* bound on the number of sleeps
          QuickLock,   \* a notified thread gets the mutex within the idle period
          MayStop      \* terminate() may be called

ASSUME SleepAssumption ==
    /\ Main \notin Client
    /\ MaxSleeps \in Nat
    /\ QuickLock \in BOOLEAN /\ MayStop \in BOOLEAN

VARIABLES queue_tasks,         \* the clients whose task is queued
          sleeping, req_stop_sleeping, running,
          loaded,              \* the model is in memory
          waiting,             \* threads waiting on condition_tasks
          pc,
          sleeps               \* sleeps so far

vars == <<queue_tasks, sleeping, req_stop_sleeping, running, loaded, waiting, pc, sleeps>>

Init ==
    /\ queue_tasks = {}
    /\ sleeping = FALSE /\ req_stop_sleeping = FALSE /\ running = TRUE /\ loaded = TRUE
    /\ waiting = {}
    /\ pc = [t \in Client \cup {Main} |-> IF t = Main THEN "loop" ELSE "new"]
    /\ sleeps = 0

Goto(t, label) == pc' = [pc EXCEPT ![t] = label]

\* notify_one() wakes any one of the waiting threads, if there is one
NotifyOne == IF waiting = {} THEN waiting' = waiting
             ELSE \E t \in waiting : waiting' = waiting \ {t}

-----------------------------------------------------------------------------
(* HTTP threads *)

\* variant for the runs: the loop is not notified

ArriveSilently(c) ==
    /\ pc[c] = "new"
    /\ IF ~sleeping
       THEN Goto(c, "ready") /\ UNCHANGED <<req_stop_sleeping, waiting>>
       ELSE /\ Goto(c, "asleep")
            /\ req_stop_sleeping' = TRUE
            /\ waiting' = waiting \cup {c}
    /\ UNCHANGED <<queue_tasks, sleeping, running, loaded, sleeps>>

\* wait_until_no_sleep(): the first to find the loop asleep asks it to wake up
Arrive(c) ==
    /\ pc[c] = "new"
    /\ IF ~sleeping
       THEN Goto(c, "ready") /\ UNCHANGED <<req_stop_sleeping, waiting>>
       ELSE /\ Goto(c, "asleep")
            /\ req_stop_sleeping' = TRUE
            /\ IF req_stop_sleeping
               THEN waiting' = waiting \cup {c}
               ELSE IF waiting = {} THEN waiting' = {c}
               ELSE \E t \in waiting : waiting' = (waiting \ {t}) \cup {c}
    /\ UNCHANGED <<queue_tasks, sleeping, running, loaded, sleeps>>

\* a notified thread looks at its predicate, and may wait again
Recheck(c) ==
    /\ pc[c] = "asleep" /\ c \notin waiting
    /\ IF sleeping THEN waiting' = waiting \cup {c} /\ UNCHANGED pc
       ELSE Goto(c, "ready") /\ UNCHANGED waiting
    /\ UNCHANGED <<queue_tasks, sleeping, req_stop_sleeping, running, loaded, sleeps>>

\* the request is tokenized and its task posted
Post(c) ==
    /\ pc[c] = "ready"
    /\ queue_tasks' = queue_tasks \cup {c}
    /\ NotifyOne
    /\ Goto(c, "posted")
    /\ UNCHANGED <<sleeping, req_stop_sleeping, running, loaded, sleeps>>

-----------------------------------------------------------------------------
(* start_loop() *)

\* one task is popped and answered
RunTask ==
    /\ pc[Main] = "loop" /\ running
    /\ \E c \in queue_tasks :
          /\ queue_tasks' = queue_tasks \ {c}
          /\ Goto(c, "done")
    /\ UNCHANGED <<sleeping, req_stop_sleeping, running, loaded, waiting, sleeps>>

\* no task is left: update_slots(), then look for tasks again
UpdateSlots ==
    /\ pc[Main] = "loop" /\ running /\ queue_tasks = {}
    /\ Goto(Main, "check")
    /\ UNCHANGED <<queue_tasks, sleeping, req_stop_sleeping, running, loaded, waiting, sleeps>>

Return ==
    /\ pc[Main] = "loop" /\ ~running
    /\ Goto(Main, "returned")
    /\ UNCHANGED <<queue_tasks, sleeping, req_stop_sleeping, running, loaded, waiting, sleeps>>

MoreTasks ==
    /\ pc[Main] = "check" /\ (~running \/ queue_tasks # {})
    /\ Goto(Main, "loop")
    /\ UNCHANGED <<queue_tasks, sleeping, req_stop_sleeping, running, loaded, waiting, sleeps>>

\* the idle period cannot pass while a notified thread is still to take the mutex
Quick == QuickLock => \A c \in Client : ~(pc[c] = "asleep" /\ c \notin waiting)

\* the idle period has passed: the model is unloaded and the loop waits
Sleep ==
    /\ pc[Main] = "check" /\ running /\ queue_tasks = {}
    /\ sleeps < MaxSleeps /\ Quick
    /\ sleeping' = TRUE /\ loaded' = FALSE /\ req_stop_sleeping' = FALSE
    /\ waiting' = waiting \cup {Main}
    /\ Goto(Main, "asleep")
    /\ sleeps' = sleeps + 1
    /\ UNCHANGED <<queue_tasks, running>>

\* not yet: the loop waits for a task or for a second
Idle ==
    /\ pc[Main] = "check" /\ running /\ queue_tasks = {}
    /\ waiting' = waiting \cup {Main}
    /\ Goto(Main, "idle")
    /\ UNCHANGED <<queue_tasks, sleeping, req_stop_sleeping, running, loaded, sleeps>>

\* notified, or a second has passed
IdleEnds ==
    /\ pc[Main] = "idle"
    /\ waiting' = waiting \ {Main}
    /\ Goto(Main, "check")
    /\ UNCHANGED <<queue_tasks, sleeping, req_stop_sleeping, running, loaded, sleeps>>

\* notified in its sleep, with the predicate false: the loop waits on
SleepOn ==
    /\ pc[Main] = "asleep" /\ Main \notin waiting
    /\ running /\ ~req_stop_sleeping
    /\ waiting' = waiting \cup {Main}
    /\ UNCHANGED <<queue_tasks, sleeping, req_stop_sleeping, running, loaded, pc, sleeps>>

\* variants for the runs: the model is not loaded; nobody is told
WakeUnloaded ==
    /\ pc[Main] = "asleep" /\ Main \notin waiting
    /\ running /\ req_stop_sleeping
    /\ req_stop_sleeping' = FALSE /\ sleeping' = FALSE
    /\ waiting' = {}
    /\ Goto(Main, "loop")
    /\ UNCHANGED <<queue_tasks, running, loaded, sleeps>>

WakeSilently ==
    /\ pc[Main] = "asleep" /\ Main \notin waiting
    /\ running /\ req_stop_sleeping
    /\ req_stop_sleeping' = FALSE /\ loaded' = TRUE /\ sleeping' = FALSE
    /\ Goto(Main, "loop")
    /\ UNCHANGED <<queue_tasks, running, waiting, sleeps>>

\* the model is loaded again, and everyone is told
Wake ==
    /\ pc[Main] = "asleep" /\ Main \notin waiting
    /\ running /\ req_stop_sleeping
    /\ req_stop_sleeping' = FALSE /\ loaded' = TRUE /\ sleeping' = FALSE
    /\ waiting' = {}
    /\ Goto(Main, "loop")
    /\ UNCHANGED <<queue_tasks, running, sleeps>>

\* stopped in its sleep: the loop leaves without waking up
StopAsleep ==
    /\ pc[Main] = "asleep" /\ Main \notin waiting /\ ~running
    /\ Goto(Main, "loop")
    /\ UNCHANGED <<queue_tasks, sleeping, req_stop_sleeping, running, loaded, waiting, sleeps>>

\* variant for the runs: nobody is told
TerminateSilently ==
    /\ MayStop /\ running
    /\ running' = FALSE
    /\ UNCHANGED <<queue_tasks, sleeping, req_stop_sleeping, loaded, waiting, pc, sleeps>>

\* terminate(), from the signal handler
Terminate ==
    /\ MayStop /\ running
    /\ running' = FALSE
    /\ waiting' = {}
    /\ UNCHANGED <<queue_tasks, sleeping, req_stop_sleeping, loaded, pc, sleeps>>

\* a condition variable may wake a thread that nobody notified
SpuriousWakeUp(t) ==
    /\ t \in waiting
    /\ waiting' = waiting \ {t}
    /\ UNCHANGED <<queue_tasks, sleeping, req_stop_sleeping, running, loaded, pc, sleeps>>

-----------------------------------------------------------------------------
Loop == \/ RunTask \/ UpdateSlots \/ Return \/ MoreTasks \/ Sleep \/ Idle \/ IdleEnds
        \/ SleepOn \/ Wake \/ StopAsleep

Next == \/ Loop \/ Terminate
        \/ \E t \in Client \cup {Main} : SpuriousWakeUp(t)
        \/ \E c \in Client : Arrive(c) \/ Recheck(c) \/ Post(c)

\* The loop runs, and a thread that can take the mutex takes it.
Fairness ==
    /\ WF_vars(Loop)
    /\ \A c \in Client : WF_vars(Recheck(c)) /\ WF_vars(Post(c))

Spec == Init /\ [][Next]_vars /\ Fairness

-----------------------------------------------------------------------------
(* Properties *)

\* Type invariant: outside a critical section the model is in memory unless the
\* loop says it sleeps, and a queued task is one that was posted and not answered.
TypeOK ==
    /\ queue_tasks \subseteq {c \in Client : pc[c] = "posted"}
    /\ loaded = ~sleeping
    /\ waiting \subseteq Client \cup {Main}
    /\ <<sleeping, req_stop_sleeping, running, loaded>> \in BOOLEAN \X BOOLEAN \X BOOLEAN \X BOOLEAN
    /\ pc \in [Client \cup {Main} -> {"new", "asleep", "ready", "posted", "done",
                                      "loop", "check", "idle", "returned"}]
    /\ sleeps \in 0..MaxSleeps

\* As long as nobody has asked the sleeping loop to wake up, it is the only
\* thread waiting: the notify_one() of the first request cannot go astray.
OnlyMainWaits == sleeping /\ ~req_stop_sleeping => waiting \subseteq {Main}

\* A request to wake up is not lost: the loop that was asked is awake or notified.
RequestHeard == running /\ sleeping /\ req_stop_sleeping => Main \notin waiting

\* A thread that went through wait_until_no_sleep() finds the model in memory, as
\* the comments in init_routes() say.  Not so: the idle period may pass while the
\* request is tokenized.
ModelThere == \A c \in Client : pc[c] = "ready" => loaded

\* Every request that has begun is answered, unless the server is stopped.  Not
\* so either: post() notifies the sleeping loop, which waits on.
ServedAnyhow == \A c \in Client : pc[c] # "new" ~> (pc[c] = "done" \/ ~running)

\* Every request that has begun is answered, unless the server is stopped or the
\* loop fell asleep before the task was posted: no notification is lost, and no
\* task that the loop could see is left behind when it goes to sleep.
Served ==
    \A c \in Client :
        pc[c] # "new" ~> (pc[c] = "done" \/ (pc[c] = "posted" /\ sleeping) \/ ~running)

\* Once terminate() was called, start_loop() returns, asleep or not.
LoopReturns == ~running ~> pc[Main] = "returned"

\* wait_until_no_sleep() returns.
Returns == \A c \in Client : pc[c] = "asleep" ~> pc[c] = "ready"
=============================================================================
