-------------------------- MODULE ServerSleepProofs --------------------------
(***************************************************************************)
(* The hand-over between the sleeping loop and the requests that wake it,  *)
(* for any number of HTTP threads.  A notify_one() that reaches the wrong  *)
(* thread is lost, so the proof is about who is in the wait set: clients   *)
(* enter it only after the request to wake up was made, and are all taken  *)
(* out when the loop wakes.  That a notified client runs before the loop   *)
(* sleeps again (QuickLock) is needed and assumed.                         *)
(***************************************************************************)
EXTENDS ServerSleep, TLAPS

\* where the loop is when it sleeps, and who may be in the wait set
Places ==
    /\ pc[Main] = "asleep" => sleeping
    /\ running /\ sleeping => pc[Main] = "asleep"
    /\ Main \in waiting => pc[Main] \in {"asleep", "idle"}
    /\ \A c \in Client \cap waiting : pc[c] = "asleep"
    /\ running /\ ~sleeping => Client \cap waiting = {}

\* nobody has come since the loop fell asleep
NobodyCame == sleeping /\ ~req_stop_sleeping => \A c \in Client : pc[c] # "asleep"

\* the inductive invariant
IInv == TypeOK /\ Places /\ NobodyCame /\ RequestHeard

\* Initially the loop runs and nobody waits.
LEMMA InitInv == Init => IInv
<1> SUFFICES ASSUME Init PROVE IInv
  OBVIOUS
<1> USE SleepAssumption DEF Init
<1>1. sleeps \in 0..MaxSleeps
  OBVIOUS
<1>2. pc \in [Client \cup {Main} -> {"new", "asleep", "ready", "posted", "done",
                                    "loop", "check", "idle", "returned"}]
  OBVIOUS
<1>3. TypeOK
  BY <1>1, <1>2 DEF TypeOK
<1>4. Places /\ NobodyCame /\ RequestHeard
  BY DEF Places, NobodyCame, RequestHeard
<1>5. QED
  BY <1>3, <1>4 DEF IInv

\* The wait set before a request to wake up.
LEMMA OnlyMain == IInv => OnlyMainWaits
  BY DEF IInv, TypeOK, Places, NobodyCame, OnlyMainWaits

\* A request keeps the invariant: the notification it sends reaches the loop.
LEMMA ClientStep ==
    ASSUME IInv, NEW c \in Client, Arrive(c) \/ Recheck(c) \/ Post(c)
    PROVE  IInv'
<1>0. c # Main /\ OnlyMainWaits
  BY SleepAssumption, OnlyMain
<1>1. CASE Arrive(c)
  <2>1. CASE ~sleeping
    BY <1>0, <1>1, <2>1, SleepAssumption
    DEF Arrive, Goto, IInv, TypeOK, Places, NobodyCame, RequestHeard
  <2>2. CASE sleeping /\ req_stop_sleeping
    BY <1>0, <1>1, <2>2, SleepAssumption
    DEF Arrive, Goto, IInv, TypeOK, Places, NobodyCame, RequestHeard
  <2>3. CASE sleeping /\ ~req_stop_sleeping
    <3>1. waiting' = {c}
      BY <1>0, <1>1, <2>3 DEF Arrive, OnlyMainWaits
    <3>2. QED
      BY <1>0, <1>1, <2>3, <3>1, SleepAssumption
      DEF Arrive, Goto, IInv, TypeOK, Places, NobodyCame, RequestHeard
  <2>4. QED
    BY <2>1, <2>2, <2>3
<1>2. CASE Recheck(c)
  BY <1>0, <1>2, SleepAssumption
  DEF Recheck, Goto, IInv, TypeOK, Places, NobodyCame, RequestHeard
<1>3. CASE Post(c)
  <2>1. waiting' \subseteq waiting
    BY <1>3 DEF Post, NotifyOne
  <2>2. QED
    BY <1>0, <1>3, <2>1, SleepAssumption
    DEF Post, Goto, IInv, TypeOK, Places, NobodyCame, RequestHeard
<1>4. QED
  BY <1>1, <1>2, <1>3

\* A step of the loop keeps it.
LEMMA LoopStep ==
    ASSUME QuickLock, IInv, Loop
    PROVE  IInv'
<1> USE SleepAssumption DEF Goto, IInv, TypeOK, Places, NobodyCame, RequestHeard
<1>1. CASE RunTask
  BY <1>1 DEF RunTask
<1>2. CASE UpdateSlots
  BY <1>2 DEF UpdateSlots
<1>3. CASE Return
  BY <1>3 DEF Return
<1>4. CASE MoreTasks
  BY <1>4 DEF MoreTasks
<1>5. CASE Sleep
  <2>1. Client \cap waiting = {}
    BY <1>5 DEF Sleep
  <2>2. \A c \in Client : pc[c] # "asleep"
    BY <1>5, <2>1, QuickLock DEF Sleep, Quick
  <2>3. sleeps' \in 0..MaxSleeps
    BY <1>5 DEF Sleep
  <2>4. Main \notin Client /\ waiting' = waiting \cup {Main}
    BY <1>5 DEF Sleep
  <2>5. TypeOK'
    BY <1>5, <2>3, <2>4 DEF Sleep
  <2>6. Places'
    BY <1>5, <2>1, <2>2, <2>4 DEF Sleep
  <2>7. NobodyCame' /\ RequestHeard'
    BY <1>5, <2>2, <2>4 DEF Sleep
  <2>8. QED
    BY <2>5, <2>6, <2>7
<1>6. CASE Idle
  BY <1>6 DEF Idle
<1>7. CASE IdleEnds
  BY <1>7 DEF IdleEnds
<1>8. CASE SleepOn
  BY <1>8 DEF SleepOn
<1>9. CASE Wake
  BY <1>9 DEF Wake
<1>10. CASE StopAsleep
  BY <1>10 DEF StopAsleep
<1>11. QED
  BY <1>1, <1>2, <1>3, <1>4, <1>5, <1>6, <1>7, <1>8, <1>9, <1>10 DEF Loop

\* Any step keeps it.
LEMMA StepInv ==
    ASSUME QuickLock
    PROVE  IInv /\ [Next]_vars => IInv'
<1> SUFFICES ASSUME IInv, [Next]_vars PROVE IInv'
  OBVIOUS
<1>1. CASE Loop
  BY <1>1, LoopStep
<1>2. CASE Terminate
  BY <1>2, SleepAssumption
  DEF Terminate, IInv, TypeOK, Places, NobodyCame, RequestHeard
<1>3. CASE \E c \in Client : Arrive(c) \/ Recheck(c) \/ Post(c)
  BY <1>3, ClientStep
<1>4. CASE \E t \in Client \cup {Main} : SpuriousWakeUp(t)
  <2>1. waiting' \subseteq waiting
    BY <1>4 DEF SpuriousWakeUp
  <2>2. UNCHANGED <<queue_tasks, sleeping, req_stop_sleeping, running, loaded, pc, sleeps>>
    BY <1>4 DEF SpuriousWakeUp
  <2>3. QED
    BY <2>1, <2>2, SleepAssumption DEF IInv, TypeOK, Places, NobodyCame, RequestHeard
<1>5. CASE UNCHANGED vars
  BY <1>5 DEF vars, IInv, TypeOK, Places, NobodyCame, RequestHeard
<1>6. QED
  BY <1>1, <1>2, <1>3, <1>4, <1>5 DEF Next

\* The inductive invariant holds throughout.
LEMMA Invariance ==
    ASSUME QuickLock
    PROVE  Spec => []IInv
<1>1. IInv /\ [Next]_vars => IInv'
  BY StepInv
<1>2. QED
  BY <1>1, InitInv, PTL DEF Spec

-----------------------------------------------------------------------------
\* The state stays well formed; the model is in memory unless the loop sleeps.
THEOREM TypeCorrect == Spec => []TypeOK
<1>1. Init => TypeOK
  BY InitInv DEF IInv
<1>2. TypeOK /\ [Next]_vars => TypeOK'
  <2> SUFFICES ASSUME TypeOK, [Next]_vars PROVE TypeOK'
    OBVIOUS
  <2> USE SleepAssumption DEF TypeOK, Goto
  <2>1. CASE \E c \in Client : Arrive(c) \/ Recheck(c) \/ Post(c)
    <3>1. PICK c \in Client : Arrive(c) \/ Recheck(c) \/ Post(c)
      BY <2>1
    <3>2. CASE Arrive(c)
      <4>1. waiting' \subseteq waiting \cup {c}
        BY <3>2 DEF Arrive
      <4>2. QED
        BY <3>2, <4>1 DEF Arrive
    <3>3. CASE Recheck(c)
      BY <3>3 DEF Recheck
    <3>4. CASE Post(c)
      <4>1. waiting' \subseteq waiting
        BY <3>4 DEF Post, NotifyOne
      <4>2. QED
        BY <3>4, <4>1 DEF Post
    <3>5. QED
      BY <3>1, <3>2, <3>3, <3>4
  <2>2. CASE Loop
    <3>1. CASE RunTask \/ UpdateSlots \/ Return \/ MoreTasks
      BY <3>1 DEF RunTask, UpdateSlots, Return, MoreTasks
    <3>2. CASE Sleep
      <4>1. sleeps' \in 0..MaxSleeps
        BY <3>2 DEF Sleep
      <4> QED BY <3>2, <4>1 DEF Sleep
    <3>3. CASE Idle \/ IdleEnds
      BY <3>3 DEF Idle, IdleEnds
    <3>4. CASE SleepOn
      BY <3>4 DEF SleepOn
    <3>5. CASE Wake
      BY <3>5 DEF Wake
    <3>6. CASE StopAsleep
      BY <3>6 DEF StopAsleep
    <3> QED BY <2>2, <3>1, <3>2, <3>3, <3>4, <3>5, <3>6 DEF Loop
  <2>3. CASE UNCHANGED vars
    BY <2>3 DEF vars
  <2>4. CASE Terminate
    BY <2>4 DEF Terminate
  <2>5. CASE \E t \in Client \cup {Main} : SpuriousWakeUp(t)
    BY <2>5 DEF SpuriousWakeUp
  <2> QED BY <2>1, <2>2, <2>3, <2>4, <2>5 DEF Next
<1> QED BY <1>1, <1>2, PTL DEF Spec

\* As long as nobody asked the sleeping loop to wake up, no client waits on the
\* condition variable ("only main thread is waiting on this").
THEOREM OnlyMainIsWaiting ==
    ASSUME QuickLock
    PROVE  Spec => []OnlyMainWaits
<1>1. QED
  BY OnlyMain, Invariance, PTL

\* The loop is notified by the first request that finds it asleep, and does not
\* wait again before it has woken up.
THEOREM RequestsHeard ==
    ASSUME QuickLock
    PROVE  Spec => []RequestHeard
<1>1. IInv => RequestHeard
  BY DEF IInv
<1>2. QED
  BY <1>1, Invariance, PTL
=============================================================================
