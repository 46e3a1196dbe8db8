---------------------------- MODULE MCServerTasks ----------------------------
(* Instances of ServerTasks for TLC: which requests the clients make. *)
EXTENDS ServerTasks

\* requests 1 and 3 have one task, request 2 a task with a child
Tasks        == 1..4
OwnerParent  == <<1, 2, 2, 3>>
ParentOf     == <<0, 0, 2, 0>>
PinnedLast   == <<-1, -1, -1, 0>>
PinnedBeyond == <<0, -1, -1, 2>>   \* with two slots, 2 is slot 0 again
Anywhere     == <<-1, -1, -1, -1>>

\* three requests with a task each
ThreeTasks   == 1..3
OwnerOwn     == <<1, 2, 3>>
NoParent     == <<0, 0, 0>>
Anywhere3    == <<-1, -1, -1>>
PinnedSecond == <<-1, 0, -1>>

\* one request with a task and a child
Family       == 1..2
OwnerFamily  == <<1, 1>>
ParentFamily == <<0, 1>>
Anywhere2    == <<-1, -1>>
OwnerTwo     == <<1, 2>>
NoParent2    == <<0, 0>>
=============================================================================
