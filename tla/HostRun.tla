------------------------------ MODULE HostRun ------------------------------
(***************************************************************************)
(* A run of a host program over the OpenCL runtime.  The host makes its    *)
(* calls one after the other; a call may fail.  The runtime executes the   *)
(* commands of the two in-order queues meanwhile.  The kernels talk over   *)
(* channels: filter1 ends when filter0 has sent its last record, and       *)
(* filter0 can send them all only while filter1 runs, unless they fit in   *)
(* the channel.                                                            *)
(***************************************************************************)
EXTENDS SvmHost, NoSvmHost, FiniteSets

CONSTANT Builds           \* which of the programs are run

ASSUME BuildsAssumption == Builds \subseteq {"svm", "no_svm"}

VARIABLES
  build,
  todo,       \* the calls still to make
  outcome,    \* how the program ends: "ok", or the failure that ended it
  held,       \* the objects, arrays, files and memory it has
  events,     \* the command whose event each event variable holds
  cmds,       \* the commands handed to the runtime, in this order
  fits        \* whether the kernels' records fit in the channel

vars == <<build, todo, outcome, held, events, cmds, fits>>

EventVars == {"write_event0", "write_event1", "kernel0_event", "kernel1_event", "finish_event"}
Objects   == {"context", "program", "local program", "queue0", "queue1", "kernel0", "kernel1",
              "initial_centers_buf", "tree_memory_buf", "z0_buf", "visited_nodes_buf",
              "profiling_data_buf", "new_centers_buf", "distortion_buf"}
HostMemory == {"root", "leaves", "tree_memory", "initial_centers", "visited_nodes", "profiling_data",
               "new_centers", "distortion"}
Arrays    == {"data_points", "index_arr", "cntr_idx"}
InScope   == {"name", "pids", "devices", "binary", "binaries"}
Files     == {"centres file", "aocx file"}

main(s) == IF build = "svm" THEN Svm_main(s) ELSE NoSvm_main(s)
cleanup == IF build = "svm" THEN Svm_cleanup ELSE NoSvm_cleanup

Init ==
  /\ build \in Builds
  /\ \E s \in Settings : todo = main(s)
  /\ outcome = "ok" /\ held = {}
  /\ events = [e \in EventVars |-> "none"]
  /\ cmds = <<>>
  /\ fits \in BOOLEAN

-----------------------------------------------------------------------------
(***************************************************************************)
(* The host.                                                               *)
(***************************************************************************)
Next_call == Head(todo)
Makes(op) == todo # <<>> /\ Next_call.op = op
Done == todo' = Tail(todo) /\ UNCHANGED <<build, outcome, fits>>

Complete(cmd) == \E i \in 1 .. Len(cmds) : cmds[i].cmd = cmd /\ cmds[i].status = "complete"

\* A call fails.  A read or write without host memory always does.
Fail ==
  /\ todo # <<>> /\ Next_call.fail # "never"
  /\ outcome' = Next_call.fail
  /\ todo' = IF Next_call.fail = "cleanup" THEN cleanup ELSE <<>>
  /\ UNCHANGED <<build, held, events, cmds, fits>>

Create ==
  /\ Makes("create") /\ Done
  /\ held' = held \cup {Next_call.x}
  /\ UNCHANGED <<events, cmds>>

\* posix_memalign; its result is not looked at.
Malloc ==
  /\ Makes("malloc") /\ Done
  /\ held' \in {held, held \cup {Next_call.x}}
  /\ UNCHANGED <<events, cmds>>

\* The host writes to memory; without it the program is killed.
FillMemory ==
  /\ Makes("fill")
  /\ IF Next_call.x \in held THEN Done
     ELSE todo' = <<>> /\ outcome' = "killed" /\ UNCHANGED <<build, fits>>
  /\ UNCHANGED <<held, events, cmds>>

\* createProgramFromBinary returns its program.
Assign ==
  /\ Makes("assign") /\ Done
  /\ held' = (held \ {"local program"}) \cup {Next_call.x}
  /\ UNCHANGED <<events, cmds>>

Plain ==
  /\ Makes("call") \/ Makes("show") \/ Makes("query")
  /\ Done
  /\ UNCHANGED <<held, events, cmds>>

EnqueueCommand ==
  /\ Makes("enqueue") /\ Done
  /\ Next_call.uses \subseteq held
  /\ cmds' = Append(cmds, [cmd |-> Next_call.x, queue |-> Next_call.queue,
                           waits |-> {events[e] : e \in Next_call.waits},
                           uses |-> Next_call.uses, status |-> "queued"])
  /\ events' = [e \in DOMAIN events \cup {Next_call.event} |->
                  IF e = Next_call.event THEN Next_call.x ELSE events[e]]
  /\ UNCHANGED held

WaitForEvent ==
  /\ Makes("wait") /\ Done
  /\ Complete(events[Next_call.x])
  /\ UNCHANGED <<held, events, cmds>>

DropEvent ==
  /\ Makes("releaseEvent") /\ Done
  /\ events' = [events EXCEPT ![Next_call.x] = "none"]
  /\ UNCHANGED <<held, cmds>>

ReleaseObject ==
  /\ Makes("release") /\ Done
  /\ held' = held \ {Next_call.x}
  /\ UNCHANGED <<events, cmds>>

Host ==
  \/ Fail \/ Create \/ Malloc \/ FillMemory \/ Assign \/ Plain
  \/ EnqueueCommand \/ WaitForEvent \/ DropEvent \/ ReleaseObject

-----------------------------------------------------------------------------
(***************************************************************************)
(* The runtime and the kernels.                                            *)
(***************************************************************************)
IsIn(cmd, status) == \E i \in 1 .. Len(cmds) : cmds[i].cmd = cmd /\ cmds[i].status \in status

Becomes(i, status) ==
  /\ cmds' = [cmds EXCEPT ![i].status = status]
  /\ UNCHANGED <<build, todo, outcome, held, events, fits>>

Start(i) ==
  /\ cmds[i].status = "queued"
  /\ \A j \in 1 .. i - 1 : cmds[j].queue = cmds[i].queue => cmds[j].status = "complete"
  /\ \A c \in cmds[i].waits : Complete(c)
  /\ Becomes(i, "running")

\* filter0 has sent its last record.
Sent(i) ==
  /\ cmds[i].cmd = "filter0" /\ cmds[i].status = "running"
  /\ fits \/ IsIn("filter1", {"running"})
  /\ Becomes(i, "sent")

Ends(i) ==
  /\ CASE cmds[i].cmd = "filter0" -> cmds[i].status = "sent"
       [] cmds[i].cmd = "filter1" -> cmds[i].status = "running" /\ IsIn("filter0", {"sent", "complete"})
       [] OTHER -> cmds[i].status = "running"
  /\ Becomes(i, "complete")

Runtime == \E i \in 1 .. Len(cmds) : Start(i) \/ Sent(i) \/ Ends(i)

Next == Host \/ Runtime

\* The host's thread is scheduled, and the runtime and the device get on.
Fairness == WF_vars(Host) /\ WF_vars(Runtime)

Spec == Init /\ [][Next]_vars /\ Fairness

-----------------------------------------------------------------------------
(***************************************************************************)
(* Properties.                                                             *)
(***************************************************************************)
HostTypeOK ==
  /\ build \in Builds
  /\ outcome \in {"ok", "cleanup", "return", "exit", "killed"}
  /\ held \subseteq Objects \cup HostMemory \cup Arrays \cup InScope \cup Files
  /\ DOMAIN events = EventVars
  /\ \A i, j \in 1 .. Len(cmds) : cmds[i].cmd = cmds[j].cmd => i = j

\* Whatever failed before, a call finds what it works on: its objects are
\* there, and an event it waits for, asks or releases is one that was set and
\* not released.  The times of a command are asked for when it has ended.
CallsLegal ==
  todo # <<>> =>
    /\ Next_call.needs \subseteq held
    /\ Next_call.op = "enqueue" => \A e \in Next_call.waits : events[e] # "none"
    /\ Next_call.op \in {"wait", "releaseEvent"} => events[Next_call.x] # "none"
    /\ Next_call.op = "query" => Complete(events[Next_call.x])

\* filter0 starts on complete inputs: "Events are used to ensure that the kernel
\* is not launched until the writes to the input buffers have completed."
InputsWritten ==
  IsIn("filter0", {"running", "sent", "complete"}) =>
    \A i \in 1 .. Len(cmds) :
      cmds[i].cmd \in {"write_tree", "write_centers"} => cmds[i].status = "complete"

\* The centres and the distortions that are printed have been read, although
\* only the last of several reads is waited for.
ResultsReady ==
  /\ Makes("show") /\ Next_call.x = "new_centers" => Complete("read_centers")
  /\ Makes("show") /\ Next_call.x = "distortion" => Complete("read_distortion")

\* In a run in which no call fails, cleanup takes nothing away that a kernel or
\* a transfer still works on: the tree, the memory of the writes, and that of
\* the two results that are waited for.
NoUseAfterFree ==
  outcome = "ok" =>
    \A i \in 1 .. Len(cmds) :
      cmds[i].status # "complete" => cmds[i].uses \subseteq held \cup {"visited_nodes", "profiling_data"}

\* What cleanup has a name for and does not free: deletekdTree, called with the
\* root, deletes no leaf.  (The other program has its tree in tree_memory.)
Unfreed(b) == IF b = "svm" THEN {"leaves"} ELSE {}

\* However far the program came, cleanup leaves nothing of OpenCL and no memory
\* behind but what it has no name for and the leaves of the tree, all of which
\* a run without failure leaves allocated; and a return of main without
\* cleanup comes before there is anything to clean up.
CleanedUp ==
  todo = <<>> =>
    LET nameless == Arrays \cup {"aocx file"} \cup Unfreed(build)
    IN  CASE outcome = "ok"      -> Unfreed(build) \subseteq held /\ held \subseteq nameless
          [] outcome = "cleanup" -> held \subseteq nameless \cup {"local program"} \cup InScope
          [] outcome = "return"  -> held \subseteq Arrays
          [] OTHER -> TRUE

\* Every run comes to an end: the kernels do not wait for each other for ever,
\* and the host waits only for what will happen.
Terminates == <>(todo = <<>>)

\* "Wait for all devices to finish": the code's comment at the waits.
AllDevicesFinished == Makes("show") => \A i \in 1 .. Len(cmds) : cmds[i].status = "complete"
=============================================================================
