----------------------------- MODULE HostCalls -----------------------------
(***************************************************************************)
(* What the two host programs are made of.  A program is the sequence of   *)
(* the calls it makes, in the order in which it makes them; HostRun        *)
(* executes it.  A call names what it creates, takes or releases (x), what *)
(* must still be there when it is made (needs), and what the program does  *)
(* if it fails:                                                            *)
(*   "never"    it cannot fail, or nobody looks;                           *)
(*   "cleanup"  checkError: cleanup() and exit;                            *)
(*   "return"   a function returns false and so main returns -1;           *)
(*   "exit"     exit() on the spot.                                        *)
(* A call that fails for certain is the operation "fails".                 *)
(***************************************************************************)
EXTENDS Integers, Sequences, SequencesExt

CONSTANT NumPlatforms     \* the OpenCL platforms installed

ASSUME PlatformsAssumption == NumPlatforms \in Nat

Call(op, x, needs, fail) == <<[op |-> op, x |-> x, needs |-> needs, fail |-> fail]>>

Object(x, needs)    == Call("create", x, needs, "cleanup")
New(x)              == Call("create", x, {}, "never")
Memory(x)           == Call("malloc", x, {}, "never")
Fill(x)             == Call("fill", x, {}, "never")
Release(x)          == Call("release", x, {}, "never")
Wait(e)             == Call("wait", e, {}, "never")
Show(x)             == Call("show", x, {}, "never")
ReleaseEvent(e)     == Call("releaseEvent", e, {}, "never")
Return(what)        == Call("call", what, {}, "return")
Each(F(_), xs)      == FlattenSeq([i \in 1 .. Len(xs) |-> F(xs[i])])
Repeat(n, calls)    == FlattenSeq([i \in 1 .. n |-> calls])

_checkError(what, needs) == Call("call", what, needs, "cleanup")

\* A command is handed to an in-order queue.  It waits for the events in waits,
\* its own event goes to the variable event, and it reads or writes the host
\* memory in uses.
Enqueue(cmd, queue, needs, waits, event, uses) ==
  <<[op |-> "enqueue", x |-> cmd, queue |-> queue, needs |-> {queue} \cup needs,
     waits |-> waits, event |-> event, uses |-> uses, fail |-> "cleanup"]>>

Write(cmd, queue, buf, event, memory) == Enqueue(cmd, queue, {buf}, {}, event, {memory})
Read(cmd, queue, buf, after, event, memory) ==
  Enqueue(cmd, queue, {buf}, {after}, event, {memory})

\* clSetKernelArg for each of the buffers, and for the values.
Arguments(kernel, args) ==
  Each(LAMBDA a : _checkError("clSetKernelArg", {kernel} \cup a), args)

-----------------------------------------------------------------------------
(***************************************************************************)
(* The helpers.  s says what a run finds: whether an option is nameless,   *)
(* whether the file of initial centres is complete, which platform is the  *)
(* one looked for (0: none), which file of kernels exists and whether it   *)
(* can be read, and whether the SVM driver is loaded.                      *)
(***************************************************************************)
Settings ==
  [args : {"named", "nameless"}, centres : {"complete", "short"},
   platform : 0 .. NumPlatforms, aocx : {"plain", "board", "none"}, readable : BOOLEAN, driver : BOOLEAN]

addFromCommandLine(s) ==
  IF s.args = "nameless" THEN Call("fails", "errorNameless", {}, "exit") ELSE <<>>

\* The file is closed before its shortness is reported.
read_initial_centres(s) ==
  Call("create", "centres file", {}, "return") \o Release("centres file")
    \o IF s.centres = "short" THEN Call("fails", "fgets", {}, "return") ELSE <<>>

\* An array that lives as long as its scope, if the scope ends.
scoped_array(x, body) == New(x) \o body \o Release(x)

setCwdToExeDir == Return("readlink")

getPlatformName ==
  _checkError("clGetPlatformInfo", {})
    \o scoped_array("name", _checkError("clGetPlatformInfo", {"name"}))

getDeviceName ==
  _checkError("clGetDeviceInfo", {})
    \o scoped_array("name", _checkError("clGetDeviceInfo", {"name"}))

\* The names of the platforms are looked at up to the right one.
findPlatform(s) ==
  _checkError("clGetPlatformIDs", {})
    \o scoped_array("pids",
         _checkError("clGetPlatformIDs", {"pids"})
           \o Repeat(IF s.platform = 0 THEN NumPlatforms ELSE s.platform, getPlatformName))
    \o IF s.platform = 0 THEN Call("fails", "findPlatform", {}, "return") ELSE <<>>

\* The array is the caller's.
getDevices ==
  _checkError("clGetDeviceIDs", {}) \o New("devices") \o _checkError("clGetDeviceIDs", {"devices"})

\* Without a file of the plain name the name of the device is asked for.
getBoardBinaryFile(s) == IF s.aocx = "plain" THEN <<>> ELSE getDeviceName

\* The file stays open, except when it cannot be read.
loadBinaryFile(s) ==
  Call("create", "aocx file", {}, "cleanup") \o New("binary")
    \o IF s.readable THEN <<>>
       ELSE Release("binary") \o Release("aocx file") \o Call("fails", "fread", {}, "cleanup")

\* The program is this function's until it returns.
createProgramFromBinary(s) ==
  IF s.aocx = "none" THEN Call("fails", "fileExists", {}, "cleanup")
  ELSE loadBinaryFile(s)
         \o scoped_array("binaries",
              Object("local program", {"context", "binary"}) \o _checkError("binary_status", {}))
         \o Release("binary") \o Call("assign", "program", {"local program"}, "never")

\* Both times are asked for; they are known when the command has ended.
getStartEndTime(e) == Call("query", e, {}, "cleanup") \o Call("query", e, {}, "cleanup")

-----------------------------------------------------------------------------
\* The options and the two files.
ReadInputs(s) ==
  addFromCommandLine(s)
    \o Each(New, <<"data_points", "index_arr", "cntr_idx">>)
    \o Return("read_data_points") \o read_initial_centres(s)

init_opencl(s) ==
  setCwdToExeDir \o findPlatform(s)
    \o getDevices \o getPlatformName \o getDeviceName
    \o Object("context", {"devices"})
    \o getBoardBinaryFile(s) \o createProgramFromBinary(s)
    \o _checkError("clBuildProgram", {"program"})
    \o Each(LAMBDA q : Object(q, {"context"}), <<"queue0", "queue1">>)
    \o Each(LAMBDA k : Object(k, {"program"}), <<"kernel0", "kernel1">>)
    \o Release("devices")
=============================================================================
