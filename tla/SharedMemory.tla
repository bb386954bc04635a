---------------------------- MODULE SharedMemory ----------------------------
(***************************************************************************)
(* A program that shares its memory with a kernel: it may look at its      *)
(* pages, and then starts the kernel, which loads from the program's       *)
(* virtual addresses through the 512-bit bridge.  When the kernel has no   *)
(* request on its way the program may end and another start, with other    *)
(* pages and data, by resetting the bridge; so it may when the program has *)
(* ended while it looked at its pages.                                     *)
(***************************************************************************)
EXTENDS LoadBridge, HostPages

CONSTANTS
  Layouts,        \* the pages that a program may have: the address of each
  Listed,         \* those of a layout of which pagemap has the frame
  Translation,    \* the translation tables for a layout, part of the memory
  Data,           \* the words in the pages of a layout
  Requests,       \* addresses at which the kernel's requests begin
  MaxPending,     \* how many it may have on their way
  TTBR0

VARIABLES
  frames,         \* the address of each page of the program
  phase,          \* "host" or "kernel"
  pending,        \* the kernel's requests on their way
  answer          \* the last answer

vars == <<bridgeVars, pageVars, frames, phase, pending, answer>>
restVars == <<pageVars, frames, phase>>

\* The memory while a program with a layout of its pages runs.
Image(layout) ==
  [a \in Addresses |-> IF a \in DOMAIN Translation[layout] THEN Translation[layout][a]
                       ELSE Data[layout][a]]

\* The addresses in a layout's pages.
Mapped(layout) == {va \in VA : va \div PageWords \in DOMAIN layout}

\* The operating system's tables lead from each address in a page to its word, and
\* are not themselves in the program's pages.
ASSUME LayoutAssumption ==
  \A layout \in Layouts :
    /\ DOMAIN layout \subseteq Pages /\ layout \in [DOMAIN layout -> Nat]
    /\ \A va \in Mapped(layout) :
         LET image   == Image(layout)
             entry0  == table0_desc_addr(va, TTBR0)
             entry1  == table1_desc_addr(va, image[entry0])
             pa      == layout[va \div PageWords] + (va % PageWords)
         IN  /\ {entry0, entry1} \subseteq Addresses
             /\ pa \in Addresses \ DOMAIN Translation[layout]
             /\ manual_table_walk(va, TTBR0, image) = pa

\* The addresses that every program has.  Requests lie there.
Shared == {va \in VA : \A layout \in Layouts : va \in Mapped(layout)}

ASSUME RequestsAssumption ==
  Requests \subseteq Shared /\ \A va \in Requests : \A i \in 0 .. Words - 1 : va + i \in Shared

\* Frames begin at page boundaries; pagemap has room for their numbers below the
\* flags; and maps has lines.
ASSUME PagemapAssumption ==
  /\ Mask \in Nat \ {0} /\ Flags \in Nat /\ Flags % Mask = 0
  /\ \A layout \in Layouts :
       /\ \A p \in DOMAIN layout : layout[p] % PageWords = 0 /\ layout[p] \div PageWords < Mask
       /\ Listed[layout] \subseteq DOMAIN layout
  /\ Maps \subseteq Seq([start : Nat, end : Nat] \cup {Invalid})
  /\ Invalid \notin [start : Nat, end : Nat]

\* The program with a layout of its pages.
Started(layout) == frames' = layout /\ memory' = Image(layout) /\ ttbr0' = TTBR0

Init ==
  /\ BridgeInit /\ PagesInit
  /\ frames \in Layouts
  /\ memory = Image(frames) /\ ttbr0 = TTBR0
  /\ phase = "host" /\ pending = <<>> /\ answer = None

\* The program looks at its pages, or at one address, that it may not have.
Inspect ==
  /\ phase = "host"
  /\ \/ inspector = "idle" /\ shown = {} /\ inspector' = "open"
        /\ UNCHANGED <<maps, files, region, page, pa_first, pa_last, shown, found>>
     \/ OpenFiles \/ ReadLine \/ ReadPage(frames, Listed[frames]) \/ Show \/ CloseFiles
     \/ found = {} /\ \E va \in VA \cup {Level0 * Level1 * PageWords} :
                         LookUp(va, frames, Listed[frames])
     \/ found = {} /\ \E va \in VA, verbose \in BOOLEAN :
                         Walk(va, verbose, frames, Listed[frames], ttbr0, memory)
  /\ UNCHANGED <<bridgeVars, frames, phase, pending, answer>>

Launch ==
  /\ phase = "host" /\ inspector = "idle"
  /\ phase' = "kernel"
  /\ maps' = <<>> /\ region' = NoRegion /\ page' = 0 /\ shown' = {} /\ found' = {}
  /\ pa_first' = Garbage /\ pa_last' = Garbage
  /\ UNCHANGED <<bridgeVars, inspector, files, frames, pending, answer>>

Ask(va) ==
  /\ phase = "kernel" /\ Len(pending) < MaxPending
  /\ s_idle(va)
  /\ pending' = Append(pending, va)
  /\ UNCHANGED <<restVars, answer>>

Bridge ==
  /\ \/ s_input \/ read_pt_level1 \/ rw \/ shreg_proc \/ NoWord
     \/ Len(pending) < MaxPending /\ Offered
  /\ UNCHANGED <<restVars, pending, answer>>

Reply ==
  /\ rdreq_readdata
  /\ answer' = Head(readdata)
  /\ pending' = Tail(pending)
  /\ UNCHANGED restVars

Restart ==
  /\ pending = <<>>
  /\ phase = "kernel" \/ inspector = "exited"
  /\ Reset
  /\ \E layout \in Layouts : Started(layout)
  /\ phase' = "host" /\ answer' = None
  /\ inspector' = "idle" /\ files' = {}
  /\ maps' = <<>> /\ region' = NoRegion /\ page' = 0 /\ shown' = {} /\ found' = {}
  /\ pa_first' = Garbage /\ pa_last' = Garbage
  /\ UNCHANGED pending

Next == Inspect \/ Launch \/ (\E va \in Requests : Ask(va)) \/ Bridge \/ Reply \/ Restart

\* A clock drives the bridge, its load units answer, and the kernel takes what
\* it is offered.
Fairness ==
  /\ WF_vars((s_input \/ read_pt_level1 \/ rw \/ shreg_proc \/ NoWord)
             /\ UNCHANGED <<restVars, pending, answer>>)
  /\ WF_vars(Reply)

Spec == Init /\ [][Next]_vars /\ Fairness

-----------------------------------------------------------------------------
(***************************************************************************)
(* Properties.                                                             *)
(***************************************************************************)

Promise == INSTANCE LoadPort WITH
  VA       <- Shared,
  content  <- [va \in Shared |-> memory[frames[va \div PageWords] + (va % PageWords)]],
  Values   <- UNION {{Data[l][a] : a \in Addresses} : l \in Layouts},
  NoAnswer <- None

\* The bridge gives the kernel the words that the program has at the addresses
\* of each request, also across the end of a page, request by request, whatever
\* the units hold and cached for the last program, and leaves none unanswered.
ImplementsLoads == Promise!Spec

\* What the library reports of a page whose frame pagemap has is where it is: as
\* the first or the last of a region that is printed, and when an address in it is
\* looked up, unless the answer is zero.  A walk of the tables finds every address
\* that they translate, mmap'ed or not.  However the functions end, maps and pagemap
\* are closed; /dev/mem may stay open.
PagesReported ==
  /\ \A s \in shown : s.region.end > s.region.start =>
       /\ s.region.start \in Listed[frames] => s.first = frames[s.region.start]
       /\ s.region.end - 1 \in Listed[frames] => s.last = frames[s.region.end - 1]
  /\ \A f \in found :
       LET p  == f.va \div PageWords
           pa == frames[p] + (f.va % PageWords)
       IN  /\ f.from = "pagemap" /\ p \in Listed[frames] => f.pa \in {0, pa}
           /\ f.from = "tables" /\ p \in DOMAIN frames => f.pa = pa
  /\ inspector \in {"idle", "exited"} => files \subseteq {"/dev/mem"}
=============================================================================
