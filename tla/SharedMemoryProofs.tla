------------------------- MODULE SharedMemoryProofs -------------------------
(***************************************************************************)
(* Theorems about a program that shares its memory with a kernel, for all  *)
(* sizes of the tables, pages, requests, units and FIFOs, and all programs. *)
(*                                                                         *)
(* The argument about the bridge: number the words of the requests on      *)
(* their way as (request, place in it).  The bridge holds one run of       *)
(* consecutive words (Road), from the one that the data register waits for *)
(* to the one that the first unit takes next, and moving a word from one   *)
(* unit to the next changes nothing about that run.  The delay FIFOs are   *)
(* as long as the results of the units behind them, so each result meets   *)
(* the address it belongs to (Carried).  A unit that has a word on its way *)
(* was flushed after the program started, so that what it has cached is in *)
(* memory (Fresh).                                                         *)
(***************************************************************************)
EXTENDS SharedMemory, TLAPS

-----------------------------------------------------------------------------
(***************************************************************************)
(* Arithmetic and sequences.                                               *)
(***************************************************************************)

LEMMA Division ==
  ASSUME NEW a \in Int, NEW b \in Int, b > 0
  PROVE  a = b * (a \div b) + (a % b)
  OBVIOUS

LEMMA DivMod ==
  ASSUME NEW a \in Nat, NEW b \in Nat \ {0}
  PROVE  /\ a \div b \in Nat /\ a % b \in 0 .. b - 1
         /\ a = b * (a \div b) + (a % b)
<1>1. a \div b \in Nat /\ a % b \in 0 .. b - 1 OBVIOUS
<1>2. a = b * (a \div b) + (a % b) BY Division
<1> QED BY <1>1, <1>2

LEMMA Multiples ==
  ASSUME NEW b \in Nat \ {0}, NEW p \in Nat, NEW q \in Nat, p < q
  PROVE  b * p + b <= b * q
  OBVIOUS

\* A quotient and a remainder determine each other.
LEMMA Unique ==
  ASSUME NEW b \in Nat \ {0}, NEW p \in Nat, NEW q \in Nat,
         NEW r \in 0 .. b - 1, NEW s \in 0 .. b - 1, b * p + r = b * q + s
  PROVE  p = q /\ r = s
<1>1. ~ (p < q) /\ ~ (q < p)
  <2>1. CASE p < q
    <3>1. b * p + b <= b * q BY <2>1, Multiples
    <3> QED BY <3>1
  <2>2. CASE q < p
    <3>1. b * q + b <= b * p BY <2>2, Multiples
    <3> QED BY <3>1
  <2> QED BY <2>1, <2>2
<1>2. p = q BY <1>1
<1> QED BY <1>2

LEMMA ModOfSum ==
  ASSUME NEW m \in Nat \ {0}, NEW f \in Nat, f % m = 0, NEW x \in 0 .. m - 1
  PROVE  (f + x) % m = x
<1>1. f = m * (f \div m) + (f % m) /\ f \div m \in Nat BY DivMod
<1>2. /\ f + x = m * ((f + x) \div m) + ((f + x) % m)
      /\ (f + x) \div m \in Nat /\ (f + x) % m \in 0 .. m - 1
  <2>1. f + x \in Nat OBVIOUS
  <2> QED BY <2>1, DivMod
<1>3. m * (f \div m) + x = m * ((f + x) \div m) + ((f + x) % m)
  BY <1>1, <1>2
<1> DEFINE p == f \div m
           q == (f + x) \div m
           r == (f + x) % m
<1>4. p \in Nat /\ q \in Nat /\ r \in 0 .. m - 1 /\ m * p + x = m * q + r
  BY <1>1, <1>2, <1>3
<1> HIDE DEF p, q, r
<1>5. x = r BY <1>4, Unique
<1> QED BY <1>5 DEF r

\* t is s with x at its end, and t is s without its head.
Appended(s, x, t) == /\ Len(t) = Len(s) + 1
                     /\ \A i \in 1 .. Len(s) : t[i] = s[i]
                     /\ t[Len(s) + 1] = x
Popped(s, t)      == /\ Len(s) = Len(t) + 1
                     /\ \A i \in 1 .. Len(t) : t[i] = s[i + 1]

LEMMA AppendIs ==
  ASSUME NEW S, NEW s \in Seq(S), NEW x \in S
  PROVE  Append(s, x) \in Seq(S) /\ Appended(s, x, Append(s, x))
  BY DEF Appended

LEMMA TailIs ==
  ASSUME NEW S, NEW s \in Seq(S), s # <<>>
  PROVE  /\ Tail(s) \in Seq(S) /\ Popped(s, Tail(s))
         /\ Head(s) = s[1] /\ Head(s) \in S /\ Len(s) >= 1
  BY DEF Popped

LEMMA SeqLen ==
  ASSUME NEW S, NEW s \in Seq(S)
  PROVE  /\ Len(s) \in Nat /\ (s = <<>> <=> Len(s) = 0)
         /\ \A i \in 1 .. Len(s) : s[i] \in S
  OBVIOUS

-----------------------------------------------------------------------------
(***************************************************************************)
(* The program's memory.                                                   *)
(***************************************************************************)

\* The physical address of va, the word there, and its descriptors.
Address(va)     == frames[va \div PageWords] + (va % PageWords)
Content(va)     == memory[Address(va)]
Descriptor0(va) == memory[table0_desc_addr(va, ttbr0)]
Descriptor1(va) == memory[table1_desc_addr(va, Descriptor0(va))]

Running == frames \in Layouts /\ memory = Image(frames) /\ ttbr0 = TTBR0

\* What a program's memory may hold.
Contents == UNION {{Image(l)[a] : a \in Addresses} : l \in Layouts}

LEMMA Sizes ==
  /\ Level0 \in Nat \ {0} /\ Level1 \in Nat \ {0} /\ PageWords \in Nat \ {0}
  BY SizeAssumption

LEMMA PageOf ==
  ASSUME NEW va \in VA
  PROVE  va \in Nat /\ va \div PageWords \in Pages /\ va % PageWords \in 0 .. PageWords - 1
<1> DEFINE n == Level0 * Level1
           q == va \div PageWords
<1>1. n \in Nat BY Sizes
<1>2. va \in Nat /\ va < n * PageWords BY Sizes, <1>1 DEF VA
<1>3. q \in Nat /\ va % PageWords \in 0 .. PageWords - 1 /\ va = PageWords * q + (va % PageWords)
  BY <1>2, Sizes, DivMod
<1> HIDE DEF n, q
<1>4. n * PageWords = PageWords * n BY <1>1, Sizes
<1>5. q < n
  <2> SUFFICES ASSUME ~ (q < n) PROVE FALSE OBVIOUS
  <2>1. CASE q = n BY <2>1, <1>1, <1>2, <1>3, <1>4, Sizes
  <2>2. CASE n < q
    <3>1. PageWords * n + PageWords <= PageWords * q BY <2>2, <1>1, <1>3, Sizes, Multiples
    <3> QED BY <3>1, <1>1, <1>2, <1>3, <1>4, Sizes
  <2> QED BY <2>1, <2>2, <1>1, <1>3
<1> QED BY <1>1, <1>2, <1>3, <1>5 DEF Pages, q, n

\* The translation tables lead the bridge and the library to the program's words.
LEMMA TablesLead ==
  ASSUME Running, NEW va \in Mapped(frames)
  PROVE  /\ table0_desc_addr(va, ttbr0) \in Addresses
         /\ table1_desc_addr(va, Descriptor0(va)) \in Addresses
         /\ Address(va) \in Addresses \ DOMAIN Translation[frames]
         /\ data_addr(va, Descriptor1(va)) = Address(va)
         /\ manual_table_walk(va, ttbr0, memory) = Address(va)
  BY LayoutAssumption
     DEF Running, Address, Descriptor0, Descriptor1, manual_table_walk

\* Every program has the addresses that requests may have.
LEMMA SharedIsMapped ==
  ASSUME Running, NEW va \in Shared
  PROVE  va \in Mapped(frames) /\ va \in VA /\ va \in Nat
<1>1. va \in VA /\ va \in Mapped(frames) BY DEF Shared, Running
<1> QED BY <1>1, PageOf

LEMMA InMemory ==
  ASSUME Running, NEW a \in Addresses
  PROVE  memory[a] \in Contents
  BY DEF Running, Contents

\* Of the pages that are listed, pagemap has the frames.
Present == Listed[frames]

LEMMA FrameOfPage ==
  ASSUME frames \in Layouts, NEW p \in Present
  PROVE  /\ p \in DOMAIN frames /\ p \in Pages
         /\ \A entry \in Pagemap(frames, Present, p) : Frame(entry) = frames[p]
<1>0. p \in DOMAIN frames /\ p \in Pages
  BY PagemapAssumption, LayoutAssumption DEF Present
<1> DEFINE f == frames[p]
           x == f \div PageWords
<1>1. f \in Nat /\ f % PageWords = 0 /\ x < Mask
  BY <1>0, PagemapAssumption, LayoutAssumption
<1>2. x \in Nat /\ f = PageWords * x + (f % PageWords) BY <1>1, Sizes, DivMod
<1> HIDE DEF f, x
<1>3. (Flags + x) % Mask = x
  <2>1. Mask \in Nat \ {0} /\ Flags \in Nat /\ Flags % Mask = 0 BY PagemapAssumption
  <2>2. x \in 0 .. Mask - 1 BY <1>1, <1>2, <2>1
  <2> QED BY <2>1, <2>2, ModOfSum
<1>4. x * PageWords = f BY <1>1, <1>2, Sizes
<1>5. Pagemap(frames, Present, p) = {Flags + x} BY DEF Pagemap, f, x
<1> QED BY <1>0, <1>3, <1>4, <1>5 DEF Frame, f

-----------------------------------------------------------------------------
(***************************************************************************)
(* The caches of the units.                                                *)
(***************************************************************************)

Coherent(cached) ==
  /\ DOMAIN cached = Addresses
  /\ \A a \in Addresses : cached[a] \in {None, memory[a]}

\* Since the first request, the units' caches hold what is in memory.
Fresh == r_start >= 1 => Coherent(cached0) /\ Coherent(cached1) /\ Coherent(cached2)

LEMMA OfWindow ==
  ASSUME NEW a \in Addresses
  PROVE  a % Half = a /\ Port(acp(a)) = memory[a]
<1>1. Half \in Nat \ {0} /\ a \in 0 .. Half - 1 BY CapacityAssumption
<1>2. (0 + a) % Half = a
  <2>1. 0 % Half = 0 BY <1>1
  <2> QED BY <1>1, <2>1, ModOfSum
<1>3. a % Half = a BY <1>1, <1>2
<1>4. (Half + a) - Half = a BY <1>1
<1>5. Port(acp(a)) = memory[(Half + (a % Half)) - Half] BY DEF Port, acp
<1> QED BY <1>3, <1>4, <1>5

\* A unit reads what is in memory, and what it has cached then is, too.
LEMMA Read ==
  ASSUME NEW cached, Coherent(cached), NEW a \in Addresses
  PROVE  Lookup(cached, a) = memory[a] /\ Coherent(Caches(cached, a))
<1>1. Lookup(cached, a) = memory[a] BY OfWindow DEF Lookup, Coherent
<1>2. Coherent(Caches(cached, a)) BY <1>1, OfWindow DEF Coherent, Caches, Uncached
<1> QED BY <1>1, <1>2

-----------------------------------------------------------------------------
(***************************************************************************)
(* The inductive invariant of the bridge.                                  *)
(***************************************************************************)

Types ==
  /\ state \in {"s_idle", "s_input"} /\ (state = "s_input" => counter \in 0 .. Words - 1)
  /\ r_start \in 0 .. 3
  /\ pending \in Seq(Requests)
  /\ unit0 \in Seq(Contents) /\ unit1 \in Seq(Contents) /\ unit2 \in Seq(Contents)
  /\ va1 \in Seq(Shared) /\ va2 \in Seq(Shared)
  /\ read_data_shreg \in Seq(Contents) /\ Len(read_data_shreg) <= Words
  /\ ovalid_int \in BOOLEAN /\ (ovalid_int => Len(read_data_shreg) = Words)
  /\ readdata \in Seq(Seq(Contents))

\* Nothing is on its way before the first request.
First == r_start = 0 => state = "s_idle" /\ pending = <<>>

\* Answers that are complete, and words of the next one in the data register.
Complete == Len(readdata) + (IF ovalid_int THEN 1 ELSE 0)
Shifted  == IF Len(read_data_shreg) = Words THEN 0 ELSE Len(read_data_shreg)
InUnits  == Len(unit2) + Len(unit1) + Len(unit0)

\* The word behind n - 1 others in the units: its request, its place in it, its address.
Turn(k)      == k \div Words
Place(k)     == k % Words
RequestOf(n) == (Complete + 1) + Turn(Shifted + (n - 1))
PlaceOf(n)   == Place(Shifted + (n - 1))
AddressOf(n) == pending[RequestOf(n)] + PlaceOf(n)

\* The words in the units are those of the requests, up to the one that the first
\* unit takes next.
Road ==
  /\ \A n \in 1 .. InUnits : RequestOf(n) <= Len(pending)
  /\ IF state = "s_input"
       THEN /\ RequestOf(InUnits + 1) = Len(pending) /\ PlaceOf(InUnits + 1) = counter
            /\ va_reg = pending[Len(pending)] + counter
       ELSE RequestOf(InUnits + 1) = Len(pending) + 1 /\ PlaceOf(InUnits + 1) = 0

\* Nothing is lost at a full FIFO.
Room == Len(unit1) <= Capacity1 /\ Complete <= DataDepth

\* What the units hold belongs to the addresses beside it.
Carried ==
  /\ Len(va1) = Len(unit0) /\ Len(va2) = Len(unit1)
  /\ \A n \in 1 .. Len(unit2) : unit2[n] = Content(AddressOf(n))
  /\ \A n \in 1 .. Len(unit1) : /\ va2[n] = AddressOf(Len(unit2) + n)
                                /\ unit1[n] = Descriptor1(va2[n])
  /\ \A n \in 1 .. Len(unit0) : /\ va1[n] = AddressOf((Len(unit2) + Len(unit1)) + n)
                                /\ unit0[n] = Descriptor0(va1[n])

\* words are those from va on.
From(words, va) == \A i \in 1 .. Len(words) : words[i] = Content(va + (i - 1))

Collected ==
  /\ \A r \in 1 .. Len(readdata) : Len(readdata[r]) = Words /\ From(readdata[r], pending[r])
  /\ ovalid_int \/ Shifted > 0 => From(read_data_shreg, pending[Len(readdata) + 1])

BridgeInv == Running /\ Types /\ First /\ Fresh /\ Road /\ Room /\ Carried /\ Collected

-----------------------------------------------------------------------------
(***************************************************************************)
(* The inductive invariant of the library's report.                        *)
(***************************************************************************)

HasFirst == region.start \in Present => Frame(pa_first) = frames[region.start]
HasLast  == region.end - 1 \in Present => Frame(pa_last) = frames[region.end - 1]

\* A region has at least one page.
Regular(r) == r.end > r.start

\* While a region's pages are read, its first is known from the first on.
Inspected ==
  /\ inspector \in {"idle", "open", "line", "page", "show", "close", "exited"}
  /\ phase \in {"host", "kernel"}
  /\ maps \in Seq([start : Nat, end : Nat] \cup {Invalid})
  /\ region \in [start : Nat, end : Nat] /\ page \in Nat
  /\ files \subseteq {"maps", "pagemap", "/dev/mem"}
  /\ inspector \in {"idle", "open", "exited"} => files \subseteq {"/dev/mem"}
  /\ inspector = "page" => Regular(region) /\ page < num_pages /\ (page > 0 => HasFirst)
  /\ inspector = "show" /\ Regular(region) => HasFirst /\ HasLast

\* The kernel runs when the program has looked at its pages.
Alone == phase = "kernel" => inspector = "idle" /\ shown = {} /\ found = {}

PagesInv == Running /\ Inspected /\ Alone /\ PagesReported

LEMMA ImageStays ==
  ASSUME Running, [Next]_vars
  PROVE  Running'
<1>1. CASE Restart BY <1>1 DEF Restart, Started, Running
<1>8. UNCHANGED <<frames, memory, ttbr0>> => Running' BY DEF Running, Image
<1>2. CASE Inspect BY <1>2 DEF Inspect, Running, bridgeVars
<1>3. CASE Launch BY <1>3 DEF Launch, Running, bridgeVars
<1>4. ASSUME NEW va \in Requests, Ask(va) PROVE UNCHANGED <<frames, memory, ttbr0>>
  BY <1>4 DEF Ask, s_idle, restVars
<1>5. ASSUME Bridge PROVE UNCHANGED <<frames, memory, ttbr0>>
  <2>1. CASE s_input BY <2>1, <1>5 DEF Bridge, s_input, restVars
  <2>2. CASE read_pt_level1 BY <2>2, <1>5 DEF Bridge, read_pt_level1, restVars
  <2>3. CASE rw BY <2>3, <1>5 DEF Bridge, rw, restVars
  <2>4. CASE shreg_proc BY <2>4, <1>5 DEF Bridge, shreg_proc, restVars
  <2>5. CASE NoWord BY <2>5, <1>5 DEF Bridge, NoWord, restVars
  <2>6. CASE Offered BY <2>6, <1>5 DEF Bridge, Offered, restVars
  <2> QED BY <2>1, <2>2, <2>3, <2>4, <2>5, <2>6, <1>5 DEF Bridge
<1>6. CASE Reply BY <1>6 DEF Reply, rdreq_readdata, restVars, Running
<1>7. CASE UNCHANGED vars BY <1>7 DEF vars, bridgeVars, Running
<1> QED BY <1>1, <1>2, <1>3, <1>4, <1>5, <1>6, <1>7, <1>8 DEF Next

\* Where the program and what it has found stay, the report stays right.
LEMMA PagesFrame ==
  ASSUME PagesInv, Running', UNCHANGED <<pageVars, frames>>, Alone',
         phase' \in {"host", "kernel"}
  PROVE  PagesInv'
<1> USE DEF PagesInv, pageVars
<1>1. UNCHANGED <<num_pages, HasFirst, HasLast, Regular(region)>>
  BY DEF num_pages, HasFirst, HasLast, Regular, Present, Frame
<1>2. Inspected' BY <1>1 DEF Inspected
<1>3. PagesReported' BY DEF PagesReported
<1> QED BY <1>2, <1>3

LEMMA ReadsPages ==
  ASSUME PagesInv, ReadPage(frames, Present), UNCHANGED <<frames, phase>>
  PROVE  Inspected'
<1> USE DEF PagesInv, Inspected, ReadPage, num_pages, Regular
<1>1. /\ region \in [start : Nat, end : Nat] /\ page \in Nat
      /\ inspector = "page" /\ Regular(region) /\ page < num_pages /\ (page > 0 => HasFirst)
      /\ UNCHANGED <<maps, files, region, frames>> /\ frames \in Layouts
  BY DEF Running
<1>2. CASE inspector' = "line" BY <1>1, <1>2
<1>3. CASE ~ inspector' = "line"
  <2> DEFINE p == region.start + page
  <2>1. PICK entry \in Pagemap(frames, Present, p) :
          /\ pa_first' = IF page = 0 THEN entry ELSE pa_first
          /\ pa_last' = IF page = num_pages - 1 THEN entry ELSE pa_last
          /\ page' = page + 1
          /\ inspector' = IF page = num_pages - 1 THEN "show" ELSE "page"
    BY <1>3
  <2>2. p \in Present => Frame(entry) = frames[p]
    <3> HIDE DEF p
    <3> QED BY <1>1, <2>1, FrameOfPage
  <2>3. HasFirst'
    <3>1. CASE page = 0 BY <1>1, <2>1, <2>2, <3>1 DEF HasFirst, Present, Frame
    <3>2. CASE page # 0
      <4>1. HasFirst /\ pa_first' = pa_first BY <1>1, <2>1, <3>2
      <4> QED BY <1>1, <4>1 DEF HasFirst, Present, Frame
    <3> QED BY <3>1, <3>2
  <2>4. ASSUME page = num_pages - 1 PROVE HasLast'
    <3>1. p = region.end - 1 BY <1>1, <2>4
    <3>2. pa_last' = entry BY <2>1, <2>4
    <3> HIDE DEF p
    <3> QED BY <1>1, <2>2, <3>1, <3>2 DEF HasLast, Present, Frame
  <2>5. CASE page = num_pages - 1 BY <1>1, <2>1, <2>3, <2>4, <2>5
  <2>6. CASE page # num_pages - 1
    <3>1. page + 1 < num_pages BY <1>1, <2>6
    <3> QED BY <1>1, <2>1, <2>3, <2>6, <3>1
  <2> QED BY <2>5, <2>6
<1> QED BY <1>2, <1>3

LEMMA ShowsPages ==
  ASSUME PagesInv, Show, UNCHANGED <<frames, phase>>
  PROVE  Inspected' /\ PagesReported'
<1> USE DEF PagesInv, Show
<1>1. Inspected' BY DEF Inspected
<1>2. Regular(region) => HasFirst /\ HasLast BY DEF Inspected
<1>3. PagesReported'
  BY <1>2 DEF PagesReported, Regular, Inspected, HasFirst, HasLast, Present
<1> QED BY <1>1, <1>3

\* One address is reported right by either function.
Right(f) ==
  /\ f.from = "pagemap" /\ f.va \div PageWords \in Present => f.pa \in {0, Address(f.va)}
  /\ f.from = "tables" /\ f.va \div PageWords \in DOMAIN frames => f.pa = Address(f.va)

LEMMA AllRight == (\A f \in found : Right(f)) <=>
  \A f \in found :
    LET p  == f.va \div PageWords
        pa == frames[p] + (f.va % PageWords)
    IN  /\ f.from = "pagemap" /\ p \in Present => f.pa \in {0, pa}
        /\ f.from = "tables" /\ p \in DOMAIN frames => f.pa = pa
  BY DEF Right, Address

LEMMA LookedUp ==
  ASSUME frames \in Layouts, NEW va, NEW pa \in lookup_physical_address(va, frames, Present)
  PROVE  Right(Found(va, "pagemap", pa))
<1> DEFINE p == va \div PageWords
<1>1. p \in Present => pa \in {0, frames[p] + (va % PageWords)}
  <2> HIDE DEF p
  <2> SUFFICES ASSUME p \in Present PROVE pa \in {0, frames[p] + (va % PageWords)} OBVIOUS
  <2>1. \A entry \in Pagemap(frames, Present, p) : Frame(entry) = frames[p] BY FrameOfPage
  <2> QED BY <2>1 DEF lookup_physical_address, p
<1> QED BY <1>1 DEF Right, Found, Address

LEMMA Walked ==
  ASSUME Running, NEW va \in VA
  PROVE  Right(Found(va, "tables", manual_table_walk(va, ttbr0, memory)))
<1>1. va \div PageWords \in DOMAIN frames => manual_table_walk(va, ttbr0, memory) = Address(va)
  BY TablesLead DEF Mapped
<1> QED BY <1>1 DEF Right, Found

LEMMA LooksUp ==
  ASSUME PagesInv, NEW va, LookUp(va, frames, Present), UNCHANGED <<frames, phase>>
  PROVE  Inspected' /\ PagesReported'
<1> USE DEF PagesInv, LookUp
<1>1. Inspected' BY DEF Inspected, num_pages, HasFirst, HasLast, Regular
<1>2. PICK pa \in lookup_physical_address(va, frames, Present) :
        found' = found \cup {Found(va, "pagemap", pa)}
  OBVIOUS
<1>3. Right(Found(va, "pagemap", pa)) BY LookedUp DEF Running
<1>4. \A f \in found' : Right(f) BY <1>2, <1>3, AllRight DEF PagesReported, Present
<1>5. PagesReported' BY <1>4 DEF PagesReported, Right, Address, Present
<1> QED BY <1>1, <1>5

LEMMA Walks ==
  ASSUME PagesInv, NEW va \in VA, NEW verbose \in BOOLEAN,
         Walk(va, verbose, frames, Present, ttbr0, memory), UNCHANGED <<frames, phase>>
  PROVE  Inspected' /\ PagesReported'
<1> USE DEF PagesInv, Walk
<1>1. files' \subseteq {"/dev/mem"} /\ inspector' \in {"idle", "exited"} BY DEF Inspected
<1>2. Inspected' BY <1>1 DEF Inspected, num_pages, HasFirst, HasLast, Regular
<1>3. \A f \in found' : Right(f)
  <2>1. \A f \in found : Right(f) BY AllRight DEF PagesReported, Present
  <2>2. CASE found' = found BY <2>1, <2>2
  <2>3. CASE \E pa \in lookup_physical_address(va, frames, Present) :
               found' = found \cup {Found(va, "tables", manual_table_walk(va, ttbr0, memory))}
                              \cup (IF verbose THEN {Found(va, "pagemap", pa)} ELSE {})
    <3>1. PICK pa \in lookup_physical_address(va, frames, Present) :
            found' = found \cup {Found(va, "tables", manual_table_walk(va, ttbr0, memory))}
                           \cup (IF verbose THEN {Found(va, "pagemap", pa)} ELSE {})
      BY <2>3
    <3>2. Right(Found(va, "pagemap", pa)) BY LookedUp DEF Running
    <3>3. Right(Found(va, "tables", manual_table_walk(va, ttbr0, memory))) BY Walked
    <3> QED BY <2>1, <3>1, <3>2, <3>3
  <2> QED BY <2>2, <2>3
<1>4. PagesReported' BY <1>1, <1>3 DEF PagesReported, Right, Address, Present
<1> QED BY <1>2, <1>4

LEMMA InspectKeepsPages ==
  ASSUME PagesInv, Inspect
  PROVE  PagesInv'
<1> USE DEF PagesInv
<1>1. Running' /\ UNCHANGED <<frames, phase>> /\ phase = "host"
  BY DEF Inspect, Running, bridgeVars
<1>2. Alone' BY <1>1 DEF Alone
<1> DEFINE Quiet == /\ UNCHANGED <<shown, found>>
                    /\ inspector' \in {"idle", "exited"} => files' \subseteq {"/dev/mem"}
<1>3. Quiet => PagesReported' BY <1>1 DEF PagesReported
<1> HIDE DEF Quiet
<1>4. CASE /\ inspector = "idle" /\ inspector' = "open"
           /\ UNCHANGED <<maps, files, region, page, pa_first, pa_last, shown, found>>
  BY <1>1, <1>2, <1>3, <1>4 DEF Inspected, Quiet, num_pages
<1>5. CASE OpenFiles
  BY <1>1, <1>2, <1>3, <1>5, PagemapAssumption DEF Inspected, Quiet, OpenFiles, num_pages
<1>6. CASE ReadLine
  <2>1. Head(maps) \in [start : Nat, end : Nat] \cup {Invalid}
        /\ Tail(maps) \in Seq([start : Nat, end : Nat] \cup {Invalid})
    BY <1>6 DEF ReadLine, Inspected
  <2>2. Quiet BY <1>6 DEF ReadLine, Quiet, Inspected
  <2>3. Inspected'
    BY <1>1, <1>6, <2>1, PagemapAssumption DEF Inspected, ReadLine, num_pages, Regular
  <2> QED BY <1>1, <1>2, <1>3, <2>2, <2>3
<1>7. CASE ReadPage(frames, Present)
  <2>1. Quiet BY <1>7 DEF ReadPage, Quiet
  <2> QED BY <1>1, <1>2, <1>3, <1>7, <2>1, ReadsPages
<1>8. CASE Show BY <1>1, <1>2, <1>8, ShowsPages
<1>9. CASE CloseFiles
  BY <1>1, <1>2, <1>3, <1>9 DEF Inspected, Quiet, CloseFiles, num_pages
<1>10. CASE \E va \in VA \cup {Level0 * Level1 * PageWords} : LookUp(va, frames, Present)
  BY <1>1, <1>2, <1>10, LooksUp
<1>11. CASE \E va \in VA, verbose \in BOOLEAN :
              Walk(va, verbose, frames, Present, ttbr0, memory)
  BY <1>1, <1>2, <1>11, Walks
<1> QED BY <1>4, <1>5, <1>6, <1>7, <1>8, <1>9, <1>10, <1>11 DEF Inspect, Present

LEMMA NextKeepsPages ==
  ASSUME PagesInv, [Next]_vars
  PROVE  PagesInv'
<1>1. Running' BY ImageStays DEF PagesInv
<1>2. ASSUME UNCHANGED <<pageVars, frames, phase>> PROVE PagesInv'
  <2>1. Alone' /\ phase' \in {"host", "kernel"}
    BY <1>2 DEF PagesInv, Alone, Inspected, pageVars
  <2> QED BY <1>1, <1>2, <2>1, PagesFrame
<1>3. CASE Inspect BY <1>3, InspectKeepsPages
<1>4. CASE Launch
  <2>1. Inspected' BY <1>4 DEF PagesInv, Launch, Inspected, NoRegion, num_pages
  <2>2. Alone' /\ PagesReported'
    BY <1>4 DEF PagesInv, Launch, Alone, PagesReported, Inspected
  <2> QED BY <1>1, <2>1, <2>2 DEF PagesInv
<1>5. CASE \E va \in Requests : Ask(va) BY <1>2, <1>5 DEF Ask, restVars
<1>6. CASE Bridge BY <1>2, <1>6 DEF Bridge, restVars
<1>7. CASE Reply BY <1>2, <1>7 DEF Reply, restVars
<1>8. CASE Restart
  <2>1. Inspected' BY <1>8 DEF PagesInv, Restart, Inspected, NoRegion, num_pages
  <2>2. Alone' /\ PagesReported' BY <1>8 DEF Restart, Alone, PagesReported
  <2> QED BY <1>1, <2>1, <2>2 DEF PagesInv
<1>9. CASE UNCHANGED vars BY <1>2, <1>9 DEF vars
<1> QED BY <1>3, <1>4, <1>5, <1>6, <1>7, <1>8, <1>9 DEF Next

\* display_memory_layout, lookup_physical_address and manual_table_walk report where
\* the listed pages are, and the walk also where the others are that the tables
\* translate, whatever pagemap has for a page that is not listed, whatever lines maps
\* has, whichever of the files cannot be opened, moved or read, and whichever programs
\* ran before; and maps and pagemap are closed.
THEOREM PagesAreReported == Spec => []PagesReported
<1>1. Init => PagesInv
  BY DEF Init, PagesInit, PagesInv, Running, Inspected, Alone, PagesReported,
         NoRegion, num_pages
<1>2. PagesInv => PagesReported BY DEF PagesInv
<1> QED BY <1>1, <1>2, NextKeepsPages, PTL DEF Spec

-----------------------------------------------------------------------------
(***************************************************************************)
(* The words in the units.                                                 *)
(***************************************************************************)

LEMMA WordsType == Words \in Nat \ {0}
  BY CapacityAssumption

\* Counting words by request and place.
LEMMA NextPlace ==
  ASSUME NEW k \in Nat
  PROVE  IF k % Words = Words - 1
           THEN (k + 1) \div Words = (k \div Words) + 1 /\ (k + 1) % Words = 0
           ELSE (k + 1) \div Words = k \div Words /\ (k + 1) % Words = (k % Words) + 1
<1> DEFINE q == k \div Words
           r == k % Words
           u == (k + 1) \div Words
           v == (k + 1) % Words
<1>1. q \in Nat /\ r \in 0 .. Words - 1 /\ k = Words * q + r BY WordsType, DivMod
<1>2. u \in Nat /\ v \in 0 .. Words - 1 /\ k + 1 = Words * u + v
  <2>1. k + 1 \in Nat OBVIOUS
  <2> QED BY <2>1, WordsType, DivMod
<1> HIDE DEF q, r, u, v
<1>3. CASE r = Words - 1
  <2>1. Words * (q + 1) + 0 = Words * u + v
    <3>1. Words * (q + 1) = Words * q + Words BY <1>1, WordsType
    <3> QED BY <1>1, <1>2, <1>3, <3>1, WordsType
  <2>2. q + 1 = u /\ 0 = v
    <3>1. q + 1 \in Nat /\ 0 \in 0 .. Words - 1 BY <1>1, WordsType
    <3> QED BY <2>1, <3>1, <1>2, WordsType, Unique
  <2> QED BY <1>3, <2>2 DEF q, r, u, v
<1>4. CASE r # Words - 1
  <2>1. r + 1 \in 0 .. Words - 1 BY <1>1, <1>4, WordsType
  <2>2. Words * q + (r + 1) = Words * u + v BY <1>1, <1>2, WordsType
  <2>3. q = u /\ r + 1 = v BY <2>1, <2>2, <1>1, <1>2, WordsType, Unique
  <2> QED BY <1>4, <2>3 DEF q, r, u, v
<1> QED BY <1>3, <1>4

LEMMA NextRequest ==
  ASSUME NEW k \in Nat
  PROVE  (k + Words) \div Words = (k \div Words) + 1 /\ (k + Words) % Words = k % Words
<1> DEFINE q == k \div Words
           r == k % Words
           u == (k + Words) \div Words
           v == (k + Words) % Words
<1>1. q \in Nat /\ r \in 0 .. Words - 1 /\ k = Words * q + r BY WordsType, DivMod
<1>2. u \in Nat /\ v \in 0 .. Words - 1 /\ k + Words = Words * u + v
  <2>1. k + Words \in Nat BY WordsType
  <2> QED BY <2>1, WordsType, DivMod
<1> HIDE DEF q, r, u, v
<1>3. Words * (q + 1) + r = Words * u + v
  <2>1. Words * (q + 1) = Words * q + Words BY <1>1, WordsType
  <2> QED BY <1>1, <1>2, <2>1, WordsType
<1>4. q + 1 = u /\ r = v
  <2>1. q + 1 \in Nat BY <1>1
  <2> QED BY <2>1, <1>1, <1>2, <1>3, WordsType, Unique
<1> QED BY <1>4 DEF q, r, u, v

LEMMA FirstPlaces ==
  ASSUME NEW k \in 0 .. Words - 1
  PROVE  k \div Words = 0 /\ k % Words = k
<1>1. k \in Nat BY WordsType
<1>2. /\ k \div Words \in Nat /\ k % Words \in 0 .. Words - 1
      /\ k = Words * (k \div Words) + (k % Words)
  BY <1>1, WordsType, DivMod
<1> DEFINE u == k \div Words
           v == k % Words
<1>3. u \in Nat /\ v \in 0 .. Words - 1 /\ Words * 0 + k = Words * u + v
  BY <1>1, <1>2, WordsType
<1> HIDE DEF u, v
<1>4. 0 = u /\ k = v BY <1>3, WordsType, Unique
<1> QED BY <1>4 DEF u, v

LEMMA Counting ==
  ASSUME NEW k \in Nat
  PROVE  /\ Turn(k) \in Nat /\ Place(k) \in 0 .. Words - 1
         /\ k < Words => Turn(k) = 0 /\ Place(k) = k
         /\ Place(k) = Words - 1 => Turn(k + 1) = Turn(k) + 1 /\ Place(k + 1) = 0
         /\ Place(k) # Words - 1 => Turn(k + 1) = Turn(k) /\ Place(k + 1) = Place(k) + 1
         /\ Turn(k + Words) = Turn(k) + 1 /\ Place(k + Words) = Place(k)
<1>1. Turn(k) \in Nat /\ Place(k) \in 0 .. Words - 1 BY WordsType, DivMod DEF Turn, Place
<1>2. ASSUME k < Words PROVE Turn(k) = 0 /\ Place(k) = k
  <2>1. k \in 0 .. Words - 1 BY <1>2, WordsType
  <2> QED BY <2>1, FirstPlaces DEF Turn, Place
<1>3. IF k % Words = Words - 1
        THEN (k + 1) \div Words = (k \div Words) + 1 /\ (k + 1) % Words = 0
        ELSE (k + 1) \div Words = k \div Words /\ (k + 1) % Words = (k % Words) + 1
  BY NextPlace
<1>4. (k + Words) \div Words = (k \div Words) + 1 /\ (k + Words) % Words = k % Words
  BY NextRequest
<1> QED BY <1>1, <1>2, <1>3, <1>4 DEF Turn, Place

LEMMA Lengths ==
  ASSUME Types
  PROVE  /\ Len(unit0) \in Nat /\ Len(unit1) \in Nat /\ Len(unit2) \in Nat /\ InUnits \in Nat
         /\ Len(va1) \in Nat /\ Len(va2) \in Nat
         /\ Len(pending) \in Nat /\ Len(readdata) \in Nat /\ Len(read_data_shreg) \in Nat
         /\ Complete \in Nat /\ Shifted \in 0 .. Words - 1
  BY WordsType DEF Types, InUnits, Complete, Shifted

\* Every word in the units belongs to a request that is not answered.
LEMMA OnItsWay ==
  ASSUME Types, Road, NEW n \in 1 .. InUnits
  PROVE  /\ RequestOf(n) \in Complete + 1 .. Len(pending) /\ PlaceOf(n) \in 0 .. Words - 1
         /\ AddressOf(n) \in Shared
<1>1. Shifted + (n - 1) \in Nat BY Lengths
<1>2. RequestOf(n) \in Complete + 1 .. Len(pending) /\ PlaceOf(n) \in 0 .. Words - 1
  <2>1. Turn(Shifted + (n - 1)) \in Nat /\ Place(Shifted + (n - 1)) \in 0 .. Words - 1
    BY <1>1, Counting
  <2>2. RequestOf(n) <= Len(pending) BY DEF Road
  <2>3. RequestOf(n) \in Nat /\ RequestOf(n) >= Complete + 1 /\ PlaceOf(n) \in 0 .. Words - 1
    BY SMTT(60), <2>1, Lengths DEF RequestOf, PlaceOf
  <2> QED BY <2>2, <2>3, Lengths
<1>3. pending[RequestOf(n)] \in Requests
  <2>1. RequestOf(n) \in 1 .. Len(pending)
    BY SMTT(60), <1>2, Lengths
  <2>2. pending \in Seq(Requests)
    BY DEF Types
  <2> QED BY <2>1, <2>2
<1> QED BY <1>2, <1>3, RequestsAssumption DEF AddressOf

\* So does the answer that is being collected.
LEMMA Awaited ==
  ASSUME Types, Road
  PROVE  /\ Complete <= Len(pending)
         /\ ovalid_int \/ Shifted > 0 => Len(readdata) + 1 <= Len(pending)
<1>1. RequestOf(1) = Complete + 1 /\ PlaceOf(1) = Shifted
  <2>1. Shifted \in Nat /\ Shifted < Words /\ Shifted + (1 - 1) = Shifted BY Lengths, WordsType
  <2>2. Turn(Shifted) = 0 /\ Place(Shifted) = Shifted BY <2>1, Counting
  <2> QED BY <2>1, <2>2, Lengths DEF RequestOf, PlaceOf
<1>2. Complete <= Len(pending) /\ (Shifted > 0 => Complete + 1 <= Len(pending))
  <2>1. CASE InUnits = 0
    <3>1. InUnits + 1 = 1 BY <2>1
    <3> QED BY SMTT(60), <1>1, <3>1, Lengths DEF Road, Types
  <2>2. CASE InUnits # 0
    <3>1. 1 \in 1 .. InUnits BY <2>2, Lengths
    <3>2. RequestOf(1) <= Len(pending) BY <3>1 DEF Road
    <3> QED BY <1>1, <3>2, Lengths
  <2> QED BY <2>1, <2>2
<1>3. /\ ovalid_int => Complete = Len(readdata) + 1
      /\ ~ ovalid_int => Complete = Len(readdata)
  BY Lengths DEF Complete
<1> QED BY <1>2, <1>3, Lengths

LEMMA SameMemory ==
  ASSUME UNCHANGED <<frames, memory, ttbr0>>
  PROVE  /\ \A va : UNCHANGED <<Content(va), Descriptor0(va), Descriptor1(va)>>
         /\ \A words, va : From(words, va)' = From(words, va)
  BY DEF Content, Descriptor0, Descriptor1, Address, From

\* Where the answers stay, so do the words' numbers.
LEMMA SameNumbers ==
  ASSUME UNCHANGED <<Complete, Shifted>>
  PROVE  \A n : UNCHANGED <<RequestOf(n), PlaceOf(n)>>
  BY DEF RequestOf, PlaceOf, Turn, Place

LEMMA SameFresh ==
  ASSUME Fresh, UNCHANGED <<memory, r_start, cached0, cached1, cached2>>
  PROVE  Fresh'
  BY DEF Fresh, Coherent

LEMMA SameCollected ==
  ASSUME Types, Road, Collected, UNCHANGED <<frames, memory, ttbr0, backVars>>,
         \A r \in 1 .. Len(pending) : pending'[r] = pending[r]
  PROVE  Collected' /\ UNCHANGED <<Complete, Shifted>>
<1>1. UNCHANGED <<Complete, Shifted>> BY DEF Complete, Shifted, backVars
<1>2. \A r \in 1 .. Len(readdata) : r \in 1 .. Len(pending)
  BY Awaited, Lengths DEF Complete
<1>3. \A r \in 1 .. Len(readdata) : (Len(readdata[r]) = Words /\ From(readdata[r], pending[r]))'
  BY <1>2, SameMemory DEF Collected, backVars
<1>4. (ovalid_int \/ Shifted > 0)' => From(read_data_shreg, pending[Len(readdata) + 1])'
  <2> SUFFICES ASSUME ovalid_int \/ Shifted > 0
               PROVE  From(read_data_shreg, pending[Len(readdata) + 1])'
    BY <1>1 DEF backVars
  <2>1. Len(readdata) + 1 \in 1 .. Len(pending) BY Awaited, Lengths
  <2> QED BY <2>1, SameMemory DEF Collected, backVars
<1> QED BY <1>1, <1>3, <1>4 DEF Collected, backVars

LEMMA SameCarried ==
  ASSUME Types, Carried, UNCHANGED <<frames, memory, ttbr0>>,
         UNCHANGED <<unit0, unit1, unit2, va1, va2>>,
         \A n \in 1 .. InUnits : AddressOf(n)' = AddressOf(n)
  PROVE  Carried'
<1>1. \A n \in 1 .. Len(unit2) : n \in 1 .. InUnits BY Lengths DEF InUnits
<1>2. \A n \in 1 .. Len(unit1) : Len(unit2) + n \in 1 .. InUnits BY Lengths DEF InUnits
<1>3. \A n \in 1 .. Len(unit0) : (Len(unit2) + Len(unit1)) + n \in 1 .. InUnits
  BY Lengths DEF InUnits
<1> QED BY <1>1, <1>2, <1>3, SameMemory DEF Carried

-----------------------------------------------------------------------------
(***************************************************************************)
(* One lemma for each action.                                              *)
(***************************************************************************)

\* The front's register moves, and with it the units are flushed.
LEMMA Flushes ==
  ASSUME Types, Fresh, start_proc, UNCHANGED memory
  PROVE  r_start' \in 1 .. 3 /\ Fresh'
<1>1. r_start' \in 1 .. 3 BY DEF Types, start_proc
<1>2. CASE r_start < 2 BY <1>1, <1>2 DEF start_proc, Fresh, Coherent, Uncached
<1>3. CASE ~ r_start < 2 BY <1>1, <1>3 DEF Types, start_proc, Fresh, Coherent
<1> QED BY <1>1, <1>2, <1>3

LEMMA Asks ==
  ASSUME BridgeInv, NEW va \in Requests, Ask(va)
  PROVE  BridgeInv'
<1> USE DEF BridgeInv
<1>1. /\ state = "s_idle" /\ state' = "s_input" /\ counter' = 0 /\ va_reg' = va
      /\ start_proc /\ pending' = Append(pending, va)
      /\ UNCHANGED <<frames, memory, ttbr0>> /\ UNCHANGED <<unit0, unit1, unit2, va1, va2>>
      /\ UNCHANGED backVars
  BY DEF Ask, s_idle, restVars
<1>2. Running' BY <1>1 DEF Running, Image
<1>3. pending' \in Seq(Requests) /\ Appended(pending, va, pending')
  BY <1>1, AppendIs DEF Types
<1>4. r_start' \in 1 .. 3 /\ Fresh' BY <1>1, Flushes
<1>5. Types' BY <1>1, <1>3, <1>4, WordsType DEF Types, backVars
<1>6. First' BY <1>4 DEF First
<1>7. Collected' /\ UNCHANGED <<Complete, Shifted>>
  <2>1. \A r \in 1 .. Len(pending) : pending'[r] = pending[r] BY <1>3 DEF Appended
  <2> QED BY <1>1, <2>1, SameCollected
<1>8. InUnits' = InUnits BY <1>1 DEF InUnits
<1>9. \A n : UNCHANGED <<RequestOf(n), PlaceOf(n)>> BY <1>7, SameNumbers
<1>10. Road'
  <2>1. Len(pending') = Len(pending) + 1 /\ pending'[Len(pending) + 1] = va
    BY <1>3 DEF Appended
  <2>2. \A n \in 1 .. InUnits : RequestOf(n)' <= Len(pending')
    BY SMTT(60), <1>9, <2>1, OnItsWay, Lengths
  <2>3. RequestOf(InUnits + 1) = Len(pending) + 1 /\ PlaceOf(InUnits + 1) = 0
    BY <1>1 DEF Road
  <2>4. va = va + 0 BY RequestsAssumption DEF Shared, VA
  <2> QED BY <1>1, <1>8, <1>9, <2>1, <2>2, <2>3, <2>4 DEF Road
<1>11. Room' BY <1>1, <1>7 DEF Room
<1>12. \A n \in 1 .. InUnits : AddressOf(n)' = AddressOf(n)
  BY SMTT(60), <1>3, <1>9, OnItsWay, Lengths DEF AddressOf, Appended
<1>13. Carried' BY <1>1, <1>12, SameCarried
<1> QED BY <1>2, <1>4, <1>5, <1>6, <1>7, <1>10, <1>11, <1>13

\* Steps that move no word.
LEMMA Rests ==
  ASSUME BridgeInv, UNCHANGED <<frames, memory, ttbr0>>, UNCHANGED <<pending, backVars>>,
         UNCHANGED <<state, counter, va_reg, unit0, unit1, unit2, va1, va2>>,
         r_start' \in 0 .. 3, First', Fresh'
  PROVE  BridgeInv'
<1> USE DEF BridgeInv
<1>1. Running' BY DEF Running, Image
<1>2. Types' BY DEF Types, backVars
<1>3. Collected' /\ UNCHANGED <<Complete, Shifted>> BY SameCollected
<1>4. \A n : UNCHANGED <<RequestOf(n), PlaceOf(n), AddressOf(n)>>
  BY <1>3, SameNumbers DEF AddressOf
<1>5. Road' /\ Room' BY <1>3, <1>4 DEF Road, Room, InUnits
<1>6. Carried' BY <1>4, SameCarried
<1> QED BY <1>1, <1>2, <1>3, <1>5, <1>6

LEMMA Offers ==
  ASSUME BridgeInv, Offered, UNCHANGED <<frames, pending>>
  PROVE  BridgeInv'
<1>1. r_start' \in 1 .. 3 /\ Fresh' BY Flushes DEF BridgeInv, Offered
<1>2. First' BY <1>1 DEF First
<1> QED BY <1>1, <1>2, Rests DEF Offered

\* The first unit reads a descriptor of level 0.
LEMMA TakesWord ==
  ASSUME BridgeInv, s_input, UNCHANGED <<frames, pending>>
  PROVE  BridgeInv'
<1> USE DEF BridgeInv
<1> DEFINE a == table0_desc_addr(va_reg, ttbr0)
           x == Lookup(cached0, a)
<1>1. /\ state = "s_input" /\ unit0' = Append(unit0, x) /\ cached0' = Caches(cached0, a)
      /\ va1' = Append(va1, va_reg)
      /\ IF counter = Words - 1
           THEN state' = "s_idle" /\ UNCHANGED <<counter, va_reg>>
           ELSE counter' = counter + 1 /\ va_reg' = va_reg + 1 /\ UNCHANGED state
      /\ UNCHANGED <<frames, memory, ttbr0>> /\ UNCHANGED backVars
      /\ UNCHANGED <<pending, r_start, unit1, unit2, cached1, cached2, va2>>
  BY DEF s_input
<1>2. Running' BY <1>1 DEF Running, Image
<1>3. RequestOf(InUnits + 1) = Len(pending) /\ PlaceOf(InUnits + 1) = counter
      /\ va_reg = AddressOf(InUnits + 1)
  BY <1>1 DEF Road, AddressOf
<1>4. counter \in 0 .. Words - 1 /\ r_start \in 1 .. 3 BY <1>1 DEF Types, First
<1>5. va_reg \in Shared
  <2>1. Len(pending) \in 1 .. Len(pending)
    <3>1. Shifted + ((InUnits + 1) - 1) \in Nat BY Lengths
    <3>2. Turn(Shifted + ((InUnits + 1) - 1)) \in Nat BY <3>1, Counting
    <3> QED BY <1>3, <3>2, Lengths DEF RequestOf
  <2>2. pending[Len(pending)] \in Requests BY <2>1 DEF Types
  <2> QED BY <1>3, <1>4, <2>2, RequestsAssumption DEF AddressOf
<1>6. a \in Addresses /\ x = Descriptor0(va_reg) /\ Coherent(Caches(cached0, a))
  BY <1>4, <1>5, SharedIsMapped, TablesLead, Read DEF Fresh, Descriptor0
<1>7. x \in Contents BY <1>5, <1>6, SharedIsMapped, InMemory, TablesLead DEF Descriptor0
<1> HIDE DEF a, x
<1>8. /\ unit0' \in Seq(Contents) /\ Appended(unit0, x, unit0')
      /\ va1' \in Seq(Shared) /\ Appended(va1, va_reg, va1')
  BY <1>1, <1>5, <1>7, AppendIs DEF Types
<1>9. Types' BY <1>1, <1>4, <1>8, WordsType DEF Types, backVars
<1>10. First' BY <1>1, <1>4 DEF First
<1>11. Fresh' BY <1>1, <1>4, <1>6 DEF Fresh, Coherent
<1>12. Collected' /\ UNCHANGED <<Complete, Shifted>> BY <1>1, SameCollected
<1>13. \A n : UNCHANGED <<RequestOf(n), PlaceOf(n), AddressOf(n)>>
  BY <1>1, <1>12, SameNumbers DEF AddressOf
<1>14. InUnits' = InUnits + 1 BY <1>1, <1>8, Lengths DEF InUnits, Appended
<1>15. Room' BY <1>1, <1>12 DEF Room
<1>16. Road'
  <2>1. \A n \in 1 .. InUnits + 1 : RequestOf(n)' <= Len(pending)
    BY <1>3, <1>13, Lengths DEF Road
  <2> DEFINE k == Shifted + InUnits
             t == Turn(k)
             u == Turn(k + 1)
             v == Place(k + 1)
  <2>2. k \in Nat /\ Shifted + ((InUnits + 1) - 1) = k /\ Shifted + ((InUnits + 2) - 1) = k + 1
    BY SMTT(60), Lengths
  <2>3. /\ RequestOf(InUnits + 1) = (Complete + 1) + t /\ PlaceOf(InUnits + 1) = Place(k)
        /\ RequestOf(InUnits + 2) = (Complete + 1) + u /\ PlaceOf(InUnits + 2) = v
    BY <2>2 DEF RequestOf, PlaceOf
  <2>4. t \in Nat /\ IF counter = Words - 1 THEN u = t + 1 /\ v = 0
                      ELSE u = t /\ v = counter + 1
    <3>1. Place(k) = counter BY <1>3, <2>3
    <3> QED BY <2>2, <3>1, Counting
  <2> HIDE DEF k, t, u, v
  <2>5. IF counter = Words - 1
          THEN RequestOf(InUnits + 2) = Len(pending) + 1 /\ PlaceOf(InUnits + 2) = 0
          ELSE RequestOf(InUnits + 2) = Len(pending) /\ PlaceOf(InUnits + 2) = counter + 1
    <3>1. CASE counter = Words - 1
      <4>1. t \in Nat /\ u = t + 1 /\ v = 0 BY <3>1, <2>4
      <4>2. (Complete + 1) + (t + 1) = ((Complete + 1) + t) + 1 BY <4>1, Lengths
      <4> QED BY <3>1, <4>1, <4>2, <1>3, <2>3
    <3>2. CASE counter # Words - 1 BY <3>2, <1>3, <2>3, <2>4, Lengths
    <3> QED BY <3>1, <3>2
  <2>6. /\ RequestOf(InUnits + 1)' = RequestOf(InUnits + 2)
        /\ PlaceOf(InUnits + 1)' = PlaceOf(InUnits + 2)
    <3>1. InUnits' + 1 = InUnits + 2 BY SMTT(60), <1>14, Lengths
    <3> QED BY <3>1, <1>12 DEF RequestOf, PlaceOf, Turn, Place
  <2>7. pending[Len(pending)] \in Nat /\ va_reg = pending[Len(pending)] + counter
    <3>1. va_reg = pending[Len(pending)] + counter BY <1>1 DEF Road
    <3>2. Len(pending) \in 1 .. Len(pending)
      <4>1. Turn(k) \in Nat BY <2>2, Counting
      <4> QED BY SMTT(60), <1>3, <2>3, <4>1, Lengths DEF t
    <3>3. pending[Len(pending)] \in Requests BY <3>2 DEF Types
    <3>4. pending[Len(pending)] \in Shared BY <3>3, RequestsAssumption
    <3> QED BY <3>1, <3>4 DEF Shared, VA
  <2>8. va_reg + 1 = pending[Len(pending)] + (counter + 1) BY <1>4, <2>7
  <2>9. \A n \in 1 .. InUnits' : RequestOf(n)' <= Len(pending')
    BY <1>1, <1>13, <1>14, <2>1
  <2>10. CASE counter = Words - 1 BY <1>1, <2>5, <2>6, <2>9, <2>10 DEF Road
  <2>11. CASE counter # Words - 1 BY <1>1, <2>5, <2>6, <2>8, <2>9, <2>11 DEF Road
  <2> QED BY <2>10, <2>11
<1>17. Carried'
  <2>1. /\ Len(unit0') = Len(unit0) + 1 /\ Len(va1') = Len(va1) + 1
        /\ \A n \in 1 .. Len(unit0) : unit0'[n] = unit0[n] /\ va1'[n] = va1[n]
        /\ unit0'[Len(unit0) + 1] = x /\ va1'[Len(unit0) + 1] = va_reg
    BY <1>8 DEF Appended, Carried
  <2>2. InUnits + 1 = (Len(unit2) + Len(unit1)) + (Len(unit0) + 1) BY Lengths DEF InUnits
  <2>3. \A n \in 1 .. Len(unit0') :
          /\ va1'[n] = AddressOf((Len(unit2) + Len(unit1)) + n)
          /\ unit0'[n] = Descriptor0(va1'[n])
    <3> SUFFICES ASSUME NEW n \in 1 .. Len(unit0')
                 PROVE  /\ va1'[n] = AddressOf((Len(unit2) + Len(unit1)) + n)
                        /\ unit0'[n] = Descriptor0(va1'[n])
      OBVIOUS
    <3>1. CASE n = Len(unit0) + 1 BY <3>1, <1>3, <1>6, <2>1, <2>2
    <3>2. CASE n \in 1 .. Len(unit0) BY <3>2, <2>1 DEF Carried
    <3> QED BY <3>1, <3>2, <2>1, Lengths
  <2> QED BY <1>1, <1>13, <2>1, <2>3, SameMemory DEF Carried
<1> QED BY <1>2, <1>9, <1>10, <1>11, <1>12, <1>15, <1>16, <1>17

\* The second unit reads a descriptor of level 1.
LEMMA ReadsLevel1 ==
  ASSUME BridgeInv, read_pt_level1, UNCHANGED <<frames, pending>>
  PROVE  BridgeInv'
<1> USE DEF BridgeInv
<1> DEFINE va == Head(va1)
           a  == table1_desc_addr(va, Head(unit0))
           x  == Lookup(cached1, a)
<1>1. /\ unit0 # <<>> /\ Len(unit1) < Capacity1
      /\ unit1' = Append(unit1, x) /\ cached1' = Caches(cached1, a)
      /\ unit0' = Tail(unit0) /\ va1' = Tail(va1) /\ va2' = Pushed(va2, DelayDepth, va)
      /\ UNCHANGED <<frames, memory, ttbr0>> /\ UNCHANGED backVars
      /\ UNCHANGED <<pending, state, counter, va_reg, r_start, unit2, cached0, cached2>>
  BY DEF read_pt_level1, frontVars
<1>2. Running' BY <1>1 DEF Running, Image
<1>3. va1 # <<>> BY <1>1 DEF Types, Carried
<1>4. /\ unit0' \in Seq(Contents) /\ Popped(unit0, unit0') /\ Head(unit0) = unit0[1]
      /\ va1' \in Seq(Shared) /\ Popped(va1, va1') /\ va = va1[1] /\ va \in Shared
      /\ Len(unit0) >= 1
  BY <1>1, <1>3, TailIs DEF Types
<1>5. 1 \in 1 .. Len(unit0) BY <1>4, Lengths
<1>6. Head(unit0) = Descriptor0(va) /\ va = AddressOf((Len(unit2) + Len(unit1)) + 1)
  BY <1>4, <1>5 DEF Carried
<1>7. r_start \in 1 .. 3
  <2>1. (Len(unit2) + Len(unit1)) + 1 \in 1 .. InUnits BY <1>4, Lengths DEF InUnits
  <2>2. Len(pending) # 0 BY <2>1, OnItsWay, Lengths
  <2> QED BY <2>2 DEF Types, First
<1>8. a \in Addresses /\ x = Descriptor1(va) /\ Coherent(Caches(cached1, a))
  BY <1>4, <1>6, <1>7, SharedIsMapped, TablesLead, Read DEF Fresh, Descriptor1
<1>9. x \in Contents BY <1>4, <1>8, SharedIsMapped, InMemory, TablesLead DEF Descriptor1
<1>10. va2' = Append(va2, va)
  <2>1. Capacity1 \in Nat /\ DelayDepth \in Nat /\ Capacity1 <= DelayDepth
    BY CapacityAssumption
  <2>2. Len(va2) < DelayDepth BY <1>1, <2>1, Lengths DEF Carried
  <2> QED BY <1>1, <2>2 DEF Pushed
<1> HIDE DEF a, x, va
<1>11. /\ unit1' \in Seq(Contents) /\ Appended(unit1, x, unit1')
       /\ va2' \in Seq(Shared) /\ Appended(va2, va, va2')
  BY <1>1, <1>4, <1>9, <1>10, AppendIs DEF Types
<1>12. Types' BY <1>1, <1>4, <1>11 DEF Types, backVars
<1>13. First' BY <1>1 DEF First
<1>14. Fresh' BY <1>1, <1>7, <1>8 DEF Fresh, Coherent
<1>15. Collected' /\ UNCHANGED <<Complete, Shifted>> BY <1>1, SameCollected
<1>16. \A n : UNCHANGED <<RequestOf(n), PlaceOf(n), AddressOf(n)>>
  BY <1>1, <1>15, SameNumbers DEF AddressOf
<1>17. InUnits' = InUnits BY <1>1, <1>4, <1>11, Lengths DEF InUnits, Appended, Popped
<1>18. Room'
  <2>1. Len(unit1') <= Capacity1
    <3>1. Capacity1 \in Nat BY CapacityAssumption
    <3>2. Len(unit1') = Len(unit1) + 1 BY <1>11 DEF Appended
    <3> QED BY <1>1, <3>1, <3>2, Lengths
  <2> QED BY <2>1, <1>15 DEF Room
<1>19. Road' BY <1>1, <1>16, <1>17 DEF Road
<1>20. Carried'
  <2>1. /\ Len(unit1') = Len(unit1) + 1 /\ Len(va2') = Len(va2) + 1
        /\ \A n \in 1 .. Len(unit1) : unit1'[n] = unit1[n] /\ va2'[n] = va2[n]
        /\ unit1'[Len(unit1) + 1] = x /\ va2'[Len(unit1) + 1] = va
    BY <1>11 DEF Appended, Carried
  <2>2. /\ Len(unit0) = Len(unit0') + 1 /\ Len(va1) = Len(va1') + 1
        /\ \A n \in 1 .. Len(unit0') : unit0'[n] = unit0[n + 1] /\ va1'[n] = va1[n + 1]
    BY <1>4 DEF Popped, Carried
  <2>3. ASSUME NEW n \in 1 .. Len(unit1')
        PROVE  va2'[n] = AddressOf(Len(unit2) + n) /\ unit1'[n] = Descriptor1(va2'[n])
    <3>1. CASE n = Len(unit1) + 1
      <4>1. Len(unit2) + n = (Len(unit2) + Len(unit1)) + 1 BY <3>1, Lengths
      <4> QED BY <3>1, <4>1, <1>6, <1>8, <2>1
    <3>2. CASE n \in 1 .. Len(unit1) BY <3>2, <2>1 DEF Carried
    <3> QED BY <3>1, <3>2, <2>1, Lengths
  <2>4. ASSUME NEW n \in 1 .. Len(unit0')
        PROVE  /\ va1'[n] = AddressOf((Len(unit2) + Len(unit1')) + n)
               /\ unit0'[n] = Descriptor0(va1'[n])
    <3>1. Len(unit0') \in Nat BY <1>4
    <3>2. n + 1 \in 1 .. Len(unit0) BY <2>2, <3>1
    <3>3. (Len(unit2) + Len(unit1)) + (n + 1) = (Len(unit2) + Len(unit1')) + n
      BY <2>1, Lengths
    <3>4. /\ va1[n + 1] = AddressOf((Len(unit2) + Len(unit1)) + (n + 1))
          /\ unit0[n + 1] = Descriptor0(va1[n + 1])
      BY <3>2 DEF Carried
    <3> QED BY <2>2, <3>3, <3>4
  <2>5. \A n \in 1 .. Len(unit2) : unit2[n] = Content(AddressOf(n)) BY DEF Carried
  <2>6. Len(va1') = Len(unit0') /\ Len(va2') = Len(unit1')
    <3>1. Len(va1') \in Nat /\ Len(unit0') \in Nat BY <1>4
    <3> QED BY <2>1, <2>2, <3>1 DEF Carried
  <2> QED BY <1>1, <1>16, <2>3, <2>4, <2>5, <2>6, SameMemory DEF Carried
<1> QED BY <1>2, <1>12, <1>13, <1>14, <1>15, <1>18, <1>19, <1>20

\* The third unit reads a word of data.
LEMMA ReadsData ==
  ASSUME BridgeInv, rw, UNCHANGED <<frames, pending>>
  PROVE  BridgeInv'
<1> USE DEF BridgeInv
<1> DEFINE va == Head(va2)
           a  == data_addr(va, Head(unit1))
           x  == Lookup(cached2, a)
<1>1. /\ unit1 # <<>>
      /\ unit2' = Append(unit2, x) /\ cached2' = Caches(cached2, a)
      /\ unit1' = Tail(unit1) /\ va2' = Tail(va2)
      /\ UNCHANGED <<frames, memory, ttbr0>> /\ UNCHANGED backVars
      /\ UNCHANGED <<pending, state, counter, va_reg, r_start, unit0, va1, cached0, cached1>>
  BY DEF rw, frontVars
<1>2. Running' BY <1>1 DEF Running, Image
<1>3. va2 # <<>> BY <1>1 DEF Types, Carried
<1>4. /\ unit1' \in Seq(Contents) /\ Popped(unit1, unit1') /\ Head(unit1) = unit1[1]
      /\ va2' \in Seq(Shared) /\ Popped(va2, va2') /\ va = va2[1] /\ va \in Shared
      /\ Len(unit1) >= 1
  BY <1>1, <1>3, TailIs DEF Types
<1>5. 1 \in 1 .. Len(unit1) BY <1>4, Lengths
<1>6. Head(unit1) = Descriptor1(va) /\ va = AddressOf(Len(unit2) + 1)
  BY <1>4, <1>5 DEF Carried
<1>7. r_start \in 1 .. 3
  <2>1. Len(unit2) + 1 \in 1 .. InUnits BY <1>4, Lengths DEF InUnits
  <2>2. Len(pending) # 0 BY <2>1, OnItsWay, Lengths
  <2> QED BY <2>2 DEF Types, First
<1>8. a \in Addresses /\ x = Content(va) /\ Coherent(Caches(cached2, a))
  BY <1>4, <1>6, <1>7, SharedIsMapped, TablesLead, Read DEF Fresh, Content
<1>9. x \in Contents BY <1>4, <1>8, SharedIsMapped, InMemory, TablesLead DEF Content
<1> HIDE DEF a, x, va
<1>10. unit2' \in Seq(Contents) /\ Appended(unit2, x, unit2')
  BY <1>1, <1>9, AppendIs DEF Types
<1>11. Types' BY <1>1, <1>4, <1>10 DEF Types, backVars
<1>12. First' BY <1>1 DEF First
<1>13. Fresh' BY <1>1, <1>7, <1>8 DEF Fresh, Coherent
<1>14. Collected' /\ UNCHANGED <<Complete, Shifted>> BY <1>1, SameCollected
<1>15. \A n : UNCHANGED <<RequestOf(n), PlaceOf(n), AddressOf(n)>>
  BY <1>1, <1>14, SameNumbers DEF AddressOf
<1>16. InUnits' = InUnits BY <1>1, <1>4, <1>10, Lengths DEF InUnits, Appended, Popped
<1>17. Room'
  <2>1. Len(unit1') <= Capacity1
    <3>1. Capacity1 \in Nat BY CapacityAssumption
    <3>2. Len(unit1) = Len(unit1') + 1 /\ Len(unit1') \in Nat BY <1>4 DEF Popped
    <3> QED BY <3>1, <3>2 DEF Room
  <2> QED BY <2>1, <1>14 DEF Room
<1>18. Road' BY <1>1, <1>15, <1>16 DEF Road
<1>19. Carried'
  <2>1. /\ Len(unit2') = Len(unit2) + 1 /\ unit2'[Len(unit2) + 1] = x
        /\ \A n \in 1 .. Len(unit2) : unit2'[n] = unit2[n]
    BY <1>10 DEF Appended
  <2>2. /\ Len(unit1) = Len(unit1') + 1 /\ Len(va2) = Len(va2') + 1
        /\ \A n \in 1 .. Len(unit1') : unit1'[n] = unit1[n + 1] /\ va2'[n] = va2[n + 1]
    BY <1>4 DEF Popped, Carried
  <2>3. ASSUME NEW n \in 1 .. Len(unit2') PROVE unit2'[n] = Content(AddressOf(n))
    <3>1. CASE n = Len(unit2) + 1 BY <3>1, <1>6, <1>8, <2>1
    <3>2. CASE n \in 1 .. Len(unit2) BY <3>2, <2>1 DEF Carried
    <3> QED BY <3>1, <3>2, <2>1, Lengths
  <2>4. Len(unit1') \in Nat /\ Len(va2') \in Nat BY <1>4
  <2>5. ASSUME NEW n \in 1 .. Len(unit1')
        PROVE  /\ va2'[n] = AddressOf(Len(unit2') + n)
               /\ unit1'[n] = Descriptor1(va2'[n])
    <3>1. n + 1 \in 1 .. Len(unit1) BY <2>2, <2>4
    <3>2. Len(unit2) + (n + 1) = Len(unit2') + n BY <2>1, Lengths
    <3>3. /\ va2[n + 1] = AddressOf(Len(unit2) + (n + 1))
          /\ unit1[n + 1] = Descriptor1(va2[n + 1])
      BY <3>1 DEF Carried
    <3> QED BY <2>2, <3>2, <3>3
  <2>6. Len(unit2') + Len(unit1') = Len(unit2) + Len(unit1) BY <2>1, <2>2, <2>4, Lengths
  <2>7. \A n \in 1 .. Len(unit0) : /\ va1[n] = AddressOf((Len(unit2') + Len(unit1')) + n)
                                 /\ unit0[n] = Descriptor0(va1[n])
    BY <2>6 DEF Carried
  <2>8. Len(va1) = Len(unit0) /\ Len(va2') = Len(unit1')
    BY <2>2, <2>4 DEF Carried
  <2> QED BY <1>1, <1>15, <2>3, <2>5, <2>7, <2>8, SameMemory DEF Carried
<1> QED BY <1>2, <1>11, <1>12, <1>13, <1>14, <1>17, <1>18, <1>19

\* A data register that is full goes into the data FIFO, which has room.
LEMMA Moves ==
  ASSUME BridgeInv,
         readdata' = IF ovalid_int THEN Pushed(readdata, DataDepth, read_data_shreg) ELSE readdata
  PROVE  /\ readdata' \in Seq(Seq(Contents)) /\ Len(readdata') = Complete
         /\ \A r \in 1 .. Len(readdata') : /\ Len(readdata'[r]) = Words
                                         /\ From(readdata'[r], pending[r])
<1> USE DEF BridgeInv
<1>1. CASE ~ ovalid_int
  BY <1>1, Lengths DEF Types, Complete, Collected
<1>2. CASE ovalid_int
  <2>1. Complete = Len(readdata) + 1 BY <1>2 DEF Complete
  <2>2. DataDepth \in Nat BY CapacityAssumption
  <2>3. readdata' = Append(readdata, read_data_shreg)
    BY <1>2, <2>1, <2>2, Lengths DEF Pushed, Room
  <2>4. readdata' \in Seq(Seq(Contents)) /\ Appended(readdata, read_data_shreg, readdata')
    BY <2>3, AppendIs DEF Types
  <2>5. ASSUME NEW r \in 1 .. Len(readdata')
        PROVE  Len(readdata'[r]) = Words /\ From(readdata'[r], pending[r])
    <3>1. CASE r = Len(readdata) + 1
      BY <1>2, <2>4, <3>1 DEF Appended, Collected, Types
    <3>2. CASE r \in 1 .. Len(readdata) BY <2>4, <3>2 DEF Appended, Collected
    <3> QED BY <2>4, <3>1, <3>2, Lengths DEF Appended
  <2> QED BY <2>1, <2>4, <2>5 DEF Appended
<1> QED BY <1>1, <1>2

LEMMA MovesOnly ==
  ASSUME BridgeInv, NoWord, UNCHANGED <<frames, pending>>
  PROVE  BridgeInv'
<1> USE DEF BridgeInv
<1>1. /\ ovalid_int /\ ovalid_int' = FALSE
      /\ readdata' = IF ovalid_int THEN Pushed(readdata, DataDepth, read_data_shreg) ELSE readdata
      /\ UNCHANGED <<frames, memory, ttbr0>> /\ UNCHANGED <<unit0, unit1, unit2, va1, va2>>
      /\ UNCHANGED <<pending, state, counter, va_reg, r_start>>
      /\ UNCHANGED <<cached0, cached1, cached2, read_data_shreg>>
  BY DEF NoWord, wrreq_readdata, frontVars
<1>2. /\ readdata' \in Seq(Seq(Contents)) /\ Len(readdata') = Complete
      /\ \A r \in 1 .. Len(readdata') : /\ Len(readdata'[r]) = Words
                                      /\ From(readdata'[r], pending[r])
  BY <1>1, Moves
<1>3. Running' BY <1>1 DEF Running, Image
<1>4. Types' BY <1>1, <1>2 DEF Types
<1>5. First' /\ Fresh' BY <1>1, SameFresh DEF First
<1>6. UNCHANGED <<Complete, Shifted>> /\ Shifted = 0
  BY <1>1, <1>2, Lengths DEF Complete, Shifted, Types
<1>7. \A n : UNCHANGED <<RequestOf(n), PlaceOf(n), AddressOf(n)>>
  BY <1>1, <1>6, SameNumbers DEF AddressOf
<1>8. Road' /\ Room' BY <1>1, <1>6, <1>7 DEF Road, Room, InUnits
<1>9. Carried' BY <1>1, <1>7, SameCarried
<1>10. Collected'
  <2>1. ~ (ovalid_int \/ Shifted > 0)' BY <1>1, <1>6
  <2> QED BY <1>1, <1>2, <2>1, SameMemory DEF Collected
<1> QED BY <1>3, <1>4, <1>5, <1>8, <1>9, <1>10

\* The numbers of the words when the first of them leaves the units.
LEMMA Shifts ==
  ASSUME Types, NEW n \in Nat \ {0},
         IF Shifted = Words - 1 THEN Complete' = Complete + 1 /\ Shifted' = 0
                                ELSE Complete' = Complete /\ Shifted' = Shifted + 1
  PROVE  RequestOf(n)' = RequestOf(n + 1) /\ PlaceOf(n)' = PlaceOf(n + 1)
<1>1. /\ RequestOf(n)' = (Complete' + 1) + Turn(Shifted' + (n - 1))
      /\ PlaceOf(n)' = Place(Shifted' + (n - 1))
      /\ RequestOf(n + 1) = (Complete + 1) + Turn(Shifted + n)
      /\ PlaceOf(n + 1) = Place(Shifted + n)
  <2>1. (n + 1) - 1 = n OBVIOUS
  <2> QED BY <2>1 DEF RequestOf, PlaceOf, Turn, Place
<1>2. CASE Shifted = Words - 1
  <2>1. n - 1 \in Nat /\ Shifted + n = (n - 1) + Words /\ Shifted' + (n - 1) = n - 1
    BY <1>2, WordsType
  <2>2. /\ Turn((n - 1) + Words) = Turn(n - 1) + 1 /\ Place((n - 1) + Words) = Place(n - 1)
        /\ Turn(n - 1) \in Nat
    BY <2>1, Counting
  <2>3. Complete' = Complete + 1 BY <1>2
  <2> QED BY SMTT(60), <1>1, <2>1, <2>2, <2>3, Lengths
<1>3. CASE Shifted # Words - 1
  <2>1. Shifted' + (n - 1) = Shifted + n BY <1>3, Lengths
  <2> QED BY <1>1, <1>3, <2>1
<1> QED BY <1>2, <1>3

\* A word of data shifts into the data register.
LEMMA ShiftsWord ==
  ASSUME BridgeInv, shreg_proc, UNCHANGED <<frames, pending>>
  PROVE  BridgeInv'
<1> USE DEF BridgeInv
<1> DEFINE words == IF Len(read_data_shreg) = Words THEN <<>> ELSE read_data_shreg
           x     == Head(unit2)
<1>1. /\ unit2 # <<>> /\ Len(readdata) < AlmostFull
      /\ read_data_shreg' = Append(words, x) /\ ovalid_int' = (Len(words) = Words - 1)
      /\ readdata' = IF ovalid_int THEN Pushed(readdata, DataDepth, read_data_shreg) ELSE readdata
      /\ unit2' = Tail(unit2)
      /\ UNCHANGED <<frames, memory, ttbr0>> /\ UNCHANGED <<pending, unit0, unit1, va1, va2>>
      /\ UNCHANGED <<state, counter, va_reg, r_start, cached0, cached1, cached2>>
  BY DEF shreg_proc, frontVars
<1>2. /\ readdata' \in Seq(Seq(Contents)) /\ Len(readdata') = Complete
      /\ \A r \in 1 .. Len(readdata') : /\ Len(readdata'[r]) = Words
                                      /\ From(readdata'[r], pending[r])
  BY <1>1, Moves
<1>3. /\ unit2' \in Seq(Contents) /\ Popped(unit2, unit2') /\ x = unit2[1]
      /\ x \in Contents /\ Len(unit2) >= 1
  BY <1>1, TailIs DEF Types
<1>4. words \in Seq(Contents) /\ Len(words) = Shifted /\ Shifted \in 0 .. Words - 1
  BY Lengths, WordsType DEF Types, Shifted
<1>5. Shifted > 0 => words = read_data_shreg /\ Complete = Len(readdata)
  BY Lengths, WordsType DEF Types, Shifted, Complete
<1> HIDE DEF words, x
<1>6. read_data_shreg' \in Seq(Contents) /\ Appended(words, x, read_data_shreg')
  BY <1>1, <1>3, <1>4, AppendIs
<1>7. Len(read_data_shreg') = Shifted + 1 /\ ovalid_int' = (Shifted = Words - 1)
  BY <1>1, <1>4, <1>6 DEF Appended
<1>8. Types'
  <2>1. /\ Len(read_data_shreg') <= Words /\ ovalid_int' \in BOOLEAN
        /\ ovalid_int' => Len(read_data_shreg') = Words
    <3>1. Words \in Nat \ {0} /\ Shifted \in Nat /\ Shifted <= Words - 1 BY <1>4, WordsType
    <3>2. Len(read_data_shreg') <= Words BY <1>7, <3>1
    <3>3. Shifted = Words - 1 => Shifted + 1 = Words BY <3>1
    <3> QED BY <1>7, <3>2, <3>3
  <2> QED BY <1>1, <1>2, <1>3, <1>6, <2>1 DEF Types
<1>9. Running' BY <1>1 DEF Running, Image
<1>10. First' /\ Fresh' BY <1>1, SameFresh DEF First
<1>11. IF Shifted = Words - 1 THEN Complete' = Complete + 1 /\ Shifted' = 0
                              ELSE Complete' = Complete /\ Shifted' = Shifted + 1
  <2>1. CASE Shifted = Words - 1
    <3>1. ovalid_int' BY <1>7, <2>1, Zenon
    <3>2. Len(read_data_shreg') = Words BY <1>7, <2>1, WordsType
    <3> QED BY <3>2, <1>2, <2>1, <3>1 DEF Complete, Shifted
  <2>2. CASE Shifted # Words - 1
    <3>1. ~ ovalid_int' BY <1>7, <2>2, Zenon
    <3>2. Len(read_data_shreg') # Words BY <1>4, <1>7, <2>2, WordsType
    <3>3. Complete + 0 = Complete BY Lengths
    <3> QED BY <1>2, <1>7, <2>2, <3>1, <3>2, <3>3 DEF Complete, Shifted
  <2> QED BY <2>1, <2>2
<1>12. \A n \in Nat \ {0} : RequestOf(n)' = RequestOf(n + 1) /\ PlaceOf(n)' = PlaceOf(n + 1)
  BY <1>11, Shifts
<1>13. \A n \in Nat \ {0} : AddressOf(n)' = AddressOf(n + 1)
  BY <1>1, <1>12 DEF AddressOf
<1>14. /\ Len(unit2) = Len(unit2') + 1 /\ Len(unit2') \in Nat
       /\ InUnits' = InUnits - 1 /\ InUnits \in Nat \ {0}
  <2>1. Len(unit2) = Len(unit2') + 1 /\ Len(unit2') \in Nat BY <1>3 DEF Popped
  <2>2. InUnits' = (Len(unit2') + Len(unit1)) + Len(unit0) BY <1>1 DEF InUnits
  <2> QED BY SMTT(60), <2>1, <2>2, Lengths DEF InUnits
<1>15. Road'
  <2>1. ASSUME NEW n \in 1 .. InUnits' PROVE RequestOf(n)' <= Len(pending')
    <3>1. n + 1 \in 1 .. InUnits /\ n \in Nat \ {0} BY <1>14
    <3>2. RequestOf(n + 1) <= Len(pending) BY <3>1 DEF Road
    <3> QED BY <1>1, <1>12, <3>1, <3>2
  <2>2. /\ RequestOf(InUnits + 1)' = RequestOf(InUnits + 1)
        /\ PlaceOf(InUnits + 1)' = PlaceOf(InUnits + 1)
    <3>1. InUnits \in Nat \ {0} /\ InUnits' + 1 = InUnits BY <1>14
    <3>2. \A k \in Nat \ {0} : k = InUnits' + 1 =>
            RequestOf(k)' = RequestOf(InUnits + 1) /\ PlaceOf(k)' = PlaceOf(InUnits + 1)
      BY <1>12, <3>1
    <3> QED BY <3>1, <3>2
  <2> QED BY <1>1, <2>1, <2>2 DEF Road
<1>16. Room'
  <2>1. {AlmostFull, DataDepth} \subseteq Nat /\ AlmostFull < DataDepth
    BY CapacityAssumption
  <2>2. Complete <= AlmostFull BY <1>1, <2>1, Lengths DEF Complete
  <2>3. Complete' <= DataDepth BY <1>11, <2>1, <2>2, Lengths
  <2> QED BY <1>1, <2>3 DEF Room
<1>17. Carried'
  <2>1. ASSUME NEW n \in 1 .. Len(unit2') PROVE unit2'[n] = Content(AddressOf(n)')
    <3>1. n + 1 \in 1 .. Len(unit2) /\ n \in Nat \ {0} BY <1>14
    <3>2. unit2[n + 1] = Content(AddressOf(n + 1)) BY <3>1 DEF Carried
    <3> QED BY <1>3, <1>13, <3>1, <3>2 DEF Popped
  <2>2. ASSUME NEW n \in 1 .. Len(unit1)
        PROVE  /\ \A k : k = Len(unit2') + n => va2[n] = AddressOf(k)'
               /\ unit1[n] = Descriptor1(va2[n])
    <3>1. Len(unit2') + n \in Nat \ {0} /\ (Len(unit2') + n) + 1 = Len(unit2) + n
      BY <1>14
    <3>2. va2[n] = AddressOf(Len(unit2) + n) /\ unit1[n] = Descriptor1(va2[n]) BY DEF Carried
    <3> QED BY <1>13, <3>1, <3>2
  <2>3. ASSUME NEW n \in 1 .. Len(unit0)
        PROVE  /\ \A k : k = (Len(unit2') + Len(unit1)) + n => va1[n] = AddressOf(k)'
               /\ unit0[n] = Descriptor0(va1[n])
    <3>1. /\ (Len(unit2') + Len(unit1)) + n \in Nat \ {0}
          /\ ((Len(unit2') + Len(unit1)) + n) + 1 = (Len(unit2) + Len(unit1)) + n
      BY <1>14, Lengths
    <3>2. va1[n] = AddressOf((Len(unit2) + Len(unit1)) + n) /\ unit0[n] = Descriptor0(va1[n])
      BY DEF Carried
    <3> QED BY <1>13, <3>1, <3>2
  <2> QED BY <1>1, <2>1, <2>2, <2>3, SameMemory DEF Carried
<1>18. Collected'
  <2>1. ASSUME (ovalid_int \/ Shifted > 0)'
        PROVE  From(read_data_shreg', pending[Len(readdata') + 1])
    <3> SUFFICES ASSUME NEW i \in 1 .. Len(read_data_shreg')
                 PROVE  read_data_shreg'[i] = Content(pending[Complete + 1] + (i - 1))
      BY <1>2 DEF From
    <3>1. CASE i = Shifted + 1
      <4>1. 1 \in 1 .. Len(unit2) BY <1>3, Lengths
      <4>2. x = Content(AddressOf(1)) BY <1>3, <4>1 DEF Carried
      <4>3. AddressOf(1) = pending[Complete + 1] + Shifted
        <5>1. Shifted \in Nat /\ Shifted < Words /\ Shifted + (1 - 1) = Shifted
          BY <1>4, WordsType
        <5>2. Turn(Shifted) = 0 /\ Place(Shifted) = Shifted BY <5>1, Counting
        <5>3. RequestOf(1) = Complete + 1 /\ PlaceOf(1) = Shifted
          BY <5>1, <5>2, Lengths DEF RequestOf, PlaceOf
        <5> QED BY <5>3 DEF AddressOf
      <4>4. i - 1 = Shifted BY <1>4, <3>1
      <4> QED BY <1>4, <1>6, <3>1, <4>2, <4>3, <4>4 DEF Appended
    <3>2. CASE i \in 1 .. Shifted
      <4>1. Shifted > 0 BY <1>4, <3>2
      <4>2. read_data_shreg[i] = Content(pending[Complete + 1] + (i - 1))
        BY <1>4, <1>5, <3>2, <4>1 DEF Collected, From
      <4> QED BY <1>4, <1>5, <1>6, <3>2, <4>1, <4>2 DEF Appended
    <3> QED BY <1>4, <1>7, <3>1, <3>2
  <2> QED BY <1>1, <1>2, <2>1, SameMemory DEF Collected
<1> QED BY <1>8, <1>9, <1>10, <1>15, <1>16, <1>17, <1>18

\* The kernel takes the answer to its first request.
LEMMA Replies ==
  ASSUME BridgeInv, Reply
  PROVE  /\ BridgeInv' /\ pending # <<>> /\ Head(pending) \in Requests
         /\ Head(readdata) = [i \in 1 .. Words |-> Content(Head(pending) + (i - 1))]
<1> USE DEF BridgeInv
<1>1. /\ readdata # <<>> /\ readdata' = Tail(readdata) /\ pending' = Tail(pending)
      /\ UNCHANGED <<frames, memory, ttbr0>> /\ UNCHANGED <<unit0, unit1, unit2, va1, va2>>
      /\ UNCHANGED <<state, counter, va_reg, r_start>>
      /\ UNCHANGED <<cached0, cached1, cached2, read_data_shreg, ovalid_int>>
  BY DEF Reply, rdreq_readdata, frontVars, restVars
<1>2. /\ readdata' \in Seq(Seq(Contents)) /\ Popped(readdata, readdata')
      /\ Head(readdata) = readdata[1] /\ Head(readdata) \in Seq(Contents) /\ Len(readdata) >= 1
  BY <1>1, TailIs DEF Types
<1>3. Complete >= 1 /\ Len(pending) >= 1
  <2>1. Complete >= 1 BY <1>2, Lengths DEF Complete
  <2> QED BY <2>1, Awaited, Lengths
<1>4. pending # <<>> BY <1>3 DEF Types
<1>5. /\ pending' \in Seq(Requests) /\ Popped(pending, pending')
      /\ Head(pending) = pending[1] /\ Head(pending) \in Requests
  BY <1>1, <1>4, TailIs DEF Types
<1>6. Head(readdata) = [i \in 1 .. Words |-> Content(Head(pending) + (i - 1))]
  <2>1. 1 \in 1 .. Len(readdata) BY <1>2, Lengths
  <2>2. /\ Len(Head(readdata)) = Words
        /\ \A i \in 1 .. Words : Head(readdata)[i] = Content(Head(pending) + (i - 1))
    BY <1>2, <1>5, <2>1 DEF Collected, From
  <2>3. Head(readdata) = [i \in 1 .. Words |-> Head(readdata)[i]]
    BY <1>2, <2>2
  <2> QED BY <2>2, <2>3
<1>7. /\ Len(pending) = Len(pending') + 1 /\ Len(pending') \in Nat
      /\ Len(readdata) = Len(readdata') + 1 /\ Len(readdata') \in Nat
      /\ \A r \in 1 .. Len(pending') : pending'[r] = pending[r + 1]
      /\ \A r \in 1 .. Len(readdata') : readdata'[r] = readdata[r + 1]
  BY <1>2, <1>5 DEF Popped
<1>8. Complete' = Complete - 1 /\ Complete' \in Nat /\ Shifted' = Shifted
  <2>1. CASE ovalid_int BY <1>1, <1>7, <2>1 DEF Complete, Shifted
  <2>2. CASE ~ ovalid_int BY <1>1, <1>7, <2>2 DEF Complete, Shifted
  <2> QED BY <2>1, <2>2
<1>9. ASSUME NEW n \in Nat \ {0}
      PROVE  /\ RequestOf(n) = RequestOf(n)' + 1 /\ RequestOf(n)' >= 1 /\ RequestOf(n)' \in Nat
             /\ PlaceOf(n)' = PlaceOf(n)
  <2> DEFINE t == Turn(Shifted + (n - 1))
  <2>1. t \in Nat
    <3>1. Shifted + (n - 1) \in Nat BY Lengths
    <3> QED BY <3>1, Counting
  <2>2. RequestOf(n)' = (Complete' + 1) + t /\ PlaceOf(n)' = PlaceOf(n)
    BY <1>8 DEF RequestOf, PlaceOf, Turn, Place
  <2>3. RequestOf(n) = (Complete + 1) + t BY DEF RequestOf
  <2> HIDE DEF t
  <2>4. RequestOf(n)' = Complete + t
    <3>1. Complete' + 1 = Complete BY SMTT(60), <1>8, Lengths
    <3> QED BY <2>2, <3>1
  <2>5. Complete \in Nat /\ Complete >= 1 BY <1>3, Lengths
  <2> QED BY <2>1, <2>2, <2>3, <2>4, <2>5
<1>10. Running' BY <1>1 DEF Running, Image
<1>11. Types' BY <1>1, <1>2, <1>5 DEF Types
<1>12. First' BY <1>1, <1>4 DEF First
<1>13. Fresh' BY <1>1, SameFresh
<1>14. InUnits' = InUnits BY <1>1 DEF InUnits
<1>15. Road'
  <2>1. ASSUME NEW n \in 1 .. InUnits PROVE RequestOf(n)' <= Len(pending')
    <3>1. n \in Nat \ {0} BY Lengths
    <3>2. RequestOf(n) <= Len(pending) BY DEF Road
    <3> QED BY <1>7, <1>9, <3>1, <3>2
  <2>2. InUnits + 1 \in Nat \ {0} BY Lengths
  <2>3. /\ RequestOf(InUnits + 1) = RequestOf(InUnits + 1)' + 1
        /\ RequestOf(InUnits + 1)' >= 1 /\ RequestOf(InUnits + 1)' \in Nat
        /\ PlaceOf(InUnits + 1)' = PlaceOf(InUnits + 1)
    BY <1>9, <1>14, <2>2
  <2>4. CASE state = "s_input"
    <3>1. /\ RequestOf(InUnits + 1) = Len(pending) /\ PlaceOf(InUnits + 1) = counter
          /\ va_reg = pending[Len(pending)] + counter
      BY <2>4 DEF Road
    <3>2. RequestOf(InUnits + 1)' = Len(pending') /\ Len(pending') >= 1
      BY <1>7, <2>3, <3>1
    <3>3. pending'[Len(pending')] = pending[Len(pending)] BY <1>7, <3>2
    <3> QED BY <1>1, <1>14, <2>1, <2>3, <2>4, <3>1, <3>2, <3>3 DEF Road
  <2>5. CASE state # "s_input"
    <3>1. RequestOf(InUnits + 1) = Len(pending) + 1 /\ PlaceOf(InUnits + 1) = 0
      BY <2>5 DEF Road
    <3>2. RequestOf(InUnits + 1)' = Len(pending') + 1 BY <1>7, <2>3, <3>1
    <3> QED BY <1>1, <1>14, <2>1, <2>3, <2>5, <3>1, <3>2 DEF Road
  <2> QED BY <2>4, <2>5
<1>16. Room'
  <2>1. DataDepth \in Nat BY CapacityAssumption
  <2>2. Complete \in Nat /\ Complete <= DataDepth BY Lengths DEF Room
  <2>3. Complete' <= DataDepth BY <1>8, <2>1, <2>2
  <2> QED BY <1>1, <2>3 DEF Room
<1>17. Carried'
  <2>1. ASSUME NEW n \in 1 .. InUnits PROVE AddressOf(n)' = AddressOf(n)
    <3>1. n \in Nat \ {0} BY Lengths
    <3>2. RequestOf(n) <= Len(pending) BY DEF Road
    <3>3. RequestOf(n)' \in 1 .. Len(pending') /\ RequestOf(n) = RequestOf(n)' + 1
      BY <1>7, <1>9, <3>1, <3>2
    <3>4. pending'[RequestOf(n)'] = pending[RequestOf(n)] BY <1>7, <3>3
    <3> QED BY <1>9, <3>1, <3>4 DEF AddressOf
  <2> QED BY <1>1, <2>1, SameCarried
<1>18. Collected'
  <2>1. ASSUME NEW r \in 1 .. Len(readdata')
        PROVE  Len(readdata'[r]) = Words /\ From(readdata'[r], pending'[r])
    <3>1. r + 1 \in 1 .. Len(readdata) /\ r \in 1 .. Len(pending')
      BY SMTT(60), <1>7, Awaited, Lengths DEF Complete
    <3>2. Len(readdata[r + 1]) = Words /\ From(readdata[r + 1], pending[r + 1])
      BY <3>1 DEF Collected
    <3> QED BY <1>7, <3>1, <3>2
  <2>2. ASSUME (ovalid_int \/ Shifted > 0)'
        PROVE  From(read_data_shreg, pending'[Len(readdata') + 1])
    <3>1. ovalid_int \/ Shifted > 0 BY <1>1, <1>8, <2>2
    <3>2. From(read_data_shreg, pending[Len(readdata) + 1]) BY <3>1 DEF Collected
    <3>3. Len(readdata') + 1 \in 1 .. Len(pending') /\ Len(readdata) = Len(readdata') + 1
      BY <1>7, <3>1, Awaited
    <3> QED BY <1>7, <3>2, <3>3
  <2>3. \A words, va : From(words, va)' = From(words, va) BY <1>1, SameMemory
  <2>4. \A r \in 1 .. Len(readdata') : (Len(readdata[r]) = Words /\ From(readdata[r], pending[r]))'
    BY <2>1, <2>3
  <2>5. (ovalid_int \/ Shifted > 0)' => From(read_data_shreg, pending[Len(readdata) + 1])'
    BY <1>1, <2>2, <2>3
  <2> QED BY <2>4, <2>5 DEF Collected
<1> QED BY <1>4, <1>5, <1>6, <1>10, <1>11, <1>12, <1>13, <1>15, <1>16, <1>17, <1>18

-----------------------------------------------------------------------------
\* The bridge when nothing is on its way and it was reset.
Empty ==
  /\ state = "s_idle" /\ r_start = 0 /\ pending = <<>>
  /\ unit0 = <<>> /\ unit1 = <<>> /\ unit2 = <<>> /\ va1 = <<>> /\ va2 = <<>>
  /\ read_data_shreg = <<>> /\ ovalid_int = FALSE /\ readdata = <<>>

LEMMA EmptyIs == Running /\ Empty => BridgeInv
<1> SUFFICES ASSUME Running, Empty PROVE BridgeInv OBVIOUS
<1>1. /\ Len(pending) = 0 /\ Len(unit0) = 0 /\ Len(unit1) = 0 /\ Len(unit2) = 0
      /\ Len(va1) = 0 /\ Len(va2) = 0 /\ Len(read_data_shreg) = 0 /\ Len(readdata) = 0
  BY DEF Empty
<1>2. Types
  <2>1. Len(read_data_shreg) <= Words /\ 0 \in 0 .. 3 BY <1>1, WordsType
  <2>2. \A S : <<>> \in Seq(S) OBVIOUS
  <2> QED BY <2>1, <2>2 DEF Empty, Types
<1>3. Complete = 0 /\ Shifted = 0 /\ InUnits = 0
  BY <1>1, WordsType DEF Empty, Complete, Shifted, InUnits
<1>4. First /\ Fresh BY DEF Empty, First, Fresh
<1>5. Road
  <2>1. Turn(0) = 0 /\ Place(0) = 0 BY WordsType, Counting
  <2>2. 0 + (1 - 1) = 0 /\ 0 + 1 = 1 OBVIOUS
  <2>3. RequestOf(1) = 1 /\ PlaceOf(1) = 0 BY <1>3, <2>1, <2>2 DEF RequestOf, PlaceOf
  <2> QED BY <1>1, <1>3, <2>2, <2>3 DEF Empty, Road
<1>6. Room BY <1>1, <1>3, CapacityAssumption DEF Room
<1>7. Carried /\ Collected BY <1>1, <1>3 DEF Empty, Carried, Collected
<1> QED BY <1>2, <1>4, <1>5, <1>6, <1>7 DEF BridgeInv

LEMMA EmptyIsNext == (Running /\ Empty)' => BridgeInv'
  BY EmptyIs, PTL

\* A program ends when nothing is on its way.
LEMMA Restarts ==
  ASSUME BridgeInv, Restart
  PROVE  BridgeInv'
<1> USE DEF BridgeInv
<1>1. /\ pending = <<>> /\ pending' = <<>> /\ Reset /\ \E layout \in Layouts : Started(layout)
  BY DEF Restart
<1>2. Running' BY <1>1 DEF Running, Started, Image
<1>3. InUnits = 0
  <2> SUFFICES ASSUME InUnits # 0 PROVE FALSE OBVIOUS
  <2>1. 1 \in 1 .. InUnits BY Lengths
  <2>2. RequestOf(1) \in Complete + 1 .. Len(pending) BY <2>1, OnItsWay
  <2> QED BY <1>1, <2>2, Lengths
<1>4. va1 = <<>> /\ va2 = <<>>
  <2>1. Len(unit0) = 0 /\ Len(unit1) = 0 BY <1>3, Lengths DEF InUnits
  <2> QED BY <2>1 DEF Carried, Types
<1>5. Empty' BY <1>1, <1>4 DEF Empty, Reset
<1> QED BY <1>2, <1>5, EmptyIsNext

\* What the host's program does to look at its pages leaves the bridge alone.
LEMMA HostKeepsBridge ==
  ASSUME BridgeInv, UNCHANGED <<bridgeVars, frames, pending>>
  PROVE  BridgeInv'
<1>1. First' /\ Fresh' BY SameFresh DEF BridgeInv, First, bridgeVars
<1>2. r_start' \in 0 .. 3 BY DEF BridgeInv, Types, bridgeVars
<1> QED BY <1>1, <1>2, Rests DEF bridgeVars, backVars

LEMMA BridgeSteps ==
  ASSUME BridgeInv, Bridge
  PROVE  BridgeInv'
<1>1. UNCHANGED <<frames, pending>> BY DEF Bridge, restVars
<1> QED BY <1>1, TakesWord, ReadsLevel1, ReadsData, ShiftsWord, MovesOnly, Offers DEF Bridge

LEMMA NextKeepsBridge ==
  ASSUME BridgeInv, [Next]_vars
  PROVE  BridgeInv'
<1>1. CASE Inspect BY <1>1, HostKeepsBridge DEF Inspect
<1>2. CASE Launch BY <1>2, HostKeepsBridge DEF Launch
<1>3. CASE \E va \in Requests : Ask(va) BY <1>3, Asks
<1>4. CASE Bridge BY <1>4, BridgeSteps
<1>5. CASE Reply BY <1>5, Replies
<1>6. CASE Restart BY <1>6, Restarts
<1>7. CASE UNCHANGED vars BY <1>7, HostKeepsBridge DEF vars
<1> QED BY <1>1, <1>2, <1>3, <1>4, <1>5, <1>6, <1>7 DEF Next

\* Whatever the units hold and cached before, the words on their way through the
\* bridge are those of the requests, in order, each beside its own address.
THEOREM BridgeInvariant == Spec => []BridgeInv
<1>1. Init => BridgeInv
  <2>1. Init => Running /\ Empty BY DEF Init, BridgeInit, Running, Empty
  <2> QED BY <2>1, EmptyIs
<1> QED BY <1>1, NextKeepsBridge, PTL DEF Spec

-----------------------------------------------------------------------------
(***************************************************************************)
(* The bridge implements LoadPort.                                         *)
(***************************************************************************)

\* What the host's program has at its addresses.
Text   == [va \in Shared |-> memory[frames[va \div PageWords] + (va % PageWords)]]
Stored == UNION {{Data[l][a] : a \in Addresses} : l \in Layouts}

LEMMA TextType == Running => Text \in [Shared -> Stored]
<1> SUFFICES ASSUME Running, NEW va \in Shared
             PROVE  memory[frames[va \div PageWords] + (va % PageWords)] \in Stored
  BY DEF Text
<1>1. Address(va) \in Addresses \ DOMAIN Translation[frames] BY SharedIsMapped, TablesLead
<1>2. memory[Address(va)] = Data[frames][Address(va)] BY <1>1 DEF Running, Image
<1> QED BY <1>1, <1>2 DEF Address, Stored, Running

LEMMA TextTypeNext == (Running => Text \in [Shared -> Stored])'
  BY TextType, PTL

\* Every step of the program, the bridge and the kernel is one of the promise or none.
LEMMA StepsKeepPromise ==
  ASSUME BridgeInv, [Next]_vars
  PROVE  [Promise!Next]_(Promise!vars)
<1> DEFINE Same == UNCHANGED <<Text, pending, answer>>
<1>1. Same => UNCHANGED Promise!vars BY DEF Promise!vars, Text
<1>2. ASSUME UNCHANGED <<memory, frames>> PROVE UNCHANGED Text BY <1>2 DEF Text
<1> HIDE DEF Same
<1>3. CASE Inspect
  BY <1>1, <1>2, <1>3 DEF Inspect, bridgeVars, Same
<1>4. CASE Launch BY <1>1, <1>2, <1>4 DEF Launch, bridgeVars, Same
<1>5. CASE \E va \in Requests : Ask(va)
  <2>1. UNCHANGED <<Text, answer>> /\ \E va \in Requests : pending' = Append(pending, va)
    BY <1>2, <1>5 DEF Ask, s_idle, restVars
  <2> QED BY <2>1 DEF Promise!Next, Promise!Ask, Text
<1>6. CASE Bridge
  <2>1. UNCHANGED <<memory, frames, pending, answer>>
    BY <1>6 DEF Bridge, s_input, read_pt_level1, rw, shreg_proc, NoWord, Offered, restVars
  <2> QED BY <1>1, <1>2, <2>1 DEF Same
<1>7. CASE Reply
  <2>1. /\ pending # <<>> /\ Head(pending) \in Requests
        /\ Head(readdata) = [i \in 1 .. Words |-> Content(Head(pending) + (i - 1))]
    BY <1>7, Replies
  <2>2. answer' = Head(readdata) /\ pending' = Tail(pending) /\ UNCHANGED Text
    BY <1>2, <1>7 DEF Reply, rdreq_readdata, restVars
  <2>3. \A i \in 1 .. Words : Content(Head(pending) + (i - 1)) = Text[Head(pending) + (i - 1)]
    <3> SUFFICES ASSUME NEW i \in 1 .. Words PROVE Head(pending) + (i - 1) \in Shared
      BY DEF Text, Content, Address
    <3>1. i - 1 \in 0 .. Words - 1 BY WordsType
    <3> QED BY <2>1, <3>1, RequestsAssumption
  <2>4. answer' = [i \in 1 .. Words |-> Text[Head(pending) + (i - 1)]]
    BY <2>1, <2>2, <2>3
  <2> QED BY <2>1, <2>2, <2>4 DEF Promise!Next, Promise!Reply, Text
<1>8. CASE Restart
  <2>1. pending = <<>> /\ pending' = pending /\ answer' = None BY <1>8 DEF Restart
  <2>2. Text' \in [Shared -> Stored] BY ImageStays, TextTypeNext DEF BridgeInv
  <2> QED BY <2>1, <2>2 DEF Promise!Next, Promise!Change, Text, Stored
<1>9. CASE UNCHANGED vars BY <1>1, <1>2, <1>9 DEF vars, bridgeVars, Same
<1> QED BY <1>3, <1>4, <1>5, <1>6, <1>7, <1>8, <1>9 DEF Next

\* The safety part of ImplementsLoads: the bridge gives the kernel the words that the
\* program has at the addresses of each request, request by request, also across the
\* end of a page, and nothing of a program that ran before.
THEOREM LoadsAreKept == Spec => Promise!Init /\ [][Promise!Next]_(Promise!vars)
<1>1. Init => Promise!Init
  <2> SUFFICES ASSUME Init PROVE Promise!Init OBVIOUS
  <2>1. Text \in [Shared -> Stored] BY TextType DEF Init, Running
  <2> QED BY <2>1 DEF Init, Promise!Init, Text, Stored
<1> QED BY <1>1, BridgeInvariant, StepsKeepPromise, PTL DEF Spec
=============================================================================
