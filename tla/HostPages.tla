----------------------------- MODULE HostPages -----------------------------
(***************************************************************************)
(* The functions of svm_utils.hpp that look at the pages of the program    *)
(* that calls them: in the files maps and pagemap of the Linux kernel, and *)
(* in the translation tables themselves.  frames has the address of each   *)
(* page that the tables translate; the pages in listed are those of which  *)
(* pagemap has the frame: they are present, and not mmap'ed from a device. *)
(***************************************************************************)
EXTENDS PageTable, Sequences

CONSTANTS
  Maps,           \* what the file maps may hold: lines, each a region or Invalid
  Invalid,
  Mask,           \* the pagemap's flags are above this
  Flags,          \* those of a page that is present
  Unlisted,       \* what pagemap may have for any other page: 0, or where it is swapped
  Garbage         \* what a variable may hold that was not set

VARIABLES
  inspector,      \* what the program does: "idle", "open", "line", "page", "show", "close";
                  \* "exited" when a function has ended it
  maps,           \* the lines of maps that are not read
  files,          \* the files that are open
  region, page,   \* the region of the line, and how many of its pages are read
  pa_first, pa_last,
  shown,          \* the lines printed
  found           \* the physical addresses that were looked up, and where

pageVars == <<inspector, maps, files, region, page, pa_first, pa_last, shown, found>>

NoRegion == [start |-> 0, end |-> 0]

PagesInit ==
  /\ inspector = "idle" /\ maps = <<>> /\ files = {} /\ region = NoRegion /\ page = 0
  /\ pa_first = Garbage /\ pa_last = Garbage /\ shown = {} /\ found = {}

num_pages == region.end - region.start

\* What a variable may hold after a read of pagemap: the present bit of an entry
\* is not looked at, and beyond the end of the file nothing is read.
Pagemap(frames, listed, p) ==
  CASE p \in listed         -> {Flags + frames[p] \div PageWords}
    [] p \in Pages \ listed -> Unlisted
    [] OTHER               -> {Garbage}
Frame(entry) == (entry % Mask) * PageWords

-----------------------------------------------------------------------------
(***************************************************************************)
(* display_memory_layout.                                                  *)
(***************************************************************************)

\* Either of the files may fail to open.
OpenFiles ==
  /\ inspector = "open"
  /\ \/ inspector' = "idle" /\ UNCHANGED <<files, maps>>
     \/ inspector' = "close" /\ files' = files \cup {"maps"} /\ UNCHANGED maps
     \/ inspector' = "line" /\ files' = files \cup {"maps", "pagemap"} /\ maps' \in Maps
  /\ UNCHANGED <<region, page, pa_first, pa_last, shown, found>>

\* A line that is not a region is skipped; so is one to which pagemap cannot
\* be moved.
ReadLine ==
  /\ inspector = "line" /\ maps # <<>>
  /\ maps' = Tail(maps)
  /\ IF Head(maps) = Invalid
       THEN UNCHANGED <<inspector, region, page, pa_first, pa_last>>
       ELSE /\ region' = Head(maps) /\ page' = 0
            /\ inspector' \in IF region'.end > region'.start THEN {"page", "line"} ELSE {"show"}
            /\ pa_first' \in {pa_first, Garbage} /\ pa_last' \in {pa_last, Garbage}
  /\ UNCHANGED <<files, shown, found>>

\* A mutant: a region whose entries cannot be read is shown nevertheless.
ReadPage_error_shown(frames, listed) ==
  /\ inspector = "page"
  /\ \/ inspector' = "show" /\ UNCHANGED <<page, pa_first, pa_last>>
     \/ \E entry \in Pagemap(frames, listed, region.start + page) :
          /\ pa_first' = IF page = 0 THEN entry ELSE pa_first
          /\ pa_last' = IF page = num_pages - 1 THEN entry ELSE pa_last
          /\ page' = page + 1
          /\ inspector' = IF page = num_pages - 1 THEN "show" ELSE "page"
  /\ UNCHANGED <<maps, files, region, shown, found>>

\* One entry of pagemap.  An error ends the region; the end of the file is not
\* taken for an error.
ReadPage(frames, listed) ==
  /\ inspector = "page"
  /\ \/ inspector' = "line" /\ UNCHANGED <<page, pa_first, pa_last>>
     \/ \E entry \in Pagemap(frames, listed, region.start + page) :
          /\ pa_first' = IF page = 0 THEN entry ELSE pa_first
          /\ pa_last' = IF page = num_pages - 1 THEN entry ELSE pa_last
          /\ page' = page + 1
          /\ inspector' = IF page = num_pages - 1 THEN "show" ELSE "page"
  /\ UNCHANGED <<maps, files, region, shown, found>>

Show ==
  /\ inspector = "show"
  /\ shown' = shown \cup {[region |-> region, first |-> Frame(pa_first), last |-> Frame(pa_last)]}
  /\ inspector' = "line"
  /\ UNCHANGED <<maps, files, region, page, pa_first, pa_last, found>>

CloseFiles ==
  /\ inspector = "close" \/ (inspector = "line" /\ maps = <<>>)
  /\ files' = files \ {"maps", "pagemap"}
  /\ inspector' = "idle"
  /\ UNCHANGED <<maps, region, page, pa_first, pa_last, shown, found>>

-----------------------------------------------------------------------------
(***************************************************************************)
(* One address.                                                            *)
(***************************************************************************)

\* Zero if pagemap cannot be opened, moved or read.  The file is closed again.
lookup_physical_address(va, frames, listed) ==
  {0} \cup {Frame(entry) + (va % PageWords) : entry \in Pagemap(frames, listed, va \div PageWords)}

Found(va, from, pa) == [va |-> va, from |-> from, pa |-> pa]

LookUp(va, frames, listed) ==
  /\ inspector = "idle"
  /\ \E pa \in lookup_physical_address(va, frames, listed) :
       found' = found \cup {Found(va, "pagemap", pa)}
  /\ UNCHANGED <<inspector, maps, files, region, page, pa_first, pa_last, shown>>

\* manual_table_walk opens /dev/mem for each of the two tables, and never closes
\* it; where that or the mapping fails the program ends, and with it its files.
\* If it is verbose, it prints what pagemap has, too.
Walk(va, verbose, frames, listed, ttbr0, memory) ==
  /\ inspector = "idle"
  /\ \/ inspector' = "exited" /\ files' = {} /\ UNCHANGED found
     \/ /\ files' = files \cup {"/dev/mem"}
        /\ \E pa \in lookup_physical_address(va, frames, listed) :
             found' = found \cup {Found(va, "tables", manual_table_walk(va, ttbr0, memory))}
                            \cup (IF verbose THEN {Found(va, "pagemap", pa)} ELSE {})
        /\ UNCHANGED inspector
  /\ UNCHANGED <<maps, region, page, pa_first, pa_last, shown>>
=============================================================================
