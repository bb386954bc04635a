--------------------------- MODULE MCSharedMemory ---------------------------
(***************************************************************************)
(* Four pages of two words; the translation tables at 0 .. 5 and six       *)
(* frames above them.  The last page of the first program is mmap'ed, the  *)
(* second has none there.                                                  *)
(***************************************************************************)
EXTENDS SharedMemory

MCAddresses == 0 .. 17
FromZero(s) == [i \in 0 .. Len(s) - 1 |-> s[i + 1]]
LayoutA == FromZero(<<6, 8, 10, 12>>)
LayoutB == FromZero(<<16, 6, 14>>)
MCLayouts == {LayoutA, LayoutB}
MCListed == [l \in MCLayouts |-> 0 .. 2]

\* The swapped page that it has in place of the last one, or nothing.
MCUnlisted == {0, 3}

\* Every descriptor has an attribute bit, but that of no page; the tables of level 1
\* of the second layout have changed places.
TableFor(l, first, second) ==
  LET descriptor(p) == IF p \in DOMAIN l THEN l[p] + 1 ELSE 0
  IN  [a \in 0 .. 5 |->
        CASE a = 0 -> first + 1 [] a = 1 -> second + 1
          [] a \in {first, first + 1} -> descriptor(a - first)
          [] a \in {second, second + 1} -> descriptor(a - second + 2)]
MCTranslation == [l \in MCLayouts |-> IF l = LayoutA THEN TableFor(l, 2, 4) ELSE TableFor(l, 4, 2)]

MCData == [l \in MCLayouts |-> [a \in MCAddresses |-> IF l = LayoutA THEN 100 + a ELSE 200 + a]]

Region(s, e) == [start |-> s, end |-> e]
MCMaps == {<<Region(0, 2), Invalid, Region(2, 2), Region(3, 4)>>, <<Region(1, 4), Region(2, 5)>>}
=============================================================================
