----------------------------- MODULE PageTable -----------------------------
(***************************************************************************)
(* The two-level translation tables of the processor, in memory, as the    *)
(* functions of svm_utils.hpp and the bridges read them.  Addresses count  *)
(* words; a descriptor is the address of what it points to, with           *)
(* attributes in the bits that the address leaves free.                    *)
(***************************************************************************)
EXTENDS Integers

CONSTANTS
  Level0,         \* descriptors in the table of level 0
  Level1,         \* descriptors in a table of level 1
  PageWords       \* words in a page

ASSUME SizeAssumption == {Level0, Level1, PageWords} \subseteq Nat \ {0}

\* What the tables have room for.
Pages == 0 .. (Level0 * Level1 - 1)
VA    == 0 .. (Level0 * Level1 * PageWords - 1)

table0_index(va) == va \div (Level1 * PageWords)
table1_index(va) == (va \div PageWords) % Level1
page_index(va)   == va % PageWords

\* A base address without its attributes, and an index.
Entry(base, size, index) == (base \div size) * size + index

table0_desc_addr(va, ttbr0)       == Entry(ttbr0, Level0, table0_index(va))
table1_desc_addr(va, table0_desc) == Entry(table0_desc, Level1, table1_index(va))
data_addr(va, table1_desc)        == Entry(table1_desc, PageWords, page_index(va))

\* The physical address of va.
manual_table_walk(va, ttbr0, memory) ==
  data_addr(va, memory[table1_desc_addr(va, memory[table0_desc_addr(va, ttbr0)])])
=============================================================================
