-------------------------------- MODULE Page --------------------------------
(***************************************************************************)
(* mm/page.h: page arithmetic and the flags of struct page.                *)
(*                                                                         *)
(* A physical address is a natural number; PAGE_SIZE is a parameter, since *)
(* nothing here depends on it being 4096.  The bit mask struct page.flags  *)
(* is the set of the flags whose bit is set.                               *)
(***************************************************************************)
EXTENDS Integers

CONSTANTS
  PAGE_SIZE,   \* bytes in a page
  NULL         \* the null pointer, outside every set of page frame numbers

ASSUME PageSizeAssumption == PAGE_SIZE \in Nat \ {0}
ASSUME NullAssumption == NULL \notin Int

PageFlags == {"FREE", "RESERVED", "USED"}

PAGE_ALIGN_DOWN(addr) == (addr \div PAGE_SIZE) * PAGE_SIZE
PAGE_ALIGN_UP(addr)   == ((addr + PAGE_SIZE - 1) \div PAGE_SIZE) * PAGE_SIZE

PHYS_PFN(addr) == addr \div PAGE_SIZE
PFN_PHYS(pfn)  == pfn * PAGE_SIZE
=============================================================================
