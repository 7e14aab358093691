------------------------------- MODULE MCPmm --------------------------------
(***************************************************************************)
(* Memory maps for model checking.  Pages have 4 bytes and a struct page   *)
(* has 1, so the database of n pages takes n/4 pages, rounded up.          *)
(***************************************************************************)
EXTENDS PmmProps

U(first, last) == [type |-> "USABLE", base |-> 4 * first, length |-> 4 * (last + 1 - first)]
R(first, last) == [type |-> "OTHER",  base |-> 4 * first, length |-> 4 * (last + 1 - first)]

MCMemMaps == {
  NULL,
  \* no usable memory at all
  <<R(0, 3)>>,
  \* usable memory, but no region can hold the database
  <<R(0, 0), U(1, 1), R(2, 3), U(4, 4)>>,
  \* the database fills its region exactly: an empty usable entry remains
  <<R(0, 0), U(1, 2), U(4, 7)>>,
  \* the first region is too small for the database; a hole in the middle
  <<U(1, 1), R(2, 3), U(4, 9)>>,
  \* six free pages that no single block can cover, and an odd last page
  <<R(0, 0), U(1, 10)>>,
  \* eight naturally aligned free pages
  <<R(0, 3), U(4, 15)>>
}
=============================================================================
