------------------------------ MODULE MCPaging ------------------------------
(***************************************************************************)
(* A machine for model checking Paging.  Pages have 2 bytes, a table has 3 *)
(* entries and the active mode has 3 levels, so there are 27 virtual       *)
(* pages:                                                                  *)
(*   0 ..  8   nothing mapped                                              *)
(*   9 .. 17   the HHDM of frames 0 .. 8, one large page of the boot loader*)
(*             (frame 0 is a device)                                       *)
(*  18 .. 20   the HHDM of frames 9 .. 11: a device and reserved memory,   *)
(*             which the boot loader does not map                          *)
(*  24 .. 25   the kernel image, in frames 6 and 7; the early pool is in   *)
(*             its second page                                             *)
(* Frames 1, 2 and 8 hold the boot loader's tables.                        *)
(***************************************************************************)
EXTENDS PagingProps

MCFrames == 0 .. 11
Byte(n)  == 2 * n

Leaf(f, perm) == [ppn |-> f, bits |-> {"V", "A", "D"} \cup perm]
Link(f)       == [ppn |-> f, bits |-> {"V"}]
Tables3(a, b, c) == [i \in 0 .. 2 |-> CASE i = 0 -> a [] i = 1 -> b [] i = 2 -> c]
Stale         == Tables3(Leaf(0, {"R"}), Link(1), Leaf(0, {"R"}))   \* a page used before

MCBootMem ==
  [f \in MCFrames |->
     CASE f = 1 -> Tables3(ZeroPte, Leaf(0, RWX), Link(2))
       [] f = 2 -> Tables3(ZeroPte, ZeroPte, Link(8))
       [] f = 7 -> ZeroTable
       [] f = 8 -> Tables3(Leaf(6, {"R", "X"}), Leaf(7, {"R"}), ZeroPte)
       [] OTHER -> Stale]

MCMemMap == <<[base |-> Byte(0), length |-> Byte(9)],
              [base |-> Byte(4), length |-> 0],
              [base |-> Byte(11), length |-> 1]>>

MCSegments == <<[start |-> Byte(24), end |-> Byte(24), flags |-> {"R", "W", "G"}],
                [start |-> Byte(24), end |-> Byte(25), flags |-> {"R", "X", "G"}],
                [start |-> Byte(25), end |-> Byte(25) + 1, flags |-> {"R", "W", "G"}]>>

MCSatps == {[mode |-> "BARE", ppn |-> 0], [mode |-> "SV39", ppn |-> 1]}

MCMmioCalls == {[phys |-> Byte(9) + 1, size |-> 2],       \* needs a table
                [phys |-> Byte(0), size |-> 1],           \* in the large page
                [phys |-> Byte(10), size |-> 0]}

RW == {"R", "W"}
MCMapCalls == {
  Region(Byte(0), Byte(10), Byte(2), RW),            \* two new tables, two pages
  Region(Byte(1), Byte(3), Byte(1), {"X"}),          \* may replace the second page
  Region(Byte(19), Byte(10), 1, {"R", "W", "X"}),    \* more permissions on the device
  Region(Byte(24), Byte(6), Byte(1), RW),            \* remap of kernel text
  Region(Byte(10), Byte(1), Byte(1), RW),            \* inside a large page, covered
  Region(Byte(17), Byte(3), Byte(2), RW),            \* inside a large page, conflict
  Region(Byte(0) + 1, Byte(3), Byte(1), RW),         \* not aligned
  Region(Byte(3), Byte(3), 0, RW),                   \* empty
  Region(Byte(26), Byte(3), Byte(1), RW)             \* ends where addresses wrap
}

MCLookups == {Byte(v) : v \in {0, 1, 10, 19, 24, 25}}
MCPool == <<Byte(25)>>

MCPmmFree == {{3, 4, 5}, {3}, {}}     \* enough for every call; too few; none
=============================================================================
