---------------------------- MODULE PagingProps -----------------------------
(***************************************************************************)
(* What makes the page table code of Paging correct.                       *)
(***************************************************************************)
EXTENDS Paging

(***************************************************************************)
(* The page v of range r is translated to its physical page, with at least *)
(* the permissions asked for.                                              *)
(***************************************************************************)
Mapped(r, v) ==
  LET t == Translate(v)
  IN  /\ t # NULL
      /\ t.phys = Wrap(r.phys + (v - r.virt))
      /\ paging_leaf_flags(r.flags) \cap RWX \subseteq t.perm

(***************************************************************************)
(* A table of the early pool has been linked, at an address that is not    *)
(* its own (see InitOkMapsAll).                                            *)
(***************************************************************************)
PoolUsed ==
  \E f \in Frames : \E i \in 0 .. PT_ENTRIES - 1 :
    IsTable(mem[f][i]) /\ mem[f][i].ppn \in PoolLinks

(***************************************************************************)
(* What the loop of paging_map_range has done so far is what it was asked  *)
(* for: the hardware translates every page before the current one as       *)
(* requested, whichever tables existed, were allocated or were shared with *)
(* earlier mappings, as long as no table came from the early pool.         *)
(***************************************************************************)
MappedSoFar ==
  pc = "range" /\ ~PoolUsed =>
    \A v \in Pages : job.virt <= v /\ v < virt => Mapped(job, v)

(***************************************************************************)
(* When paging_init has returned true ("paging: init ok"), every page that *)
(* the memory map touches is translated in the HHDM and every page of a    *)
(* kernel segment has the permissions of PAGING_KERNEL_SEGMENT_LIST, all   *)
(* at the same time: no later region undid an earlier one.  InitOkMapsAll  *)
(* says so of every call, InitMapsAll of those that found a page of the    *)
(* allocator for every table.                                              *)
(***************************************************************************)
InitOkMapsAll ==
  pc = "up" /\ call = "init" =>
    /\ \A i \in DOMAIN MemMap : \A a \in MemMap[i].base .. MemMap[i].base + MemMap[i].length - 1 :
         LET t == Translate(PAGE_ALIGN_DOWN(PHYS_TO_VIRT(a)))
         IN  t # NULL /\ t.phys = PAGE_ALIGN_DOWN(a) /\ {"R", "W"} \subseteq t.perm
    /\ \A i \in DOMAIN Segments : \A a \in Segments[i].start .. Segments[i].end - 1 :
         LET t == Translate(PAGE_ALIGN_DOWN(a))
         IN  /\ t # NULL /\ t.phys = PAGE_ALIGN_DOWN(KernelPhys + (a - KernelVirt))
             /\ Segments[i].flags \cap RWX \subseteq t.perm

InitMapsAll == ~PoolUsed => InitOkMapsAll

(***************************************************************************)
(* A mapping call never changes the translation of a page other than the   *)
(* one it is mapping, at no store, and so not while the tables above it    *)
(* are being built.                                                        *)
(***************************************************************************)
OthersPreserved ==
  [][mem' # mem => \A v \in Pages : v # virt => TranslateIn(satp, mem', v) = Translate(v)]_vars

(***************************************************************************)
(* Large pages of the boot loader (the HHDM) are never split or replaced,  *)
(* not even by a call that asks for a page inside one.                     *)
(***************************************************************************)
IsLarge(t) == t # NULL /\ t.level > 0

LargePagesStay ==
  [][mem' # mem => \A v \in Pages :
       IsLarge(Translate(v)) => TranslateIn(satp, mem', v) = Translate(v)]_vars

(***************************************************************************)
(* The TLB holds no stale translation except between the store of a leaf   *)
(* and the fence that follows it, and then only for that page.             *)
(***************************************************************************)
TlbCoherent ==
  tlb # NULL => Translate(tlb.virt) = tlb.to \/ (pc = "fence" /\ tlb.virt = virt)

(***************************************************************************)
(* The tables stay a tree: no frame is reached as a table from two         *)
(* entries, and no table is among the pages the allocator can hand out,    *)
(* as long as no table came from the early pool (paging_init starts the    *)
(* pool again, and its tables may already be linked).                      *)
(***************************************************************************)
Target(slot) == mem[slot[1]][slot[2]].ppn
Slots(fs)    == {slot \in fs \X (0 .. PT_ENTRIES - 1) : IsTable(mem[slot[1]][slot[2]])}

Reached ==
  LET t[l \in HwLevels(satp)] ==
        IF l + 1 \in HwLevels(satp)
          THEN {Target(slot) : slot \in Slots(t[l + 1])} \cap Frames ELSE {satp.ppn}
  IN  t

TablesFormTree ==
  satp.mode # "BARE" /\ ~PoolUsed =>
    LET t      == Reached
        tables == UNION {t[l] : l \in HwLevels(satp)}
        slots  == UNION {Slots(t[l]) : l \in HwLevels(satp) \ {0}}
    IN  /\ tables \cap avail = {}
        /\ \A slot \in slots : Target(slot) # satp.ppn
        /\ \A x, y \in slots : Target(x) = Target(y) => x = y
=============================================================================
