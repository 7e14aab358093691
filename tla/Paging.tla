------------------------------- MODULE Paging -------------------------------
(***************************************************************************)
(* mm/paging.c: mapping pages in the page tables the boot loader left      *)
(* active, and the boot sequence that does so (paging_early_init, the UART *)
(* mapping of uart_init, paging_init), followed by calls of the public     *)
(* mapping functions.                                                      *)
(*                                                                         *)
(* The page tables are in mem, one function from indices to entries per    *)
(* physical page frame.  The hart's translation hardware reads mem through *)
(* physical addresses at any moment and keeps what it read in its TLB; the *)
(* code reads and writes mem through pointers, that is through virtual     *)
(* addresses.  A call is split where the hardware could look in between:   *)
(* after a new table has been cleared, after it has been linked, after the *)
(* leaf has been written, after the fence.                                 *)
(*                                                                         *)
(*   pc = "start"  paging_early_init has not been called                   *)
(*        "early"  it returned true; uart_init is about to map its port    *)
(*        "uart"   the port is set up; paging_init is about to be called   *)
(*        "up"     paging_init returned true; no call is running           *)
(*        "halt"   kmain is in hlt(), or in a fault that nobody handles    *)
(*        "range"  the loop of paging_map_range or map_kernel_segment      *)
(*        "walk"   the loop of paging_map_one, or its last part (level 0)  *)
(*        "link"   in paging_map_one, paging_alloc_table has returned      *)
(*        "fence"  in paging_map_one, before cpu_sfence_vma                *)
(***************************************************************************)
EXTENDS Page, Sequences

CONSTANTS
  PT_ENTRIES,   \* entries of a table (512)
  AddrSpan,     \* addresses are computed modulo this: the ones the active mode translates
  Frames,       \* the page frames of physical memory
  HhdmOffset,   \* hhdm_request.response->offset
  MemMap,       \* memmap_request.response: records base, length
  KernelPhys, KernelVirt, KernelSize,   \* where the boot loader put the kernel
  Segments,     \* PAGING_KERNEL_SEGMENT_LIST: records start, end, flags
  Pool,         \* the virtual addresses of g_early_pt_pool[0], [1], ...
  Satps,        \* the values satp can have on entry: records mode, ppn
  BootMem,      \* the page frames on entry
  PmmFree,      \* the sets of frames page_alloc(0) can be left with
  MmioCalls,    \* the ports uart_init can find: records phys, size
  MapCalls,     \* calls of paging_map_range: records virt, phys, size, flags
  Lookups       \* the virtual pages that the hart looks up

VARIABLES
  satp,                  \* the CSR
  exec,                  \* executable_address_request.response # NULL
  mem,                   \* [Frames -> tables]
  avail,                 \* the frames the page allocator has left
  g_root_phys, g_levels, g_early_pt_pool_used,
  pc, call,              \* call: the function that runs the ranges
  todo,                  \* the ranges it has still to map
  job,                   \* the range being mapped
  virt, phys,            \* the page being mapped
  table, level,          \* paging_map_one's locals
  new_table,
  ret,                   \* what the last call returned
  tlb                    \* one cached translation, or NULL

pagingVars == <<g_root_phys, g_levels, g_early_pt_pool_used>>
callVars   == <<call, todo, job, virt, phys, table, level, new_table, ret>>
envVars    == <<satp, exec>>
vars       == <<envVars, mem, avail, pagingVars, pc, callVars, tlb>>

RWX == {"R", "W", "X"}

Wrap(a) == a % AddrSpan       \* uintptr_t arithmetic

-----------------------------------------------------------------------------
(***************************************************************************)
(* Entries and addresses.  A page table entry is its physical page number  *)
(* and the set of the flag bits that are set.                              *)
(***************************************************************************)

ZeroPte   == [ppn |-> 0, bits |-> {}]
ZeroTable == [i \in 0 .. PT_ENTRIES - 1 |-> ZeroPte]

paging_satp_levels(s) ==
  CASE s.mode = "SV39" -> 3 [] s.mode = "SV48" -> 4 [] s.mode = "SV57" -> 5 [] OTHER -> 0

paging_leaf_flags(flags) ==
  {"V", "A"} \cup (flags \cap {"R", "X", "G"})
             \cup (IF "W" \in flags THEN {"R", "W", "D"} ELSE {})

paging_pte_to_phys(pte) == PFN_PHYS(pte.ppn)
paging_table_pte(p)     == [ppn |-> PHYS_PFN(p), bits |-> {"V"}]
LeafPte(p, flags)       == [ppn |-> PHYS_PFN(p), bits |-> paging_leaf_flags(flags)]

(***************************************************************************)
(* 1 << (12 + 9 * level): a level's entry spans PT_ENTRIES of the one below*)
(***************************************************************************)
BlockSize[l \in 0 .. 5] == IF l = 0 THEN PAGE_SIZE ELSE PT_ENTRIES * BlockSize[l - 1]

paging_level_block_size(l)  == BlockSize[l]
paging_level_index(v, l)    == (v \div paging_level_block_size(l)) % PT_ENTRIES

paging_entry_covers_any_phys(pte, v, p, flags, l) ==  \* mutation: phys not compared
  /\ "V" \in pte.bits
  /\ paging_leaf_flags(flags) \cap RWX \subseteq pte.bits
  /\ "W" \in flags => "D" \in pte.bits
  /\ "A" \in pte.bits

paging_entry_covers(pte, v, p, flags, l) ==
  /\ "V" \in pte.bits
  /\ paging_pte_to_phys(pte) + (v % paging_level_block_size(l)) = p
  /\ paging_leaf_flags(flags) \cap RWX \subseteq pte.bits
  /\ "W" \in flags => "D" \in pte.bits
  /\ "A" \in pte.bits

PHYS_TO_VIRT(p) == Wrap(p + HhdmOffset)
VIRT_TO_PHYS(v) == Wrap(v - HhdmOffset)

(***************************************************************************)
(* The frame the code reaches through a pointer, given the boot loader's   *)
(* mappings of the kernel image and of all physical memory (the HHDM).     *)
(***************************************************************************)
InImage(v) == KernelVirt <= v /\ v < KernelVirt + KernelSize

FrameAt(v) ==
  PHYS_PFN(IF InImage(v) THEN KernelPhys + (v - KernelVirt) ELSE VIRT_TO_PHYS(v))

Load(t, i)       == mem[FrameAt(t)][i]
Store(t, i, pte) == mem' = [mem EXCEPT ![FrameAt(t)][i] = pte]

-----------------------------------------------------------------------------
(***************************************************************************)
(* The hart: what the hardware's page table walk finds for a virtual page. *)
(* TablesIn(s, m, v)[l] is the frame of the table that a walk of memory m  *)
(* from satp = s reads at level l, or NULL when it does not get there, and *)
(* PteIn(s, m, v, l) is the entry it reads.                                *)
(***************************************************************************)
IsTable(pte) == "V" \in pte.bits /\ pte.bits \cap RWX = {}
IsLeaf(pte)  == "V" \in pte.bits /\ pte.bits \cap RWX # {}

HwLevels(s) == 0 .. paging_satp_levels(s) - 1

Below(m, v, up, l) ==
  LET pte == m[up][paging_level_index(v, l + 1)]
  IN  IF up # NULL /\ IsTable(pte) /\ pte.ppn \in Frames THEN pte.ppn ELSE NULL

TablesIn(s, m, v) ==
  LET t[l \in HwLevels(s)] ==
        IF l + 1 \in HwLevels(s) THEN Below(m, v, t[l + 1], l) ELSE s.ppn
  IN  t

PteIn(s, m, v, l) ==
  LET t == TablesIn(s, m, v)[l]
  IN  IF t = NULL THEN ZeroPte ELSE m[t][paging_level_index(v, l)]

LeavesIn(s, m, v) == {l \in HwLevels(s) : IsLeaf(PteIn(s, m, v, l))}

TranslateIn(s, m, v) ==
  IF LeavesIn(s, m, v) = {} THEN NULL
  ELSE LET l   == CHOOSE l \in LeavesIn(s, m, v) : TRUE
           pte == PteIn(s, m, v, l)
       IN  [phys |-> paging_pte_to_phys(pte) + (v % paging_level_block_size(l)),
            perm |-> pte.bits \cap RWX, level |-> l]

Translate(v) == TranslateIn(satp, mem, v)

\* NULL is not a translation.
ASSUME NullNoTranslation == NULL \notin [phys : Nat, perm : SUBSET RWX, level : 0 .. 4]

-----------------------------------------------------------------------------
(***************************************************************************)
(* What the boot loader, the linker and the callers see to.                *)
(***************************************************************************)
Pages  == {v \in 0 .. AddrSpan - 1 : v % PAGE_SIZE = 0}
Pte    == [ppn : Nat, bits : SUBSET {"V", "R", "W", "X", "U", "G", "A", "D"}]
Flags  == {fl \in SUBSET {"R", "W", "X", "G"} : fl \cap RWX # {}}

(***************************************************************************)
(* The page frames of g_early_pt_pool, and the page numbers under which    *)
(* paging_map_one links them.                                              *)
(***************************************************************************)
PoolFrames == {FrameAt(Pool[k]) : k \in DOMAIN Pool}
PoolLinks  == {PHYS_PFN(VIRT_TO_PHYS(Pool[k])) : k \in DOMAIN Pool}

(***************************************************************************)
(* Two walks of memory m that come to the same table came the same way.    *)
(***************************************************************************)
WalksApart(s, m) ==
  \A v, w \in Pages : \A k, l \in HwLevels(s) :
    TablesIn(s, m, v)[k] # NULL /\ TablesIn(s, m, v)[k] = TablesIn(s, m, w)[l] =>
      k = l /\ \A j \in k + 1 .. paging_satp_levels(s) - 1 :
                  paging_level_index(v, j) = paging_level_index(w, j)

ASSUME PagingAssumption ==
  /\ PT_ENTRIES \in Nat \ {0, 1} /\ AddrSpan \in Nat \ {0}
  /\ Frames \subseteq Nat
  /\ BootMem \in [Frames -> [0 .. PT_ENTRIES - 1 -> Pte]]
  /\ \A fs \in PmmFree : fs \subseteq Frames
  /\ Lookups \subseteq Pages

\* The HHDM holds all physical memory, and the kernel image is not in it.
ASSUME HhdmAssumption ==
  /\ HhdmOffset \in Nat /\ HhdmOffset % PAGE_SIZE = 0 /\ AddrSpan % PAGE_SIZE = 0
  /\ KernelPhys \in Nat /\ KernelVirt \in Nat /\ KernelSize \in Nat
  /\ \A f \in Frames : PFN_PHYS(f) < AddrSpan /\ ~InImage(PHYS_TO_VIRT(PFN_PHYS(f)))

\* g_early_pt_pool is page aligned, in .bss, and so in the image only.
ASSUME PoolAssumption ==
  /\ Len(Pool) \in Nat /\ DOMAIN Pool = 1 .. Len(Pool)
  /\ \A k \in DOMAIN Pool :
       /\ Pool[k] \in Pages /\ FrameAt(Pool[k]) \in Frames
       /\ BootMem[FrameAt(Pool[k])] = ZeroTable
       /\ \A fs \in PmmFree : FrameAt(Pool[k]) \notin fs
  /\ PoolLinks \cap Frames = {}

\* The boot loader's tables are a tree, in memory that it does not call usable.
ASSUME BootTablesAssumption ==
  \A s \in Satps : paging_satp_levels(s) # 0 =>
    /\ s.ppn \in Frames /\ AddrSpan = BlockSize[paging_satp_levels(s)]
    /\ WalksApart(s, BootMem)
    /\ \A v \in Pages : \A l \in HwLevels(s) :
         /\ \A fs \in PmmFree : TablesIn(s, BootMem, v)[l] \notin fs \cup PoolFrames
         /\ l > 0 /\ IsTable(PteIn(s, BootMem, v, l)) => PteIn(s, BootMem, v, l).ppn \in Frames

\* Addresses are uintptr_t, and every mapping asks for some permission.
Address == 0 .. AddrSpan - 1

ASSUME CallsAssumption ==
  /\ MemMap \in Seq([base : Address, length : Nat])
  /\ Segments \in Seq([start : Address, end : Nat, flags : Flags])
  /\ MmioCalls \subseteq [phys : Address, size : Nat]
  /\ MapCalls \subseteq [virt : Address, phys : Address, size : Nat, flags : Flags]

-----------------------------------------------------------------------------
(***************************************************************************)
(* At any time the hart may look up a page and cache the result, or drop   *)
(* what it cached.  One cached translation stands for all of them.         *)
(***************************************************************************)
TlbFill(v) ==
  /\ satp.mode # "BARE"
  /\ LET t == Translate(v)
     IN  t # NULL /\ tlb' = [virt |-> v, to |-> t]
  /\ UNCHANGED <<envVars, mem, avail, pagingVars, pc, callVars>>

TlbDrop ==
  /\ tlb # NULL /\ tlb' = NULL
  /\ UNCHANGED <<envVars, mem, avail, pagingVars, pc, callVars>>

cpu_sfence_vma_none(v) == UNCHANGED tlb    \* mutation: no fence

cpu_sfence_vma(v) == tlb' = IF tlb # NULL /\ tlb.virt = v THEN NULL ELSE tlb
-----------------------------------------------------------------------------
(***************************************************************************)
(* A region to map, and the empty one.                                     *)
(***************************************************************************)
Region(v, p, size, flags) == [virt |-> v, phys |-> p, size |-> size, flags |-> flags]

NoRegion == Region(0, 0, 0, {})

(***************************************************************************)
(* Where a call of the mapping functions begins and ends.  Its locals are  *)
(* dead afterwards.                                                        *)
(***************************************************************************)
NoLocals ==
  /\ todo' = <<>> /\ job' = NoRegion /\ virt' = 0 /\ phys' = 0
  /\ table' = 0 /\ level' = 0 /\ new_table' = NULL

Begin(c, ranges) ==
  /\ pc' = "range" /\ call' = c
  /\ todo' = ranges
  /\ UNCHANGED <<job, virt, phys, table, level, new_table, ret>>

(***************************************************************************)
(* The call returns ok to uart_init, kmain or its caller.  uart_init goes  *)
(* on to write the port's registers, on the first page it has mapped: the  *)
(* write faults when the hart finds no translation.  paging_init ends with *)
(* cpu_sfence_vma_all; kmain halts when uart_init or paging_init fails.    *)
(***************************************************************************)
RegistersReached == Translate(job.virt) # NULL

Return(ok) ==
  /\ ret' = ok
  /\ pc' = CASE call = "mmio" -> (IF ok /\ RegistersReached THEN "uart" ELSE "halt")
             [] call = "init" -> (IF ok THEN "up" ELSE "halt")
             [] call = "map"  -> "up"
  /\ tlb' = IF call = "init" /\ ok THEN NULL ELSE tlb
  /\ NoLocals
  /\ UNCHANGED <<envVars, mem, avail, pagingVars, call>>

PAGING_PROT_RWG == {"R", "W", "G"}

-----------------------------------------------------------------------------
(***************************************************************************)
(* Boot.                                                                   *)
(***************************************************************************)

paging_setup_root ==
  /\ g_levels' = paging_satp_levels(satp)
  /\ g_root_phys' = PFN_PHYS(satp.ppn)

RootOK == paging_satp_levels(satp) # 0 /\ PFN_PHYS(satp.ppn) # 0

(***************************************************************************)
(* kmain gets here only after pmm_init succeeded, so the memory map and    *)
(* the HHDM response that paging_early_init and paging_init test are there.*)
(***************************************************************************)
paging_early_init ==
  /\ pc = "start"
  /\ g_early_pt_pool_used' = 0
  /\ paging_setup_root
  /\ pc' = IF RootOK THEN "early" ELSE "halt"
  /\ UNCHANGED <<envVars, mem, avail, callVars, tlb>>

(***************************************************************************)
(* uart_init maps the port it found.                                       *)
(***************************************************************************)
paging_map_mmio(m) ==
  /\ pc = "early"
  /\ IF m.size = 0
       THEN /\ pc' = "halt" /\ ret' = FALSE /\ call' = "mmio"
            /\ UNCHANGED <<todo, job, virt, phys, table, level, new_table>>
       ELSE LET start == PAGE_ALIGN_DOWN(m.phys)
                stop  == PAGE_ALIGN_UP(m.phys + m.size)
            IN  Begin("mmio", <<Region(PHYS_TO_VIRT(start), start, stop - start,
                                      PAGING_PROT_RWG)>>)
  /\ UNCHANGED <<envVars, mem, avail, pagingVars, tlb>>

(***************************************************************************)
(* The ranges that paging_map_hhdm and paging_map_kernel_segments map, in  *)
(* order.  One that is empty, or that ends before it starts, is over as    *)
(* soon as the loop reaches it.                                            *)
(***************************************************************************)
HhdmRegion_short(entry) ==                 \* mutation: PAGE_ALIGN_DOWN of the end
  LET start == PAGE_ALIGN_DOWN(entry.base)
      stop  == PAGE_ALIGN_DOWN(entry.base + entry.length)
  IN  Region(PHYS_TO_VIRT(start), start, stop - start, PAGING_PROT_RWG)

HhdmRegion(entry) ==
  LET start == PAGE_ALIGN_DOWN(entry.base)
      stop  == PAGE_ALIGN_UP(entry.base + entry.length)
  IN  Region(PHYS_TO_VIRT(start), start, stop - start, PAGING_PROT_RWG)

paging_map_kernel_segment(segment) ==
  LET start == PAGE_ALIGN_DOWN(segment.start)
      stop  == Wrap(PAGE_ALIGN_UP(segment.end))
  IN  Region(start, Wrap(KernelPhys + (start - KernelVirt)), stop - start, segment.flags)

paging_map_hhdm == [i \in DOMAIN MemMap |-> HhdmRegion(MemMap[i])]

paging_map_kernel_segments ==
  [i \in DOMAIN Segments |-> paging_map_kernel_segment(Segments[i])]

InitRegions == paging_map_hhdm \o paging_map_kernel_segments

paging_init ==
  /\ pc = "uart"
  /\ g_early_pt_pool_used' = 0
  /\ paging_setup_root
  /\ IF RootOK /\ exec
       THEN Begin("init", InitRegions)
       ELSE /\ pc' = "halt" /\ ret' = FALSE /\ call' = "init"
            /\ UNCHANGED <<todo, job, virt, phys, table, level, new_table>>
  /\ UNCHANGED <<envVars, mem, avail, tlb>>

(***************************************************************************)
(* After boot: paging_map_range, and paging_map_page as a range of one     *)
(* page.                                                                   *)
(***************************************************************************)
paging_map_range(r) ==
  /\ pc = "up"
  /\ Begin("map", <<r>>)
  /\ UNCHANGED <<envVars, mem, avail, pagingVars, tlb>>

-----------------------------------------------------------------------------
(***************************************************************************)
(* The loop over a range.                                                  *)
(***************************************************************************)

End(r) == Wrap(r.virt + PAGE_ALIGN_UP(r.size))

RangeDone == virt >= End(job)

\* The HHDM has room for the memory map.  The linker script puts the segments in the
\* image, each in pages of its own: two regions that share a page agree about it.
Holds(r, v) == r.virt <= v /\ v < End(r)

ASSUME RegionsAssumption ==
  /\ \A i \in DOMAIN MemMap :
       PAGE_ALIGN_UP(MemMap[i].base + MemMap[i].length) + HhdmOffset < AddrSpan
  /\ KernelPhys % PAGE_SIZE = 0 /\ KernelVirt % PAGE_SIZE = 0
  /\ \A i \in DOMAIN Segments :
       /\ KernelVirt <= PAGE_ALIGN_DOWN(Segments[i].start)
       /\ PAGE_ALIGN_UP(Segments[i].end) < AddrSpan
       /\ KernelPhys + (PAGE_ALIGN_UP(Segments[i].end) - KernelVirt) < AddrSpan
  /\ \A i, j \in DOMAIN InitRegions : \A v \in Pages :
       Holds(InitRegions[i], v) /\ Holds(InitRegions[j], v) =>
         /\ InitRegions[i].flags = InitRegions[j].flags
         /\ InitRegions[i].phys - InitRegions[i].virt = InitRegions[j].phys - InitRegions[j].virt

range_next ==
  /\ pc = "range" /\ RangeDone /\ todo # <<>>
  /\ job' = Head(todo) /\ todo' = Tail(todo)
  /\ virt' = Head(todo).virt /\ phys' = Head(todo).phys
  /\ UNCHANGED <<envVars, mem, avail, pagingVars, pc, call, table, level, new_table, ret, tlb>>

range_return ==
  /\ pc = "range" /\ RangeDone /\ todo = <<>>
  /\ Return(TRUE)

Aligned(a) == a % PAGE_SIZE = 0

paging_map_page ==
  /\ pc = "range" /\ ~RangeDone
  /\ Aligned(virt) /\ Aligned(phys) /\ g_root_phys # 0
  /\ pc' = "walk"
  /\ table' = PHYS_TO_VIRT(g_root_phys)
  /\ level' = g_levels - 1
  /\ UNCHANGED <<envVars, mem, avail, pagingVars, call, todo, job, virt, phys, new_table,
                 ret, tlb>>

map_page_refuse ==
  /\ pc = "range" /\ ~RangeDone
  /\ ~(Aligned(virt) /\ Aligned(phys) /\ g_root_phys # 0)
  /\ Return(FALSE)

Advance(a) == Wrap(a + PAGE_SIZE)

(***************************************************************************)
(* paging_map_one returned true: on to the next page of the range.         *)
(***************************************************************************)
NextPage ==
  /\ pc' = "range"
  /\ virt' = Advance(virt) /\ phys' = Advance(phys)
  /\ UNCHANGED <<envVars, avail, pagingVars, call, todo, job, table, level, new_table, ret>>

-----------------------------------------------------------------------------
(***************************************************************************)
(* paging_alloc_table: a page of the page allocator, else a page of the    *)
(* early pool in the kernel image, else NULL.  The page is cleared.        *)
(***************************************************************************)

ClearTable_none(f) == UNCHANGED mem        \* mutation: no memset

ClearTable(f) == mem' = [mem EXCEPT ![f] = ZeroTable]

paging_alloc_table ==
  \/ /\ avail # {}
     /\ \E f \in avail :
          /\ avail' = avail \ {f}
          /\ new_table' = PHYS_TO_VIRT(PFN_PHYS(f))
          /\ ClearTable(f)
     /\ UNCHANGED g_early_pt_pool_used
  \/ /\ avail = {} /\ g_early_pt_pool_used < Len(Pool)
     /\ LET t == Pool[g_early_pt_pool_used + 1]
        IN  new_table' = t /\ ClearTable(FrameAt(t))
     /\ g_early_pt_pool_used' = g_early_pt_pool_used + 1
     /\ UNCHANGED avail

NoTableLeft == avail = {} /\ g_early_pt_pool_used >= Len(Pool)

(***************************************************************************)
(* One iteration of paging_map_one's loop, at a level above 0.             *)
(***************************************************************************)
Index == paging_level_index(virt, level)
Entry == Load(table, Index)
Covered == paging_entry_covers(Entry, virt, phys, job.flags, level)

walk_alloc ==
  /\ pc = "walk" /\ level > 0 /\ "V" \notin Entry.bits /\ ~NoTableLeft
  /\ paging_alloc_table
  /\ pc' = "link"
  /\ UNCHANGED <<envVars, g_root_phys, g_levels, call, todo, job, virt, phys, table, level,
                 ret, tlb>>

walk_alloc_fail ==
  /\ pc = "walk" /\ level > 0 /\ "V" \notin Entry.bits /\ NoTableLeft
  /\ Return(FALSE)

Descend(pte) ==
  /\ table' = PHYS_TO_VIRT(paging_pte_to_phys(pte))
  /\ level' = level - 1
  /\ pc' = "walk"
  /\ UNCHANGED <<envVars, avail, pagingVars, call, todo, job, virt, phys, ret, tlb>>

walk_link ==
  /\ pc = "link"
  /\ LET pte == paging_table_pte(VIRT_TO_PHYS(new_table))
     IN  Store(table, Index, pte) /\ Descend(pte)
  /\ new_table' = NULL

walk_table ==
  /\ pc = "walk" /\ level > 0 /\ IsTable(Entry)
  /\ Descend(Entry)
  /\ UNCHANGED <<mem, new_table>>

walk_leaf_covers ==
  /\ pc = "walk" /\ level > 0 /\ IsLeaf(Entry) /\ Covered
  /\ NextPage
  /\ UNCHANGED <<mem, tlb>>

walk_conflict_overwrite ==                 \* mutation: a large leaf is replaced
  /\ pc = "walk" /\ level > 0 /\ IsLeaf(Entry) /\ ~Covered
  /\ Store(table, Index, LeafPte(phys, job.flags))
  /\ pc' = "fence"
  /\ UNCHANGED <<envVars, avail, pagingVars, callVars, tlb>>

walk_conflict ==
  /\ pc = "walk" /\ level > 0 /\ IsLeaf(Entry) /\ ~Covered
  /\ Return(FALSE)

(***************************************************************************)
(* The last table: keep an entry that covers the mapping, overwrite any    *)
(* other, and fence.                                                       *)
(***************************************************************************)
leaf_covers ==
  /\ pc = "walk" /\ level = 0 /\ "V" \in Entry.bits /\ Covered
  /\ NextPage
  /\ UNCHANGED <<mem, tlb>>

leaf_write ==
  /\ pc = "walk" /\ level = 0 /\ ~("V" \in Entry.bits /\ Covered)
  /\ Store(table, Index, LeafPte(phys, job.flags))
  /\ pc' = "fence"
  /\ UNCHANGED <<envVars, avail, pagingVars, callVars, tlb>>

leaf_fence ==
  /\ pc = "fence"
  /\ cpu_sfence_vma(virt)
  /\ NextPage
  /\ UNCHANGED mem

Halted == pc = "halt" /\ UNCHANGED vars

-----------------------------------------------------------------------------
Init ==
  /\ satp \in Satps /\ exec \in BOOLEAN
  /\ mem = BootMem /\ avail \in PmmFree
  /\ g_root_phys = 0 /\ g_levels = 0 /\ g_early_pt_pool_used = 0
  /\ pc = "start" /\ call = NULL /\ ret = NULL
  /\ todo = <<>> /\ job = NoRegion /\ virt = 0 /\ phys = 0
  /\ table = 0 /\ level = 0 /\ new_table = NULL
  /\ tlb = NULL

Step ==
  \/ paging_early_init \/ (\E m \in MmioCalls : paging_map_mmio(m)) \/ paging_init
  \/ range_next \/ range_return \/ paging_map_page \/ map_page_refuse
  \/ walk_alloc \/ walk_alloc_fail \/ walk_link \/ walk_table
  \/ walk_leaf_covers \/ walk_conflict
  \/ leaf_covers \/ leaf_write \/ leaf_fence

Hart == TlbDrop \/ \E v \in Lookups : TlbFill(v)

Next == Step \/ (\E r \in MapCalls : paging_map_range(r)) \/ Hart \/ Halted

Spec == Init /\ [][Next]_vars
=============================================================================
