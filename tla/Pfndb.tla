-------------------------------- MODULE Pfndb -------------------------------
(***************************************************************************)
(* mm/pfndb.c: the page frame database.                                    *)
(*                                                                         *)
(* One struct page per physical page frame up to the last usable one.  The *)
(* array is carved out of the first usable memory-map region that can hold *)
(* it, and the boot loader's memory map is edited in place to say so.      *)
(*                                                                         *)
(* The array g_pfndb is a pointer to struct page; here it is the Boolean   *)
(* "is not NULL" together with one function per field of struct page, all  *)
(* with domain 0..g_max_pfn.  A page_t pointer is the page's frame number. *)
(***************************************************************************)
EXTENDS Page, Sequences

CONSTANTS
  SizeofPage,  \* sizeof(page_t)
  MemMaps      \* the memory maps the boot loader may hand over (or NULL)

VARIABLES
  memmap,        \* memmap_request.response, edited by pfndb_init
  hhdm,          \* hhdm_request.response # NULL
  g_pfndb,       \* g_pfndb # NULL
  g_pfndb_phys,  \* physical address of the database, 0 when there is none
  g_max_pfn,     \* the last page frame number of usable memory
  flags, order, next, prev  \* the fields of struct page

pageVars  == <<flags, order, next, prev>>
pfndbVars == <<memmap, hhdm, g_pfndb, g_pfndb_phys, g_max_pfn, pageVars>>

MemMapEntry == [type : {"USABLE", "OTHER"}, base : Nat, length : Nat]

ASSUME SizeofPageAssumption == SizeofPage \in Nat \ {0}
ASSUME MemMapsAssumption == \A m \in MemMaps \ {NULL} : m \in Seq(MemMapEntry)

Pfns == 0 .. g_max_pfn

(***************************************************************************)
(* The boot loader's entries of type LIMINE_MEMMAP_USABLE.                 *)
(***************************************************************************)
Usable(map) == {i \in DOMAIN map : map[i].type = "USABLE"}

(***************************************************************************)
(* What the boot protocol promises of them: both ends are page aligned and *)
(* no two overlap.                                                         *)
(***************************************************************************)
ASSUME UsableAssumption ==
  \A map \in MemMaps \ {NULL} : \A i, j \in Usable(map) :
    /\ map[i].base % PAGE_SIZE = 0 /\ map[i].length % PAGE_SIZE = 0
    /\ i # j => \/ map[i].base + map[i].length <= map[j].base
                \/ map[j].base + map[j].length <= map[i].base

EndPfn(entry) == PAGE_ALIGN_UP(entry.base + entry.length) \div PAGE_SIZE

(***************************************************************************)
(* m is the last page frame of the usable entries, 0 when there is none.   *)
(***************************************************************************)
pfndb_calc_max_pfn(map, m) ==
  /\ m \in {0} \cup {EndPfn(map[i]) - 1 : i \in {j \in Usable(map) : EndPfn(map[j]) # 0}}
  /\ \A i \in Usable(map) : EndPfn(map[i]) # 0 => EndPfn(map[i]) - 1 <= m

pfndb_storage_size(m) == PAGE_ALIGN_UP((m + 1) * SizeofPage)

(***************************************************************************)
(* Take the first usable entry long enough for size bytes, and move its    *)
(* start past them.  Without one nothing changes.                          *)
(***************************************************************************)
Fits(map, size) == {i \in Usable(map) : map[i].length >= size}

pfndb_reserve_storage_shrink(size) ==      \* mutation: base not moved
  \/ /\ Fits(memmap, size) = {}
     /\ UNCHANGED <<memmap, g_pfndb_phys>>
  \/ \E i \in Fits(memmap, size) :
       /\ \A j \in Fits(memmap, size) : i <= j
       /\ g_pfndb_phys' = memmap[i].base
       /\ memmap' = [memmap EXCEPT ![i].length = @ - size]

pfndb_reserve_storage(size) ==
  \/ /\ Fits(memmap, size) = {}
     /\ UNCHANGED <<memmap, g_pfndb_phys>>
  \/ \E i \in Fits(memmap, size) :
       /\ \A j \in Fits(memmap, size) : i <= j
       /\ g_pfndb_phys' = memmap[i].base
       /\ memmap' = [memmap EXCEPT ![i].base = @ + size, ![i].length = @ - size]

(***************************************************************************)
(* The page frames pfndb_mark_range(base, length, _) writes, given the     *)
(* last page frame m.                                                      *)
(***************************************************************************)
pfndb_mark_range(base, length, m) ==
  LET start_pfn == PHYS_PFN(base)
      end_pfn   == PHYS_PFN(PAGE_ALIGN_UP(base + length))
  IN  {p \in 0 .. m : length # 0 /\ start_pfn <= p /\ p < end_pfn}

(***************************************************************************)
(* pfndb_init: size the database, reserve its storage, mark every page     *)
(* RESERVED and then the pages of the usable entries of the edited map     *)
(* FREE.                                                                   *)
(***************************************************************************)
pfndb_init ==
  \/ /\ memmap = NULL \/ ~hhdm
     /\ UNCHANGED pfndbVars
  \/ /\ memmap # NULL /\ hhdm
     /\ pfndb_calc_max_pfn(memmap, g_max_pfn')
     /\ pfndb_reserve_storage(pfndb_storage_size(g_max_pfn'))
     /\ UNCHANGED hhdm
     /\ IF g_pfndb_phys' = 0
          THEN UNCHANGED <<g_pfndb, pageVars>>
          ELSE /\ g_pfndb' = TRUE
               /\ flags' = [p \in 0 .. g_max_pfn' |->
                    IF \E i \in Usable(memmap') :
                         p \in pfndb_mark_range(memmap'[i].base, memmap'[i].length, g_max_pfn')
                      THEN {"FREE"} ELSE {"RESERVED"}]
               /\ order' = [p \in 0 .. g_max_pfn' |-> 0]
               /\ next'  = [p \in 0 .. g_max_pfn' |-> NULL]
               /\ prev'  = [p \in 0 .. g_max_pfn' |-> NULL]

PfndbInit ==
  /\ memmap \in MemMaps
  /\ hhdm \in BOOLEAN
  /\ g_pfndb = FALSE
  /\ g_pfndb_phys = 0
  /\ g_max_pfn = 0
  /\ flags = <<>> /\ order = <<>> /\ next = <<>> /\ prev = <<>>
=============================================================================
