--------------------------------- MODULE Pmm --------------------------------
(***************************************************************************)
(* mm/pmm.c: the buddy allocator of physical pages, on top of the page     *)
(* frame database of mm/pfndb.c.                                           *)
(*                                                                         *)
(* One hart runs the allocator with interrupts off, so calls do not        *)
(* overlap.  A call is split at the iterations of its loops: pc says where *)
(* the running call is, and page, cur, req and scan are its locals.        *)
(*                                                                         *)
(*   pc = "boot"      kmain has called neither pfndb_init nor pmm_init     *)
(*        "pfndb"     pfndb_init has returned                              *)
(*        "scan"      the second loop of pmm_init                          *)
(*        "coalesce"  the loop of pmm_free_block                           *)
(*        "split"     the inner loop of pmm_alloc / page_alloc             *)
(*        "idle"      no call is running                                   *)
(*        "halt"      kmain is in hlt() after a failed pmm_init            *)
(***************************************************************************)
EXTENDS Pfndb, FiniteSets

CONSTANT PMM_MAX_ORDER   \* orders are 0 .. PMM_MAX_ORDER - 1 (10 in pmm.h)

ASSUME MaxOrderAssumption == PMM_MAX_ORDER \in 1 .. 10

VARIABLES
  head,           \* g_free_lists[order].head
  count,          \* g_free_lists[order].count
  g_free_pages,
  g_total_pages,
  g_pmm_ready,
  pc,
  page,           \* the page_t * local of the running call
  cur,            \* pmm_free_block's order / pmm_alloc's current
  req,            \* pmm_alloc's argument
  scan,           \* pmm_init's pfn in its second loop
  held            \* environment: the pages callers have been given and hold

pmmVars  == <<head, count, g_free_pages, g_total_pages, g_pmm_ready>>
callVars == <<pc, page, cur, req, scan>>
vars     == <<pfndbVars, pmmVars, callVars, held>>

Orders == 0 .. PMM_MAX_ORDER - 1

Quiescent == {"boot", "pfndb", "idle"}   \* no call is running

(***************************************************************************)
(* 1ULL << k, as a table: the orders that exist are 0 .. 9.                *)
(***************************************************************************)
Pow2(k) == CASE k = 0 -> 1   [] k = 1 -> 2   [] k = 2 -> 4   [] k = 3 -> 8
             [] k = 4 -> 16  [] k = 5 -> 32  [] k = 6 -> 64  [] k = 7 -> 128
             [] k = 8 -> 256 [] k = 9 -> 512

(***************************************************************************)
(* pfn ^ (1ULL << k): flip the k-th bit.                                   *)
(***************************************************************************)
pmm_buddy_pfn(pfn, k) ==
  IF (pfn \div Pow2(k)) % 2 = 0 THEN pfn + Pow2(k) ELSE pfn - Pow2(k)

-----------------------------------------------------------------------------
(***************************************************************************)
(* pmm_prepare_page: page_set_state assigns the flags and the order.  It   *)
(* clears the links too, which every caller here overwrites or repeats in  *)
(* the same step (pmm_list_push, alloc_done).                              *)
(***************************************************************************)
pmm_prepare_page(p, f, k) ==
  /\ flags' = [flags EXCEPT ![p] = f]
  /\ order' = [order EXCEPT ![p] = k]

(***************************************************************************)
(* The doubly linked free lists.                                           *)
(***************************************************************************)

pmm_list_push(k, p) ==
  /\ next'  = [next EXCEPT ![p] = head[k]]
  /\ prev'  = [q \in Pfns |-> IF q = head[k] THEN p
                              ELSE IF q = p THEN NULL ELSE prev[q]]
  /\ head'  = [head EXCEPT ![k] = p]
  /\ count' = [count EXCEPT ![k] = @ + 1]

pmm_list_remove_one_way(k, p) ==           \* mutation: next->prev not repaired
  /\ next'  = [q \in Pfns |-> IF q = p THEN NULL
                              ELSE IF q = prev[p] THEN next[p] ELSE next[q]]
  /\ prev'  = [prev EXCEPT ![p] = NULL]
  /\ head'  = IF prev[p] = NULL THEN [head EXCEPT ![k] = next[p]] ELSE head
  /\ count' = [count EXCEPT ![k] = @ - 1]

pmm_list_remove(k, p) ==
  /\ next'  = [q \in Pfns |-> IF q = p THEN NULL
                              ELSE IF q = prev[p] THEN next[p] ELSE next[q]]
  /\ prev'  = [q \in Pfns |-> IF q = p THEN NULL
                              ELSE IF q = next[p] THEN prev[p] ELSE prev[q]]
  /\ head'  = IF prev[p] = NULL THEN [head EXCEPT ![k] = next[p]] ELSE head
  /\ count' = [count EXCEPT ![k] = @ - 1]

-----------------------------------------------------------------------------
(***************************************************************************)
(* Boot: kmain calls pfndb_init, then pmm_init, and halts if that fails.   *)
(***************************************************************************)

BootPfndb ==
  /\ pc = "boot" /\ pc' = "pfndb"
  /\ pfndb_init
  /\ UNCHANGED <<pmmVars, page, cur, req, scan, held>>

ResetFlags_keeps_free(f) ==                \* mutation: no ClearPageFree
  IF "FREE" \in f THEN f \cup {"USED"} ELSE f

ResetFlags(f) == IF "FREE" \in f THEN (f \cup {"USED"}) \ {"FREE"} ELSE f

(***************************************************************************)
(* pmm_init up to the end of its first loop: every FREE page becomes USED, *)
(* so that the second loop can hand each one to pmm_free_block.            *)
(***************************************************************************)
pmm_init_reset ==
  /\ pc = "pfndb" /\ g_pfndb
  /\ head'  = [k \in Orders |-> NULL]
  /\ count' = [k \in Orders |-> 0]
  /\ g_free_pages' = 0
  /\ g_total_pages' = Cardinality({p \in Pfns : "FREE" \in flags[p]})
  /\ g_pmm_ready' = FALSE
  /\ flags' = [p \in Pfns |-> ResetFlags(flags[p])]
  /\ order' = [p \in Pfns |-> 0]
  /\ next'  = [p \in Pfns |-> NULL]
  /\ prev'  = [p \in Pfns |-> NULL]
  /\ pc' = "scan" /\ scan' = 0
  /\ UNCHANGED <<memmap, hhdm, g_pfndb, g_pfndb_phys, g_max_pfn, page, cur, req, held>>

pmm_init_fail ==
  /\ pc = "pfndb" /\ ~g_pfndb
  /\ pc' = "halt"
  /\ UNCHANGED <<pfndbVars, pmmVars, page, cur, req, scan, held>>

Scannable(p) == "USED" \in flags[p] /\ "RESERVED" \notin flags[p]

pmm_init_skip ==
  /\ pc = "scan" /\ scan <= g_max_pfn /\ ~Scannable(scan)
  /\ scan' = scan + 1
  /\ UNCHANGED <<pfndbVars, pmmVars, pc, page, cur, req, held>>

pmm_init_free ==
  /\ pc = "scan" /\ scan <= g_max_pfn /\ Scannable(scan)
  /\ g_free_pages' = g_free_pages + 1
  /\ pc' = "coalesce" /\ page' = scan /\ cur' = order[scan]
  /\ scan' = scan + 1
  /\ UNCHANGED <<pfndbVars, head, count, g_total_pages, g_pmm_ready, req, held>>

pmm_init_done ==
  /\ pc = "scan" /\ scan > g_max_pfn
  /\ g_pmm_ready' = TRUE
  /\ pc' = "idle"
  /\ UNCHANGED <<pfndbVars, head, count, g_free_pages, g_total_pages,
                 page, cur, req, scan, held>>

-----------------------------------------------------------------------------
(***************************************************************************)
(* pmm_free_block: merge the block with its buddy while the buddy is a     *)
(* free block of the same order, then put the result on its list.          *)
(***************************************************************************)

CanMerge_any_order ==                      \* mutation: order not compared
  LET buddy == pmm_buddy_pfn(page, cur)
  IN  /\ cur + 1 < PMM_MAX_ORDER
      /\ buddy <= g_max_pfn
      /\ "FREE" \in flags[buddy]

CanMerge_past_max ==                       \* mutation: <= for <
  LET buddy == pmm_buddy_pfn(page, cur)
  IN  /\ cur + 1 <= PMM_MAX_ORDER
      /\ buddy <= g_max_pfn
      /\ "FREE" \in flags[buddy]
      /\ order[buddy] = cur

CanMerge_short ==                          \* mutation: stops one order early
  LET buddy == pmm_buddy_pfn(page, cur)
  IN  /\ cur + 2 < PMM_MAX_ORDER
      /\ buddy <= g_max_pfn
      /\ "FREE" \in flags[buddy]
      /\ order[buddy] = cur

CanMerge ==
  LET buddy == pmm_buddy_pfn(page, cur)
  IN  /\ cur + 1 < PMM_MAX_ORDER
      /\ buddy <= g_max_pfn
      /\ "FREE" \in flags[buddy]
      /\ order[buddy] = cur

free_block_merge ==
  /\ pc = "coalesce" /\ CanMerge
  /\ LET buddy == pmm_buddy_pfn(page, cur)
         low   == IF buddy < page THEN buddy ELSE page
     IN  /\ pmm_list_remove(cur, buddy)
         /\ page' = low
         /\ cur' = cur + 1
         /\ order' = [order EXCEPT ![low] = cur + 1]
  /\ UNCHANGED <<memmap, hhdm, g_pfndb, g_pfndb_phys, g_max_pfn, flags,
                 g_free_pages, g_total_pages, g_pmm_ready, pc, req, scan, held>>

free_block_done ==
  /\ pc = "coalesce" /\ ~CanMerge
  /\ pmm_prepare_page(page, {"FREE"}, cur)
  /\ pmm_list_push(cur, page)
  /\ pc' = IF g_pmm_ready THEN "idle" ELSE "scan"
  /\ UNCHANGED <<memmap, hhdm, g_pfndb, g_pfndb_phys, g_max_pfn,
                 g_free_pages, g_total_pages, g_pmm_ready, page, cur, req, scan, held>>

-----------------------------------------------------------------------------
(***************************************************************************)
(* pmm_alloc and page_alloc: the same code, returning the page as an       *)
(* address or as a page_t pointer.                                         *)
(***************************************************************************)

NonEmpty(k) == {j \in Orders : k <= j /\ head[j] # NULL}

AllocAccepted(k) == g_pmm_ready /\ k < PMM_MAX_ORDER /\ NonEmpty(k) # {}

(***************************************************************************)
(* The call up to its inner loop: refuse, or take the head of the first    *)
(* non-empty list at or above the order asked for.                         *)
(***************************************************************************)
pmm_alloc(k) ==
  /\ pc \in Quiescent
  /\ \/ /\ ~AllocAccepted(k)
        /\ UNCHANGED vars
     \/ /\ AllocAccepted(k)
        /\ \E j \in NonEmpty(k) :
             /\ \A i \in NonEmpty(k) : j <= i
             /\ pmm_list_remove(j, head[j])
             /\ page' = head[j] /\ cur' = j
        /\ req' = k
        /\ pc' = "split"
        /\ UNCHANGED <<memmap, hhdm, g_pfndb, g_pfndb_phys, g_max_pfn, flags, order,
                       g_free_pages, g_total_pages, g_pmm_ready, scan, held>>

alloc_split ==
  /\ pc = "split" /\ cur > req
  /\ LET buddy == page + Pow2(cur - 1)
     IN  /\ pmm_prepare_page(buddy, {"FREE"}, cur - 1)
         /\ pmm_list_push(cur - 1, buddy)
  /\ cur' = cur - 1
  /\ UNCHANGED <<memmap, hhdm, g_pfndb, g_pfndb_phys, g_max_pfn,
                 g_free_pages, g_total_pages, g_pmm_ready, pc, page, req, scan, held>>

alloc_done ==
  /\ pc = "split" /\ cur = req
  /\ pmm_prepare_page(page, {"USED"}, req)
  /\ next'  = [next EXCEPT ![page] = NULL]
  /\ prev'  = [prev EXCEPT ![page] = NULL]
  /\ g_free_pages' = g_free_pages - Pow2(req)
  /\ held' = held \cup {page}
  /\ pc' = "idle"
  /\ UNCHANGED <<memmap, hhdm, g_pfndb, g_pfndb_phys, g_max_pfn,
                 head, count, g_total_pages, g_pmm_ready, page, cur, req, scan>>

-----------------------------------------------------------------------------
(***************************************************************************)
(* pmm_free: the calls it refuses, and the way into pmm_free_block.  The   *)
(* argument is an address; only its page frame number p matters.           *)
(***************************************************************************)

FreeAccepted_reserved(p) ==                \* mutation: PageReserved not tested
  /\ g_pmm_ready
  /\ p # NULL
  /\ p \in Pfns
  /\ "FREE" \notin flags[p]

FreeAccepted(p) ==
  /\ g_pmm_ready
  /\ p # NULL
  /\ p \in Pfns
  /\ "RESERVED" \notin flags[p]
  /\ "FREE" \notin flags[p]

pmm_free(p) ==
  /\ pc \in Quiescent
  /\ \/ /\ ~FreeAccepted(p)
        /\ UNCHANGED vars
     \/ /\ FreeAccepted(p)
        /\ g_free_pages' = g_free_pages + Pow2(order[p])
        /\ pc' = "coalesce" /\ page' = p /\ cur' = order[p]
        /\ held' = held \ {p}
        /\ UNCHANGED <<pfndbVars, head, count, g_total_pages, g_pmm_ready, req, scan>>

(***************************************************************************)
(* The calls of pmm_free in this specification: callers free what they     *)
(* hold, and also pass bad pointers, addresses outside the database, pages *)
(* marked RESERVED and pages marked FREE.  PmmDoubleFree drops this limit  *)
(* for pages that were freed before.                                       *)
(***************************************************************************)
MayFree(p) ==
  \/ p \in held
  \/ ~g_pfndb
  \/ p \notin Pfns
  \/ flags[p] \cap {"FREE", "RESERVED"} # {}

Halted == pc = "halt" /\ UNCHANGED vars

-----------------------------------------------------------------------------
Init ==
  /\ PfndbInit
  /\ head = [k \in Orders |-> NULL] /\ count = [k \in Orders |-> 0]
  /\ g_free_pages = 0 /\ g_total_pages = 0 /\ g_pmm_ready = FALSE
  /\ pc = "boot" /\ page = 0 /\ cur = 0 /\ req = 0 /\ scan = 0
  /\ held = {}

(***************************************************************************)
(* The steps inside a call (or of kmain's boot sequence), and the calls.   *)
(***************************************************************************)
Step ==
  \/ BootPfndb
  \/ pmm_init_reset \/ pmm_init_fail
  \/ pmm_init_skip \/ pmm_init_free \/ pmm_init_done
  \/ free_block_merge \/ free_block_done
  \/ alloc_split \/ alloc_done

Call ==
  \/ \E k \in 0 .. PMM_MAX_ORDER : pmm_alloc(k)
  \/ \E p \in {q \in 0 .. g_max_pfn + 1 : MayFree(q)} : pmm_free(p)
  \/ pmm_free(NULL)

Next == Step \/ Call \/ Halted

Spec == Init /\ [][Next]_vars
=============================================================================
