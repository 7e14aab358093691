------------------------------ MODULE PmmProps ------------------------------
(***************************************************************************)
(* What makes the page allocator of Pmm correct.                           *)
(***************************************************************************)
EXTENDS Pmm

(***************************************************************************)
(* The pages that head a block: the pages on a free list, the pages that   *)
(* callers hold, and the page the running call has in its hands.  A page   *)
(* inside a larger block can still carry the FREE or USED flag and the     *)
(* order it had when it was merged away; it is on no list, and that is     *)
(* what Listed tells apart.                                                *)
(***************************************************************************)
DbPfns == IF g_pfndb THEN Pfns ELSE {}

Listed(p) == "FREE" \in flags[p] /\ (head[order[p]] = p \/ prev[p] # NULL)

InHand == IF pc \in {"coalesce", "split"} THEN {page} ELSE {}

FreeHeads == {p \in DbPfns : Listed(p)} \cup InHand

Heads == FreeHeads \cup held

OrderOf(p) == IF p \in InHand THEN cur ELSE order[p]

BlockPages(p) == p .. (p + Pow2(OrderOf(p)) - 1)

FreePages == UNION {BlockPages(p) : p \in FreeHeads}
HeldPages == UNION {BlockPages(p) : p \in held}

-----------------------------------------------------------------------------
(***************************************************************************)
(* Every variable has its type: links, heads and the page in hand stay     *)
(* inside the database, orders stay below PMM_MAX_ORDER.  (That no counter *)
(* goes below zero follows from FreeCountExact and ListsWellLinked.)       *)
(***************************************************************************)
TypeOK ==
  /\ g_pfndb \in BOOLEAN
  /\ g_max_pfn \in Nat
  /\ g_pfndb => /\ flags \in [Pfns -> SUBSET PageFlags]
                /\ order \in [Pfns -> Orders]
                /\ next \in [Pfns -> Pfns \cup {NULL}]
                /\ prev \in [Pfns -> Pfns \cup {NULL}]
  /\ head \in [Orders -> Pfns \cup {NULL}]
  /\ count \in [Orders -> Int]
  /\ g_free_pages \in Int
  /\ g_pmm_ready \in BOOLEAN
  /\ pc \in {"boot", "pfndb", "scan", "coalesce", "split", "idle", "halt"}
  /\ page \in Pfns
  /\ cur \in Orders
  /\ req \in Orders
  /\ scan \in Nat
  /\ held \subseteq Pfns

(***************************************************************************)
(* No page belongs to two blocks: at every iteration of pmm_free_block and *)
(* of pmm_alloc's split loop the blocks on the free lists, the blocks held *)
(* by callers and the block in hand are naturally aligned, lie inside the  *)
(* database, contain no RESERVED page and are pairwise disjoint.           *)
(***************************************************************************)
BlockOK(p) ==
  /\ p % Pow2(OrderOf(p)) = 0
  /\ p + Pow2(OrderOf(p)) <= g_max_pfn + 1
  /\ \A q \in BlockPages(p) : "RESERVED" \notin flags[q]

Apart(p, q) ==
  p + Pow2(OrderOf(p)) <= q \/ q + Pow2(OrderOf(q)) <= p

NoOverlap ==
  /\ \A p \in Heads : BlockOK(p)
  /\ \A p, q \in Heads : p # q => Apart(p, q)

(***************************************************************************)
(* pmm_free_block trusts the FREE flag and the order of the buddy, and     *)
(* neither is cleared when a page is merged into a larger block.  The      *)
(* buddy it unlinks is nevertheless always a page that is on the list of   *)
(* exactly that order, never a stale interior page.                        *)
(***************************************************************************)
MergesListedBuddy ==
  pc = "coalesce" /\ CanMerge => Listed(pmm_buddy_pfn(page, cur))

(***************************************************************************)
(* The links of each free list agree with its head and its count:          *)
(* following next from the head visits every listed page of that order     *)
(* once, ends in NULL after count steps, and prev is the inverse of next.  *)
(***************************************************************************)
Hop(k) == LET f[i \in 0 .. g_max_pfn + 1] ==
                IF i = 0 THEN head[k]
                ELSE IF f[i - 1] = NULL THEN NULL ELSE next[f[i - 1]]
          IN  f

ListsWellLinked ==
  \A k \in Orders :
    LET listed == {p \in DbPfns : Listed(p) /\ order[p] = k}
        hop == Hop(k)
    IN  /\ count[k] = Cardinality(listed)
        /\ {hop[i] : i \in 0 .. count[k] - 1} = listed
        /\ hop[count[k]] = NULL
        /\ \A p \in listed : next[p] # NULL => prev[next[p]] = p

(***************************************************************************)
(* pmm_free_pages() is the number of pages on the free lists (the block in *)
(* hand included), and once the allocator is up no page is ever lost: free *)
(* and held pages together are pmm_total_pages().                          *)
(***************************************************************************)
FreeCountExact ==
  /\ g_free_pages = Cardinality(FreePages)
  /\ g_pmm_ready => Cardinality(FreePages \cup HeldPages) = g_total_pages

(***************************************************************************)
(* What pmm_alloc hands out is memory the boot loader calls usable, and    *)
(* never the storage that pfndb_init carved out for the database itself.   *)
(***************************************************************************)
Bytes(p) == PFN_PHYS(p) .. (PFN_PHYS(p + 1) - 1)

HeldIsUsableRam ==
  \A p \in HeldPages :
    /\ \E i \in Usable(memmap) :
         Bytes(p) \subseteq memmap[i].base .. (memmap[i].base + memmap[i].length - 1)
    /\ Bytes(p) \cap (g_pfndb_phys .. (g_pfndb_phys + pfndb_storage_size(g_max_pfn) - 1)) = {}

(***************************************************************************)
(* Coalescing is complete: when pmm_alloc(k) finds every list from k up    *)
(* empty and returns NULL, there really is no aligned run of 2^k free      *)
(* pages anywhere in memory.                                               *)
(***************************************************************************)
FailsOnlyWhenFull ==
  pc = "idle" =>
    \A k \in Orders : NonEmpty(k) = {} =>
      ~ \E p \in Pfns : p % Pow2(k) = 0 /\ p .. (p + Pow2(k) - 1) \subseteq FreePages

-----------------------------------------------------------------------------
(***************************************************************************)
(* The allocator implements PhysMem: a block is handed out when pmm_alloc  *)
(* returns it and given back when pmm_free accepts it; everything in       *)
(* between, splitting and merging included, is invisible.                  *)
(***************************************************************************)
PM == INSTANCE PhysMem WITH
        up     <- g_pmm_ready,
        avail  <- IF g_pmm_ready THEN FreePages ELSE {},
        blocks <- {<<p, order[p]>> : p \in held},
        Orders <- Orders

ImplementsPhysMem == PM!Spec
=============================================================================
