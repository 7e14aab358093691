------------------------------ MODULE PmmProof ------------------------------
(***************************************************************************)
(* Proofs about the page allocator, for every memory map, every page size  *)
(* and every PMM_MAX_ORDER up to 10.                                       *)
(***************************************************************************)
EXTENDS PmmProps, FiniteSetTheorems, TLAPS

-----------------------------------------------------------------------------
(***************************************************************************)
(* Block sizes: 1ULL << k for the orders there are.                        *)
(***************************************************************************)

(***************************************************************************)
(* A block has at least one page, and one order up doubles it.             *)
(***************************************************************************)
LEMMA Pow2Facts ==
  /\ \A k \in 0 .. 9 : Pow2(k) \in Nat /\ Pow2(k) >= 1
  /\ \A k \in 0 .. 8 : Pow2(k + 1) = 2 * Pow2(k)
  /\ Pow2(0) = 1
BY DEF Pow2

(***************************************************************************)
(* A block of order k is a whole number of blocks of order j <= k.         *)
(***************************************************************************)
LEMMA Pow2Divides ==
  ASSUME NEW j \in 0 .. 9, NEW k \in j .. 9
  PROVE  \E m \in Nat : m >= 1 /\ Pow2(k) = m * Pow2(j)
<1>1. Pow2(k) = Pow2(k - j) * Pow2(j)
  <2>1. CASE j = 0  BY <2>1 DEF Pow2
  <2>2. CASE j = 1  BY <2>2 DEF Pow2
  <2>3. CASE j = 2  BY <2>3 DEF Pow2
  <2>4. CASE j = 3  BY <2>4 DEF Pow2
  <2>5. CASE j = 4  BY <2>5 DEF Pow2
  <2>6. CASE j = 5  BY <2>6 DEF Pow2
  <2>7. CASE j = 6  BY <2>7 DEF Pow2
  <2>8. CASE j = 7  BY <2>8 DEF Pow2
  <2>9. CASE j = 8  BY <2>9 DEF Pow2
  <2>10. CASE j = 9  BY <2>10 DEF Pow2
  <2> QED  BY <2>1, <2>2, <2>3, <2>4, <2>5, <2>6, <2>7, <2>8, <2>9, <2>10
<1>2. k - j \in 0 .. 9
  OBVIOUS
<1> QED  BY <1>1, <1>2, Pow2Facts

(***************************************************************************)
(* Products and multiples, stated once so that they can be cited.          *)
(***************************************************************************)
LEMMA Multiple ==
  ASSUME NEW p \in Int, NEW d \in Nat \ {0}, p % d = 0
  PROVE  \E x \in Int : p = x * d
<1>1. p = (p \div d) * d /\ p \div d \in Int
  OBVIOUS
<1> QED  BY <1>1

(***************************************************************************)
(* A multiple of d leaves no remainder.                                    *)
(***************************************************************************)
LEMMA MultipleMod ==
  ASSUME NEW a \in Int, NEW d \in Nat \ {0}
  PROVE  (a * d) % d = 0
OBVIOUS

(***************************************************************************)
(* Multiplication is associative (SMT does not find it on its own).        *)
(***************************************************************************)
LEMMA Assoc ==
  ASSUME NEW a \in Int, NEW b \in Int, NEW c \in Int
  PROVE  a * (b * c) = (a * b) * c
OBVIOUS

(***************************************************************************)
(* The two ways to flip the lowest bit of p \div d.                        *)
(***************************************************************************)
LEMMA FlipArith ==
  ASSUME NEW p \in Nat, NEW d \in Nat \ {0}, p % d = 0
  PROVE  /\ (p + d) % d = 0
         /\ (p \div d) % 2 = 0 => p % (2 * d) = 0
         /\ (p \div d) % 2 # 0 => /\ p - d \in Nat
                                  /\ (p - d) % d = 0
                                  /\ (p - d) % (2 * d) = 0
<1> DEFINE m == p \div d
<1>1. p = m * d /\ m \in Int
  OBVIOUS
<1>2. m >= 0
  OBVIOUS
<1> HIDE DEF m
<1>3. (p + d) % d = 0
  <2>1. p + d = (m + 1) * d
    BY <1>1
  <2> QED  BY <1>1, <2>1
<1>4. ASSUME m % 2 = 0 PROVE p % (2 * d) = 0
  <2>1. PICK n \in Nat : m = 2 * n
    BY <1>1, <1>2, <1>4
  <2>2. p = n * (2 * d)
    BY <1>1, <2>1
  <2>3. PICK e \in Nat \ {0} : e = 2 * d
    OBVIOUS
  <2> QED  BY <2>2, <2>3
<1>5. ASSUME m % 2 # 0
      PROVE  p - d \in Nat /\ (p - d) % d = 0 /\ (p - d) % (2 * d) = 0
  <2>1. PICK n \in Nat : m = 2 * n + 1
    BY <1>1, <1>2, <1>5
  <2>2. p - d = n * (2 * d) /\ p - d = (2 * n) * d
    BY <1>1, <2>1
  <2>3. PICK e \in Nat \ {0} : e = 2 * d
    OBVIOUS
  <2>4. (p - d) % e = 0
    <3>1. PICK r \in Int : r = p - d /\ r = n * e
      BY <2>2, <2>3
    <3> QED  BY <3>1, MultipleMod
  <2>5. PICK c \in Nat : c = 2 * n
    OBVIOUS
  <2>6. (p - d) % d = 0
    BY <2>2, <2>5
  <2>7. p - d \in Nat
    BY <2>2, <2>3
  <2> QED  BY <2>3, <2>4, <2>6, <2>7
<1> QED  BY <1>3, <1>4, <1>5 DEF m

(***************************************************************************)
(* The buddy of an aligned block: the other half of the block one order up *)
(* whose start is the lower of the two.                                    *)
(***************************************************************************)
LEMMA BuddyFacts ==
  ASSUME NEW p \in Nat, NEW k \in 0 .. 8, p % Pow2(k) = 0
  PROVE  LET b   == pmm_buddy_pfn(p, k)
             low == IF b < p THEN b ELSE p
         IN  /\ b \in Nat
             /\ b % Pow2(k) = 0
             /\ b # p
             /\ low % Pow2(k + 1) = 0
             /\ \/ low = p /\ b = p + Pow2(k)
                \/ low = b /\ p = b + Pow2(k)
<1>1. PICK d \in Nat \ {0} : d = Pow2(k) /\ Pow2(k + 1) = 2 * d
  BY Pow2Facts
<1>2. /\ (p + d) % d = 0
      /\ (p \div d) % 2 = 0 => p % (2 * d) = 0
      /\ (p \div d) % 2 # 0 => /\ p - d \in Nat
                               /\ (p - d) % d = 0
                               /\ (p - d) % (2 * d) = 0
  BY <1>1, FlipArith
<1>3. CASE (p \div d) % 2 = 0
  <2>1. pmm_buddy_pfn(p, k) = p + d
    BY <1>1, <1>3 DEF pmm_buddy_pfn
  <2> QED  BY <1>1, <1>2, <1>3, <2>1
<1>4. CASE (p \div d) % 2 # 0
  <2>1. pmm_buddy_pfn(p, k) = p - d
    BY <1>1, <1>4 DEF pmm_buddy_pfn
  <2> QED  BY <1>1, <1>2, <1>4, <2>1
<1> QED  BY <1>3, <1>4

(***************************************************************************)
(* The buddy of the buddy is the block itself, and the buddy of the lower  *)
(* half is the upper half.                                                 *)
(***************************************************************************)
LEMMA NotBothEven ==
  ASSUME NEW x \in Nat, NEW d \in Nat \ {0}, NEW e \in Nat \ {0}, e = 2 * d,
         x % e = 0, (x + d) % e = 0
  PROVE  FALSE
<1>1. x \in Int /\ x + d \in Int
  OBVIOUS
<1>2. PICK u \in Int : x = u * e
  BY <1>1, Multiple, Zenon
<1>3. PICK v \in Int : x + d = v * e
  BY <1>1, Multiple, Zenon
<1>4. PICK w \in Int : w = v - u
  OBVIOUS
<1>5. w * e = d
  BY <1>2, <1>3, <1>4
<1>6. CASE w >= 1
  <2>1. w * e >= e
    BY <1>6
  <2> QED  BY <1>5, <2>1
<1>7. CASE w <= 0
  <2>1. w * e <= 0
    BY <1>7
  <2> QED  BY <1>5, <2>1
<1> QED  BY <1>6, <1>7

LEMMA BuddyTwice ==
  ASSUME NEW p \in Nat, NEW k \in 0 .. 8, p % Pow2(k) = 0
  PROVE  /\ pmm_buddy_pfn(pmm_buddy_pfn(p, k), k) = p
         /\ p % Pow2(k + 1) = 0 => pmm_buddy_pfn(p, k) = p + Pow2(k)
<1>1. PICK d \in Nat \ {0}, e \in Nat \ {0} : d = Pow2(k) /\ e = Pow2(k + 1) /\ e = 2 * d
  BY Pow2Facts
<1>2. PICK b : b = pmm_buddy_pfn(p, k)
  OBVIOUS
<1>3. /\ b \in Nat /\ b % d = 0
      /\ (b = p + d /\ p % e = 0) \/ (p = b + d /\ b % e = 0)
  <2>1. PICK l : l = IF b < p THEN b ELSE p
    OBVIOUS
  <2>2. /\ b \in Nat /\ b % Pow2(k) = 0 /\ l % Pow2(k + 1) = 0
        /\ (l = p /\ b = p + Pow2(k)) \/ (l = b /\ p = b + Pow2(k))
    BY <1>2, <2>1, BuddyFacts
  <2> QED  BY <1>1, <2>2
<1>4. PICK c : c = pmm_buddy_pfn(b, k)
  OBVIOUS
<1>5. c \in Nat /\ ((c = b + d /\ b % e = 0) \/ (b = c + d /\ c % e = 0))
  <2>1. PICK l : l = IF c < b THEN c ELSE b
    OBVIOUS
  <2>2. b \in Nat /\ b % Pow2(k) = 0
    BY <1>1, <1>3
  <2>3. /\ c \in Nat /\ c % Pow2(k) = 0 /\ l % Pow2(k + 1) = 0
        /\ (l = b /\ c = b + Pow2(k)) \/ (l = c /\ b = c + Pow2(k))
    BY <1>4, <2>1, <2>2, BuddyFacts
  <2> QED  BY <1>1, <2>3
<1>6. c = p
  <2>1. CASE b = p + d /\ p % e = 0
    <3>1. ~ (b % e = 0)
      BY <1>1, <2>1, NotBothEven
    <3> QED  BY <1>5, <2>1, <3>1
  <2>2. CASE p = b + d /\ b % e = 0
    <3>1. ~ (b = c + d /\ c % e = 0)
      BY <1>1, <1>5, <2>2, NotBothEven
    <3> QED  BY <1>5, <2>2, <3>1
  <2> QED  BY <1>3, <2>1, <2>2
<1>7. ASSUME p % e = 0 PROVE b = p + d
  BY <1>1, <1>3, <1>7, NotBothEven
<1> QED  BY <1>1, <1>2, <1>4, <1>6, <1>7

(***************************************************************************)
(* A small aligned block that contains the start of a larger aligned block *)
(* starts there too.                                                       *)
(***************************************************************************)
LEMMA SmallInside ==
  ASSUME NEW h \in Nat, NEW b \in Nat, NEW j \in 0 .. 9, NEW k \in j .. 9,
         h % Pow2(j) = 0, b % Pow2(k) = 0, h <= b, b < h + Pow2(j)
  PROVE  h = b
<1>1. PICK d \in Nat \ {0} : d = Pow2(j)
  BY Pow2Facts
<1>2. PICK m \in Nat : m >= 1 /\ Pow2(k) = m * d
  BY <1>1, Pow2Divides
<1>3. PICK e \in Nat \ {0} : e = m * d /\ e = Pow2(k)
  BY <1>1, <1>2, Pow2Facts
<1>a. h % d = 0 /\ b % e = 0 /\ h \in Int /\ b \in Int
  BY <1>1, <1>3
<1>4. PICK x \in Int : h = x * d
  BY <1>a, Multiple, Zenon
<1>5. PICK y \in Int : b = y * e
  BY <1>a, Multiple, Zenon
<1>6. PICK z \in Int : z = y * m
  OBVIOUS
<1>7. b = z * d
  <2>1. y * (m * d) = (y * m) * d
    BY Assoc
  <2> QED  BY <1>3, <1>5, <1>6, <2>1
<1>8. x * d <= z * d /\ z * d < x * d + d
  BY <1>1, <1>4, <1>7
<1>9. x = z
  BY <1>8
<1> QED  BY <1>4, <1>7, <1>9

(***************************************************************************)
(* A larger aligned block that meets a smaller one contains all of it.     *)
(***************************************************************************)
LEMMA LargeContains ==
  ASSUME NEW h \in Nat, NEW l \in Nat, NEW q \in Nat,
         NEW j \in 0 .. 9, NEW k \in j .. 9,
         h % Pow2(k) = 0, l % Pow2(j) = 0,
         h <= q, q < h + Pow2(k), l <= q, q < l + Pow2(j)
  PROVE  h <= l /\ l + Pow2(j) <= h + Pow2(k)
<1>1. PICK d \in Nat \ {0} : d = Pow2(j)
  BY Pow2Facts
<1>2. PICK m \in Nat : m >= 1 /\ Pow2(k) = m * d
  BY <1>1, Pow2Divides
<1>3. PICK e \in Nat \ {0} : e = m * d /\ e = Pow2(k)
  BY <1>1, <1>2, Pow2Facts
<1>a. h % e = 0 /\ l % d = 0 /\ h \in Int /\ l \in Int
  BY <1>1, <1>3
<1>4. PICK x \in Int : h = x * e
  BY <1>a, Multiple, Zenon
<1>5. PICK y \in Int : l = y * d
  BY <1>a, Multiple, Zenon
<1>6. PICK u \in Int : u = x * m
  OBVIOUS
<1>7. h = u * d
  <2>1. x * (m * d) = (x * m) * d
    BY Assoc
  <2> QED  BY <1>3, <1>4, <1>6, <2>1
<1>8. PICK v \in Int : v = u + m /\ h + e = v * d
  BY <1>3, <1>7
<1>9. PICK w \in Int : w = y + 1 /\ l + d = w * d
  BY <1>5
<1>10. u * d < w * d /\ y * d < v * d
  BY <1>1, <1>3, <1>5, <1>7, <1>8, <1>9
<1>11. u < w /\ y < v
  BY <1>10
<1>12. u <= y /\ w <= v
  BY <1>8, <1>9, <1>11
<1>13. u * d <= y * d /\ w * d <= v * d
  BY <1>12
<1> QED  BY <1>1, <1>3, <1>5, <1>7, <1>8, <1>9, <1>13
-----------------------------------------------------------------------------
(***************************************************************************)
(* The inductive invariant.  NoOverlap alone is not inductive: the merge   *)
(* loop trusts flags, and the lists trust links.                           *)
(***************************************************************************)

(***************************************************************************)
(* The free lists, said locally: heads, next and prev agree, lead only to  *)
(* listed pages of one order, and a page off the lists has no prev.        *)
(***************************************************************************)
HeadsOK ==
  \A k \in Orders : head[k] # NULL =>
    Listed(head[k]) /\ order[head[k]] = k /\ prev[head[k]] = NULL

NextOK ==
  \A p \in DbPfns : Listed(p) /\ next[p] # NULL =>
    Listed(next[p]) /\ order[next[p]] = order[p] /\ prev[next[p]] = p

PrevOK ==
  \A p \in DbPfns : prev[p] # NULL =>
    Listed(p) /\ Listed(prev[p]) /\ order[prev[p]] = order[p] /\ next[prev[p]] = p

LinksOK == HeadsOK /\ NextOK /\ PrevOK

(***************************************************************************)
(* Where the control is, what has been set up.                             *)
(***************************************************************************)
PhaseOK ==
  /\ pc = "boot" => ~g_pfndb /\ memmap \in MemMaps /\ page = 0
  /\ pc \in {"boot", "pfndb", "halt"} =>
       /\ ~g_pmm_ready
       /\ \A k \in Orders : head[k] = NULL
       /\ \A p \in DbPfns : prev[p] = NULL
  /\ pc \in {"scan", "coalesce", "split", "idle"} => g_pfndb
  /\ pc = "scan" => ~g_pmm_ready
  /\ pc \in {"split", "idle"} => g_pmm_ready
  /\ ~g_pmm_ready => held = {}

(***************************************************************************)
(* A block is in one place only: on a list, held, or in hand.              *)
(***************************************************************************)
OnePlace ==
  /\ \A p \in held : "FREE" \notin flags[p]
  /\ \A p \in InHand : p \notin held /\ ~Listed(p)

(***************************************************************************)
(* A page that carries the FREE flag is inside some block, once pmm_init   *)
(* has cleared the flags pfndb_init left: this is what makes the flag of a *)
(* buddy trustworthy.                                                      *)
(***************************************************************************)
FreeFlagInBlock ==
  pc \in {"scan", "coalesce", "split", "idle"} =>
    \A q \in Pfns : "FREE" \in flags[q] => \E h \in Heads : q \in BlockPages(h)

(***************************************************************************)
(* The second loop of pmm_init: blocks exist only below scan, and from     *)
(* scan on every page is as the first loop left it.                        *)
(***************************************************************************)
ScanOK ==
  pc = "scan" \/ (pc = "coalesce" /\ ~g_pmm_ready) =>
    /\ \A h \in Heads : h + Pow2(OrderOf(h)) <= scan
    /\ \A q \in Pfns : q >= scan => order[q] = 0 /\ "FREE" \notin flags[q]

SplitOK == pc = "split" => req <= cur

(***************************************************************************)
(* Two halves of one block are never both listed: pmm_free_block would     *)
(* have merged them.                                                       *)
(***************************************************************************)
NoBuddies ==
  \A p, q \in DbPfns :
    Listed(p) /\ Listed(q) /\ order[p] = order[q] /\ order[p] + 1 < PMM_MAX_ORDER =>
      q # pmm_buddy_pfn(p, order[p])

IInv ==
  /\ TypeOK
  /\ PhaseOK
  /\ LinksOK
  /\ OnePlace
  /\ NoOverlap
  /\ FreeFlagInBlock
  /\ ScanOK
  /\ SplitOK
  /\ NoBuddies

(***************************************************************************)
(* What a step may do to the pages as a whole: most of them only move      *)
(* blocks between lists and the hand of the running call.                  *)
(***************************************************************************)
HeldBlocks == {<<p, order[p]>> : p \in held}

Kept == FreePages' = FreePages /\ HeldPages' = HeldPages /\ HeldBlocks' = HeldBlocks

Given(p, k) ==
  /\ BlockPages(p) = p .. (p + Pow2(k) - 1) /\ p % Pow2(k) = 0
  /\ p \in BlockPages(p) /\ BlockPages(p) \subseteq FreePages
  /\ FreePages' = FreePages \ BlockPages(p)
  /\ HeldPages' = HeldPages \cup BlockPages(p)
  /\ HeldBlocks' = HeldBlocks \cup {<<p, k>>}

TakenBack(p, k) ==
  /\ BlockPages(p) = p .. (p + Pow2(k) - 1)
  /\ BlockPages(p) \cap FreePages = {} /\ BlockPages(p) \subseteq HeldPages
  /\ FreePages' = FreePages \cup BlockPages(p)
  /\ HeldPages' = HeldPages \ BlockPages(p)
  /\ <<p, k>> \in HeldBlocks /\ HeldBlocks' = HeldBlocks \ {<<p, k>>}

-----------------------------------------------------------------------------
(***************************************************************************)
(* pmm_prepare_page and pmm_list_push put one more page on the lists.      *)
(***************************************************************************)
LEMMA PushOK ==
  ASSUME TypeOK, LinksOK, g_pfndb,
         NEW k \in Orders, NEW p \in Pfns, ~Listed(p),
         pmm_prepare_page(p, {"FREE"}, k), pmm_list_push(k, p),
         UNCHANGED <<g_pfndb, g_max_pfn>>
  PROVE  /\ flags' \in [Pfns -> SUBSET PageFlags]
         /\ order' \in [Pfns -> Orders]
         /\ next' \in [Pfns -> Pfns \cup {NULL}]
         /\ prev' \in [Pfns -> Pfns \cup {NULL}]
         /\ head' \in [Orders -> Pfns \cup {NULL}]
         /\ count' \in [Orders -> Int]
         /\ \A q \in Pfns : Listed(q)' <=> (Listed(q) \/ q = p)
         /\ LinksOK'
<1>1. /\ flags \in [Pfns -> SUBSET PageFlags]
      /\ order \in [Pfns -> Orders]
      /\ next \in [Pfns -> Pfns \cup {NULL}]
      /\ prev \in [Pfns -> Pfns \cup {NULL}]
      /\ head \in [Orders -> Pfns \cup {NULL}]
      /\ count \in [Orders -> Int]
      /\ Pfns' = Pfns /\ DbPfns' = Pfns /\ DbPfns = Pfns
      /\ NULL \notin Pfns
  BY SMTT(30), NullAssumption DEF TypeOK, Pfns, DbPfns
<1>2. /\ flags' \in [Pfns -> SUBSET PageFlags]
      /\ order' \in [Pfns -> Orders]
      /\ next' \in [Pfns -> Pfns \cup {NULL}]
      /\ prev' \in [Pfns -> Pfns \cup {NULL}]
      /\ head' \in [Orders -> Pfns \cup {NULL}]
  BY <1>1 DEF pmm_prepare_page, pmm_list_push, PageFlags
<1>3. count' \in [Orders -> Int]
  BY <1>1 DEF pmm_list_push
<1>4. /\ flags'[p] = {"FREE"} /\ order'[p] = k
      /\ next'[p] = head[k] /\ head'[k] = p
      /\ \A q \in Pfns : q # p => flags'[q] = flags[q] /\ order'[q] = order[q]
                                  /\ next'[q] = next[q]
      /\ \A j \in Orders : j # k => head'[j] = head[j]
  BY <1>1 DEF pmm_prepare_page, pmm_list_push
<1>5. \A q \in Pfns : prev'[q] = IF q = head[k] THEN p ELSE IF q = p THEN NULL ELSE prev[q]
  BY <1>1 DEF pmm_list_push
<1>6. head[k] # p
  BY <1>1 DEF LinksOK, HeadsOK
<1>7. \A q \in Pfns : Listed(q)' <=> (Listed(q) \/ q = p)
  <2>1. Listed(p)'
    BY <1>4 DEF Listed
  <2>2. ASSUME NEW q \in Pfns, q # p  PROVE Listed(q)' <=> Listed(q)
    <3>1. CASE q = head[k]
      BY <1>1, <1>4, <1>5, <2>2, <3>1 DEF Listed, LinksOK, HeadsOK
    <3>2. CASE q # head[k]
      BY <1>1, <1>4, <1>5, <2>2, <3>2 DEF Listed
    <3> QED  BY <3>1, <3>2
  <2> QED  BY <2>1, <2>2
<1>8. HeadsOK'
  <2> SUFFICES ASSUME NEW j \in Orders, head'[j] # NULL
               PROVE  Listed(head[j])' /\ order'[head'[j]] = j /\ prev'[head'[j]] = NULL
    BY DEF HeadsOK
  <2>1. CASE j = k
    BY <1>1, <1>4, <1>5, <1>6, <1>7, <2>1
  <2>2. CASE j # k
    BY <1>1, <1>4, <1>5, <1>6, <1>7, <2>2 DEF LinksOK, HeadsOK
  <2> QED  BY <2>1, <2>2
<1>9. NextOK'
  <2> SUFFICES ASSUME NEW q \in Pfns, Listed(q)', next'[q] # NULL
               PROVE  /\ Listed(next[q])'
                      /\ order'[next'[q]] = order'[q]
                      /\ prev'[next'[q]] = q
    BY <1>1 DEF NextOK
  <2>1. CASE q = p
    BY <1>1, <1>4, <1>5, <1>6, <1>7, <2>1 DEF LinksOK, HeadsOK
  <2>2. CASE q # p
    <3>1. Listed(q) /\ next[q] # NULL /\ next'[q] = next[q]
      BY <1>4, <1>7, <2>2
    <3>2. Listed(next[q]) /\ order[next[q]] = order[q] /\ prev[next[q]] = q
      BY <1>1, <3>1 DEF LinksOK, NextOK
    <3>3. next[q] # head[k]
      BY <1>1, <3>1, <3>2 DEF LinksOK, HeadsOK
    <3> QED  BY <1>1, <1>4, <1>5, <1>7, <2>2, <3>1, <3>2, <3>3
  <2> QED  BY <2>1, <2>2
<1>10. PrevOK'
  <2> SUFFICES ASSUME NEW q \in Pfns, prev'[q] # NULL
               PROVE  /\ Listed(q)' /\ Listed(prev[q])'
                      /\ order'[prev'[q]] = order'[q]
                      /\ next'[prev'[q]] = q
    BY <1>1 DEF PrevOK
  <2>1. CASE q = head[k]
    BY <1>1, <1>4, <1>5, <1>6, <1>7, <2>1 DEF LinksOK, HeadsOK
  <2>2. CASE q # head[k]
    <3>1. q # p /\ prev'[q] = prev[q] /\ prev[q] # NULL
      BY <1>5, <2>2
    <3>2. Listed(q) /\ Listed(prev[q]) /\ order[prev[q]] = order[q] /\ next[prev[q]] = q
      BY <1>1, <3>1 DEF LinksOK, PrevOK
    <3> QED  BY <1>1, <1>4, <1>7, <3>1, <3>2
  <2> QED  BY <2>1, <2>2
<1> QED  BY <1>2, <1>3, <1>7, <1>8, <1>9, <1>10 DEF LinksOK

(***************************************************************************)
(* pmm_list_remove takes one page off the lists.  The order of that page,  *)
(* or of a page that was on no list, may change in the same step.          *)
(***************************************************************************)
LEMMA RemoveOK ==
  ASSUME TypeOK, LinksOK, g_pfndb,
         NEW p \in Pfns, Listed(p),
         NEW k \in Orders, k = order[p],
         NEW l \in Pfns, l = p \/ ~Listed(l), NEW m \in Orders,
         pmm_list_remove(k, p), order' = [order EXCEPT ![l] = m],
         UNCHANGED <<g_pfndb, g_max_pfn, flags>>
  PROVE  /\ order' \in [Pfns -> Orders]
         /\ next' \in [Pfns -> Pfns \cup {NULL}]
         /\ prev' \in [Pfns -> Pfns \cup {NULL}]
         /\ head' \in [Orders -> Pfns \cup {NULL}]
         /\ count' \in [Orders -> Int]
         /\ \A q \in Pfns : Listed(q)' <=> (Listed(q) /\ q # p)
         /\ LinksOK'
<1>1. /\ flags \in [Pfns -> SUBSET PageFlags] /\ flags' = flags
      /\ order \in [Pfns -> Orders]
      /\ next \in [Pfns -> Pfns \cup {NULL}]
      /\ prev \in [Pfns -> Pfns \cup {NULL}]
      /\ head \in [Orders -> Pfns \cup {NULL}]
      /\ count \in [Orders -> Int]
      /\ Pfns' = Pfns /\ DbPfns' = Pfns /\ DbPfns = Pfns
      /\ NULL \notin Pfns
  BY SMTT(30), NullAssumption DEF TypeOK, Pfns, DbPfns
<1>2. /\ order' \in [Pfns -> Orders]
      /\ next' \in [Pfns -> Pfns \cup {NULL}]
      /\ prev' \in [Pfns -> Pfns \cup {NULL}]
      /\ head' \in [Orders -> Pfns \cup {NULL}]
  BY <1>1 DEF pmm_list_remove
<1>3. count' \in [Orders -> Int]
  BY <1>1 DEF pmm_list_remove
<1>4. /\ \A q \in Pfns : order'[q] = IF q = l THEN m ELSE order[q]
      /\ \A q \in Pfns : next'[q] = IF q = p THEN NULL
                                    ELSE IF q = prev[p] THEN next[p] ELSE next[q]
      /\ \A q \in Pfns : prev'[q] = IF q = p THEN NULL
                                    ELSE IF q = next[p] THEN prev[p] ELSE prev[q]
      /\ \A j \in Orders : head'[j] = IF j = k /\ prev[p] = NULL THEN next[p] ELSE head[j]
  BY <1>1 DEF pmm_list_remove
<1>5. /\ prev[p] = NULL => head[k] = p
      /\ prev[p] # NULL => head[k] # p
      /\ \A j \in Orders : j # k => head[j] # p
      /\ next[p] # NULL => /\ Listed(next[p]) /\ order[next[p]] = k
                           /\ prev[next[p]] = p
      /\ prev[p] # NULL => /\ Listed(prev[p]) /\ order[prev[p]] = k
                           /\ next[prev[p]] = p
  BY <1>1 DEF LinksOK, HeadsOK, NextOK, PrevOK, Listed
<1>6. \A q \in Pfns : Listed(q)' <=> (Listed(q) /\ q # p)
  <2>1. ~Listed(p)'
    <3>1. prev'[p] = NULL /\ order'[p] \in Orders
      BY <1>2, <1>4
    <3>2. \A j \in Orders : head'[j] # p
      BY <1>1, <1>4, <1>5
    <3> QED  BY <3>1, <3>2 DEF Listed
  <2>2. ASSUME NEW q \in Pfns, q # p, q = l  PROVE ~Listed(q) /\ ~Listed(q)'
    <3>1. ~Listed(q) /\ order'[q] = m
      BY <1>4, <2>2
    <3>2. prev[q] = NULL /\ q # next[p]
      BY <1>1, <1>5, <3>1 DEF LinksOK, PrevOK
    <3>3. head[m] # q
      BY <1>1, <3>1 DEF LinksOK, HeadsOK
    <3> QED  BY <1>4, <2>2, <3>1, <3>2, <3>3 DEF Listed
  <2>3. ASSUME NEW q \in Pfns, q # p, q # l  PROVE Listed(q)' <=> Listed(q)
    <3>1. order'[q] = order[q] /\ order[q] \in Orders /\ flags'[q] = flags[q]
      BY <1>1, <1>4, <2>3
    <3>2. CASE q = next[p]
      <4>1. Listed(q) /\ order[q] = k /\ prev[q] = p
        BY <1>1, <1>5, <3>2
      <4>2. prev[p] = NULL => head'[k] = q
        BY <1>4, <3>2
      <4>3. prev[p] # NULL => prev'[q] # NULL
        BY <1>4, <2>3, <3>2
      <4> QED  BY <3>1, <4>1, <4>2, <4>3 DEF Listed
    <3>3. CASE q # next[p]
      <4>1. prev'[q] = prev[q]
        BY <1>4, <2>3, <3>3
      <4>2. head'[order[q]] = q <=> head[order[q]] = q
        BY <1>4, <1>5, <2>3, <3>1, <3>3
      <4> QED  BY <3>1, <4>1, <4>2 DEF Listed
    <3> QED  BY <3>2, <3>3
  <2> QED  BY <2>1, <2>2, <2>3
<1>7. \A q \in Pfns : Listed(q)' => order'[q] = order[q]
  BY <1>4, <1>6
<1>8. HeadsOK'
  <2> SUFFICES ASSUME NEW j \in Orders, head'[j] # NULL
               PROVE  Listed(head[j])' /\ order'[head'[j]] = j /\ prev'[head'[j]] = NULL
    BY DEF HeadsOK
  <2>1. CASE j = k /\ prev[p] = NULL
    <3>1. head'[j] = next[p] /\ next[p] \in Pfns
      BY <1>1, <1>4, <2>1
    <3>2. next[p] # p
      BY <1>1, <1>5, <2>1, <3>1
    <3> QED  BY <1>1, <1>4, <1>5, <1>6, <1>7, <2>1, <3>1, <3>2
  <2>2. CASE ~(j = k /\ prev[p] = NULL)
    <3>1. head'[j] = head[j] /\ head[j] \in Pfns
      BY <1>1, <1>4, <2>2
    <3>2. head[j] # p
      BY <1>5, <2>2
    <3>3. Listed(head[j]) /\ order[head[j]] = j /\ prev[head[j]] = NULL
      BY <1>1, <3>1 DEF LinksOK, HeadsOK
    <3>4. Listed(head[j])'
      BY <1>6, <3>1, <3>2, <3>3
    <3>5. head[j] # next[p]
      BY <1>1, <1>5, <3>1, <3>3
    <3> QED  BY <1>4, <1>7, <3>1, <3>2, <3>3, <3>4, <3>5
  <2> QED  BY <2>1, <2>2
<1>9. NextOK'
  <2> SUFFICES ASSUME NEW q \in Pfns, Listed(q)', next'[q] # NULL
               PROVE  /\ Listed(next[q])'
                      /\ order'[next'[q]] = order'[q]
                      /\ prev'[next'[q]] = q
    BY <1>1 DEF NextOK
  <2>1. Listed(q) /\ q # p /\ order'[q] = order[q]
    BY <1>6, <1>7
  <2>2. CASE q = prev[p]
    <3>1. next'[q] = next[p] /\ next[p] \in Pfns
      BY <1>1, <1>4, <2>1, <2>2
    <3>2. Listed(next[p]) /\ order[next[p]] = k /\ order[q] = k
      BY <1>1, <1>5, <2>2, <3>1
    <3>3. next[p] # p
      BY <1>1, <1>5, <2>1, <2>2, <3>1
    <3> QED  BY <1>1, <1>4, <1>6, <1>7, <2>1, <2>2, <3>1, <3>2, <3>3
  <2>3. CASE q # prev[p]
    <3>1. next'[q] = next[q] /\ next[q] \in Pfns
      BY <1>1, <1>4, <2>1, <2>3
    <3>2. Listed(next[q]) /\ order[next[q]] = order[q] /\ prev[next[q]] = q
      BY <1>1, <2>1, <3>1 DEF LinksOK, NextOK
    <3>3. next[q] # p /\ next[q] # next[p]
      BY <1>1, <1>5, <2>1, <2>3, <3>1, <3>2
    <3> QED  BY <1>1, <1>4, <1>6, <1>7, <2>1, <3>1, <3>2, <3>3
  <2> QED  BY <2>2, <2>3
<1>10. PrevOK'
  <2> SUFFICES ASSUME NEW q \in Pfns, prev'[q] # NULL
               PROVE  /\ Listed(q)' /\ Listed(prev[q])'
                      /\ order'[prev'[q]] = order'[q]
                      /\ next'[prev'[q]] = q
    BY <1>1 DEF PrevOK
  <2>1. q # p
    BY <1>4
  <2>2. CASE q = next[p]
    <3>1. prev'[q] = prev[p] /\ prev[p] \in Pfns
      BY <1>1, <1>4, <2>1, <2>2
    <3>2. /\ Listed(q) /\ order[q] = k
          /\ Listed(prev[p]) /\ order[prev[p]] = k
      BY <1>1, <1>5, <2>2, <3>1
    <3>3. prev[p] # p
      BY <1>1, <1>5, <2>1, <2>2, <3>1
    <3> QED  BY <1>1, <1>4, <1>6, <1>7, <2>1, <2>2, <3>1, <3>2, <3>3
  <2>3. CASE q # next[p]
    <3>1. prev'[q] = prev[q] /\ prev[q] \in Pfns
      BY <1>1, <1>4, <2>1, <2>3
    <3>2. /\ Listed(q) /\ Listed(prev[q])
          /\ order[prev[q]] = order[q] /\ next[prev[q]] = q
      BY <1>1, <3>1 DEF LinksOK, PrevOK
    <3>3. prev[q] # p /\ prev[q] # prev[p]
      BY <1>1, <1>5, <2>1, <2>3, <3>1, <3>2
    <3> QED  BY <1>1, <1>4, <1>6, <1>7, <2>1, <3>1, <3>2, <3>3
  <2> QED  BY <2>2, <2>3
<1> QED  BY <1>2, <1>3, <1>6, <1>8, <1>9, <1>10 DEF LinksOK

-----------------------------------------------------------------------------
(***************************************************************************)
(* Facts about the blocks that every action's proof uses.                  *)
(***************************************************************************)
LEMMA OrderRange == Orders \subseteq 0 .. 9 /\ 0 \in Orders
BY MaxOrderAssumption DEF Orders

(***************************************************************************)
(* The heads of blocks are page frames and have an order and a size.       *)
(***************************************************************************)
LEMMA HeadFacts ==
  ASSUME IInv
  PROVE  /\ Heads \subseteq Pfns /\ Pfns \subseteq Nat
         /\ Heads # {} => g_pfndb
         /\ \A h \in Heads : /\ OrderOf(h) \in Orders
                             /\ Pow2(OrderOf(h)) \in Nat
                             /\ Pow2(OrderOf(h)) >= 1
                             /\ BlockPages(h) \subseteq Pfns
                             /\ h \in BlockPages(h)
<1>1. Heads \subseteq Pfns /\ Pfns \subseteq Nat
  <2>1. Pfns \subseteq Nat
    BY DEF IInv, TypeOK, Pfns
  <2>2. DbPfns \subseteq Pfns /\ InHand \subseteq Pfns /\ held \subseteq Pfns
    BY DEF IInv, TypeOK, DbPfns, InHand
  <2> QED  BY <2>1, <2>2 DEF Heads, FreeHeads
<1>2. Heads # {} => g_pfndb
  BY DEF IInv, PhaseOK, Heads, FreeHeads, InHand, DbPfns, TypeOK
<1>3. ASSUME NEW h \in Heads
      PROVE  OrderOf(h) \in Orders /\ Pow2(OrderOf(h)) \in Nat /\ Pow2(OrderOf(h)) >= 1
  <2>1. OrderOf(h) \in Orders
    BY <1>1, <1>2, <1>3 DEF IInv, TypeOK, OrderOf, InHand
  <2> QED  BY <2>1, OrderRange, Pow2Facts
<1>4. ASSUME NEW h \in Heads
      PROVE  BlockPages(h) \subseteq Pfns /\ h \in BlockPages(h)
  <2>1. h \in Nat /\ h + Pow2(OrderOf(h)) <= g_max_pfn + 1 /\ g_max_pfn \in Nat
    BY <1>1 DEF IInv, NoOverlap, BlockOK, TypeOK
  <2> QED  BY <1>3, <2>1 DEF BlockPages, Pfns
<1> QED  BY <1>1, <1>2, <1>3, <1>4

(***************************************************************************)
(* A step that leaves the blocks as they are, whichever place they move to *)
(* and whatever happens to the flags of their first pages.                 *)
(***************************************************************************)
LEMMA SameBlocks ==
  ASSUME IInv, pc \in {"scan", "coalesce", "split", "idle"},
         UNCHANGED g_max_pfn,
         Heads' = Heads,
         \A h \in Heads : OrderOf(h)' = OrderOf(h),
         \A q \in Pfns : "RESERVED" \in flags'[q] => "RESERVED" \in flags[q],
         \A q \in Pfns : "FREE" \in flags'[q] => "FREE" \in flags[q] \/ q \in Heads
  PROVE  NoOverlap' /\ FreeFlagInBlock'
<1>1. \A h \in Heads : BlockPages(h)' = BlockPages(h)
  BY DEF BlockPages
<1>2. NoOverlap'
  <2>1. ASSUME NEW h \in Heads PROVE BlockOK(h)'
    <3>1. BlockOK(h) /\ BlockPages(h) \subseteq Pfns
      BY HeadFacts DEF IInv, NoOverlap
    <3> QED  BY <1>1, <3>1 DEF BlockOK
  <2>2. ASSUME NEW h \in Heads, NEW g \in Heads, h # g PROVE Apart(h, g)'
    BY <2>2 DEF IInv, NoOverlap, Apart
  <2> QED  BY <2>1, <2>2 DEF NoOverlap
<1>3. FreeFlagInBlock'
  <2> SUFFICES ASSUME NEW q \in Pfns, "FREE" \in flags'[q]
               PROVE  \E h \in Heads : q \in BlockPages(h)
    BY <1>1 DEF FreeFlagInBlock, Pfns
  <2>1. CASE q \in Heads
    BY <2>1, HeadFacts
  <2>2. CASE "FREE" \in flags[q]
    BY <2>2 DEF IInv, FreeFlagInBlock
  <2> QED  BY <2>1, <2>2
<1> QED  BY <1>2, <1>3

(***************************************************************************)
(* Taking pages off the lists leaves no buddies where there were none.     *)
(***************************************************************************)
LEMMA FewerListed ==
  ASSUME NoBuddies, DbPfns' = DbPfns,
         \A q \in DbPfns : Listed(q)' => Listed(q) /\ order'[q] = order[q]
  PROVE  NoBuddies'
BY DEF NoBuddies

(***************************************************************************)
(* Putting a page on a list, when its buddy is not there.                  *)
(***************************************************************************)
LEMMA OneMoreListed ==
  ASSUME IInv, g_pfndb, g_pfndb', Pfns' = Pfns,
         NEW p \in Pfns, NEW k \in Orders, p % Pow2(k) = 0,
         \A q \in Pfns : Listed(q)' <=> (Listed(q) \/ q = p),
         \A q \in Pfns : q # p => order'[q] = order[q],
         order'[p] = k,
         k + 1 < PMM_MAX_ORDER =>
           LET b == pmm_buddy_pfn(p, k) IN b \in Pfns /\ Listed(b) => order[b] # k
  PROVE  NoBuddies'
<1>1. DbPfns = Pfns /\ DbPfns' = Pfns /\ Pfns \subseteq Nat
  BY HeadFacts DEF DbPfns
<1>2. SUFFICES ASSUME NEW x \in Pfns, NEW y \in Pfns, Listed(x)', Listed(y)',
                      order'[x] = order'[y], order'[x] + 1 < PMM_MAX_ORDER
               PROVE  y # pmm_buddy_pfn(x, order'[x])
  BY <1>1 DEF NoBuddies
<1>3. CASE x # p /\ y # p
  BY <1>1, <1>2, <1>3 DEF IInv, NoBuddies
<1>4. ASSUME k + 1 < PMM_MAX_ORDER
      PROVE  k \in 0 .. 8 /\ p \in Nat /\ pmm_buddy_pfn(p, k) # p
  BY <1>1, <1>4, MaxOrderAssumption, BuddyFacts DEF Orders
<1>5. CASE x = p
  BY <1>2, <1>4, <1>5
<1>6. CASE x # p /\ y = p
  <2>1. Listed(x) /\ order[x] = k /\ k + 1 < PMM_MAX_ORDER /\ k \in 0 .. 8
    BY <1>2, <1>4, <1>6
  <2>2. x \in Heads /\ x \in Nat /\ OrderOf(x) = k
    <3>1. x \notin InHand
      BY <2>1 DEF IInv, OnePlace
    <3> QED  BY <1>1, <2>1, <3>1 DEF Heads, FreeHeads, OrderOf
  <2>3. x % Pow2(k) = 0
    BY <2>2 DEF IInv, NoOverlap, BlockOK
  <2>4. pmm_buddy_pfn(x, k) = p => x = pmm_buddy_pfn(p, k)
    BY <2>1, <2>2, <2>3, BuddyTwice
  <2> QED  BY <1>2, <1>6, <2>1, <2>4
<1> QED  BY <1>3, <1>5, <1>6

(***************************************************************************)
(* Pages and blocks stay the same when their heads and orders do.          *)
(***************************************************************************)
LEMMA SameFree ==
  ASSUME FreeHeads' = FreeHeads, \A h \in FreeHeads : OrderOf(h)' = OrderOf(h)
  PROVE  FreePages' = FreePages
BY DEF FreePages, BlockPages

LEMMA SameHeld ==
  ASSUME IInv, IInv', held' = held, \A h \in held : OrderOf(h)' = OrderOf(h)
  PROVE  HeldPages' = HeldPages /\ HeldBlocks' = HeldBlocks
<1>1. \A h \in held : OrderOf(h) = order[h] /\ OrderOf(h)' = order'[h]
  BY DEF IInv, OnePlace, OrderOf
<1>2. HeldPages' = HeldPages
  BY DEF HeldPages, BlockPages
<1> QED  BY <1>1, <1>2 DEF HeldBlocks

(***************************************************************************)
(* Two blocks have no page in common.                                      *)
(***************************************************************************)
LEMMA BlocksApart ==
  ASSUME IInv, NEW g \in Heads, NEW h \in Heads, g # h
  PROVE  BlockPages(g) \cap BlockPages(h) = {}
<1>1. PICK m \in Nat, n \in Nat : /\ m = Pow2(OrderOf(g)) /\ n = Pow2(OrderOf(h))
                                 /\ g \in Nat /\ h \in Nat
  BY HeadFacts
<1>2. g + m <= h \/ h + n <= g
  BY <1>1 DEF IInv, NoOverlap, Apart
<1> QED  BY <1>1, <1>2 DEF BlockPages

(***************************************************************************)
(* Before pmm_init no page is free, and none is held.                      *)
(***************************************************************************)
LEMMA NothingYet ==
  ASSUME IInv, pc \in {"boot", "pfndb", "halt"}
  PROVE  FreePages = {} /\ HeldPages = {} /\ HeldBlocks = {} /\ ~g_pmm_ready
<1>1. ASSUME NEW p \in DbPfns PROVE ~Listed(p)
  <2>1. order[p] \in Orders /\ p # NULL
    BY NullAssumption DEF DbPfns, IInv, TypeOK, Pfns
  <2> QED  BY <2>1 DEF IInv, PhaseOK, Listed
<1>2. FreeHeads = {} /\ held = {} /\ ~g_pmm_ready
  BY <1>1 DEF FreeHeads, InHand, IInv, PhaseOK
<1> QED  BY <1>2 DEF FreePages, HeldPages, HeldBlocks

-----------------------------------------------------------------------------
(***************************************************************************)
(* The boot sequence preserves the invariant.                              *)
(***************************************************************************)
LEMMA InitIInv == Init => IInv
<1> SUFFICES ASSUME Init PROVE IInv
  OBVIOUS
<1>1. TypeOK
  <2>1. head \in [Orders -> Pfns \cup {NULL}] /\ count \in [Orders -> Int]
    BY DEF Init
  <2>2. g_pfndb = FALSE /\ g_max_pfn = 0 /\ page \in Pfns
    BY DEF Init, PfndbInit, Pfns
  <2> QED  BY <2>1, <2>2, OrderRange DEF Init, TypeOK
<1>2. Heads = {} /\ DbPfns = {} /\ InHand = {}
  BY DEF Init, PfndbInit, Heads, FreeHeads, InHand, DbPfns
<1>3. PhaseOK
  BY <1>2 DEF Init, PfndbInit, PhaseOK
<1>4. LinksOK
  BY <1>2 DEF Init, LinksOK, HeadsOK, NextOK, PrevOK
<1>5. OnePlace /\ NoOverlap /\ FreeFlagInBlock /\ ScanOK /\ SplitOK /\ NoBuddies
  BY <1>2 DEF Init, OnePlace, NoOverlap, FreeFlagInBlock, ScanOK, SplitOK, NoBuddies
<1> QED  BY <1>1, <1>3, <1>4, <1>5 DEF IInv

(***************************************************************************)
(* A refused call, or kmain in hlt(), changes nothing.                     *)
(***************************************************************************)
LEMMA StutterIInv == IInv /\ UNCHANGED vars => IInv' /\ Kept
<1> SUFFICES ASSUME IInv, UNCHANGED vars PROVE IInv' /\ Kept
  OBVIOUS
<1> USE DEF vars, pfndbVars, pageVars, pmmVars, callVars
<1>1. TypeOK' /\ SplitOK'
  BY DEF IInv, TypeOK, Pfns, SplitOK
<1>2. Pfns' = Pfns /\ DbPfns' = DbPfns /\ InHand' = InHand /\ (\A q : Listed(q)' = Listed(q))
  BY DEF Pfns, DbPfns, InHand, Listed
<1>3. Heads' = Heads /\ (\A q : OrderOf(q)' = OrderOf(q)) /\ (\A q : BlockPages(q)' = BlockPages(q))
  BY <1>2 DEF Heads, FreeHeads, OrderOf, BlockPages
<1>4. PhaseOK' /\ LinksOK'
  BY <1>2 DEF IInv, PhaseOK, LinksOK, HeadsOK, NextOK, PrevOK
<1>5. OnePlace' /\ ScanOK' /\ FreeFlagInBlock'
  BY <1>2, <1>3 DEF IInv, OnePlace, ScanOK, FreeFlagInBlock
<1>6. NoOverlap'
  BY <1>3 DEF IInv, NoOverlap, BlockOK, Apart
<1>7. NoBuddies'
  BY <1>2, FewerListed DEF IInv
<1>8. Kept
  BY <1>2, <1>3 DEF Kept, FreePages, HeldPages, HeldBlocks, FreeHeads
<1> QED  BY <1>1, <1>4, <1>5, <1>6, <1>7, <1>8 DEF IInv

(***************************************************************************)
(* The last usable page frame is a natural number.                         *)
(***************************************************************************)
LEMMA MaxPfnNat ==
  ASSUME NEW map \in Seq(MemMapEntry), NEW m, pfndb_calc_max_pfn(map, m)
  PROVE  m \in Nat
<1>1. CASE m = 0
  BY <1>1
<1>2. CASE \E i \in Usable(map) : EndPfn(map[i]) # 0 /\ m = EndPfn(map[i]) - 1
  <2>1. PICK i \in Usable(map) : EndPfn(map[i]) # 0 /\ m = EndPfn(map[i]) - 1
    BY <1>2
  <2>2. map[i] \in MemMapEntry
    BY DEF Usable
  <2>3. PICK a \in Nat : a = map[i].base + map[i].length + PAGE_SIZE - 1
    BY <2>2, PageSizeAssumption DEF MemMapEntry
  <2>4. PICK P \in Nat \ {0} : P = PAGE_SIZE
    BY PageSizeAssumption
  <2>5. a \div P \in Nat
    BY <2>4
  <2>6. PICK b \in Nat : b = a \div P
    BY <2>5
  <2>7. b * P \in Nat
    BY <2>4
  <2>8. PICK c \in Nat : c = b * P
    BY <2>7
  <2>9. c \div P \in Nat
    BY <2>4
  <2>10. EndPfn(map[i]) = c \div P
    BY <2>3, <2>4, <2>6, <2>8 DEF EndPfn, PAGE_ALIGN_UP
  <2> QED  BY <2>1, <2>9, <2>10
<1> QED  BY <1>1, <1>2 DEF pfndb_calc_max_pfn

(***************************************************************************)
(* pfndb_init leaves every page FREE or RESERVED, on no list.              *)
(***************************************************************************)
LEMMA BootPfndbOK == IInv /\ BootPfndb => IInv'
<1> SUFFICES ASSUME IInv, BootPfndb PROVE IInv'
  OBVIOUS
<1>1. /\ pc = "boot" /\ pc' = "pfndb" /\ ~g_pfndb /\ memmap \in MemMaps
      /\ ~g_pmm_ready /\ held = {} /\ page = 0 /\ \A k \in Orders : head[k] = NULL
      /\ UNCHANGED <<head, count, g_free_pages, g_total_pages, g_pmm_ready, page, cur, req,
                     scan, held>>
  BY DEF IInv, PhaseOK, BootPfndb, pmmVars
<1>2. /\ g_max_pfn' \in Nat /\ g_pfndb' \in BOOLEAN
      /\ g_pfndb' => /\ flags' \in [Pfns' -> SUBSET PageFlags]
                     /\ order' \in [Pfns' -> Orders]
                     /\ next' = [p \in Pfns' |-> NULL]
                     /\ prev' = [p \in Pfns' |-> NULL]
  <2>1. CASE UNCHANGED pfndbVars
    BY <1>1, <2>1 DEF pfndbVars, IInv, TypeOK
  <2>2. CASE ~ UNCHANGED pfndbVars
    <3>1. memmap # NULL /\ pfndb_calc_max_pfn(memmap, g_max_pfn')
      BY <2>2 DEF BootPfndb, pfndb_init
    <3>2. g_max_pfn' \in Nat
      BY <1>1, <3>1, MaxPfnNat, MemMapsAssumption
    <3>3. CASE g_pfndb_phys' = 0
      <4>1. g_pfndb' = g_pfndb
        BY <2>2, <3>3 DEF BootPfndb, pfndb_init
      <4>2. g_pfndb' = FALSE
        BY <1>1, <4>1 DEF IInv, TypeOK
      <4> QED  BY <3>2, <4>2
    <3>4. CASE g_pfndb_phys' # 0
      <4>1. /\ g_pfndb' = TRUE
            /\ flags' = [p \in Pfns' |->
                 IF \E i \in Usable(memmap') :
                      p \in pfndb_mark_range(memmap'[i].base, memmap'[i].length, g_max_pfn')
                   THEN {"FREE"} ELSE {"RESERVED"}]
            /\ order' = [p \in Pfns' |-> 0]
            /\ next'  = [p \in Pfns' |-> NULL]
            /\ prev'  = [p \in Pfns' |-> NULL]
        BY <2>2, <3>4 DEF BootPfndb, pfndb_init, Pfns
      <4>2. flags' \in [Pfns' -> SUBSET PageFlags]
        BY <4>1 DEF PageFlags
      <4> QED  BY <3>2, <4>1, <4>2, OrderRange
    <3> QED  BY <3>3, <3>4
  <2> QED  BY <2>1, <2>2
<1>3. TypeOK'
  <2>1. page' \in Pfns' /\ held' \subseteq Pfns' /\ head' \in [Orders -> Pfns' \cup {NULL}]
    BY <1>1, <1>2 DEF IInv, TypeOK, Pfns, PhaseOK
  <2> QED  BY <1>1, <1>2, <2>1 DEF IInv, TypeOK
<1>4. InHand' = {} /\ (\A p \in DbPfns' : prev'[p] = NULL /\ order'[p] \in Orders)
  BY <1>1, <1>2 DEF InHand, DbPfns
<1>5. \A p \in DbPfns' : ~Listed(p)'
  BY <1>1, <1>4, NullAssumption DEF Listed, DbPfns, Pfns
<1>6. Heads' = {}
  BY <1>1, <1>4, <1>5 DEF Heads, FreeHeads
<1>7. PhaseOK'
  BY <1>1, <1>4 DEF PhaseOK
<1>8. LinksOK'
  BY <1>1, <1>4, <1>5 DEF LinksOK, HeadsOK, NextOK, PrevOK
<1>9. OnePlace' /\ NoOverlap' /\ FreeFlagInBlock' /\ ScanOK' /\ SplitOK' /\ NoBuddies'
  BY <1>1, <1>4, <1>5, <1>6 DEF OnePlace, NoOverlap, FreeFlagInBlock, ScanOK, SplitOK, NoBuddies
<1> QED  BY <1>3, <1>7, <1>8, <1>9 DEF IInv
(***************************************************************************)
(* The first loop of pmm_init: no page is on a list afterwards.            *)
(***************************************************************************)
LEMMA InitResetOK == IInv /\ pmm_init_reset => IInv' /\ FreePages' = {}
<1> SUFFICES ASSUME IInv, pmm_init_reset PROVE IInv' /\ FreePages' = {}
  OBVIOUS
<1>1. /\ g_pfndb /\ g_pfndb' = g_pfndb /\ Pfns' = Pfns /\ DbPfns' = Pfns /\ DbPfns = Pfns
      /\ g_pmm_ready' = FALSE /\ held' = held /\ held = {}
      /\ pc' = "scan" /\ InHand' = {} /\ scan' = 0
      /\ head' = [k \in Orders |-> NULL]
      /\ prev' = [p \in Pfns |-> NULL] /\ next' = [p \in Pfns |-> NULL]
      /\ order' = [p \in Pfns |-> 0]
  BY DEF pmm_init_reset, DbPfns, Pfns, InHand, IInv, PhaseOK
<1>2. flags' \in [Pfns -> SUBSET PageFlags] /\ \A q \in Pfns : "FREE" \notin flags'[q]
  <2>1. flags \in [Pfns -> SUBSET PageFlags]
    BY <1>1 DEF IInv, TypeOK
  <2> QED  BY <2>1 DEF pmm_init_reset, ResetFlags, PageFlags
<1>3. TypeOK'
  <2>1. g_max_pfn' \in Nat /\ g_pfndb' \in BOOLEAN
    BY DEF pmm_init_reset, IInv, TypeOK
  <2>2. /\ order' \in [Pfns' -> Orders]
        /\ next' \in [Pfns' -> Pfns' \cup {NULL}] /\ prev' \in [Pfns' -> Pfns' \cup {NULL}]
        /\ head' \in [Orders -> Pfns' \cup {NULL}]
    BY <1>1, OrderRange
  <2>3. count' \in [Orders -> Int] /\ g_free_pages' \in Int
    BY DEF pmm_init_reset
  <2>4. page' \in Pfns' /\ cur' \in Orders /\ req' \in Orders /\ held' \subseteq Pfns'
    BY <1>1 DEF pmm_init_reset, IInv, TypeOK
  <2> QED  BY <1>1, <1>2, <2>1, <2>2, <2>3, <2>4 DEF TypeOK
<1>4. \A p \in Pfns : ~Listed(p)' /\ prev'[p] = NULL
  BY <1>1, <1>2 DEF Listed
<1>5. Heads' = {}
  BY <1>1, <1>4 DEF Heads, FreeHeads
<1>6. PhaseOK' /\ OnePlace' /\ NoOverlap' /\ SplitOK'
  BY <1>1, <1>5 DEF PhaseOK, OnePlace, NoOverlap, SplitOK
<1>7. LinksOK'
  BY <1>1, <1>4 DEF LinksOK, HeadsOK, NextOK, PrevOK
<1>8. FreeFlagInBlock' /\ ScanOK' /\ NoBuddies'
  BY <1>1, <1>2, <1>4, <1>5 DEF FreeFlagInBlock, ScanOK, NoBuddies
<1>9. FreePages' = {}
  BY <1>5 DEF Heads, FreePages
<1> QED  BY <1>3, <1>6, <1>7, <1>8, <1>9 DEF IInv

(***************************************************************************)
(* A step that touches only the control, the locals and the counters of    *)
(* the allocator leaves flags, orders, links and list membership alone.    *)
(***************************************************************************)
LEMMA DataUnchanged ==
  ASSUME IInv, UNCHANGED <<pfndbVars, head, count>>
  PROVE  /\ Pfns' = Pfns /\ DbPfns' = DbPfns
         /\ \A q : Listed(q)' = Listed(q)
         /\ LinksOK' /\ NoBuddies'
         /\ g_pfndb' \in BOOLEAN /\ g_max_pfn' \in Nat
         /\ g_pfndb' => /\ flags' \in [Pfns' -> SUBSET PageFlags]
                        /\ order' \in [Pfns' -> Orders]
                        /\ next' \in [Pfns' -> Pfns' \cup {NULL}]
                        /\ prev' \in [Pfns' -> Pfns' \cup {NULL}]
         /\ head' \in [Orders -> Pfns' \cup {NULL}]
         /\ count' \in [Orders -> Int]
<1> USE DEF pfndbVars, pageVars
<1>1. Pfns' = Pfns /\ DbPfns' = DbPfns /\ \A q : Listed(q)' = Listed(q)
  BY DEF Pfns, DbPfns, Listed
<1>2. LinksOK'
  BY <1>1 DEF IInv, LinksOK, HeadsOK, NextOK, PrevOK
<1>3. NoBuddies'
  BY <1>1, FewerListed DEF IInv
<1> QED  BY <1>1, <1>2, <1>3 DEF IInv, TypeOK

(***************************************************************************)
(* pmm_init without a database: kmain halts.                               *)
(***************************************************************************)
LEMMA InitFailOK == IInv /\ pmm_init_fail => IInv'
<1> SUFFICES ASSUME IInv, pmm_init_fail PROVE IInv'
  OBVIOUS
<1>1. /\ pc = "pfndb" /\ pc' = "halt" /\ UNCHANGED <<pfndbVars, head, count>>
      /\ UNCHANGED <<g_free_pages, g_total_pages, g_pmm_ready, page, cur, req, scan, held>>
      /\ held = {} /\ ~g_pfndb /\ UNCHANGED <<g_pfndb, prev>>
  BY DEF pmm_init_fail, pmmVars, pfndbVars, pageVars, IInv, PhaseOK
<1>2. TypeOK' /\ LinksOK' /\ NoBuddies'
  BY <1>1, DataUnchanged DEF IInv, TypeOK
<1>3. Heads' = {} /\ InHand' = {} /\ DbPfns' = {}
  BY <1>1 DEF Heads, FreeHeads, InHand, DbPfns
<1>4. PhaseOK' /\ OnePlace' /\ NoOverlap' /\ FreeFlagInBlock' /\ ScanOK' /\ SplitOK'
  BY <1>1, <1>3 DEF IInv, PhaseOK, OnePlace, NoOverlap, FreeFlagInBlock, ScanOK, SplitOK
<1> QED  BY <1>2, <1>4 DEF IInv

(***************************************************************************)
(* The second loop of pmm_init passes over a RESERVED or listed page.      *)
(***************************************************************************)
LEMMA InitSkipOK == IInv /\ pmm_init_skip => IInv' /\ Kept
<1> SUFFICES ASSUME IInv, pmm_init_skip PROVE IInv' /\ Kept
  OBVIOUS
<1>1. /\ pc = "scan" /\ pc' = pc /\ UNCHANGED <<pfndbVars, head, count>>
      /\ UNCHANGED <<g_free_pages, g_total_pages, g_pmm_ready, page, cur, req, held>>
      /\ scan' = scan + 1 /\ scan \in Nat
      /\ UNCHANGED <<g_pfndb, g_max_pfn, flags, order, prev>>
  BY DEF pmm_init_skip, pmmVars, pfndbVars, pageVars, IInv, TypeOK
<1>2. TypeOK' /\ LinksOK' /\ NoBuddies'
  BY <1>1, DataUnchanged DEF IInv, TypeOK
<1>3. InHand' = InHand /\ Heads' = Heads /\ FreeHeads' = FreeHeads /\ \A h \in Heads : OrderOf(h)' = OrderOf(h)
  <2>1. InHand' = InHand /\ InHand = {}
    BY <1>1 DEF InHand
  <2> QED  BY <1>1, <2>1, DataUnchanged DEF Heads, FreeHeads, OrderOf
<1>4. NoOverlap' /\ FreeFlagInBlock'
  BY <1>1, <1>3, SameBlocks
<1>5. PhaseOK' /\ OnePlace' /\ SplitOK'
  BY <1>1, <1>3, DataUnchanged DEF IInv, PhaseOK, OnePlace, SplitOK
<1>6. ScanOK'
  <2>1. ASSUME NEW h \in Heads PROVE h + Pow2(OrderOf(h)) <= scan + 1
    BY <1>1, HeadFacts DEF IInv, ScanOK
  <2>2. ASSUME NEW q \in Pfns, q >= scan + 1 PROVE order[q] = 0 /\ "FREE" \notin flags[q]
    BY <1>1, <2>2, HeadFacts DEF IInv, ScanOK
  <2> QED  BY <1>1, <1>3, <2>1, <2>2, DataUnchanged DEF ScanOK
<1>7. IInv'
  BY <1>2, <1>4, <1>5, <1>6 DEF IInv
<1>8. Kept
  BY <1>1, <1>3, <1>7, SameFree, SameHeld DEF Kept, Heads
<1> QED  BY <1>7, <1>8

(***************************************************************************)
(* pmm_init returns: no page is left for its second loop.                  *)
(***************************************************************************)
LEMMA InitDoneOK == IInv /\ pmm_init_done => IInv' /\ Kept
<1> SUFFICES ASSUME IInv, pmm_init_done PROVE IInv' /\ Kept
  OBVIOUS
<1>1. /\ pc = "scan" /\ pc' = "idle" /\ UNCHANGED <<pfndbVars, head, count>>
      /\ UNCHANGED <<g_free_pages, g_total_pages, page, cur, req, scan, held>>
      /\ g_pmm_ready' = TRUE
      /\ UNCHANGED <<g_pfndb, g_max_pfn, flags, order, prev>>
  BY DEF pmm_init_done, pmmVars, pfndbVars, pageVars
<1>2. TypeOK' /\ LinksOK' /\ NoBuddies'
  BY <1>1, DataUnchanged DEF IInv, TypeOK
<1>3. InHand' = {} /\ Heads' = Heads /\ FreeHeads' = FreeHeads /\ \A h \in Heads : OrderOf(h)' = OrderOf(h)
  <2>1. InHand' = {} /\ InHand = {}
    BY <1>1 DEF InHand
  <2> QED  BY <1>1, <2>1, DataUnchanged DEF Heads, FreeHeads, OrderOf
<1>4. NoOverlap' /\ FreeFlagInBlock'
  BY <1>1, <1>3, SameBlocks
<1>5. PhaseOK' /\ OnePlace' /\ SplitOK' /\ ScanOK'
  BY <1>1, <1>3, DataUnchanged DEF IInv, PhaseOK, OnePlace, SplitOK, ScanOK
<1>6. IInv'
  BY <1>2, <1>4, <1>5 DEF IInv
<1>7. Kept
  BY <1>1, <1>3, <1>6, SameFree, SameHeld DEF Kept, Heads
<1> QED  BY <1>6, <1>7

(***************************************************************************)
(* The next page of the scan becomes a block of its own, above all others. *)
(***************************************************************************)
LEMMA InitFreeOK ==
  IInv /\ pmm_init_free =>
    IInv' /\ FreePages' = FreePages \cup {scan} /\ scan \notin FreePages /\ held' = {}
<1> SUFFICES ASSUME IInv, pmm_init_free
             PROVE  IInv' /\ FreePages' = FreePages \cup {scan} /\ scan \notin FreePages /\ held' = {}
  OBVIOUS
<1>0. PICK s \in Pfns : s = scan
  BY DEF pmm_init_free, IInv, TypeOK, Pfns
<1>1. /\ pc = "scan" /\ pc' = "coalesce" /\ UNCHANGED <<pfndbVars, head, count>>
      /\ UNCHANGED <<g_total_pages, g_pmm_ready, req, held>>
      /\ g_free_pages' = g_free_pages + 1
      /\ scan = s /\ scan' = s + 1 /\ s \in Nat
      /\ page' = s /\ cur' = order[s]
      /\ Scannable(s)
      /\ UNCHANGED <<g_pfndb, g_max_pfn, flags, order, prev>>
      /\ g_pfndb /\ ~g_pmm_ready /\ held = {}
  BY <1>0 DEF pmm_init_free, pmmVars, pfndbVars, pageVars, IInv, TypeOK, PhaseOK, Pfns
<1>2. order[s] = 0 /\ "FREE" \notin flags[s] /\ cur' = 0
  BY <1>1 DEF IInv, ScanOK
<1>3. TypeOK' /\ LinksOK' /\ NoBuddies'
  BY <1>1, <1>2, DataUnchanged, OrderRange DEF IInv, TypeOK
<1>4. /\ InHand' = {s} /\ InHand = {} /\ s \notin Heads
      /\ Heads' = Heads \cup {s}
      /\ OrderOf(s)' = 0
      /\ \A h \in Heads : OrderOf(h)' = OrderOf(h) /\ h + Pow2(OrderOf(h)) <= s
  <2>1. InHand' = {s} /\ InHand = {}
    BY <1>1 DEF InHand
  <2>2. \A h \in Heads : h + Pow2(OrderOf(h)) <= s
    BY <1>1 DEF IInv, ScanOK
  <2>3. s \notin Heads
    BY <1>1, <2>2, HeadFacts
  <2>4. Heads' = Heads \cup {s}
    BY <1>1, <2>1, DataUnchanged DEF Heads, FreeHeads
  <2> QED  BY <1>1, <1>2, <2>1, <2>2, <2>3, <2>4 DEF OrderOf
<1>5. PhaseOK' /\ OnePlace' /\ SplitOK'
  BY <1>1, <1>2, <1>4, DataUnchanged DEF IInv, PhaseOK, OnePlace, SplitOK, Listed
<1>6. \A h \in Heads : BlockPages(h)' = BlockPages(h)
  BY <1>4 DEF BlockPages
<1>7. BlockPages(s)' = {s}
  BY <1>1, <1>4, Pow2Facts DEF BlockPages
<1>8. NoOverlap'
  <2>1. ASSUME NEW h \in Heads PROVE BlockOK(h)'
    <3>1. BlockOK(h)
      BY DEF IInv, NoOverlap
    <3> QED  BY <1>1, <1>4, <1>6, <3>1 DEF BlockOK
  <2>2. BlockOK(s)'
    <3>1. s % 1 = 0 /\ s + 1 <= g_max_pfn + 1 /\ s \in Nat
      BY DEF IInv, TypeOK, Pfns
    <3>2. \A q \in {s} : "RESERVED" \notin flags'[q]
      BY <1>1 DEF Scannable
    <3>3. Pow2(OrderOf(s)') = 1 /\ g_max_pfn' = g_max_pfn
      BY <1>1, <1>4, Pow2Facts
    <3> QED  BY <1>7, <3>1, <3>2, <3>3 DEF BlockOK
  <2>3. ASSUME NEW h \in Heads, NEW g \in Heads, h # g PROVE Apart(h, g)'
    BY <1>4, <2>3 DEF IInv, NoOverlap, Apart
  <2>4. ASSUME NEW h \in Heads PROVE Apart(h, s)' /\ Apart(s, h)'
    BY <1>4 DEF Apart
  <2> QED  BY <1>4, <2>1, <2>2, <2>3, <2>4 DEF NoOverlap
<1>9. FreeFlagInBlock'
  <2> SUFFICES ASSUME NEW q \in Pfns, "FREE" \in flags'[q]
               PROVE  \E h \in Heads' : q \in BlockPages(h)'
    BY <1>1, DataUnchanged DEF FreeFlagInBlock
  <2>1. PICK h \in Heads : q \in BlockPages(h)
    BY <1>1 DEF IInv, FreeFlagInBlock
  <2> QED  BY <1>4, <1>6, <2>1
<1>10. ScanOK'
  <2>1. ASSUME NEW h \in Heads PROVE h + Pow2(OrderOf(h)) <= s + 1
    <3>1. h \in Nat /\ Pow2(OrderOf(h)) \in Nat
      BY HeadFacts
    <3> QED  BY <1>1, <1>4, <3>1
  <2>2. ASSUME NEW q \in Pfns, q >= s + 1 PROVE order[q] = 0 /\ "FREE" \notin flags[q]
    BY <1>1, <2>2, HeadFacts DEF IInv, ScanOK
  <2>3. s + Pow2(0) <= s + 1
    BY <1>1, Pow2Facts
  <2> QED  BY <1>1, <1>4, <2>1, <2>2, <2>3, DataUnchanged DEF ScanOK
<1>11. FreePages' = FreePages \cup {s} /\ s \notin FreePages
  <2>1. FreeHeads' = FreeHeads \cup {s}
    BY <1>1, <1>4, DataUnchanged DEF FreeHeads
  <2>2. \A h \in FreeHeads : BlockPages(h)' = BlockPages(h)
    BY <1>6 DEF Heads
  <2>3. FreePages' = FreePages \cup {s}
    BY <1>7, <2>1, <2>2 DEF FreePages
  <2>4. ASSUME NEW h \in FreeHeads PROVE s \notin BlockPages(h)
    <3>1. PICK n \in Nat : n = Pow2(OrderOf(h)) /\ h \in Nat /\ h + n <= s
      BY <1>4, HeadFacts DEF Heads
    <3> QED  BY <1>1, <3>1 DEF BlockPages
  <2> QED  BY <2>3, <2>4 DEF FreePages
<1> QED  BY <1>1, <1>3, <1>5, <1>8, <1>9, <1>10, <1>11 DEF IInv
-----------------------------------------------------------------------------
(***************************************************************************)
(* Steps that move a block from one place to another.                      *)
(***************************************************************************)

(***************************************************************************)
(* The end of pmm_free_block: the block in hand goes on its list.          *)
(***************************************************************************)
LEMMA FreeDoneOK == IInv /\ free_block_done => IInv' /\ Kept
<1> SUFFICES ASSUME IInv, free_block_done PROVE IInv' /\ Kept
  OBVIOUS
<1>0. PICK p \in Pfns, k \in Orders : p = page /\ k = cur
  BY DEF IInv, TypeOK
<1>1. /\ pc = "coalesce" /\ pc' = (IF g_pmm_ready THEN "idle" ELSE "scan")
      /\ g_pfndb /\ g_pmm_ready \in BOOLEAN
      /\ UNCHANGED <<g_pfndb, g_max_pfn, g_free_pages, g_pmm_ready, page, cur, req,
                     scan, held, memmap>>
      /\ pmm_prepare_page(p, {"FREE"}, k) /\ pmm_list_push(k, p)
  BY <1>0 DEF free_block_done, IInv, PhaseOK, TypeOK, pmm_prepare_page, pmm_list_push
<1>2. InHand = {p} /\ InHand' = {} /\ ~Listed(p) /\ p \notin held
  BY <1>0, <1>1 DEF InHand, IInv, OnePlace
<1>3. /\ flags' \in [Pfns -> SUBSET PageFlags]
      /\ order' \in [Pfns -> Orders]
      /\ next' \in [Pfns -> Pfns \cup {NULL}]
      /\ prev' \in [Pfns -> Pfns \cup {NULL}]
      /\ head' \in [Orders -> Pfns \cup {NULL}]
      /\ count' \in [Orders -> Int]
      /\ \A q \in Pfns : Listed(q)' <=> (Listed(q) \/ q = p)
      /\ LinksOK'
  BY <1>1, <1>2, PushOK DEF IInv
<1>4. Pfns' = Pfns /\ DbPfns' = Pfns /\ DbPfns = Pfns
  BY <1>1 DEF Pfns, DbPfns
<1>5. TypeOK'
  BY <1>1, <1>3, <1>4 DEF IInv, TypeOK
<1>6. \A q \in Pfns : q # p => flags'[q] = flags[q] /\ order'[q] = order[q]
  BY <1>1, <1>4 DEF pmm_prepare_page, IInv, TypeOK
<1>7. flags'[p] = {"FREE"} /\ order'[p] = k
  BY <1>1, <1>4 DEF pmm_prepare_page, IInv, TypeOK
<1>8. Heads' = Heads /\ p \in Heads /\ FreeHeads' = FreeHeads
  BY <1>1, <1>2, <1>3, <1>4 DEF Heads, FreeHeads
<1>9. \A h \in Heads : OrderOf(h)' = OrderOf(h)
  BY <1>0, <1>2, <1>6, <1>7, HeadFacts DEF OrderOf
<1>10. NoOverlap' /\ FreeFlagInBlock'
  BY <1>1, <1>6, <1>7, <1>8, <1>9, SameBlocks
<1>11. PhaseOK' /\ OnePlace' /\ SplitOK'
  <2>1. OnePlace'
    BY <1>1, <1>2, <1>6 DEF IInv, OnePlace, TypeOK
  <2> QED  BY <1>1, <2>1 DEF IInv, PhaseOK, SplitOK
<1>12. ScanOK'
  <2> SUFFICES ASSUME ~g_pmm_ready PROVE ScanOK'
    BY <1>1 DEF ScanOK
  <2>1. \A h \in Heads : (h + Pow2(OrderOf(h)) <= scan)'
    BY <1>1, <1>9 DEF IInv, ScanOK
  <2>2. p < scan
    <3>1. p + Pow2(OrderOf(p)) <= scan /\ Pow2(OrderOf(p)) >= 1 /\ p \in Nat
          /\ Pow2(OrderOf(p)) \in Nat /\ scan \in Nat
      BY <1>1, <1>8, HeadFacts DEF IInv, ScanOK, TypeOK
    <3> QED  BY <3>1
  <2>3. ASSUME NEW q \in Pfns, q >= scan PROVE order'[q] = 0 /\ "FREE" \notin flags'[q]
    <3>1. q # p
      BY <2>2, <2>3, HeadFacts DEF IInv, TypeOK
    <3> QED  BY <1>1, <1>6, <2>3, <3>1 DEF IInv, ScanOK
  <2> QED  BY <1>1, <1>4, <1>8, <2>1, <2>3 DEF ScanOK
<1>13. NoBuddies'
  <2>1. p % Pow2(k) = 0
    BY <1>0, <1>2, <1>8 DEF IInv, NoOverlap, BlockOK, OrderOf
  <2>2. PICK b : b = pmm_buddy_pfn(p, k)
    OBVIOUS
  <2>3. k + 1 < PMM_MAX_ORDER => (b \in Pfns /\ Listed(b) => order[b] # k)
    <3>1. b \in Pfns => b <= g_max_pfn
      BY DEF Pfns
    <3> QED  BY <1>0, <2>2, <3>1 DEF free_block_done, CanMerge, Listed
  <2>4. g_pfndb /\ g_pfndb'
    BY <1>1
  <2> QED  BY <1>3, <1>4, <1>6, <1>7, <2>1, <2>2, <2>3, <2>4, OneMoreListed
<1>14. IInv'
  BY <1>3, <1>5, <1>10, <1>11, <1>12, <1>13 DEF IInv
<1>15. Kept
  BY <1>1, <1>8, <1>9, <1>14, SameFree, SameHeld DEF Kept, Heads
<1> QED  BY <1>14, <1>15

(***************************************************************************)
(* pmm_alloc up to its inner loop: the head of a list goes in hand.        *)
(***************************************************************************)
LEMMA AllocOK ==
  ASSUME IInv, NEW k \in 0 .. PMM_MAX_ORDER, pmm_alloc(k)
  PROVE  IInv' /\ Kept
<1>1. CASE UNCHANGED vars
  BY <1>1, StutterIInv
<1>2. CASE ~ UNCHANGED vars
  <2>1. PICK j \in NonEmpty(k) : /\ pmm_list_remove(j, head[j])
                                 /\ page' = head[j] /\ cur' = j
    BY <1>2 DEF pmm_alloc
  <2>2. /\ pc \in Quiescent /\ pc' = "split" /\ g_pmm_ready
        /\ k < PMM_MAX_ORDER /\ req' = k
        /\ UNCHANGED <<memmap, hhdm, g_pfndb, g_pfndb_phys, g_max_pfn, flags, order,
                       g_free_pages, g_total_pages, g_pmm_ready, scan, held>>
    BY <1>2 DEF pmm_alloc, AllocAccepted
  <2>3. pc = "idle" /\ g_pfndb /\ InHand = {}
    BY <2>2 DEF Quiescent, IInv, PhaseOK, InHand
  <2>4. j \in Orders /\ k \in Orders /\ k <= j /\ head[j] # NULL
    BY <2>2, MaxOrderAssumption DEF NonEmpty, Orders
  <2>5. PICK p \in Pfns : p = head[j] /\ Listed(p) /\ order[p] = j
    BY <2>4 DEF IInv, TypeOK, LinksOK, HeadsOK
  <2>6. pmm_list_remove(j, p) /\ order' = [order EXCEPT ![p] = j]
    BY <2>1, <2>2, <2>3, <2>5 DEF pmm_list_remove, IInv, TypeOK
  <2>7. /\ order' \in [Pfns -> Orders]
        /\ next' \in [Pfns -> Pfns \cup {NULL}]
        /\ prev' \in [Pfns -> Pfns \cup {NULL}]
        /\ head' \in [Orders -> Pfns \cup {NULL}]
        /\ count' \in [Orders -> Int]
        /\ \A q \in Pfns : Listed(q)' <=> (Listed(q) /\ q # p)
        /\ LinksOK'
    BY <2>2, <2>3, <2>4, <2>5, <2>6, RemoveOK DEF IInv
  <2>8. Pfns' = Pfns /\ DbPfns' = Pfns /\ DbPfns = Pfns
    BY <2>2, <2>3 DEF Pfns, DbPfns
  <2>9. TypeOK'
    BY <2>1, <2>2, <2>4, <2>5, <2>7, <2>8 DEF IInv, TypeOK
  <2>10. InHand' = {p} /\ Heads' = Heads /\ p \in Heads /\ FreeHeads' = FreeHeads
    <3>1. InHand' = {p}
      BY <2>1, <2>2, <2>5 DEF InHand
    <3> QED  BY <2>2, <2>3, <2>5, <2>7, <2>8, <3>1 DEF Heads, FreeHeads
  <2>11. \A h \in Heads : OrderOf(h)' = OrderOf(h)
    BY <2>1, <2>2, <2>3, <2>5, <2>10 DEF OrderOf
  <2>12. NoOverlap' /\ FreeFlagInBlock'
    BY <2>2, <2>3, <2>10, <2>11, SameBlocks
  <2>13. OnePlace'
    <3>1. p \notin held
      BY <2>5 DEF IInv, OnePlace, Listed
    <3> QED  BY <2>2, <2>7, <2>10, <3>1 DEF IInv, OnePlace
  <2>14. PhaseOK' /\ ScanOK' /\ SplitOK'
    BY <2>1, <2>2, <2>3, <2>4 DEF IInv, PhaseOK, ScanOK, SplitOK
  <2>15. NoBuddies'
    BY <2>2, <2>7, <2>8, FewerListed DEF IInv
  <2>16. IInv'
    BY <2>7, <2>9, <2>12, <2>13, <2>14, <2>15 DEF IInv
  <2>17. Kept
    BY <2>2, <2>10, <2>11, <2>16, SameFree, SameHeld DEF Kept, Heads
  <2> QED  BY <2>16, <2>17
<1> QED  BY <1>1, <1>2

(***************************************************************************)
(* The end of pmm_alloc: the block in hand goes to the caller.             *)
(***************************************************************************)
LEMMA AllocDoneOK == IInv /\ alloc_done => IInv' /\ Given(page, req)
<1> SUFFICES ASSUME IInv, alloc_done PROVE IInv' /\ Given(page, req)
  OBVIOUS
<1>0. PICK p \in Pfns, k \in Orders : p = page /\ k = req
  BY DEF IInv, TypeOK
<1>1. /\ pc = "split" /\ pc' = "idle" /\ cur = k
      /\ g_pfndb /\ g_pmm_ready
      /\ UNCHANGED <<g_pfndb, g_max_pfn, g_pmm_ready, page, cur, req, scan, memmap,
                     head, count>>
      /\ held' = held \cup {p}
      /\ g_free_pages' = g_free_pages - Pow2(k)
      /\ flags' = [flags EXCEPT ![p] = {"USED"}] /\ order' = [order EXCEPT ![p] = k]
      /\ next' = [next EXCEPT ![p] = NULL] /\ prev' = [prev EXCEPT ![p] = NULL]
  BY <1>0 DEF alloc_done, IInv, PhaseOK, pmm_prepare_page
<1>2. InHand = {p} /\ InHand' = {} /\ ~Listed(p) /\ p \notin held
  BY <1>0, <1>1 DEF InHand, IInv, OnePlace
<1>3. /\ flags \in [Pfns -> SUBSET PageFlags]
      /\ order \in [Pfns -> Orders]
      /\ next \in [Pfns -> Pfns \cup {NULL}]
      /\ prev \in [Pfns -> Pfns \cup {NULL}]
      /\ head \in [Orders -> Pfns \cup {NULL}]
      /\ Pfns' = Pfns /\ DbPfns' = Pfns /\ DbPfns = Pfns /\ NULL \notin Pfns
  BY <1>1, NullAssumption DEF IInv, TypeOK, Pfns, DbPfns
<1>4. /\ flags'[p] = {"USED"} /\ order'[p] = k /\ prev'[p] = NULL
      /\ \A q \in Pfns : q # p => /\ flags'[q] = flags[q] /\ order'[q] = order[q]
                                  /\ next'[q] = next[q] /\ prev'[q] = prev[q]
  BY <1>1, <1>3
<1>5. TypeOK'
  <2>1. flags' \in [Pfns -> SUBSET PageFlags] /\ order' \in [Pfns -> Orders]
    BY <1>1, <1>3 DEF PageFlags
  <2>2. next' \in [Pfns -> Pfns \cup {NULL}] /\ prev' \in [Pfns -> Pfns \cup {NULL}]
    BY <1>1, <1>3
  <2>3. g_free_pages' \in Int /\ held' \subseteq Pfns
    BY <1>1, OrderRange, Pow2Facts DEF IInv, TypeOK
  <2> QED  BY <1>1, <1>3, <2>1, <2>2, <2>3 DEF IInv, TypeOK
<1>6. \A q \in Pfns : Listed(q)' <=> Listed(q)
  <2>1. ~Listed(p)'
    BY <1>4 DEF Listed
  <2>2. ASSUME NEW q \in Pfns, q # p PROVE Listed(q)' <=> Listed(q)
    BY <1>1, <1>4, <2>2 DEF Listed
  <2> QED  BY <1>2, <2>1, <2>2
<1>7. LinksOK'
  <2>1. HeadsOK'
    <3> SUFFICES ASSUME NEW j \in Orders, head[j] # NULL
                 PROVE  Listed(head[j])' /\ order'[head[j]] = j /\ prev'[head[j]] = NULL
      BY <1>1 DEF HeadsOK
    <3>1. PICK q \in Pfns : q = head[j] /\ Listed(q) /\ order[q] = j /\ prev[q] = NULL
      BY <1>3 DEF IInv, LinksOK, HeadsOK
    <3> QED  BY <1>1, <1>2, <1>4, <1>6, <3>1
  <2>2. NextOK'
    BY <1>2, <1>3, <1>4, <1>6 DEF IInv, LinksOK, NextOK
  <2>3. PrevOK'
    BY <1>2, <1>3, <1>4, <1>6 DEF IInv, LinksOK, PrevOK
  <2> QED  BY <2>1, <2>2, <2>3 DEF LinksOK
<1>8. Heads' = Heads /\ p \in Heads
  BY <1>1, <1>2, <1>3, <1>6 DEF Heads, FreeHeads
<1>9. \A h \in Heads : OrderOf(h)' = OrderOf(h)
  BY <1>1, <1>2, <1>4, HeadFacts DEF OrderOf
<1>10. NoOverlap' /\ FreeFlagInBlock'
  BY <1>1, <1>4, <1>8, <1>9, SameBlocks
<1>11. OnePlace'
  BY <1>1, <1>2, <1>4 DEF IInv, OnePlace, TypeOK
<1>12. PhaseOK' /\ ScanOK' /\ SplitOK'
  BY <1>1 DEF IInv, PhaseOK, ScanOK, SplitOK
<1>13. NoBuddies'
  BY <1>2, <1>3, <1>4, <1>6, FewerListed DEF IInv
<1>14. IInv'
  BY <1>5, <1>7, <1>10, <1>11, <1>12, <1>13 DEF IInv
<1>15. Given(p, k)
  <2>1. FreeHeads' = FreeHeads \ {p} /\ p \in FreeHeads
    BY <1>2, <1>3, <1>6 DEF FreeHeads
  <2>2. \A h \in Heads : BlockPages(h)' = BlockPages(h)
    BY <1>9 DEF BlockPages
  <2>3. OrderOf(p) = k /\ p % Pow2(k) = 0 /\ p \in BlockPages(p)
    BY <1>0, <1>1, <1>2, <1>8, HeadFacts DEF OrderOf, IInv, NoOverlap, BlockOK
  <2>4. BlockPages(p) \subseteq FreePages
    BY <2>1 DEF FreePages
  <2>5. FreePages' = FreePages \ BlockPages(p)
    <3>1. \A h \in FreeHeads \ {p} : BlockPages(h) \cap BlockPages(p) = {}
      BY <1>8, BlocksApart DEF Heads
    <3>2. \A h \in FreeHeads : BlockPages(h)' = BlockPages(h)
      BY <2>2 DEF Heads
    <3> QED  BY <2>1, <3>1, <3>2 DEF FreePages
  <2>6. HeldPages' = HeldPages \cup BlockPages(p)
    <3>1. \A h \in held \cup {p} : BlockPages(h)' = BlockPages(h)
      BY <1>8, <2>2 DEF Heads
    <3> QED  BY <1>1, <3>1 DEF HeldPages
  <2>7. HeldBlocks' = HeldBlocks \cup {<<p, k>>}
    <3>1. \A h \in held : order'[h] = order[h]
      BY <1>2, <1>4 DEF IInv, TypeOK
    <3> QED  BY <1>1, <1>4, <3>1 DEF HeldBlocks
  <2>8. BlockPages(p) = p .. (p + Pow2(k) - 1)
    BY <2>3 DEF BlockPages
  <2> QED  BY <2>3, <2>4, <2>5, <2>6, <2>7, <2>8 DEF Given
<1> QED  BY <1>0, <1>14, <1>15

(***************************************************************************)
(* pmm_free up to pmm_free_block: what it accepts is a block its caller    *)
(* holds, and that goes in hand.                                           *)
(***************************************************************************)
LEMMA FreeOK ==
  ASSUME IInv, NEW p, pmm_free(p), p = NULL \/ MayFree(p)
  PROVE  /\ IInv'
         /\ \/ UNCHANGED vars
            \/ /\ p \in held /\ TakenBack(p, order[p]) /\ UNCHANGED g_total_pages
               /\ g_free_pages' = g_free_pages + Pow2(order[p])
<1>1. CASE UNCHANGED vars
  BY <1>1, StutterIInv
<1>2. CASE ~ UNCHANGED vars
  <2>1. /\ pc \in Quiescent /\ pc' = "coalesce" /\ g_pmm_ready /\ p # NULL /\ p \in Pfns
        /\ "RESERVED" \notin flags[p] /\ "FREE" \notin flags[p]
        /\ g_free_pages' = g_free_pages + Pow2(order[p])
        /\ page' = p /\ cur' = order[p] /\ held' = held \ {p}
        /\ UNCHANGED <<pfndbVars, head, count>>
        /\ UNCHANGED <<g_total_pages, g_pmm_ready, req, scan>>
        /\ UNCHANGED <<g_pfndb, g_max_pfn, flags, order, prev>>
    BY <1>2 DEF pmm_free, FreeAccepted, pfndbVars, pageVars
  <2>2. pc = "idle" /\ g_pfndb /\ InHand = {} /\ order[p] \in Orders
    BY <2>1 DEF Quiescent, IInv, PhaseOK, InHand, TypeOK
  <2>3. p \in held
    BY <2>1, <2>2 DEF MayFree
  <2>4. TypeOK' /\ LinksOK' /\ NoBuddies'
    <3>1. g_free_pages' \in Int
      BY <2>1, <2>2, OrderRange, Pow2Facts DEF IInv, TypeOK
    <3> QED  BY <2>1, <2>2, <3>1, DataUnchanged DEF IInv, TypeOK
  <2>5. InHand' = {p} /\ Heads' = Heads
    <3>1. InHand' = {p}
      BY <2>1 DEF InHand
    <3> QED  BY <2>1, <2>2, <2>3, <3>1, DataUnchanged DEF Heads, FreeHeads
  <2>6. \A h \in Heads : OrderOf(h)' = OrderOf(h)
    BY <2>1, <2>2, <2>5 DEF OrderOf
  <2>7. NoOverlap' /\ FreeFlagInBlock'
    BY <2>1, <2>2, <2>5, <2>6, SameBlocks
  <2>8. OnePlace'
    BY <2>1, <2>5, DataUnchanged DEF IInv, OnePlace, Listed
  <2>9. PhaseOK' /\ ScanOK' /\ SplitOK'
    BY <2>1, <2>2 DEF IInv, PhaseOK, ScanOK, SplitOK
  <2>10. TakenBack(p, order[p])
    <3>1. FreeHeads' = FreeHeads \cup {p} /\ p \notin FreeHeads /\ p \in Heads
      BY <2>1, <2>2, <2>3, <2>5, DataUnchanged DEF Heads, FreeHeads, Listed
    <3>2. \A h \in Heads : BlockPages(h)' = BlockPages(h)
      BY <2>6 DEF BlockPages
    <3>3. \A h \in Heads \ {p} : BlockPages(h) \cap BlockPages(p) = {}
      BY <3>1, BlocksApart
    <3>4. BlockPages(p) \cap FreePages = {}
      <4>1. \A h \in FreeHeads : BlockPages(h) \cap BlockPages(p) = {}
        BY <3>1, <3>3 DEF Heads
      <4> QED  BY <4>1 DEF FreePages
    <3>5. FreePages' = FreePages \cup BlockPages(p)
      <4>1. \A h \in FreeHeads \cup {p} : BlockPages(h)' = BlockPages(h)
        BY <3>1, <3>2 DEF Heads
      <4> QED  BY <3>1, <4>1 DEF FreePages
    <3>6. HeldPages' = HeldPages \ BlockPages(p) /\ BlockPages(p) \subseteq HeldPages
      <4>1. \A h \in held : BlockPages(h)' = BlockPages(h)
        BY <3>2 DEF Heads
      <4>2. \A h \in held \ {p} : BlockPages(h) \cap BlockPages(p) = {}
        BY <3>3 DEF Heads
      <4> QED  BY <2>1, <2>3, <4>1, <4>2 DEF HeldPages
    <3>7. <<p, order[p]>> \in HeldBlocks /\ HeldBlocks' = HeldBlocks \ {<<p, order[p]>>}
      BY <2>1, <2>3 DEF HeldBlocks
    <3>8. BlockPages(p) = p .. (p + Pow2(order[p]) - 1)
      BY <2>2 DEF BlockPages, OrderOf
    <3> QED  BY <3>4, <3>5, <3>6, <3>7, <3>8 DEF TakenBack
  <2> QED  BY <2>1, <2>3, <2>4, <2>7, <2>8, <2>9, <2>10 DEF IInv
<1> QED  BY <1>1, <1>2
-----------------------------------------------------------------------------
(***************************************************************************)
(* Merging.  A buddy with the FREE flag and the order of the block in hand *)
(* is inside some block.  A smaller or equal block that contains it starts *)
(* at it; a larger one would contain the block in hand as well.  So it is  *)
(* the first page of a block that is neither in hand nor held: it is on a  *)
(* free list.                                                              *)
(***************************************************************************)
LEMMA BuddyListed ==
  ASSUME IInv, pc = "coalesce", CanMerge,
         NEW p \in Pfns, p = page, NEW k \in Orders, k = cur,
         NEW b, b = pmm_buddy_pfn(p, k)
  PROVE  /\ Listed(b) /\ b \in Pfns /\ b \in Heads /\ b # p /\ order[b] = k
         /\ p \in Heads /\ OrderOf(p) = k /\ OrderOf(b) = k
         /\ k \in 0 .. 8 /\ k + 1 \in Orders /\ p % Pow2(k) = 0
<1>1. /\ k + 1 \in Orders /\ k \in 0 .. 8
      /\ b <= g_max_pfn /\ "FREE" \in flags[b] /\ order[b] = k
  BY MaxOrderAssumption DEF CanMerge, Orders
<1>2. InHand = {p} /\ p \in Heads /\ OrderOf(p) = k /\ p \in Nat
  BY HeadFacts DEF InHand, Heads, FreeHeads, OrderOf
<1>3. p % Pow2(k) = 0 /\ p + Pow2(k) <= g_max_pfn + 1
  BY <1>2 DEF IInv, NoOverlap, BlockOK
<1>4. PICK l \in Nat : /\ b \in Nat /\ b % Pow2(k) = 0 /\ b # p
                       /\ l % Pow2(k + 1) = 0
                       /\ \/ l = p /\ b = p + Pow2(k)
                          \/ l = b /\ p = b + Pow2(k)
  BY <1>1, <1>2, <1>3, BuddyFacts
<1>5. b \in Pfns
  BY <1>1, <1>4 DEF Pfns, IInv, TypeOK
<1>6. PICK h \in Heads : b \in BlockPages(h)
  BY <1>1, <1>5 DEF IInv, FreeFlagInBlock
<1>7. PICK j \in Orders : j = OrderOf(h) /\ h \in Nat /\ Pow2(j) \in Nat
  BY HeadFacts
<1>8. h <= b /\ b < h + Pow2(j) /\ h % Pow2(j) = 0
  BY <1>6, <1>7 DEF BlockPages, IInv, NoOverlap, BlockOK
<1>9. Pow2(k) \in Nat /\ Pow2(k) >= 1 /\ Pow2(k + 1) = 2 * Pow2(k)
  BY <1>1, Pow2Facts
<1>10. j \in 0 .. 9
  BY <1>7, OrderRange
<1>11. h # p
  BY <1>2, <1>4, <1>7, <1>8, <1>9
<1>12. CASE j <= k
  <2>1. h = b
    BY <1>1, <1>4, <1>7, <1>8, <1>10, <1>12, SmallInside
  <2>2. b \notin InHand /\ b \notin held
    BY <1>1, <1>2, <1>4 DEF IInv, OnePlace
  <2>3. Listed(b)
    BY <2>1, <2>2 DEF Heads, FreeHeads
  <2> QED  BY <1>1, <1>2, <1>3, <1>4, <1>5, <2>1, <2>2, <2>3 DEF OrderOf
<1>13. CASE j > k
  <2>1. l <= b /\ b < l + Pow2(k + 1)
    BY <1>4, <1>9
  <2>2. k + 1 \in 0 .. 9 /\ j \in (k + 1) .. 9
    BY <1>1, <1>10, <1>13
  <2>3. h <= l /\ l + Pow2(k + 1) <= h + Pow2(j)
    BY <1>4, <1>7, <1>8, <2>1, <2>2, LargeContains
  <2>4. h <= p /\ p < h + Pow2(j)
    BY <1>2, <1>4, <1>7, <1>9, <2>3
  <2>5. Apart(h, p)
    BY <1>2, <1>11 DEF IInv, NoOverlap
  <2>6. FALSE
    BY <1>2, <1>7, <1>9, <2>4, <2>5 DEF Apart
  <2> QED  BY <2>6
<1> QED  BY <1>7, <1>10, <1>12, <1>13, OrderRange

(***************************************************************************)
(* An iteration of pmm_free_block: the block in hand and its buddy, both   *)
(* aligned and apart from all others, become one block of the next order.  *)
(***************************************************************************)
LEMMA MergeOK == IInv /\ free_block_merge => IInv' /\ Kept
<1> SUFFICES ASSUME IInv, free_block_merge PROVE IInv' /\ Kept
  OBVIOUS
<1>0. PICK p \in Pfns, k \in Orders : p = page /\ k = cur
  BY DEF IInv, TypeOK
<1>1. PICK b : b = pmm_buddy_pfn(p, k)
  OBVIOUS
<1>2. PICK l : l = IF b < p THEN b ELSE p
  OBVIOUS
<1>3. /\ pc = "coalesce" /\ pc' = pc /\ g_pfndb /\ CanMerge
      /\ pmm_list_remove(k, b) /\ page' = l /\ cur' = k + 1
      /\ order' = [order EXCEPT ![l] = k + 1]
      /\ UNCHANGED <<memmap, g_pfndb, g_max_pfn, flags, g_free_pages, g_pmm_ready, req,
                     scan, held>>
  BY <1>0, <1>1, <1>2 DEF free_block_merge, pmm_list_remove, IInv, PhaseOK
<1>4. /\ Listed(b) /\ b \in Pfns /\ b \in Heads /\ b # p /\ order[b] = k
      /\ p \in Heads /\ OrderOf(p) = k /\ OrderOf(b) = k
      /\ k \in 0 .. 8 /\ k + 1 \in Orders /\ p % Pow2(k) = 0
  BY <1>0, <1>1, <1>3, BuddyListed
<1>5. /\ l \in Pfns /\ l % Pow2(k + 1) = 0
      /\ (l = p /\ b = p + Pow2(k)) \/ (l = b /\ p = b + Pow2(k))
  BY <1>1, <1>2, <1>4, BuddyFacts, HeadFacts
<1>6. InHand = {p} /\ InHand' = {l} /\ ~Listed(p) /\ p \notin held /\ b \notin held
  BY <1>0, <1>3, <1>4 DEF InHand, IInv, OnePlace, Listed
<1>7. /\ order' \in [Pfns -> Orders]
      /\ next' \in [Pfns -> Pfns \cup {NULL}]
      /\ prev' \in [Pfns -> Pfns \cup {NULL}]
      /\ head' \in [Orders -> Pfns \cup {NULL}]
      /\ count' \in [Orders -> Int]
      /\ \A q \in Pfns : Listed(q)' <=> (Listed(q) /\ q # b)
      /\ LinksOK'
  BY <1>3, <1>4, <1>5, <1>6, RemoveOK DEF IInv
<1>8. Pfns' = Pfns /\ DbPfns' = Pfns /\ DbPfns = Pfns
  BY <1>3 DEF Pfns, DbPfns
<1>9. TypeOK'
  BY <1>3, <1>4, <1>5, <1>7, <1>8 DEF IInv, TypeOK
<1>10. Heads' = (Heads \ {p, b}) \cup {l}
  BY <1>3, <1>4, <1>6, <1>7, <1>8 DEF Heads, FreeHeads
<1>11. OrderOf(l)' = k + 1 /\ \A h \in Heads \ {p, b} : OrderOf(h)' = OrderOf(h)
  <2>1. \A h \in Heads \ {p, b} : order'[h] = order[h]
    BY <1>3, <1>5, HeadFacts DEF IInv, TypeOK
  <2> QED  BY <1>3, <1>5, <1>6, <2>1 DEF OrderOf
<1>12. /\ Pow2(k) \in Nat /\ Pow2(k) >= 1 /\ Pow2(k + 1) = 2 * Pow2(k)
       /\ l \in Nat /\ p \in Nat /\ b \in Nat /\ g_max_pfn \in Nat
  BY <1>4, <1>5, Pow2Facts, HeadFacts DEF IInv, TypeOK
<1>13. BlockPages(l)' = BlockPages(p) \cup BlockPages(b)
  BY <1>4, <1>5, <1>11, <1>12 DEF BlockPages
<1>14. \A h \in Heads \ {p, b} : BlockPages(h)' = BlockPages(h)
  BY <1>11 DEF BlockPages
<1>15. NoOverlap'
  <2>1. ASSUME NEW h \in Heads \ {p, b} PROVE BlockOK(h)'
    <3>1. BlockOK(h)
      BY DEF IInv, NoOverlap
    <3> QED  BY <1>3, <1>11, <1>14, <3>1 DEF BlockOK
  <2>2. BlockOK(l)'
    <3>1. BlockOK(p) /\ BlockOK(b)
      BY <1>4 DEF IInv, NoOverlap
    <3>2. \A q \in BlockPages(l)' : "RESERVED" \notin flags'[q]
      BY <1>3, <1>13, <3>1 DEF BlockOK
    <3>3. l + Pow2(k + 1) <= g_max_pfn + 1
      BY <1>4, <1>5, <1>12, <3>1 DEF BlockOK
    <3> QED  BY <1>3, <1>5, <1>11, <3>2, <3>3 DEF BlockOK
  <2>3. ASSUME NEW h \in Heads \ {p, b}, NEW g \in Heads \ {p, b}, h # g
        PROVE  Apart(h, g)'
    BY <1>11, <2>3 DEF IInv, NoOverlap, Apart
  <2>4. ASSUME NEW h \in Heads \ {p, b} PROVE Apart(h, l)' /\ Apart(l, h)'
    <3>1. Apart(h, p) /\ Apart(h, b)
      BY <1>4 DEF IInv, NoOverlap
    <3>2. PICK n \in Nat : n = Pow2(OrderOf(h)) /\ n >= 1 /\ h \in Nat
      BY HeadFacts
    <3>3. h + n <= l \/ l + Pow2(k + 1) <= h
      BY <1>4, <1>5, <1>12, <3>1, <3>2 DEF Apart
    <3> QED  BY <1>11, <3>2, <3>3 DEF Apart
  <2> QED  BY <1>10, <2>1, <2>2, <2>3, <2>4 DEF NoOverlap
<1>16. FreeFlagInBlock'
  <2> SUFFICES ASSUME NEW q \in Pfns, "FREE" \in flags[q]
               PROVE  \E h \in Heads' : q \in BlockPages(h)'
    BY <1>3, <1>8 DEF FreeFlagInBlock
  <2>1. PICK h \in Heads : q \in BlockPages(h)
    BY <1>3 DEF IInv, FreeFlagInBlock
  <2> QED  BY <1>10, <1>13, <1>14, <2>1
<1>17. OnePlace'
  <2>1. l \notin held /\ ~Listed(l)'
    BY <1>5, <1>6, <1>7
  <2> QED  BY <1>3, <1>6, <2>1 DEF IInv, OnePlace
<1>18. PhaseOK' /\ SplitOK'
  BY <1>3 DEF IInv, PhaseOK, SplitOK
<1>19. ScanOK'
  <2> SUFFICES ASSUME ~g_pmm_ready PROVE ScanOK'
    BY <1>3 DEF ScanOK
  <2>1. /\ \A h \in Heads : h + Pow2(OrderOf(h)) <= scan
        /\ \A q \in Pfns : q >= scan => order[q] = 0 /\ "FREE" \notin flags[q]
        /\ scan \in Nat
    BY <1>3 DEF IInv, ScanOK, TypeOK
  <2>2. l + Pow2(k + 1) <= scan /\ l < scan
    BY <1>4, <1>5, <1>12, <2>1
  <2>3. \A q \in Pfns : q >= scan => order'[q] = order[q]
    BY <1>3, <1>12, <2>1, <2>2, HeadFacts DEF IInv, TypeOK
  <2>4. \A h \in Heads' : (h + Pow2(OrderOf(h)) <= scan)'
    BY <1>3, <1>10, <1>11, <2>1, <2>2
  <2> QED  BY <1>3, <1>8, <2>1, <2>3, <2>4 DEF ScanOK
<1>20. NoBuddies'
  <2>1. \A q \in Pfns : Listed(q)' => Listed(q) /\ q # l
    BY <1>5, <1>6, <1>7
  <2>2. \A q \in Pfns : q # l => order'[q] = order[q]
    BY <1>3, <1>5 DEF IInv, TypeOK
  <2> QED  BY <1>8, <2>1, <2>2, FewerListed DEF IInv
<1>21. IInv'
  BY <1>7, <1>9, <1>15, <1>16, <1>17, <1>18, <1>19, <1>20 DEF IInv
<1>22. Kept
  <2>1. FreeHeads' = (FreeHeads \ {p, b}) \cup {l} /\ p \in FreeHeads /\ b \in FreeHeads
    BY <1>4, <1>6, <1>7, <1>8 DEF FreeHeads
  <2>2. \A h \in FreeHeads \ {p, b} : BlockPages(h)' = BlockPages(h)
    BY <1>14 DEF Heads
  <2>3. FreePages' = FreePages
    BY <1>13, <2>1, <2>2 DEF FreePages
  <2>4. \A h \in held : OrderOf(h)' = OrderOf(h)
    BY <1>6, <1>11 DEF Heads
  <2> QED  BY <1>3, <1>21, <2>3, <2>4, SameHeld DEF Kept
<1> QED  BY <1>21, <1>22

-----------------------------------------------------------------------------
(***************************************************************************)
(* Splitting: both halves of an aligned block are aligned.                 *)
(***************************************************************************)
LEMMA HalfArith ==
  ASSUME NEW p \in Nat, NEW d \in Nat \ {0}, NEW e \in Nat \ {0}, e = 2 * d, p % e = 0
  PROVE  p % d = 0 /\ (p + d) % d = 0
<1>1. p \in Int
  OBVIOUS
<1>2. PICK x \in Int : p = x * e
  BY <1>1, Multiple, Zenon
<1>3. PICK y \in Int : y = 2 * x /\ p = y * d
  BY <1>2
<1>4. PICK z \in Int : z = y + 1 /\ p + d = z * d
  BY <1>3
<1>5. (y * d) % d = 0 /\ (z * d) % d = 0
  BY MultipleMod
<1> QED  BY <1>3, <1>4, <1>5

(***************************************************************************)
(* An iteration of the inner loop of pmm_alloc: the upper half of the block*)
(* in hand goes on its list, the lower half stays in hand.                 *)
(***************************************************************************)
LEMMA SplitStepOK == IInv /\ alloc_split => IInv' /\ Kept
<1> SUFFICES ASSUME IInv, alloc_split PROVE IInv' /\ Kept
  OBVIOUS
<1>0. PICK p \in Pfns, c \in Orders : p = page /\ c = cur
  BY DEF IInv, TypeOK
<1>1. PICK k \in Orders : k = c - 1 /\ req <= k /\ k \in 0 .. 8 /\ c = k + 1
  BY <1>0, MaxOrderAssumption DEF alloc_split, IInv, TypeOK, Orders
<1>2. PICK b : b = p + Pow2(k)
  OBVIOUS
<1>3. /\ pc = "split" /\ pc' = pc /\ g_pfndb /\ g_pmm_ready
      /\ pmm_prepare_page(b, {"FREE"}, k) /\ pmm_list_push(k, b) /\ cur' = k
      /\ UNCHANGED <<memmap, g_pfndb, g_max_pfn, g_free_pages, g_pmm_ready, page, req,
                     scan, held>>
  BY <1>0, <1>1, <1>2 DEF alloc_split, pmm_prepare_page, pmm_list_push, IInv, PhaseOK
<1>4. /\ InHand = {p} /\ InHand' = {p} /\ p \in Heads /\ OrderOf(p) = k + 1 /\ p \in Nat
      /\ ~Listed(p) /\ p \notin held
  BY <1>0, <1>1, <1>3, HeadFacts DEF InHand, Heads, FreeHeads, OrderOf, IInv, OnePlace
<1>5. /\ Pow2(k) \in Nat \ {0} /\ Pow2(k + 1) = 2 * Pow2(k) /\ Pow2(k + 1) \in Nat \ {0}
      /\ g_max_pfn \in Nat
  BY <1>1, Pow2Facts DEF IInv, TypeOK
<1>6. BlockOK(p) /\ p % Pow2(k + 1) = 0 /\ p + Pow2(k + 1) <= g_max_pfn + 1
  BY <1>4 DEF IInv, NoOverlap, BlockOK
<1>7. p % Pow2(k) = 0 /\ b % Pow2(k) = 0
  <2>1. PICK d \in Nat \ {0}, e \in Nat \ {0} : d = Pow2(k) /\ e = Pow2(k + 1)
    BY <1>5
  <2>2. p % d = 0 /\ (p + d) % d = 0
    BY <1>4, <1>5, <1>6, <2>1, HalfArith
  <2> QED  BY <1>2, <2>1, <2>2
<1>8. b \in Pfns /\ b \in Nat /\ b # p
  BY <1>2, <1>4, <1>5, <1>6 DEF Pfns
<1>9. b \notin Heads
  <2> SUFFICES ASSUME b \in Heads PROVE FALSE
    OBVIOUS
  <2>1. Apart(b, p) /\ Pow2(OrderOf(b)) \in Nat /\ Pow2(OrderOf(b)) >= 1
    BY <1>4, <1>8, HeadFacts DEF IInv, NoOverlap
  <2> QED  BY <1>2, <1>4, <1>5, <1>8, <2>1 DEF Apart
<1>10. ~Listed(b) /\ b \notin held
  BY <1>3, <1>8, <1>9 DEF Heads, FreeHeads, DbPfns
<1>11. /\ flags' \in [Pfns -> SUBSET PageFlags]
       /\ order' \in [Pfns -> Orders]
       /\ next' \in [Pfns -> Pfns \cup {NULL}]
       /\ prev' \in [Pfns -> Pfns \cup {NULL}]
       /\ head' \in [Orders -> Pfns \cup {NULL}]
       /\ count' \in [Orders -> Int]
       /\ \A q \in Pfns : Listed(q)' <=> (Listed(q) \/ q = b)
       /\ LinksOK'
  BY <1>3, <1>8, <1>10, PushOK DEF IInv
<1>12. Pfns' = Pfns /\ DbPfns' = Pfns /\ DbPfns = Pfns
  BY <1>3 DEF Pfns, DbPfns
<1>13. TypeOK'
  BY <1>3, <1>11, <1>12 DEF IInv, TypeOK
<1>14. /\ flags'[b] = {"FREE"} /\ order'[b] = k
       /\ \A q \in Pfns : q # b => flags'[q] = flags[q] /\ order'[q] = order[q]
  BY <1>3, <1>8, <1>12 DEF pmm_prepare_page, IInv, TypeOK
<1>15. Heads' = Heads \cup {b}
  BY <1>3, <1>4, <1>8, <1>11, <1>12 DEF Heads, FreeHeads
<1>16. /\ OrderOf(p)' = k /\ OrderOf(b)' = k
       /\ \A h \in Heads \ {p} : OrderOf(h)' = OrderOf(h)
  BY <1>3, <1>4, <1>8, <1>9, <1>14, HeadFacts DEF OrderOf
<1>17. /\ BlockPages(p) = BlockPages(p)' \cup BlockPages(b)'
       /\ \A h \in Heads \ {p} : BlockPages(h)' = BlockPages(h)
  BY SMTT(30), <1>2, <1>4, <1>5, <1>16 DEF BlockPages
<1>18. NoOverlap'
  <2>1. ASSUME NEW h \in Heads \ {p} PROVE BlockOK(h)'
    <3>1. BlockOK(h)
      BY DEF IInv, NoOverlap
    <3>2. \A q \in BlockPages(h) : "RESERVED" \notin flags'[q]
      BY <1>14, <3>1, HeadFacts DEF BlockOK
    <3> QED  BY <1>3, <1>16, <1>17, <3>1, <3>2 DEF BlockOK
  <2>2. BlockOK(p)' /\ BlockOK(b)'
    <3>1. \A q \in BlockPages(p) : "RESERVED" \notin flags'[q]
      BY <1>4, <1>6, <1>14, HeadFacts DEF BlockOK
    <3>2. p + Pow2(k) <= g_max_pfn + 1 /\ b + Pow2(k) <= g_max_pfn + 1
      BY <1>2, <1>4, <1>5, <1>6
    <3> QED  BY <1>3, <1>7, <1>16, <1>17, <3>1, <3>2 DEF BlockOK
  <2>3. ASSUME NEW h \in Heads \ {p}, NEW g \in Heads \ {p}, h # g PROVE Apart(h, g)'
    BY <1>16, <2>3 DEF IInv, NoOverlap, Apart
  <2>4. ASSUME NEW h \in Heads \ {p}
        PROVE  Apart(h, p)' /\ Apart(p, h)' /\ Apart(h, b)' /\ Apart(b, h)'
    <3>1. Apart(h, p)
      BY <1>4 DEF IInv, NoOverlap
    <3>2. PICK n \in Nat : n = Pow2(OrderOf(h)) /\ h \in Nat
      BY HeadFacts
    <3>3. h + n <= p \/ p + Pow2(k + 1) <= h
      BY <1>4, <3>1, <3>2 DEF Apart
    <3>4. (h + n <= p /\ h + n <= b) \/ (p + Pow2(k) <= h /\ b + Pow2(k) <= h)
      BY <1>2, <1>4, <1>5, <3>2, <3>3
    <3> QED  BY <1>16, <3>2, <3>4 DEF Apart
  <2>5. Apart(p, b)' /\ Apart(b, p)'
    BY <1>2, <1>4, <1>5, <1>8, <1>16 DEF Apart
  <2> QED  BY <1>15, <2>1, <2>2, <2>3, <2>4, <2>5 DEF NoOverlap
<1>19. FreeFlagInBlock'
  <2> SUFFICES ASSUME NEW q \in Pfns, "FREE" \in flags'[q]
               PROVE  \E h \in Heads' : q \in BlockPages(h)'
    BY <1>12 DEF FreeFlagInBlock
  <2>1. CASE q = b
    BY <1>4, <1>5, <1>8, <1>15, <1>16, <2>1 DEF BlockPages
  <2>2. CASE q # b
    <3>1. PICK h \in Heads : q \in BlockPages(h)
      BY <1>3, <1>14, <2>2 DEF IInv, FreeFlagInBlock
    <3> QED  BY <1>4, <1>15, <1>17, <3>1
  <2> QED  BY <2>1, <2>2
<1>20. OnePlace'
  <2>1. ~Listed(p)'
    BY <1>4, <1>8, <1>11
  <2>2. \A q \in held : "FREE" \notin flags'[q]
    BY <1>10, <1>14 DEF IInv, OnePlace, TypeOK
  <2> QED  BY <1>3, <1>4, <2>1, <2>2 DEF OnePlace
<1>21. PhaseOK' /\ SplitOK' /\ ScanOK'
  BY <1>1, <1>3 DEF IInv, PhaseOK, SplitOK, ScanOK
<1>22. NoBuddies'
  <2>1. b = pmm_buddy_pfn(p, k) /\ p = pmm_buddy_pfn(b, k)
    BY <1>1, <1>2, <1>4, <1>6, <1>7, BuddyTwice
  <2>2. k + 1 < PMM_MAX_ORDER => (p \in Pfns /\ Listed(p) => order[p] # k)
    BY <1>4
  <2>3. g_pfndb /\ g_pfndb'
    BY <1>3
  <2> QED  BY <1>7, <1>8, <1>11, <1>12, <1>14, <2>1, <2>2, <2>3, OneMoreListed
<1>23. IInv'
  BY <1>11, <1>13, <1>18, <1>19, <1>20, <1>21, <1>22 DEF IInv
<1>24. Kept
  <2>1. FreeHeads' = FreeHeads \cup {b} /\ p \in FreeHeads
    BY <1>4, <1>8, <1>11, <1>12 DEF FreeHeads
  <2>2. \A h \in FreeHeads \ {p} : BlockPages(h)' = BlockPages(h)
    BY <1>17 DEF Heads
  <2>3. b \notin FreeHeads
    BY <1>9 DEF Heads
  <2>4. FreePages' = FreePages
    BY <1>8, <1>17, <2>1, <2>2, <2>3 DEF FreePages
  <2>5. \A h \in held : OrderOf(h)' = OrderOf(h)
    BY <1>4, <1>16 DEF Heads
  <2> QED  BY <1>3, <1>23, <2>4, <2>5, SameHeld DEF Kept
<1> QED  BY <1>23, <1>24

-----------------------------------------------------------------------------
(***************************************************************************)
(* The invariant holds in every reachable state.                           *)
(***************************************************************************)
LEMMA Inductive == Spec => []IInv
<1>1. Init => IInv
  BY InitIInv
<1>2. IInv /\ [Next]_vars => IInv'
  <2> SUFFICES ASSUME IInv, [Next]_vars PROVE IInv'
    OBVIOUS
  <2>1. CASE Step
    BY <2>1, BootPfndbOK, InitResetOK, InitFailOK, InitSkipOK, InitFreeOK, InitDoneOK,
       MergeOK, FreeDoneOK, SplitStepOK, AllocDoneOK DEF Step
  <2>2. CASE Call
    <3>1. ASSUME NEW k \in 0 .. PMM_MAX_ORDER, pmm_alloc(k) PROVE IInv'
      BY <3>1, AllocOK
    <3>2. ASSUME NEW p, p = NULL \/ MayFree(p), pmm_free(p) PROVE IInv'
      BY <3>2, FreeOK
    <3> QED  BY <2>2, <3>1, <3>2 DEF Call
  <2>3. CASE Halted \/ UNCHANGED vars
    BY <2>3, StutterIInv DEF Halted
  <2> QED  BY <2>1, <2>2, <2>3 DEF Next
<1> QED  BY <1>1, <1>2, PTL DEF Spec

(***************************************************************************)
(* Links, heads and the page in hand never leave the database and orders   *)
(* stay below PMM_MAX_ORDER, in mm/pmm.c's every loop iteration.           *)
(***************************************************************************)
THEOREM TypeCorrect == Spec => []TypeOK
<1>1. IInv => TypeOK
  BY DEF IInv
<1> QED  BY <1>1, Inductive, PTL

(***************************************************************************)
(* mm/pmm.c never puts a page in two blocks: free, held and in-hand blocks *)
(* are aligned, inside the database, free of RESERVED pages and disjoint.  *)
(***************************************************************************)
THEOREM BlocksDisjoint == Spec => []NoOverlap
<1>1. IInv => NoOverlap
  BY DEF IInv
<1> QED  BY <1>1, Inductive, PTL

(***************************************************************************)
(* The buddy that pmm_free_block unlinks is on the list of its order.      *)
(***************************************************************************)
THEOREM BuddyIsListed == Spec => []MergesListedBuddy
<1>1. IInv => MergesListedBuddy
  <2> SUFFICES ASSUME IInv, pc = "coalesce", CanMerge
               PROVE  Listed(pmm_buddy_pfn(page, cur))
    BY DEF MergesListedBuddy
  <2>1. PICK p \in Pfns, k \in Orders : p = page /\ k = cur
    BY DEF IInv, TypeOK
  <2>2. PICK b : b = pmm_buddy_pfn(p, k)
    OBVIOUS
  <2>3. Listed(b)
    BY <2>1, <2>2, BuddyListed
  <2> QED  BY <2>1, <2>2, <2>3
<1> QED  BY <1>1, Inductive, PTL

-----------------------------------------------------------------------------
(***************************************************************************)
(* The refinement.  The table Pow2 is the power PhysMem speaks of.         *)
(***************************************************************************)
LEMMA Pow2Power == \A k \in Orders : Pow2(k) = 2^k
<1>1. \A k \in 0 .. 9 : Pow2(k) = 2^k
  <2>1. SUFFICES ASSUME NEW k \in 0 .. 9 PROVE Pow2(k) = 2^k
    OBVIOUS
  <2>2. CASE k = 0  BY <2>2 DEF Pow2
  <2>3. CASE k = 1  BY <2>3 DEF Pow2
  <2>4. CASE k = 2  BY <2>4 DEF Pow2
  <2>5. CASE k = 3  BY <2>5 DEF Pow2
  <2>6. CASE k = 4  BY <2>6 DEF Pow2
  <2>7. CASE k = 5  BY <2>7 DEF Pow2
  <2>8. CASE k = 6  BY <2>8 DEF Pow2
  <2>9. CASE k = 7  BY <2>9 DEF Pow2
  <2>10. CASE k = 8  BY <2>10 DEF Pow2
  <2>11. CASE k = 9  BY <2>11 DEF Pow2
  <2> QED  BY <2>2, <2>3, <2>4, <2>5, <2>6, <2>7, <2>8, <2>9, <2>10, <2>11
<1> QED  BY <1>1, OrderRange

(***************************************************************************)
(* The pages that can be handed out, as PhysMem sees them.                 *)
(***************************************************************************)
Avail == IF g_pmm_ready THEN FreePages ELSE {}

(***************************************************************************)
(* A step that keeps the pages, or runs before the allocator is up, is     *)
(* invisible.                                                              *)
(***************************************************************************)
LEMMA Invisible ==
  ASSUME g_pmm_ready' = g_pmm_ready,
         \/ Kept
         \/ g_pmm_ready = FALSE /\ HeldBlocks' = {} /\ HeldBlocks = {}
  PROVE  UNCHANGED <<g_pmm_ready, Avail, HeldBlocks>>
BY DEF Avail, Kept

LEMMA AllocStep ==
  ASSUME IInv, alloc_done
  PROVE  \E k \in Orders : \E p \in Avail : PM!Alloc(p, k)
<1>1. PICK p, k : p = page /\ k = req
  OBVIOUS
<1>2. k \in Orders /\ g_pmm_ready = TRUE /\ g_pmm_ready' = TRUE
  BY <1>1 DEF alloc_done, IInv, TypeOK, PhaseOK
<1>3. Given(p, k)
  BY <1>1, AllocDoneOK
<1>4. Avail = FreePages /\ Avail' = FreePages'
  BY <1>2 DEF Avail
<1>5. PM!Block(p, k) = BlockPages(p) /\ p % 2^k = 0
  BY <1>2, <1>3, Pow2Power DEF PM!Block, Given
<1>6. PM!Alloc(p, k)
  BY <1>2, <1>3, <1>4, <1>5 DEF PM!Alloc, Given, Avail, HeldBlocks
<1>7. p \in Avail
  BY <1>3, <1>4 DEF Given
<1> QED  BY <1>2, <1>6, <1>7

LEMMA FreeStep ==
  ASSUME IInv, NEW p \in held, TakenBack(p, order[p]), g_pmm_ready' = g_pmm_ready
  PROVE  \E b \in HeldBlocks : PM!Free(b[1], b[2])
<1>1. PICK k \in Orders : k = order[p]
  BY HeadFacts DEF IInv, TypeOK, Heads
<1>2. g_pmm_ready = TRUE
  BY DEF IInv, TypeOK, PhaseOK
<1>3. Avail = FreePages /\ Avail' = FreePages'
  BY <1>2 DEF Avail
<1>4. PM!Block(p, k) = BlockPages(p)
  BY <1>1, Pow2Power DEF PM!Block, TakenBack
<1>5. PM!Free(p, k)
  BY <1>1, <1>3, <1>4 DEF PM!Free, TakenBack, Avail, HeldBlocks
<1>6. PICK b \in HeldBlocks : b = <<p, k>>
  BY <1>1 DEF TakenBack
<1>7. b[1] = p /\ b[2] = k
  BY <1>6
<1> QED  BY <1>5, <1>6, <1>7

(***************************************************************************)
(* mm/pmm.c implements PhysMem: blocks are handed out and given back as if *)
(* there were no lists, no splitting and no merging.                       *)
(***************************************************************************)
THEOREM RefinesPhysMem == Spec => ImplementsPhysMem
<1>1. Init => PM!Init
  BY DEF Init, PM!Init, HeldBlocks
<1>2. IInv /\ IInv' /\ [Next]_vars =>
        [PM!Next]_<<g_pmm_ready, Avail, HeldBlocks>>
  <2> SUFFICES ASSUME IInv, IInv', [Next]_vars,
                      ~ UNCHANGED <<g_pmm_ready, Avail, HeldBlocks>>
               PROVE  PM!Next
    OBVIOUS
  <2>1. CASE BootPfndb \/ pmm_init_fail
    <3>1. pc \in {"boot", "pfndb", "halt"} /\ pc' \in {"boot", "pfndb", "halt"}
      BY <2>1 DEF BootPfndb, pmm_init_fail
    <3>2. HeldBlocks = {} /\ HeldBlocks' = {} /\ ~g_pmm_ready /\ ~g_pmm_ready'
      BY <3>1 DEF IInv, PhaseOK, HeldBlocks
    <3>3. g_pmm_ready = FALSE /\ g_pmm_ready' = FALSE
      BY <3>2 DEF IInv, TypeOK
    <3> QED  BY <3>2, <3>3, Invisible
  <2>2. CASE pmm_init_reset \/ pmm_init_free
    <3>1. ~g_pmm_ready /\ ~g_pmm_ready' /\ held = {} /\ held' = {}
      BY <2>2 DEF pmm_init_reset, pmm_init_free, IInv, PhaseOK
    <3>2. HeldBlocks = {} /\ HeldBlocks' = {}
      BY <3>1 DEF HeldBlocks
    <3>3. g_pmm_ready = FALSE /\ g_pmm_ready' = FALSE
      BY <3>1 DEF IInv, TypeOK
    <3> QED  BY <3>2, <3>3, Invisible
  <2>3. CASE pmm_init_skip \/ free_block_merge \/ free_block_done \/ alloc_split
    <3>1. Kept
      BY <2>3, InitSkipOK, MergeOK, FreeDoneOK, SplitStepOK
    <3>2. g_pmm_ready' = g_pmm_ready
      BY <2>3 DEF pmm_init_skip, free_block_merge, free_block_done, alloc_split, pmmVars
    <3> QED  BY <3>1, <3>2, Invisible
  <2>4. CASE pmm_init_done
    <3>1. Kept
      BY <2>4, InitDoneOK
    <3>2. g_pmm_ready = FALSE /\ g_pmm_ready' = TRUE
      BY <2>4 DEF pmm_init_done, IInv, TypeOK, PhaseOK
    <3>3. FreePages' \subseteq Nat
      <4>1. FreePages \subseteq Nat
        BY HeadFacts DEF FreePages, Heads
      <4> QED  BY <3>1, <4>1 DEF Kept
    <3>4. Avail' \subseteq Nat
      BY <3>2, <3>3 DEF Avail
    <3> QED  BY <3>1, <3>2, <3>4 DEF PM!Next, PM!Boot, Kept, Avail, HeldBlocks
  <2>5. CASE alloc_done
    BY <2>5, AllocStep DEF PM!Next, Avail
  <2>6. ASSUME NEW k \in 0 .. PMM_MAX_ORDER, pmm_alloc(k) PROVE FALSE
    <3>1. Kept
      BY <2>6, AllocOK
    <3>2. g_pmm_ready' = g_pmm_ready
      BY <2>6 DEF pmm_alloc, vars, pmmVars
    <3> QED  BY <3>1, <3>2, Invisible
  <2>7. ASSUME NEW p, p = NULL \/ MayFree(p), pmm_free(p) PROVE PM!Next
    <3>1. g_pmm_ready' = g_pmm_ready
      BY <2>7 DEF pmm_free, vars, pmmVars
    <3>2. CASE UNCHANGED vars
      BY <3>1, <3>2, StutterIInv, Invisible
    <3>3. CASE p \in held /\ TakenBack(p, order[p])
      BY <3>1, <3>3, FreeStep DEF PM!Next, HeldBlocks
    <3> QED  BY <2>7, <3>2, <3>3, FreeOK
  <2>8. CASE Halted \/ UNCHANGED vars
    <3>1. Kept /\ g_pmm_ready' = g_pmm_ready
      BY <2>8, StutterIInv DEF Halted, vars, pmmVars
    <3> QED  BY <3>1, Invisible
  <2>9. CASE Call
    BY <2>6, <2>7, <2>9 DEF Call
  <2> QED
    BY <2>1, <2>2, <2>3, <2>4, <2>5, <2>8, <2>9 DEF Next, Step
<1> QED
  BY <1>1, <1>2, Inductive, PTL DEF Spec, ImplementsPhysMem, PM!Spec, Avail, HeldBlocks

-----------------------------------------------------------------------------
(***************************************************************************)
(* The counters.  g_total_pages counts the FREE pages that pmm_init finds; *)
(* they are what its second loop hands to pmm_free_block, one by one.      *)
(***************************************************************************)
ToScan   == {q \in Pfns : q >= scan /\ Scannable(q)}
Scanning == pc = "scan" \/ (pc = "coalesce" /\ ~g_pmm_ready)

CountInv ==
  /\ pc = "pfndb" /\ g_pfndb => \A q \in Pfns : flags[q] \in {{"FREE"}, {"RESERVED"}}
  /\ Scanning => Cardinality(FreePages \cup ToScan) = g_total_pages
  /\ FreeCountExact

(***************************************************************************)
(* Pages of blocks are page frames, of which there are finitely many.      *)
(***************************************************************************)
LEMMA PagesFinite ==
  ASSUME IInv
  PROVE  /\ FreePages \subseteq Pfns /\ HeldPages \subseteq Pfns
         /\ IsFiniteSet(FreePages) /\ Cardinality(FreePages) \in Nat
<1>1. FreePages \subseteq Pfns /\ HeldPages \subseteq Pfns
  BY HeadFacts DEF FreePages, HeldPages, Heads
<1>2. IsFiniteSet(Pfns)
  BY FS_Interval DEF Pfns, IInv, TypeOK
<1>3. IsFiniteSet(FreePages)
  BY <1>1, <1>2, FS_Subset
<1> QED  BY <1>1, <1>3, FS_CardinalityType

(***************************************************************************)
(* A block of order k has Pow2(k) pages.                                   *)
(***************************************************************************)
LEMMA BlockSize ==
  ASSUME NEW p \in Nat, NEW k \in Orders
  PROVE  /\ IsFiniteSet(p .. (p + Pow2(k) - 1))
         /\ Cardinality(p .. (p + Pow2(k) - 1)) = Pow2(k)
<1>1. PICK n \in Nat : n = Pow2(k) /\ n >= 1
  BY OrderRange, Pow2Facts
<1>2. p \in Int /\ p + n - 1 \in Int
  OBVIOUS
<1>3. IsFiniteSet(p .. (p + n - 1)) /\ Cardinality(p .. (p + n - 1)) = n
  <2>1. PICK t \in Int : t = p + n - 1
    OBVIOUS
  <2>2. IsFiniteSet(p .. t) /\ Cardinality(p .. t) = IF p > t THEN 0 ELSE t - p + 1
    BY FS_Interval
  <2> QED  BY <1>1, <2>1, <2>2
<1> QED  BY <1>1, <1>3

(***************************************************************************)
(* Steps that keep the pages keep the counters right.                      *)
(***************************************************************************)
LEMMA KeptCount ==
  ASSUME FreeCountExact, Kept, UNCHANGED <<g_free_pages, g_total_pages, g_pmm_ready>>
  PROVE  FreeCountExact'
BY DEF FreeCountExact, Kept

LEMMA CountInit == Init => CountInv
<1> SUFFICES ASSUME Init PROVE CountInv
  OBVIOUS
<1>1. IInv /\ pc = "boot" /\ g_free_pages = 0
  BY InitIInv DEF Init
<1>2. FreePages = {} /\ ~g_pmm_ready
  BY <1>1, NothingYet
<1>3. FreeCountExact
  BY <1>1, <1>2, FS_EmptySet DEF FreeCountExact
<1> QED  BY <1>1, <1>3 DEF CountInv, Scanning

(***************************************************************************)
(* Before the second loop of pmm_init: the flags pfndb_init left, and the  *)
(* first loop, which counts the FREE pages and marks them USED.            *)
(***************************************************************************)
LEMMA CountBoot ==
  ASSUME IInv, IInv', CountInv, BootPfndb \/ pmm_init_fail PROVE CountInv'
<1>1. /\ pc \in {"boot", "pfndb"} /\ pc' \in {"pfndb", "halt"}
      /\ UNCHANGED <<g_free_pages, g_total_pages, g_pmm_ready, head, held>>
  BY DEF BootPfndb, pmm_init_fail, pmmVars
<1>2. FreePages = {} /\ ~g_pmm_ready /\ held = {}
  BY <1>1, NothingYet DEF IInv, PhaseOK
<1>3. FreePages' = {}
  <2>1. ASSUME NEW p \in DbPfns' PROVE ~Listed(p)'
    <3>0. g_pfndb' /\ p \in Pfns' /\ p \in Int
      BY DEF DbPfns, Pfns
    <3>1. order'[p] \in Orders /\ p # NULL
      BY <3>0, NullAssumption DEF IInv, TypeOK
    <3>2. head'[order'[p]] = NULL /\ prev'[p] = NULL
      BY <1>1, <3>1 DEF IInv, PhaseOK
    <3> QED  BY <3>1, <3>2 DEF Listed
  <2>2. FreeHeads' = {}
    BY <1>1, <2>1 DEF FreeHeads, InHand
  <2> QED  BY <2>2 DEF FreePages
<1>4. FreeCountExact'
  BY <1>1, <1>2, <1>3 DEF CountInv, FreeCountExact
<1>5. pc' = "pfndb" /\ g_pfndb' => \A q \in Pfns' : flags'[q] \in {{"FREE"}, {"RESERVED"}}
  <2> SUFFICES ASSUME pc' = "pfndb", g_pfndb', NEW q \in Pfns'
               PROVE  flags'[q] \in {{"FREE"}, {"RESERVED"}}
    OBVIOUS
  <2>1. pc = "boot" /\ ~g_pfndb /\ pfndb_init
    BY DEF BootPfndb, pmm_init_fail, IInv, PhaseOK
  <2>2. flags' = [p \in 0 .. g_max_pfn' |->
                    IF \E i \in Usable(memmap') :
                         p \in pfndb_mark_range(memmap'[i].base, memmap'[i].length, g_max_pfn')
                      THEN {"FREE"} ELSE {"RESERVED"}]
    BY <2>1 DEF pfndb_init, pfndbVars, pageVars
  <2> QED  BY <2>2 DEF Pfns
<1> QED  BY <1>1, <1>4, <1>5 DEF CountInv, Scanning

LEMMA CountReset ==
  ASSUME IInv, IInv', CountInv, pmm_init_reset PROVE CountInv'
<1>1. /\ pc = "pfndb" /\ g_pfndb /\ pc' = "scan" /\ scan' = 0 /\ g_pmm_ready' = FALSE
      /\ g_free_pages' = 0 /\ g_total_pages' = Cardinality({p \in Pfns : "FREE" \in flags[p]})
      /\ flags' = [p \in Pfns |-> ResetFlags(flags[p])] /\ Pfns' = Pfns
  BY DEF pmm_init_reset, Pfns
<1>2. FreePages' = {}
  BY InitResetOK
<1>3. Pfns \subseteq Nat /\ \A q \in Pfns : flags[q] \in {{"FREE"}, {"RESERVED"}}
  BY <1>1, HeadFacts DEF CountInv
<1>4. \A q \in Pfns : Scannable(q)' <=> "FREE" \in flags[q]
  <2>1. SUFFICES ASSUME NEW q \in Pfns PROVE Scannable(q)' <=> "FREE" \in flags[q]
    OBVIOUS
  <2>2. flags'[q] = ResetFlags(flags[q])
    BY <1>1
  <2>3. CASE flags[q] = {"FREE"}
    BY <2>2, <2>3 DEF Scannable, ResetFlags
  <2>4. CASE flags[q] = {"RESERVED"}
    BY <2>2, <2>4 DEF Scannable, ResetFlags
  <2> QED  BY <1>3, <2>3, <2>4
<1>5. ToScan' = {p \in Pfns : "FREE" \in flags[p]}
  <2>1. ToScan' = {q \in Pfns : q >= 0 /\ Scannable(q)'}
    BY <1>1 DEF ToScan
  <2>2. \A q \in Pfns : q >= 0
    BY <1>3
  <2> QED  BY <1>4, <2>1, <2>2
<1>6. (FreePages \cup ToScan)' = {p \in Pfns : "FREE" \in flags[p]}
  BY <1>2, <1>5
<1>7. FreeCountExact'
  BY <1>1, <1>2, FS_EmptySet DEF FreeCountExact
<1> QED  BY <1>1, <1>6, <1>7 DEF CountInv

(***************************************************************************)
(* The second loop.                                                        *)
(***************************************************************************)
LEMMA CountSkip ==
  ASSUME IInv, IInv', CountInv, pmm_init_skip PROVE CountInv'
<1>1. /\ pc = "scan" /\ pc' = "scan" /\ scan \in Nat /\ scan' = scan + 1 /\ ~Scannable(scan)
      /\ UNCHANGED <<g_free_pages, g_total_pages, g_pmm_ready, g_max_pfn, flags>>
  BY DEF pmm_init_skip, pmmVars, pfndbVars, pageVars, IInv, TypeOK
<1>2. Kept
  BY InitSkipOK
<1>3. Pfns' = Pfns /\ Pfns \subseteq Nat /\ \A q : Scannable(q)' = Scannable(q)
  BY <1>1, HeadFacts DEF Pfns, Scannable
<1>4. ToScan' = ToScan
  <2>1. \A q \in Pfns : q >= scan + 1 <=> q >= scan /\ q # scan
    BY <1>1, <1>3
  <2> QED  BY <1>1, <1>3, <2>1 DEF ToScan
<1>5. FreeCountExact'
  BY <1>1, <1>2, KeptCount DEF CountInv
<1>6. (FreePages \cup ToScan)' = FreePages \cup ToScan
  BY <1>2, <1>4 DEF Kept
<1> QED  BY <1>1, <1>5, <1>6 DEF CountInv, Scanning

LEMMA CountInitFree ==
  ASSUME IInv, IInv', CountInv, pmm_init_free PROVE CountInv'
<1>1. /\ pc = "scan" /\ pc' = "coalesce" /\ scan \in Nat /\ scan' = scan + 1
      /\ scan <= g_max_pfn /\ Scannable(scan) /\ ~g_pmm_ready
      /\ g_free_pages' = g_free_pages + 1
      /\ UNCHANGED <<g_total_pages, g_pmm_ready, g_max_pfn, flags>>
  BY DEF pmm_init_free, pfndbVars, pageVars, IInv, TypeOK, PhaseOK
<1>2. FreePages' = FreePages \cup {scan} /\ scan \notin FreePages
  BY InitFreeOK
<1>3. Pfns' = Pfns /\ Pfns \subseteq Nat /\ (\A q : Scannable(q)' = Scannable(q)) /\ scan \in Pfns
  BY <1>1, HeadFacts DEF Pfns, Scannable
<1>4. ToScan = ToScan' \cup {scan}
  <2>1. \A q \in Pfns : q >= scan <=> q >= scan + 1 \/ q = scan
    BY <1>1, <1>3
  <2> QED  BY <1>1, <1>3, <2>1 DEF ToScan
<1>5. (FreePages \cup ToScan)' = FreePages \cup ToScan
  BY <1>2, <1>4
<1>6. Cardinality(FreePages') = Cardinality(FreePages) + 1
  BY <1>2, PagesFinite, FS_AddElement
<1>7. FreeCountExact'
  BY <1>1, <1>6 DEF FreeCountExact, CountInv
<1> QED  BY <1>1, <1>5, <1>7 DEF CountInv, Scanning

LEMMA CountInitDone ==
  ASSUME IInv, IInv', CountInv, pmm_init_done PROVE CountInv'
<1>1. /\ pc = "scan" /\ pc' = "idle" /\ scan \in Nat /\ scan > g_max_pfn
      /\ UNCHANGED <<g_free_pages, g_total_pages>> /\ g_max_pfn \in Nat
      /\ held = {}
  BY DEF pmm_init_done, IInv, TypeOK, PhaseOK
<1>2. Kept
  BY InitDoneOK
<1>3. ToScan = {} /\ HeldPages = {}
  BY <1>1 DEF ToScan, Pfns, HeldPages
<1>4. Cardinality(FreePages \cup HeldPages) = g_total_pages
  BY <1>1, <1>3 DEF CountInv, Scanning
<1>5. FreeCountExact'
  BY <1>1, <1>2, <1>4 DEF FreeCountExact, Kept, CountInv
<1> QED  BY <1>1, <1>5 DEF CountInv, Scanning

(***************************************************************************)
(* Steps inside pmm_free_block and pmm_alloc move no page across scan.     *)
(***************************************************************************)
LEMMA CountMove ==
  ASSUME IInv, IInv', CountInv,
         free_block_merge \/ free_block_done \/ alloc_split
  PROVE  CountInv'
<1>1. Kept
  BY MergeOK, FreeDoneOK, SplitStepOK
<1>2. /\ pc \in {"coalesce", "split"} /\ pc' # "pfndb"
      /\ UNCHANGED <<g_free_pages, g_total_pages, g_pmm_ready, g_max_pfn, scan>>
  BY DEF free_block_merge, free_block_done, alloc_split
<1>3. FreeCountExact'
  BY <1>1, <1>2, KeptCount DEF CountInv
<1>4. Scanning' => Scanning
  BY <1>2 DEF Scanning, free_block_merge, free_block_done, alloc_split, IInv, PhaseOK
<1>5. ASSUME Scanning' PROVE ToScan' = ToScan
  <2>1. pc = "coalesce" /\ ~g_pmm_ready /\ g_pfndb /\ Pfns' = Pfns
    BY <1>2, <1>4, <1>5 DEF Scanning, Pfns, IInv, PhaseOK
  <2>2. page \in Heads /\ page \in Nat
    BY <2>1, HeadFacts DEF Heads, FreeHeads, InHand
  <2>3. page < scan /\ scan \in Nat
    <3>1. PICK n \in Nat : n = Pow2(OrderOf(page)) /\ n >= 1 /\ page + n <= scan
      BY <2>1, <2>2, HeadFacts DEF IInv, ScanOK
    <3> QED  BY <2>2, <3>1 DEF IInv, TypeOK
  <2>4. \A q \in Pfns : q # page => flags'[q] = flags[q]
    BY <2>1 DEF free_block_merge, free_block_done, alloc_split, pmm_prepare_page, IInv, TypeOK
  <2>5. \A q \in Pfns : q >= scan => q # page
    BY <2>2, <2>3, HeadFacts
  <2> QED  BY <1>2, <2>1, <2>4, <2>5 DEF ToScan, Scannable
<1>6. ASSUME Scanning' PROVE (FreePages \cup ToScan)' = FreePages \cup ToScan
  BY <1>1, <1>5, <1>6 DEF Kept
<1> QED  BY <1>2, <1>3, <1>4, <1>6 DEF CountInv

LEMMA CountAllocDone ==
  ASSUME IInv, IInv', CountInv, alloc_done PROVE CountInv'
<1>1. PICK p \in Pfns, k \in Orders : p = page /\ k = req
  BY DEF IInv, TypeOK
<1>2. /\ pc' = "idle" /\ g_free_pages' = g_free_pages - Pow2(k)
      /\ UNCHANGED <<g_total_pages, g_pmm_ready>>
  BY <1>1 DEF alloc_done
<1>3. PICK B : B = BlockPages(p)
  OBVIOUS
<1>4. /\ B = p .. (p + Pow2(k) - 1) /\ B \subseteq FreePages
      /\ FreePages' = FreePages \ B /\ HeldPages' = HeldPages \cup B
  BY <1>1, <1>3, AllocDoneOK DEF Given
<1>5. p \in Nat
  BY HeadFacts
<1>6. IsFiniteSet(B) /\ Cardinality(B) = Pow2(k) /\ Pow2(k) \in Nat
  BY <1>4, <1>5, BlockSize, OrderRange, Pow2Facts
<1>7. Cardinality(FreePages') = Cardinality(FreePages) - Pow2(k)
  <2>1. FreePages \cap B = B
    BY <1>4
  <2>2. Cardinality(FreePages \ B) = Cardinality(FreePages) - Cardinality(FreePages \cap B)
    BY PagesFinite, FS_Difference
  <2> QED  BY <1>4, <1>6, <2>1, <2>2
<1>8. (FreePages \cup HeldPages)' = FreePages \cup HeldPages
  BY <1>4
<1>9. FreeCountExact'
  BY <1>2, <1>7, <1>8 DEF FreeCountExact, CountInv
<1> QED  BY <1>2, <1>9 DEF CountInv, Scanning

(***************************************************************************)
(* The calls.                                                              *)
(***************************************************************************)
LEMMA CountStutter == ASSUME IInv, CountInv, UNCHANGED vars PROVE CountInv'
<1>1. Kept
  BY StutterIInv
<1>2. /\ UNCHANGED <<g_free_pages, g_total_pages, g_pmm_ready, g_max_pfn, scan, flags, pc, g_pfndb>>
  BY DEF vars, pmmVars, pfndbVars, pageVars, callVars
<1>3. FreeCountExact'
  BY <1>1, <1>2, KeptCount DEF CountInv
<1>4. Pfns' = Pfns
  BY <1>2 DEF Pfns
<1>5. (FreePages \cup ToScan)' = FreePages \cup ToScan
  BY <1>1, <1>2, <1>4 DEF Kept, ToScan, Scannable
<1> QED  BY <1>2, <1>3, <1>4, <1>5 DEF CountInv, Scanning

LEMMA CountAlloc ==
  ASSUME IInv, IInv', CountInv, NEW k \in 0 .. PMM_MAX_ORDER, pmm_alloc(k) PROVE CountInv'
<1>1. CASE UNCHANGED vars
  BY <1>1, CountStutter
<1>2. CASE ~ UNCHANGED vars
  <2>1. pc' = "split" /\ UNCHANGED <<g_free_pages, g_total_pages, g_pmm_ready>>
    BY <1>2 DEF pmm_alloc
  <2>2. FreeCountExact'
    BY <2>1, AllocOK, KeptCount DEF CountInv
  <2> QED  BY <2>1, <2>2 DEF CountInv, Scanning
<1> QED  BY <1>1, <1>2

LEMMA CountFree ==
  ASSUME IInv, IInv', CountInv, NEW p, p = NULL \/ MayFree(p), pmm_free(p) PROVE CountInv'
<1>1. CASE UNCHANGED vars
  BY <1>1, CountStutter
<1>2. CASE ~ UNCHANGED vars
  <2>1. /\ p \in held /\ TakenBack(p, order[p]) /\ UNCHANGED g_total_pages
        /\ g_free_pages' = g_free_pages + Pow2(order[p])
    BY <1>2, FreeOK
  <2>2. PICK k \in Orders : k = order[p]
    BY <2>1, HeadFacts DEF IInv, TypeOK, Heads
  <2>3. pc' = "coalesce" /\ g_pmm_ready /\ g_pmm_ready' = g_pmm_ready
    BY <1>2 DEF pmm_free, FreeAccepted
  <2>4. PICK B : B = BlockPages(p)
    OBVIOUS
  <2>5. /\ B = p .. (p + Pow2(k) - 1) /\ B \cap FreePages = {} /\ B \subseteq HeldPages
        /\ FreePages' = FreePages \cup B /\ HeldPages' = HeldPages \ B
    BY <2>1, <2>2, <2>4 DEF TakenBack
  <2>6. p \in Nat
    BY <2>1, HeadFacts DEF Heads
  <2>7. IsFiniteSet(B) /\ Cardinality(B) = Pow2(k) /\ Pow2(k) \in Nat
    BY <2>5, <2>6, BlockSize, OrderRange, Pow2Facts
  <2>8. Cardinality(FreePages') = Cardinality(FreePages) + Pow2(k)
    <3>1. FreePages \cap B = {}
      BY <2>5
    <3>2. Cardinality(FreePages \cup B) =
            Cardinality(FreePages) + Cardinality(B) - Cardinality({})
      BY <2>7, <3>1, PagesFinite, FS_Union
    <3> QED  BY <2>5, <2>7, <3>2, PagesFinite, FS_EmptySet
  <2>9. (FreePages \cup HeldPages)' = FreePages \cup HeldPages
    BY <2>5
  <2>10. FreeCountExact'
    BY <2>1, <2>2, <2>3, <2>8, <2>9 DEF FreeCountExact, CountInv
  <2> QED  BY <2>3, <2>10 DEF CountInv, Scanning
<1> QED  BY <1>1, <1>2

(***************************************************************************)
(* pmm_free_pages() is exact at every iteration of every loop, and no page *)
(* is ever lost: free and held pages add up to pmm_total_pages().          *)
(***************************************************************************)
THEOREM CountsExact == Spec => []FreeCountExact
<1>1. IInv /\ IInv' /\ CountInv /\ [Next]_vars => CountInv'
  <2> SUFFICES ASSUME IInv, IInv', CountInv, [Next]_vars PROVE CountInv'
    OBVIOUS
  <2>1. CASE Step
    BY <2>1, CountBoot, CountReset, CountSkip, CountInitFree, CountInitDone, CountMove,
       CountAllocDone DEF Step
  <2>2. CASE Call
    <3>1. ASSUME NEW k \in 0 .. PMM_MAX_ORDER, pmm_alloc(k) PROVE CountInv'
      BY <3>1, CountAlloc
    <3>2. ASSUME NEW p, p = NULL \/ MayFree(p), pmm_free(p) PROVE CountInv'
      BY <3>2, CountFree
    <3> QED  BY <2>2, <3>1, <3>2 DEF Call
  <2>3. CASE Halted \/ UNCHANGED vars
    BY <2>3, CountStutter DEF Halted
  <2> QED  BY <2>1, <2>2, <2>3 DEF Next
<1>2. CountInv => FreeCountExact
  BY DEF CountInv
<1> QED  BY <1>1, <1>2, CountInit, Inductive, PTL DEF Spec

-----------------------------------------------------------------------------
(***************************************************************************)
(* The free lists as wholes.  LinksOK is local: it allows a ring of pages  *)
(* that no head leads to.  Chains says that each list is one finite chain: *)
(* s lists the n pages of S without repetition from the head h on, and nx  *)
(* leads from each to the next.                                            *)
(***************************************************************************)
Chain(s, n, S, h, nx) ==
  /\ n \in Nat
  /\ s \in [1 .. n -> S]
  /\ \A i, j \in 1 .. n : s[i] = s[j] => i = j
  /\ \A p \in S : \E i \in 1 .. n : s[i] = p
  /\ h = IF n = 0 THEN NULL ELSE s[1]
  /\ \A i \in 1 .. n : nx[s[i]] = IF i = n THEN NULL ELSE s[i + 1]

(***************************************************************************)
(* What is left of a chain when p is taken out of it: the new head g and   *)
(* links ny skip p.                                                        *)
(***************************************************************************)
Skips(p, S, h, g, nx, ny) ==
  /\ NULL \notin S
  /\ \A q \in S : q # p => ny[q] = IF nx[q] = p THEN nx[p] ELSE nx[q]
  /\ g = IF h = p THEN nx[p] ELSE h

OnList(k) == {p \in DbPfns : Listed(p) /\ order[p] = k}

Chains == \A k \in Orders : \E s : Chain(s, count[k], OnList(k), head[k], next)

(***************************************************************************)
(* Chains of pages in general: the empty one, one page more in front, one  *)
(* page less anywhere.                                                     *)
(***************************************************************************)
LEMMA EmptyChain == ASSUME NEW nx PROVE \E s : Chain(s, 0, {}, NULL, nx)
<1>1. PICK s : s = [i \in 1 .. 0 |-> 0]
  OBVIOUS
<1>2. 1 .. 0 = {}
  OBVIOUS
<1>3. s \in [1 .. 0 -> {}]
  BY <1>1, <1>2
<1>4. Chain(s, 0, {}, NULL, nx)
  BY <1>2, <1>3 DEF Chain
<1> QED  BY <1>4

LEMMA SameChain ==
  ASSUME NEW s, NEW n, NEW S, NEW h, NEW nx, NEW ny, Chain(s, n, S, h, nx),
         \A p \in S : ny[p] = nx[p]
  PROVE  Chain(s, n, S, h, ny)
BY DEF Chain

LEMMA LongerChain ==
  ASSUME NEW s, NEW n, NEW S, NEW h, NEW nx, NEW ny, Chain(s, n, S, h, nx),
         NEW p, p \notin S, ny[p] = h, \A q \in S : ny[q] = nx[q]
  PROVE  \E t : Chain(t, n + 1, S \cup {p}, p, ny)
<1>1. /\ n \in Nat /\ s \in [1 .. n -> S]
      /\ \A i, j \in 1 .. n : s[i] = s[j] => i = j
      /\ \A q \in S : \E i \in 1 .. n : s[i] = q
      /\ h = IF n = 0 THEN NULL ELSE s[1]
      /\ \A i \in 1 .. n : nx[s[i]] = IF i = n THEN NULL ELSE s[i + 1]
  BY DEF Chain
<1>2. PICK t : t = [i \in 1 .. n + 1 |-> IF i = 1 THEN p ELSE s[i - 1]]
  OBVIOUS
<1>3. t[1] = p /\ \A i \in 1 .. n : t[i + 1] = s[i] /\ s[i] \in S
  BY <1>1, <1>2
<1>4. \A i \in 1 .. n + 1 : i = 1 \/ i - 1 \in 1 .. n
  BY <1>1
<1>5. t \in [1 .. n + 1 -> S \cup {p}]
  BY <1>1, <1>2, <1>4
<1>6. \A i, j \in 1 .. n + 1 : t[i] = t[j] => i = j
  <2> SUFFICES ASSUME NEW i \in 1 .. n + 1, NEW j \in 1 .. n + 1, t[i] = t[j] PROVE i = j
    OBVIOUS
  <2>1. CASE i = 1 \/ j = 1
    BY <1>1, <1>2, <1>4, <2>1
  <2>2. CASE i # 1 /\ j # 1
    <3>1. i - 1 \in 1 .. n /\ j - 1 \in 1 .. n /\ s[i - 1] = s[j - 1]
      BY <1>2, <1>4, <2>2
    <3>2. i - 1 = j - 1
      BY <1>1, <3>1
    <3> QED  BY <1>1, <3>2
  <2> QED  BY <2>1, <2>2
<1>7. \A q \in S \cup {p} : \E i \in 1 .. n + 1 : t[i] = q
  <2>1. 1 \in 1 .. n + 1 /\ \A i \in 1 .. n : i + 1 \in 1 .. n + 1
    BY <1>1
  <2> QED  BY <1>1, <1>3, <2>1
<1>8. \A i \in 1 .. n + 1 : ny[t[i]] = IF i = n + 1 THEN NULL ELSE t[i + 1]
  <2>1. ny[t[1]] = IF 1 = n + 1 THEN NULL ELSE t[2]
    BY <1>1, <1>3
  <2>2. ASSUME NEW i \in 1 .. n
        PROVE  ny[t[i + 1]] = IF i + 1 = n + 1 THEN NULL ELSE t[(i + 1) + 1]
    <3>0. t[i + 1] = s[i] /\ ny[s[i]] = nx[s[i]]
      BY <1>3
    <3>1. ny[t[i + 1]] = IF i = n THEN NULL ELSE s[i + 1]
      BY <1>1, <3>0
    <3>2. CASE i = n
      BY <3>1, <3>2
    <3>3. CASE i # n
      <4>1. i + 1 \in 1 .. n /\ i + 1 # n + 1
        BY <1>1, <3>3
      <4> QED  BY <1>3, <3>1, <3>3, <4>1
    <3> QED  BY <3>2, <3>3
  <2>3. SUFFICES ASSUME NEW j \in 1 .. n + 1
                 PROVE  ny[t[j]] = IF j = n + 1 THEN NULL ELSE t[j + 1]
    OBVIOUS
  <2>4. CASE j = 1
    BY <2>1, <2>4
  <2>5. CASE j # 1
    <3>1. PICK i \in 1 .. n : j = i + 1
      BY <1>1, <1>4, <2>5
    <3> QED  BY <2>2, <3>1
  <2> QED  BY <2>4, <2>5
<1>9. Chain(t, n + 1, S \cup {p}, p, ny)
  <2>1. n + 1 \in Nat /\ n + 1 # 0
    BY <1>1
  <2> QED  BY <1>3, <1>5, <1>6, <1>7, <1>8, <2>1 DEF Chain
<1> QED  BY <1>9

LEMMA ShorterChain ==
  ASSUME NEW s, NEW n, NEW S, NEW h, NEW nx, NEW ny, NEW g, Chain(s, n, S, h, nx),
         NEW p \in S, Skips(p, S, h, g, nx, ny)
  PROVE  \E t : Chain(t, n - 1, S \ {p}, g, ny)
<1>1. /\ n \in Nat /\ s \in [1 .. n -> S]
      /\ \A i, j \in 1 .. n : s[i] = s[j] => i = j
      /\ \A q \in S : \E i \in 1 .. n : s[i] = q
      /\ h = IF n = 0 THEN NULL ELSE s[1]
      /\ \A i \in 1 .. n : nx[s[i]] = IF i = n THEN NULL ELSE s[i + 1]
      /\ NULL \notin S
      /\ \A q \in S : q # p => ny[q] = IF nx[q] = p THEN nx[p] ELSE nx[q]
      /\ g = IF h = p THEN nx[p] ELSE h
  BY DEF Chain, Skips
<1>2. PICK m \in 1 .. n : s[m] = p
  BY <1>1
<1>3. PICK c \in Nat : c = n - 1 /\ n = c + 1 /\ n # 0
  BY <1>1, <1>2
<1>4. PICK t : t = [i \in 1 .. c |-> IF i < m THEN s[i] ELSE s[i + 1]]
  OBVIOUS
<1>5. \A i \in 1 .. c : /\ i \in 1 .. n /\ i + 1 \in 1 .. n
                        /\ t[i] = IF i < m THEN s[i] ELSE s[i + 1]
  <2>1. \A i \in 1 .. c : i \in 1 .. n /\ i + 1 \in 1 .. n
    BY <1>3
  <2>2. \A i \in 1 .. c : t[i] = IF i < m THEN s[i] ELSE s[i + 1]
    BY <1>4
  <2> QED  BY <2>1, <2>2
<1>6. ASSUME NEW i \in 1 .. c PROVE t[i] \in S \ {p}
  <2>1. CASE i < m
    <3>1. s[i] # s[m] /\ s[i] \in S
      BY <1>1, <1>2, <1>5, <2>1
    <3> QED  BY <1>2, <1>5, <2>1, <3>1
  <2>2. CASE ~(i < m)
    <3>1. s[i + 1] # s[m] /\ s[i + 1] \in S
      BY <1>1, <1>2, <1>5, <2>2
    <3> QED  BY <1>2, <1>5, <2>2, <3>1
  <2> QED  BY <2>1, <2>2
<1>7. t \in [1 .. c -> S \ {p}]
  BY <1>4, <1>6
<1>8. ASSUME NEW i \in 1 .. c, NEW j \in 1 .. c, t[i] = t[j] PROVE i = j
  <2>1. CASE i < m /\ j < m
    BY <1>1, <1>5, <1>8, <2>1
  <2>2. CASE i < m /\ ~(j < m)
    <3>1. s[i] = s[j + 1] /\ i \in 1 .. n /\ j + 1 \in 1 .. n
      BY <1>5, <1>8, <2>2
    <3>2. i = j + 1
      BY <1>1, <3>1
    <3> QED  BY <1>2, <2>2, <3>2
  <2>3. CASE ~(i < m) /\ j < m
    <3>1. s[i + 1] = s[j] /\ j \in 1 .. n /\ i + 1 \in 1 .. n
      BY <1>5, <1>8, <2>3
    <3>2. j = i + 1
      BY <1>1, <3>1
    <3> QED  BY <1>2, <2>3, <3>2
  <2>4. CASE ~(i < m) /\ ~(j < m)
    <3>1. s[i + 1] = s[j + 1] /\ j + 1 \in 1 .. n /\ i + 1 \in 1 .. n
      BY <1>5, <1>8, <2>4
    <3>2. i + 1 = j + 1
      BY <1>1, <3>1
    <3> QED  BY <3>2
  <2> QED  BY <2>1, <2>2, <2>3, <2>4
<1>9. ASSUME NEW q \in S \ {p} PROVE \E i \in 1 .. c : t[i] = q
  <2>1. PICK i \in 1 .. n : s[i] = q
    BY <1>1
  <2>2. i # m
    BY <1>2, <2>1
  <2>3. CASE i < m
    <3>1. i \in 1 .. c
      BY <1>2, <1>3, <2>3
    <3> QED  BY <1>5, <2>1, <2>3, <3>1
  <2>4. CASE i > m
    <3>1. i - 1 \in 1 .. c /\ ~(i - 1 < m) /\ (i - 1) + 1 = i
      BY <1>2, <1>3, <2>4
    <3> QED  BY <1>5, <2>1, <3>1
  <2> QED  BY <1>2, <2>2, <2>3, <2>4
<1>10. g = IF c = 0 THEN NULL ELSE t[1]
  <2>0. 1 \in 1 .. n /\ h = s[1]
    BY <1>1, <1>3
  <2>1. CASE m = 1
    <3>1. g = nx[s[1]]
      BY <1>1, <1>2, <2>0, <2>1
    <3>2. g = IF 1 = n THEN NULL ELSE s[1 + 1]
      BY <1>1, <2>0, <3>1
    <3>3. c # 0 => 1 \in 1 .. c
      BY <1>3
    <3> QED  BY <1>3, <1>5, <2>1, <3>2, <3>3
  <2>2. CASE m # 1
    <3>1. c # 0 /\ 1 \in 1 .. c /\ 1 < m
      BY <1>2, <1>3, <2>2
    <3>2. h # p
      BY <1>1, <1>2, <2>0, <2>2
    <3> QED  BY <1>1, <1>5, <2>0, <3>1, <3>2
  <2> QED  BY <2>1, <2>2
<1>11. ASSUME NEW i \in 1 .. c PROVE ny[t[i]] = IF i = c THEN NULL ELSE t[i + 1]
  <2>0. ny[t[i]] = IF nx[t[i]] = p THEN nx[p] ELSE nx[t[i]]
    BY <1>1, <1>6
  <2>1. CASE i + 1 < m
    <3>1. i < m /\ i # c /\ i + 1 \in 1 .. c /\ i # n
      BY <1>2, <1>3, <2>1
    <3>2. t[i] = s[i] /\ t[i + 1] = s[i + 1] /\ nx[s[i]] = s[i + 1]
      BY <1>1, <1>5, <2>1, <3>1
    <3>3. s[i + 1] # p
      BY <1>6, <3>1, <3>2
    <3> QED  BY <2>0, <3>1, <3>2, <3>3
  <2>2. CASE i + 1 = m
    <3>1. i < m /\ i # n
      BY <1>2, <1>3, <2>2
    <3>2. t[i] = s[i] /\ nx[s[i]] = p
      BY <1>1, <1>2, <1>5, <2>2, <3>1
    <3>3. ny[t[i]] = IF m = n THEN NULL ELSE s[m + 1]
      BY <1>1, <1>2, <2>0, <3>2
    <3>4. CASE i = c
      BY <1>3, <2>2, <3>3, <3>4
    <3>5. CASE i # c
      <4>1. i + 1 \in 1 .. c /\ ~(i + 1 < m) /\ m # n
        BY <1>3, <2>2, <3>5
      <4>2. t[i + 1] = s[(i + 1) + 1]
        BY <1>5, <4>1
      <4> QED  BY <2>2, <3>3, <3>5, <4>1, <4>2
    <3> QED  BY <3>4, <3>5
  <2>3. CASE ~(i < m)
    <3>1. t[i] = s[i + 1] /\ i + 1 \in 1 .. n
      BY <1>5, <2>3
    <3>2. nx[s[i + 1]] = IF i + 1 = n THEN NULL ELSE s[(i + 1) + 1]
      BY <1>1, <3>1
    <3>3. CASE i = c
      <4>1. nx[t[i]] = NULL
        BY <1>3, <3>1, <3>2, <3>3
      <4> QED  BY <1>1, <2>0, <3>3, <4>1
    <3>4. CASE i # c
      <4>1. i + 1 \in 1 .. c /\ ~(i + 1 < m) /\ i + 1 # n
        BY <1>2, <1>3, <2>3, <3>4
      <4>2. t[i + 1] = s[(i + 1) + 1]
        BY <1>5, <4>1
      <4>3. t[i + 1] # p
        BY <1>6, <4>1
      <4> QED  BY <2>0, <3>1, <3>2, <3>4, <4>1, <4>2, <4>3
    <3> QED  BY <3>3, <3>4
  <2> QED  BY <1>2, <2>1, <2>2, <2>3
<1>12. Chain(t, c, S \ {p}, g, ny)
  BY <1>7, <1>8, <1>9, <1>10, <1>11 DEF Chain
<1> QED  BY <1>3, <1>12

-----------------------------------------------------------------------------
(***************************************************************************)
(* Every list is a chain in every state: pmm_list_push puts a page in      *)
(* front, pmm_list_remove takes one out, wherever it is, and no other step *)
(* touches the links of a listed page.                                     *)
(***************************************************************************)
LEMMA ChainsKept ==
  ASSUME Chains, UNCHANGED <<head, count, DbPfns>>,
         \A q \in DbPfns : Listed(q)' <=> Listed(q),
         \A q \in DbPfns : Listed(q) => order'[q] = order[q] /\ next'[q] = next[q]
  PROVE  Chains'
<1> SUFFICES ASSUME NEW k \in Orders
             PROVE  \E s : Chain(s, count'[k], OnList(k)', head'[k], next')
  BY DEF Chains
<1>1. PICK s : Chain(s, count[k], OnList(k), head[k], next)
  BY DEF Chains
<1>2. OnList(k)' = OnList(k) /\ \A q \in OnList(k) : next'[q] = next[q]
  BY DEF OnList
<1>3. PICK S, nx, ny : S = OnList(k) /\ nx = next /\ ny = next'
  OBVIOUS
<1>4. Chain(s, count[k], S, head[k], nx) /\ \A q \in S : ny[q] = nx[q]
  BY <1>1, <1>2, <1>3
<1>5. Chain(s, count[k], S, head[k], ny)
  BY <1>4, SameChain
<1> QED  BY <1>2, <1>3, <1>5

LEMMA ChainsEmpty ==
  ASSUME \A k \in Orders : head[k] = NULL /\ count[k] = 0, \A q \in DbPfns : ~Listed(q)
  PROVE  Chains
<1> SUFFICES ASSUME NEW k \in Orders
             PROVE  \E s : Chain(s, count[k], OnList(k), head[k], next)
  BY DEF Chains
<1>1. OnList(k) = {} /\ head[k] = NULL /\ count[k] = 0
  BY DEF OnList
<1> QED  BY <1>1, EmptyChain

(***************************************************************************)
(* An empty head means an empty list, and conversely.                      *)
(***************************************************************************)
LEMMA EmptyHead ==
  ASSUME TypeOK, Chains, NEW k \in Orders, head[k] = NULL
  PROVE  count[k] = 0 /\ OnList(k) = {}
<1>1. PICK s : Chain(s, count[k], OnList(k), head[k], next)
  BY DEF Chains
<1>2. NULL \notin OnList(k)
  BY NullAssumption DEF OnList, DbPfns, Pfns
<1>3. count[k] = 0
  <2> SUFFICES ASSUME count[k] # 0 PROVE FALSE
    OBVIOUS
  <2>1. 1 \in 1 .. count[k] /\ s[1] = NULL
    BY <1>1 DEF Chain
  <2>2. s[1] \in OnList(k)
    BY <1>1, <2>1 DEF Chain
  <2> QED  BY <1>2, <2>1, <2>2
<1>4. 1 .. count[k] = {}
  BY <1>3
<1> QED  BY <1>1, <1>3, <1>4 DEF Chain

LEMMA ChainsPush ==
  ASSUME TypeOK, LinksOK, Chains, g_pfndb,
         NEW k \in Orders, NEW p \in Pfns, ~Listed(p),
         pmm_prepare_page(p, {"FREE"}, k), pmm_list_push(k, p),
         UNCHANGED <<g_pfndb, g_max_pfn>>
  PROVE  Chains'
<1>1. /\ order \in [Pfns -> Orders] /\ next \in [Pfns -> Pfns \cup {NULL}]
      /\ head \in [Orders -> Pfns \cup {NULL}] /\ count \in [Orders -> Int]
      /\ DbPfns' = Pfns /\ DbPfns = Pfns
  BY DEF TypeOK, Pfns, DbPfns
<1>2. \A q \in Pfns : Listed(q)' <=> (Listed(q) \/ q = p)
  BY PushOK
<1>3. /\ order'[p] = k /\ next'[p] = head[k] /\ head'[k] = p /\ count'[k] = count[k] + 1
      /\ \A q \in Pfns : q # p => order'[q] = order[q] /\ next'[q] = next[q]
      /\ \A j \in Orders : j # k => head'[j] = head[j] /\ count'[j] = count[j]
  BY <1>1 DEF pmm_prepare_page, pmm_list_push
<1> SUFFICES ASSUME NEW j \in Orders
             PROVE  \E s : Chain(s, count'[j], OnList(j)', head'[j], next')
  BY DEF Chains
<1>4. PICK s : Chain(s, count[j], OnList(j), head[j], next)
  BY DEF Chains
<1>5. PICK S, nx, ny : S = OnList(j) /\ nx = next /\ ny = next'
  OBVIOUS
<1>6. p \notin S /\ \A q \in S : ny[q] = nx[q]
  BY <1>1, <1>3, <1>5 DEF OnList
<1>7. CASE j = k
  <2>1. OnList(j)' = S \cup {p}
    BY <1>1, <1>2, <1>3, <1>5, <1>7 DEF OnList
  <2>2. ny[p] = head[j]
    BY <1>3, <1>5, <1>7
  <2>3. Chain(s, count[j], S, head[j], nx)
    BY <1>4, <1>5
  <2>4. \E t : Chain(t, count[j] + 1, S \cup {p}, p, ny)
    BY <1>6, <2>2, <2>3, LongerChain
  <2> QED  BY <1>3, <1>5, <1>7, <2>1, <2>4
<1>8. CASE j # k
  <2>1. OnList(j)' = S
    BY <1>1, <1>2, <1>3, <1>5, <1>8 DEF OnList
  <2>2. Chain(s, count[j], S, head[j], nx)
    BY <1>4, <1>5
  <2>3. Chain(s, count[j], S, head[j], ny)
    BY <1>6, <2>2, SameChain
  <2> QED  BY <1>3, <1>5, <1>8, <2>1, <2>3
<1> QED  BY <1>7, <1>8

LEMMA ChainsRemove ==
  ASSUME TypeOK, LinksOK, Chains, g_pfndb,
         NEW p \in Pfns, Listed(p),
         NEW k \in Orders, k = order[p],
         NEW l \in Pfns, l = p \/ ~Listed(l), NEW m \in Orders,
         pmm_list_remove(k, p), order' = [order EXCEPT ![l] = m],
         UNCHANGED <<g_pfndb, g_max_pfn, flags>>
  PROVE  Chains'
<1>1. /\ order \in [Pfns -> Orders] /\ next \in [Pfns -> Pfns \cup {NULL}]
      /\ prev \in [Pfns -> Pfns \cup {NULL}]
      /\ head \in [Orders -> Pfns \cup {NULL}] /\ count \in [Orders -> Int]
      /\ DbPfns' = Pfns /\ DbPfns = Pfns /\ NULL \notin Pfns
  BY SMTT(30), NullAssumption DEF TypeOK, Pfns, DbPfns
<1>2. \A q \in Pfns : Listed(q)' <=> (Listed(q) /\ q # p)
  BY RemoveOK
<1>3. /\ \A q \in Pfns : Listed(q) /\ q # p => order'[q] = order[q]
      /\ \A q \in Pfns : q # p => next'[q] = IF q = prev[p] THEN next[p] ELSE next[q]
      /\ \A j \in Orders : j # k => head'[j] = head[j] /\ count'[j] = count[j]
      /\ head'[k] = IF prev[p] = NULL THEN next[p] ELSE head[k]
      /\ count'[k] = count[k] - 1
  BY <1>1 DEF pmm_list_remove
<1>4. \A q \in Pfns : Listed(q) => (q = prev[p] <=> next[q] = p)
  BY <1>1 DEF LinksOK, NextOK, PrevOK
<1>5. prev[p] = NULL <=> head[k] = p
  BY <1>1 DEF LinksOK, HeadsOK, Listed
<1> SUFFICES ASSUME NEW j \in Orders
             PROVE  \E s : Chain(s, count'[j], OnList(j)', head'[j], next')
  BY DEF Chains
<1>6. PICK s : Chain(s, count[j], OnList(j), head[j], next)
  BY DEF Chains
<1>7. PICK S, nx, ny : S = OnList(j) /\ nx = next /\ ny = next'
  OBVIOUS
<1>8. CASE j = k
  <2>1. OnList(j)' = S \ {p} /\ p \in S /\ NULL \notin S
    BY <1>1, <1>2, <1>3, <1>7, <1>8 DEF OnList
  <2>2. \A q \in S : q # p => ny[q] = IF nx[q] = p THEN nx[p] ELSE nx[q]
    BY <1>1, <1>3, <1>4, <1>7 DEF OnList
  <2>4. PICK g, h, n : g = head'[j] /\ h = head[j] /\ n = count[j]
    OBVIOUS
  <2>3. Chain(s, n, S, h, nx)
    BY <1>6, <1>7, <2>4
  <2>5. g = IF h = p THEN nx[p] ELSE h
    BY <1>3, <1>5, <1>7, <1>8, <2>4
  <2>6. Skips(p, S, h, g, nx, ny)
    BY <2>1, <2>2, <2>5 DEF Skips
  <2>7. \E t : Chain(t, n - 1, S \ {p}, g, ny)
    BY <2>1, <2>3, <2>6, ShorterChain, Zenon
  <2> QED  BY <1>3, <1>7, <1>8, <2>1, <2>4, <2>7
<1>9. CASE j # k
  <2>1. OnList(j)' = S /\ p \notin S
    BY <1>1, <1>2, <1>3, <1>7, <1>9 DEF OnList
  <2>2. Chain(s, count[j], S, head[j], nx)
    BY <1>6, <1>7
  <2>3. \A q \in S : ny[q] = nx[q]
    <3> SUFFICES ASSUME NEW q \in S PROVE ny[q] = nx[q]
      OBVIOUS
    <3>1. q \in Pfns /\ Listed(q) /\ order[q] = j /\ q # p
      BY <1>1, <1>7, <2>1 DEF OnList
    <3>2. q # prev[p]
      BY <1>1, <1>9, <3>1 DEF LinksOK, PrevOK
    <3> QED  BY <1>3, <1>7, <3>1, <3>2
  <2>4. Chain(s, count[j], S, head[j], ny)
    BY <2>2, <2>3, SameChain
  <2> QED  BY <1>3, <1>7, <1>9, <2>1, <2>4
<1> QED  BY <1>8, <1>9

LEMMA ChainsInit == Init => Chains
<1> SUFFICES ASSUME Init PROVE Chains
  OBVIOUS
<1>1. DbPfns = {} /\ \A k \in Orders : head[k] = NULL /\ count[k] = 0
  BY DEF Init, PfndbInit, DbPfns
<1> QED  BY <1>1, ChainsEmpty

(***************************************************************************)
(* While kmain sets things up all lists are empty.                         *)
(***************************************************************************)
LEMMA ChainsBoot ==
  ASSUME IInv, IInv', Chains, BootPfndb \/ pmm_init_fail \/ pmm_init_reset
  PROVE  Chains'
<1>1. \A k \in Orders : head'[k] = NULL /\ count'[k] = 0
  <2>1. CASE BootPfndb \/ pmm_init_fail
    <3>1. pc \in {"boot", "pfndb"} /\ head' = head /\ count' = count
      BY <2>1 DEF BootPfndb, pmm_init_fail, pmmVars
    <3>2. \A k \in Orders : head[k] = NULL
      BY <3>1 DEF IInv, PhaseOK
    <3> QED  BY <3>1, <3>2, EmptyHead DEF IInv
  <2>2. CASE pmm_init_reset
    BY <2>2 DEF pmm_init_reset
  <2> QED  BY <2>1, <2>2
<1>2. \A q \in DbPfns' : prev'[q] = NULL
  <2>1. CASE BootPfndb \/ pmm_init_fail
    <3>1. pc' \in {"pfndb", "halt"}
      BY <2>1 DEF BootPfndb, pmm_init_fail
    <3> QED  BY <3>1 DEF IInv, PhaseOK
  <2>2. CASE pmm_init_reset
    <3>1. DbPfns' \subseteq Pfns /\ prev' = [p \in Pfns |-> NULL]
      BY <2>2 DEF pmm_init_reset, DbPfns, Pfns
    <3> QED  BY <3>1
  <2> QED  BY <2>1, <2>2
<1>3. ASSUME NEW q \in DbPfns' PROVE ~Listed(q)'
  <2>1. q \in Pfns' /\ q \in Int /\ g_pfndb'
    BY DEF DbPfns, Pfns
  <2>2. order'[q] \in Orders /\ q # NULL
    BY <2>1, NullAssumption DEF IInv, TypeOK
  <2> QED  BY <1>1, <1>2, <2>2 DEF Listed
<1> SUFFICES ASSUME NEW k \in Orders
             PROVE  \E s : Chain(s, count'[k], OnList(k)', head'[k], next')
  BY DEF Chains
<1>4. OnList(k)' = {} /\ head'[k] = NULL /\ count'[k] = 0
  BY <1>1, <1>3 DEF OnList
<1>5. PICK nx : nx = next'
  OBVIOUS
<1> QED  BY <1>4, <1>5, EmptyChain

(***************************************************************************)
(* Steps that touch no link, no flag and no order.                         *)
(***************************************************************************)
LEMMA ChainsQuiet ==
  ASSUME Chains, UNCHANGED <<g_pfndb, g_max_pfn, flags, order, next, prev, head, count>>
  PROVE  Chains'
<1>1. UNCHANGED <<head, count, DbPfns>>
  BY DEF DbPfns, Pfns
<1>2. \A q \in DbPfns : Listed(q)' <=> Listed(q)
  BY DEF Listed
<1> QED  BY <1>1, <1>2, ChainsKept

LEMMA ChainsMerge == ASSUME IInv, Chains, free_block_merge PROVE Chains'
<1>0. PICK p \in Pfns, k \in Orders : p = page /\ k = cur
  BY DEF IInv, TypeOK
<1>1. PICK b : b = pmm_buddy_pfn(p, k)
  OBVIOUS
<1>2. PICK l : l = IF b < p THEN b ELSE p
  OBVIOUS
<1>3. /\ pc = "coalesce" /\ g_pfndb /\ CanMerge
      /\ pmm_list_remove(k, b) /\ order' = [order EXCEPT ![l] = k + 1]
      /\ UNCHANGED <<g_pfndb, g_max_pfn, flags>>
  BY <1>0, <1>1, <1>2 DEF free_block_merge, pmm_list_remove, IInv, PhaseOK
<1>4. Listed(b) /\ b \in Pfns /\ order[b] = k /\ k + 1 \in Orders
  BY <1>0, <1>1, <1>3, BuddyListed
<1>5. l \in Pfns /\ (l = b \/ ~Listed(l))
  <2>1. ~Listed(p)
    BY <1>0, <1>3 DEF InHand, IInv, OnePlace
  <2> QED  BY <1>2, <1>4, <2>1
<1> QED  BY <1>3, <1>4, <1>5, ChainsRemove DEF IInv

LEMMA ChainsFreeDone == ASSUME IInv, Chains, free_block_done PROVE Chains'
<1>0. PICK p \in Pfns, k \in Orders : p = page /\ k = cur
  BY DEF IInv, TypeOK
<1>1. /\ pc = "coalesce" /\ g_pfndb /\ UNCHANGED <<g_pfndb, g_max_pfn>>
      /\ pmm_prepare_page(p, {"FREE"}, k) /\ pmm_list_push(k, p)
  BY <1>0 DEF free_block_done, IInv, PhaseOK, pmm_prepare_page, pmm_list_push
<1>2. ~Listed(p)
  BY <1>0, <1>1 DEF InHand, IInv, OnePlace
<1> QED  BY <1>1, <1>2, ChainsPush DEF IInv

LEMMA ChainsAlloc ==
  ASSUME IInv, Chains, NEW k \in 0 .. PMM_MAX_ORDER, pmm_alloc(k)
  PROVE  Chains'
<1>1. CASE UNCHANGED vars
  BY <1>1, ChainsQuiet DEF vars, pfndbVars, pageVars, pmmVars
<1>2. CASE ~ UNCHANGED vars
  <2>1. PICK j \in NonEmpty(k) : pmm_list_remove(j, head[j])
    BY <1>2 DEF pmm_alloc
  <2>2. /\ pc \in Quiescent /\ g_pmm_ready
        /\ UNCHANGED <<g_pfndb, g_max_pfn, flags, order>>
    BY <1>2 DEF pmm_alloc, AllocAccepted
  <2>3. g_pfndb /\ j \in Orders /\ head[j] # NULL
    BY <2>2 DEF Quiescent, IInv, PhaseOK, NonEmpty
  <2>4. PICK p \in Pfns : p = head[j] /\ Listed(p) /\ order[p] = j
    BY <2>3 DEF IInv, TypeOK, LinksOK, HeadsOK
  <2>5. pmm_list_remove(j, p) /\ order' = [order EXCEPT ![p] = j]
    BY <2>1, <2>2, <2>3, <2>4 DEF pmm_list_remove, IInv, TypeOK
  <2> QED  BY <2>2, <2>3, <2>4, <2>5, ChainsRemove DEF IInv
<1> QED  BY <1>1, <1>2

LEMMA ChainsSplit == ASSUME IInv, Chains, alloc_split PROVE Chains'
<1>0. PICK p \in Pfns, c \in Orders : p = page /\ c = cur
  BY DEF IInv, TypeOK
<1>1. PICK k \in Orders : k = c - 1 /\ k \in 0 .. 8 /\ c = k + 1
  BY <1>0, MaxOrderAssumption DEF alloc_split, IInv, TypeOK, Orders
<1>2. PICK b : b = p + Pow2(k)
  OBVIOUS
<1>3. /\ pc = "split" /\ g_pfndb /\ UNCHANGED <<g_pfndb, g_max_pfn>>
      /\ pmm_prepare_page(b, {"FREE"}, k) /\ pmm_list_push(k, b)
  BY <1>0, <1>1, <1>2 DEF alloc_split, pmm_prepare_page, pmm_list_push, IInv, PhaseOK
<1>4. p \in Heads /\ OrderOf(p) = k + 1 /\ p \in Nat
  BY <1>0, <1>1, <1>3, HeadFacts DEF InHand, Heads, FreeHeads, OrderOf
<1>5. Pow2(k) \in Nat \ {0} /\ Pow2(k + 1) = 2 * Pow2(k) /\ g_max_pfn \in Nat
  BY <1>1, Pow2Facts DEF IInv, TypeOK
<1>6. p + Pow2(k + 1) <= g_max_pfn + 1
  BY <1>4 DEF IInv, NoOverlap, BlockOK
<1>7. b \in Pfns /\ b \in Nat /\ b # p
  BY <1>2, <1>4, <1>5, <1>6 DEF Pfns
<1>8. ~Listed(b)
  <2> SUFFICES ASSUME Listed(b) PROVE FALSE
    OBVIOUS
  <2>1. b \in Heads
    BY <1>3, <1>7 DEF Heads, FreeHeads, DbPfns
  <2>2. Apart(b, p) /\ Pow2(OrderOf(b)) \in Nat /\ Pow2(OrderOf(b)) >= 1
    BY <1>4, <1>7, <2>1, HeadFacts DEF IInv, NoOverlap
  <2> QED  BY <1>2, <1>4, <1>5, <1>7, <2>2 DEF Apart
<1> QED  BY <1>3, <1>7, <1>8, ChainsPush DEF IInv

LEMMA ChainsAllocDone == ASSUME IInv, Chains, alloc_done PROVE Chains'
<1>0. PICK p \in Pfns : p = page
  BY DEF IInv, TypeOK
<1>1. /\ pc = "split" /\ g_pfndb /\ UNCHANGED <<g_pfndb, g_max_pfn, head, count>>
      /\ flags' = [flags EXCEPT ![p] = {"USED"}] /\ order' = [order EXCEPT ![p] = req]
      /\ next' = [next EXCEPT ![p] = NULL] /\ prev' = [prev EXCEPT ![p] = NULL]
  BY <1>0 DEF alloc_done, IInv, PhaseOK, pmm_prepare_page
<1>2. ~Listed(p)
  BY <1>0, <1>1 DEF InHand, IInv, OnePlace
<1>3. /\ flags \in [Pfns -> SUBSET PageFlags] /\ order \in [Pfns -> Orders]
      /\ next \in [Pfns -> Pfns \cup {NULL}] /\ prev \in [Pfns -> Pfns \cup {NULL}]
      /\ DbPfns' = DbPfns /\ DbPfns = Pfns
  BY <1>1 DEF IInv, TypeOK, Pfns, DbPfns
<1>4. /\ flags'[p] = {"USED"}
      /\ \A q \in Pfns : q # p => /\ flags'[q] = flags[q] /\ order'[q] = order[q]
                                  /\ next'[q] = next[q] /\ prev'[q] = prev[q]
  BY <1>1, <1>3
<1>5. ~Listed(p)'
  BY <1>4 DEF Listed
<1>6. ASSUME NEW q \in Pfns, q # p PROVE Listed(q)' <=> Listed(q)
  BY <1>1, <1>4, <1>6 DEF Listed
<1>7. \A q \in DbPfns : Listed(q)' <=> Listed(q)
  BY <1>2, <1>3, <1>5, <1>6
<1>8. \A q \in DbPfns : Listed(q) => order'[q] = order[q] /\ next'[q] = next[q]
  BY <1>2, <1>3, <1>4
<1> QED  BY <1>1, <1>3, <1>7, <1>8, ChainsKept

LEMMA ChainsAlways == Spec => [](IInv /\ Chains)
<1>1. IInv /\ IInv' /\ Chains /\ [Next]_vars => Chains'
  <2> SUFFICES ASSUME IInv, IInv', Chains, [Next]_vars PROVE Chains'
    OBVIOUS
  <2>1. CASE BootPfndb \/ pmm_init_reset \/ pmm_init_fail
    BY <2>1, ChainsBoot
  <2>2. CASE pmm_init_skip \/ pmm_init_free \/ pmm_init_done
    BY <2>2, ChainsQuiet DEF pmm_init_skip, pmm_init_free, pmm_init_done, pfndbVars, pageVars,
       pmmVars
  <2>3. CASE free_block_merge \/ free_block_done \/ alloc_split \/ alloc_done
    BY <2>3, ChainsMerge, ChainsFreeDone, ChainsSplit, ChainsAllocDone
  <2>4. CASE Call
    <3>1. ASSUME NEW k \in 0 .. PMM_MAX_ORDER, pmm_alloc(k) PROVE Chains'
      BY <3>1, ChainsAlloc
    <3>2. ASSUME NEW p, pmm_free(p) PROVE Chains'
      BY <3>2, ChainsQuiet DEF pmm_free, vars, pfndbVars, pageVars, pmmVars
    <3> QED  BY <2>4, <3>1, <3>2 DEF Call
  <2>5. CASE Halted \/ UNCHANGED vars
    BY <2>5, ChainsQuiet DEF Halted, vars, pfndbVars, pageVars, pmmVars
  <2> QED  BY <2>1, <2>2, <2>3, <2>4, <2>5 DEF Next, Step
<1> QED  BY <1>1, ChainsInit, Inductive, PTL DEF Spec

-----------------------------------------------------------------------------
(***************************************************************************)
(* Every set of natural numbers that is not empty has a least element.     *)
(***************************************************************************)
LEMMA LeastExists ==
  ASSUME NEW S \in SUBSET Nat, S # {}
  PROVE  \E x \in S : \A y \in S : x <= y
<1> DEFINE Less == {ss \in Nat \X Nat : ss[1] < ss[2]}
<1>1. IsWellFoundedOn(Less, Nat)
  BY NatLessThanWellFounded DEF OpToRel
<1>2. PICK x \in S : \A y \in S : ~(<<y, x>> \in Less)
  <2> HIDE DEF Less
  <2> QED  BY <1>1, WFMin
<1>3. ASSUME NEW y \in S PROVE x <= y
  <2>1. x \in Nat /\ y \in Nat
    OBVIOUS
  <2>2. ~(<<y, x>>[1] < <<y, x>>[2])
    BY <1>2, <2>1
  <2> QED  BY <2>1, <2>2
<1> QED  BY <1>3

(***************************************************************************)
(* A chain has as many links as pages, and no more than there are pages.   *)
(***************************************************************************)
LEMMA ChainLength ==
  ASSUME TypeOK, NEW k \in Orders, NEW s, Chain(s, count[k], OnList(k), head[k], next)
  PROVE  count[k] = Cardinality(OnList(k)) /\ count[k] \in 0 .. g_max_pfn + 1
<1>1. PICK n, S : n = count[k] /\ S = OnList(k)
  OBVIOUS
<1>2. /\ n \in Nat /\ s \in [1 .. n -> S]
      /\ \A i, j \in 1 .. n : s[i] = s[j] => i = j
      /\ \A p \in S : \E i \in 1 .. n : s[i] = p
  BY <1>1 DEF Chain
<1>3. s \in Bijection(1 .. n, S)
  BY <1>2 DEF Bijection, Injection, Surjection, IsInjective
<1>4. Cardinality(S) = n
  <2>1. ExistsBijection(1 .. n, S)
    BY <1>3 DEF ExistsBijection
  <2> QED  BY <1>2, <2>1, FS_CountingElements
<1>5. g_max_pfn \in Nat /\ S \subseteq 0 .. g_max_pfn
  BY <1>1 DEF TypeOK, OnList, DbPfns, Pfns
<1>6. IsFiniteSet(0 .. g_max_pfn) /\ Cardinality(0 .. g_max_pfn) = g_max_pfn + 1
  <2>1. PICK t \in Int : t = g_max_pfn /\ t >= 0
    BY <1>5
  <2>2. IsFiniteSet(0 .. t) /\ Cardinality(0 .. t) = IF 0 > t THEN 0 ELSE t - 0 + 1
    BY FS_Interval
  <2> QED  BY <2>1, <2>2
<1>7. Cardinality(S) <= Cardinality(0 .. g_max_pfn)
  BY <1>5, <1>6, FS_Subset
<1> QED  BY <1>1, <1>2, <1>4, <1>5, <1>6, <1>7

(***************************************************************************)
(* Following next from the head visits the chain in order and then stops.  *)
(* The recursive function Hop(k) is that walk: the walk satisfies its      *)
(* equation, and at the first place where another solution could differ,   *)
(* the equation says that it does not.                                     *)
(***************************************************************************)
Walked(s, n, m) == [i \in 0 .. m |-> IF i < n THEN s[i + 1] ELSE NULL]

HopStep(k, f, i) ==
  IF i = 0 THEN head[k] ELSE IF f[i - 1] = NULL THEN NULL ELSE next[f[i - 1]]

LEMMA HopWalks ==
  ASSUME TypeOK, NEW k \in Orders, NEW s, Chain(s, count[k], OnList(k), head[k], next)
  PROVE  Hop(k) = Walked(s, count[k], g_max_pfn + 1)
<1>1. PICK n, m, S : n = count[k] /\ m = g_max_pfn + 1 /\ S = OnList(k)
  OBVIOUS
<1>2. /\ n \in Nat /\ m \in Nat /\ n <= m /\ s \in [1 .. n -> S] /\ NULL \notin S
      /\ head[k] = IF n = 0 THEN NULL ELSE s[1]
      /\ \A i \in 1 .. n : next[s[i]] = IF i = n THEN NULL ELSE s[i + 1]
  <2>1. NULL \notin S
    BY <1>1, NullAssumption DEF OnList, DbPfns, Pfns
  <2>2. n \in Nat /\ m \in Nat /\ n <= m
    BY <1>1, ChainLength DEF TypeOK
  <2> QED  BY <1>1, <2>1, <2>2 DEF Chain
<1>3. PICK w : w = Walked(s, n, m)
  OBVIOUS
<1>4. /\ w = [i \in 0 .. m |-> w[i]]
      /\ \A i \in 0 .. m : w[i] = IF i < n THEN s[i + 1] ELSE NULL
  BY <1>3 DEF Walked
<1>5. ASSUME NEW i \in 0 .. m PROVE w[i] = HopStep(k, w, i)
  <2>1. CASE i = 0
    BY <1>2, <1>4, <2>1 DEF HopStep
  <2>2. CASE i # 0
    <3>1. PICK j \in 0 .. m : j = i - 1 /\ i = j + 1
      BY <1>2, <2>2
    <3>2. w[j] = IF j < n THEN s[j + 1] ELSE NULL
      BY <1>4
    <3>3. CASE j < n
      <4>1. j + 1 \in 1 .. n /\ s[j + 1] \in S
        BY <1>2, <3>1, <3>3
      <4>2. w[j] # NULL /\ HopStep(k, w, i) = next[s[j + 1]]
        BY <1>2, <2>2, <3>1, <3>2, <3>3, <4>1 DEF HopStep
      <4>3. next[s[j + 1]] = IF j + 1 = n THEN NULL ELSE s[(j + 1) + 1]
        BY <1>2, <4>1
      <4> QED  BY <1>2, <1>4, <3>1, <3>3, <4>2, <4>3
    <3>4. CASE ~(j < n)
      BY <1>2, <1>4, <2>2, <3>1, <3>2, <3>4 DEF HopStep
    <3> QED  BY <3>3, <3>4
  <2> QED  BY <2>1, <2>2
<1>6. w = [i \in 0 .. m |-> HopStep(k, w, i)]
  BY <1>4, <1>5
<1>7. PICK h : h = Hop(k)
  OBVIOUS
<1>8. h = [i \in 0 .. m |-> HopStep(k, h, i)]
  BY <1>1, <1>6, <1>7, Zenon DEF Hop, HopStep
<1>9. ASSUME NEW i \in 0 .. m PROVE h[i] = w[i]
  <2>1. SUFFICES ASSUME {j \in 0 .. m : h[j] # w[j]} # {} PROVE FALSE
    BY Zenon
  <2>2. PICK j \in 0 .. m : h[j] # w[j] /\ \A y \in 0 .. m : h[y] # w[y] => j <= y
    <3>1. PICK D : D = {y \in 0 .. m : h[y] # w[y]}
      OBVIOUS
    <3>2. D \in SUBSET Nat /\ D # {}
      BY <2>1, <3>1
    <3>3. PICK x \in D : \A y \in D : x <= y
      BY <3>2, LeastExists
    <3> QED  BY <3>1, <3>3
  <2>3. h[j] = HopStep(k, h, j) /\ w[j] = HopStep(k, w, j)
    BY <1>5, <1>8
  <2>4. CASE j = 0
    BY <2>2, <2>3, <2>4 DEF HopStep
  <2>5. CASE j # 0
    <3>1. j - 1 \in 0 .. m /\ ~(j <= j - 1)
      BY <1>2, <2>5
    <3>2. h[j - 1] = w[j - 1]
      BY <2>2, <3>1
    <3> QED  BY <2>2, <2>3, <2>5, <3>2 DEF HopStep
  <2> QED  BY <2>4, <2>5
<1>10. h = w
  <2>1. h = [i \in 0 .. m |-> h[i]]
    BY <1>8
  <2> QED  BY <1>4, <1>9, <2>1
<1> QED  BY <1>1, <1>3, <1>7, <1>10

(***************************************************************************)
(* The free lists of mm/pmm.c are well linked at every iteration of every  *)
(* loop: following next from the head of an order visits each listed page  *)
(* of that order once and ends after count steps, and prev is the inverse  *)
(* of next.                                                                *)
(***************************************************************************)
THEOREM ListsLinked == Spec => []ListsWellLinked
<1>1. IInv /\ Chains => ListsWellLinked
  <2> SUFFICES ASSUME IInv, Chains, NEW k \in Orders
               PROVE  /\ count[k] = Cardinality(OnList(k))
                      /\ {Hop(k)[i] : i \in 0 .. count[k] - 1} = OnList(k)
                      /\ Hop(k)[count[k]] = NULL
                      /\ \A p \in OnList(k) : next[p] # NULL => prev[next[p]] = p
    BY DEF ListsWellLinked, OnList
  <2>0. TypeOK
    BY DEF IInv
  <2>1. PICK s : Chain(s, count[k], OnList(k), head[k], next)
    BY DEF Chains
  <2>2. count[k] = Cardinality(OnList(k)) /\ count[k] \in 0 .. g_max_pfn + 1
    BY <2>0, <2>1, ChainLength
  <2>3. PICK n, m, S, h : n = count[k] /\ m = g_max_pfn + 1 /\ S = OnList(k) /\ h = Hop(k)
    OBVIOUS
  <2>4. n \in Nat /\ m \in Nat /\ n <= m
    BY <2>0, <2>2, <2>3 DEF TypeOK
  <2>5. \A i \in 0 .. m : h[i] = IF i < n THEN s[i + 1] ELSE NULL
    BY <2>0, <2>1, <2>3, HopWalks DEF Walked
  <2>6. s \in [1 .. n -> S] /\ \A p \in S : \E i \in 1 .. n : s[i] = p
    BY <2>1, <2>3 DEF Chain
  <2>7. {h[i] : i \in 0 .. n - 1} = S
    <3>1. ASSUME NEW i \in 0 .. n - 1 PROVE h[i] \in S
      <4>1. i \in 0 .. m /\ i < n /\ i + 1 \in 1 .. n
        BY <2>4
      <4> QED  BY <2>5, <2>6, <4>1
    <3>2. ASSUME NEW p \in S PROVE \E i \in 0 .. n - 1 : h[i] = p
      <4>1. PICK j \in 1 .. n : s[j] = p
        BY <2>6
      <4>2. j - 1 \in 0 .. n - 1 /\ j - 1 \in 0 .. m /\ j - 1 < n /\ (j - 1) + 1 = j
        BY <2>4
      <4> QED  BY <2>5, <4>1, <4>2
    <3> QED  BY <3>1, <3>2
  <2>8. h[n] = NULL
    BY <2>4, <2>5
  <2>9. \A p \in OnList(k) : next[p] # NULL => prev[next[p]] = p
    BY DEF IInv, LinksOK, NextOK, OnList
  <2> QED  BY <2>2, <2>3, <2>7, <2>8, <2>9
<1> QED  BY <1>1, ChainsAlways, PTL

-----------------------------------------------------------------------------
(***************************************************************************)
(* Coalescing is complete.  When no call is running, the blocks that cover *)
(* free pages are the listed ones.                                         *)
(***************************************************************************)
LEMMA CoveringBlock ==
  ASSUME IInv, Chains, pc = "idle", NEW k \in Orders, NonEmpty(k) = {},
         NEW p \in Nat, p % Pow2(k) = 0, NEW q \in Nat, p <= q, q < p + Pow2(k),
         q \in FreePages
  PROVE  \E g \in Pfns, i \in 0 .. 9 :
           /\ g \in Nat /\ Listed(g) /\ order[g] = i /\ i < k /\ g \in Heads
           /\ OrderOf(g) = i /\ g % Pow2(i) = 0 /\ g <= q /\ q < g + Pow2(i)
           /\ p <= g /\ g + Pow2(i) <= p + Pow2(k)
<1>1. g_pfndb /\ InHand = {} /\ DbPfns = Pfns
  BY DEF IInv, PhaseOK, InHand, DbPfns
<1>2. PICK g \in FreeHeads : q \in BlockPages(g)
  BY DEF FreePages
<1>3. g \in Pfns /\ Listed(g) /\ g \in Heads /\ g \in Nat
  BY <1>1, HeadFacts DEF FreeHeads, Heads
<1>4. PICK i \in Orders : order[g] = i /\ OrderOf(g) = i
  BY <1>1, <1>3, HeadFacts DEF OrderOf
<1>5. head[i] # NULL
  <2>1. g \in OnList(i)
    BY <1>1, <1>3, <1>4 DEF OnList
  <2> QED  BY <2>1, EmptyHead DEF IInv
<1>6. i < k /\ i \in 0 .. 9 /\ k \in 0 .. 9
  BY <1>5, OrderRange DEF NonEmpty
<1>7. Pow2(i) \in Nat /\ Pow2(k) \in Nat
  BY <1>6, Pow2Facts
<1>8. g % Pow2(i) = 0 /\ g <= q /\ q < g + Pow2(i)
  BY <1>2, <1>3, <1>4, <1>7 DEF BlockPages, IInv, NoOverlap, BlockOK
<1>9. k \in i .. 9
  BY <1>6
<1>10. p <= g /\ g + Pow2(i) <= p + Pow2(k)
  BY <1>3, <1>6, <1>8, <1>9, LargeContains
<1> QED  BY <1>3, <1>4, <1>6, <1>8, <1>10

(***************************************************************************)
(* Suppose a run of 2^k aligned pages is free and every list from k up is  *)
(* empty.  Take a smallest block of the run.  Its buddy is in the run too, *)
(* so it is covered by a listed block: one of the same order is the buddy  *)
(* itself, which pmm_free_block would have merged; a larger one would      *)
(* overlap the block.                                                      *)
(***************************************************************************)
LEMMA NoFreeRun ==
  ASSUME IInv, Chains, pc = "idle", NEW k \in Orders, NonEmpty(k) = {},
         NEW p \in Nat, p % Pow2(k) = 0, p .. (p + Pow2(k) - 1) \subseteq FreePages
  PROVE  FALSE
<1> DEFINE In(g, i) == /\ g \in Pfns /\ g \in Nat /\ Listed(g) /\ order[g] = i /\ i < k
                       /\ g \in Heads /\ OrderOf(g) = i /\ g % Pow2(i) = 0
                       /\ p <= g /\ g + Pow2(i) <= p + Pow2(k)
<1>1. k \in 0 .. 9 /\ Pow2(k) \in Nat /\ Pow2(k) >= 1 /\ k < PMM_MAX_ORDER
  BY OrderRange, Pow2Facts, MaxOrderAssumption DEF Orders
<1>2. ASSUME NEW q \in Nat, p <= q, q < p + Pow2(k)
      PROVE  \E g, i : i \in 0 .. 9 /\ In(g, i) /\ g <= q /\ q < g + Pow2(i)
  <2>1. q \in FreePages
    BY <1>1, <1>2
  <2> QED  BY <1>2, <2>1, CoveringBlock
<1>3. PICK h, j : j \in 0 .. 9 /\ In(h, j) /\ \A i \in 0 .. 9 : \A g : In(g, i) => j <= i
  <2>1. PICK D : D = {i \in 0 .. 9 : \E g : In(g, i)}
    OBVIOUS
  <2>2. D \in SUBSET Nat /\ D # {}
    BY <1>1, <1>2, <2>1
  <2>3. PICK x \in D : \A y \in D : x <= y
    BY <2>2, LeastExists
  <2> QED  BY <2>1, <2>3
<1>4. /\ h \in Pfns /\ h \in Nat /\ Listed(h) /\ order[h] = j /\ j < k /\ h \in Heads
      /\ OrderOf(h) = j /\ h % Pow2(j) = 0 /\ p <= h /\ h + Pow2(j) <= p + Pow2(k)
  BY <1>3
<1>5. j \in 0 .. 8 /\ j + 1 \in 0 .. 9 /\ k \in (j + 1) .. 9 /\ j + 1 < PMM_MAX_ORDER
  BY <1>1, <1>3, <1>4, MaxOrderAssumption
<1>6. PICK b : b = pmm_buddy_pfn(h, j)
  OBVIOUS
<1>7. PICK l : l = IF b < h THEN b ELSE h
  OBVIOUS
<1>8. /\ b \in Nat /\ b % Pow2(j) = 0 /\ b # h /\ l \in Nat /\ l % Pow2(j + 1) = 0
      /\ (l = h /\ b = h + Pow2(j)) \/ (l = b /\ h = b + Pow2(j))
  BY <1>4, <1>5, <1>6, <1>7, BuddyFacts
<1>9. Pow2(j) \in Nat /\ Pow2(j) >= 1 /\ Pow2(j + 1) = 2 * Pow2(j)
  BY <1>5, Pow2Facts
<1>10. /\ l <= h /\ h < l + Pow2(j + 1) /\ l <= b /\ b < l + Pow2(j + 1)
       /\ h < p + Pow2(k)
  BY <1>1, <1>4, <1>8, <1>9
<1>11. p <= l /\ l + Pow2(j + 1) <= p + Pow2(k)
  BY <1>4, <1>5, <1>8, <1>10, LargeContains
<1>12. p <= b /\ b < p + Pow2(k)
  BY <1>1, <1>8, <1>9, <1>10, <1>11
<1>13. PICK g, i : i \in 0 .. 9 /\ In(g, i) /\ g <= b /\ b < g + Pow2(i)
  BY <1>2, <1>8, <1>12
<1>14. j <= i /\ g \in Nat /\ g \in Heads /\ OrderOf(g) = i /\ g % Pow2(i) = 0
  BY <1>3, <1>13
<1>15. CASE i = j
  <2>1. g = b
    BY <1>8, <1>13, <1>14, <1>15, SmallInside
  <2>2. DbPfns = Pfns
    BY DEF IInv, PhaseOK, DbPfns
  <2>3. Listed(b) /\ order[b] = j /\ b \in DbPfns /\ h \in DbPfns
    BY <1>4, <1>13, <1>15, <2>1, <2>2
  <2> QED  BY <1>4, <1>5, <1>6, <2>3 DEF IInv, NoBuddies
<1>16. CASE i # j
  <2>1. i \in (j + 1) .. 9
    BY <1>3, <1>13, <1>14, <1>16
  <2>2. g <= l /\ l + Pow2(j + 1) <= g + Pow2(i)
    BY <1>5, <1>8, <1>10, <1>13, <1>14, <2>1, LargeContains
  <2>3. Pow2(i) \in Nat
    BY <1>13, Pow2Facts
  <2>4. h \in BlockPages(g)
    BY <1>4, <1>8, <1>9, <1>10, <1>14, <2>2, <2>3 DEF BlockPages
  <2>5. h \in BlockPages(h) /\ g # h
    BY <1>4, <1>14, <1>16, HeadFacts
  <2>6. BlockPages(g) \cap BlockPages(h) = {}
    BY <1>4, <1>14, <2>5, BlocksApart
  <2> QED  BY <2>4, <2>5, <2>6
<1> QED  BY <1>15, <1>16

(***************************************************************************)
(* pmm_alloc returns NULL only when it must: if it finds every list from   *)
(* the order asked for up empty, no aligned run of that many free pages    *)
(* exists.                                                                 *)
(***************************************************************************)
THEOREM RefusesOnlyWhenFull == Spec => []FailsOnlyWhenFull
<1>1. IInv /\ Chains => FailsOnlyWhenFull
  <2> SUFFICES ASSUME IInv, Chains, pc = "idle", NEW k \in Orders, NonEmpty(k) = {},
                      NEW p \in Pfns, p % Pow2(k) = 0,
                      p .. (p + Pow2(k) - 1) \subseteq FreePages
               PROVE  FALSE
    BY DEF FailsOnlyWhenFull
  <2>1. p \in Nat
    BY DEF Pfns, IInv, TypeOK
  <2> QED  BY <2>1, NoFreeRun
<1> QED  BY <1>1, ChainsAlways, PTL

-----------------------------------------------------------------------------
(***************************************************************************)
(* Where the pages come from.  No step of the allocator marks a page       *)
(* RESERVED or takes that mark away, so a page that is in a block at any   *)
(* time is one that pfndb_init found in a usable entry of the edited map;  *)
(* and the edited map leaves out the database.                             *)
(***************************************************************************)
AlignedUsable ==
  \A i \in Usable(memmap) : memmap[i].base % PAGE_SIZE = 0 /\ memmap[i].length % PAGE_SIZE = 0

DatabaseApart ==
  \A i \in Usable(memmap) :
    \/ memmap[i].base + memmap[i].length <= g_pfndb_phys
    \/ g_pfndb_phys + pfndb_storage_size(g_max_pfn) <= memmap[i].base

UnreservedIsUsable ==
  \A q \in Pfns : "RESERVED" \notin flags[q] =>
    \E i \in Usable(memmap) :
      q \in pfndb_mark_range(memmap[i].base, memmap[i].length, g_max_pfn)

RamInv ==
  /\ pc = "boot" => g_pfndb_phys = 0
  /\ g_pfndb => /\ memmap \in Seq(MemMapEntry) /\ g_pfndb_phys \in Nat
                /\ AlignedUsable /\ DatabaseApart /\ UnreservedIsUsable

(***************************************************************************)
(* The storage of the database is a whole number of pages.                 *)
(***************************************************************************)
LEMMA StorageSize ==
  ASSUME NEW m \in Nat
  PROVE  pfndb_storage_size(m) \in Nat /\ \E c \in Nat : pfndb_storage_size(m) = c * PAGE_SIZE
<1>1. PICK P \in Nat \ {0} : P = PAGE_SIZE
  BY PageSizeAssumption
<1>2. PICK a \in Nat : a = (m + 1) * SizeofPage + PAGE_SIZE - 1
  <2>1. (m + 1) * SizeofPage \in Nat
    BY SizeofPageAssumption
  <2> QED  BY <2>1, PageSizeAssumption
<1>3. PICK c \in Nat : c = a \div P
  OBVIOUS
<1>4. pfndb_storage_size(m) = c * P
  BY <1>1, <1>2, <1>3 DEF pfndb_storage_size, PAGE_ALIGN_UP
<1> QED  BY <1>1, <1>4

(***************************************************************************)
(* An aligned entry stays aligned when whole pages are cut off its start.  *)
(***************************************************************************)
LEMMA CutAligned ==
  ASSUME NEW b \in Nat, NEW n \in Nat, NEW c \in Nat, NEW P \in Nat \ {0},
         b % P = 0, n % P = 0
  PROVE  (b + c * P) % P = 0 /\ (n - c * P) % P = 0
<1>0. b \in Int /\ n \in Int
  OBVIOUS
<1>1. PICK x \in Int : b = x * P
  BY <1>0, Multiple, Zenon
<1>2. PICK y \in Int : n = y * P
  BY <1>0, Multiple, Zenon
<1>3. b + c * P = (x + c) * P /\ n - c * P = (y - c) * P
  BY <1>1, <1>2
<1>4. x + c \in Int /\ y - c \in Int
  OBVIOUS
<1>5. ((x + c) * P) % P = 0 /\ ((y - c) * P) % P = 0
  BY <1>4, MultipleMod
<1> QED  BY <1>3, <1>5

LEMMA RamBoot == ASSUME IInv, IInv', RamInv, BootPfndb PROVE RamInv'
<1> SUFFICES ASSUME g_pfndb'
             PROVE  /\ memmap' \in Seq(MemMapEntry) /\ g_pfndb_phys' \in Nat
                    /\ AlignedUsable' /\ DatabaseApart' /\ UnreservedIsUsable'
  BY DEF BootPfndb, RamInv
<1>1. ~g_pfndb /\ memmap \in MemMaps /\ pfndb_init
  BY DEF BootPfndb, IInv, PhaseOK
<1>2. /\ memmap # NULL /\ g_pfndb_phys' # 0
      /\ pfndb_reserve_storage(pfndb_storage_size(g_max_pfn'))
      /\ flags' = [p \in 0 .. g_max_pfn' |->
           IF \E i \in Usable(memmap') :
                p \in pfndb_mark_range(memmap'[i].base, memmap'[i].length, g_max_pfn')
             THEN {"FREE"} ELSE {"RESERVED"}]
  BY <1>1 DEF pfndb_init, pfndbVars
<1>3. memmap \in Seq(MemMapEntry) /\ g_max_pfn' \in Nat
  BY <1>1, <1>2, MemMapsAssumption DEF IInv, TypeOK
<1>4. PICK m : m = g_max_pfn'
  OBVIOUS
<1>5. PICK size \in Nat, c \in Nat : size = pfndb_storage_size(m) /\ size = c * PAGE_SIZE
  BY <1>3, <1>4, StorageSize
<1>6. g_pfndb_phys = 0
  BY DEF BootPfndb, RamInv
<1>7. PICK n \in Usable(memmap) :
        /\ memmap[n].length >= size /\ g_pfndb_phys' = memmap[n].base
        /\ memmap' = [memmap EXCEPT ![n].base = @ + size, ![n].length = @ - size]
  BY <1>2, <1>4, <1>5, <1>6 DEF pfndb_reserve_storage, Fits
<1>8. /\ \A i \in DOMAIN memmap : memmap[i] \in MemMapEntry
      /\ n \in DOMAIN memmap /\ DOMAIN memmap' = DOMAIN memmap
      /\ \A i \in DOMAIN memmap : i # n => memmap'[i] = memmap[i]
      /\ memmap'[n].type = memmap[n].type
      /\ memmap'[n].base = memmap[n].base + size /\ memmap'[n].length = memmap[n].length - size
      /\ memmap'[n] \in MemMapEntry
  <2>1. \A i \in DOMAIN memmap : memmap[i] \in MemMapEntry
    BY <1>3
  <2>2. n \in DOMAIN memmap /\ memmap[n] \in MemMapEntry
    BY <2>1 DEF Usable
  <2>3. memmap[n].base + size \in Nat /\ memmap[n].length - size \in Nat
    BY <1>7, <2>2 DEF MemMapEntry
  <2>4. memmap'[n] = [[memmap[n] EXCEPT !.base = @ + size] EXCEPT !.length = @ - size]
    BY <1>3, <1>7, <2>2
  <2> QED  BY <1>3, <1>7, <2>1, <2>2, <2>3, <2>4 DEF MemMapEntry
<1>9. memmap' \in Seq(MemMapEntry)
  <2>1. Len(memmap) \in Nat /\ DOMAIN memmap = 1 .. Len(memmap)
    BY <1>3
  <2>2. memmap' \in [1 .. Len(memmap) -> MemMapEntry]
    BY <1>7, <1>8, <2>1
  <2> QED  BY <2>1, <2>2
<1>10. Usable(memmap') = Usable(memmap)
  BY <1>8 DEF Usable
<1>11. AlignedUsable'
  <2> SUFFICES ASSUME NEW i \in Usable(memmap)
               PROVE  memmap'[i].base % PAGE_SIZE = 0 /\ memmap'[i].length % PAGE_SIZE = 0
    BY <1>10 DEF AlignedUsable
  <2>1. i \in DOMAIN memmap /\ memmap[i].base \in Nat /\ memmap[i].length \in Nat
    BY <1>8 DEF Usable, MemMapEntry
  <2>2. memmap[i].base % PAGE_SIZE = 0 /\ memmap[i].length % PAGE_SIZE = 0
    BY <1>1, <1>2, UsableAssumption
  <2>3. CASE i # n
    BY <1>8, <2>1, <2>2, <2>3
  <2>4. CASE i = n
    <3>1. (memmap[n].base + c * PAGE_SIZE) % PAGE_SIZE = 0
          /\ (memmap[n].length - c * PAGE_SIZE) % PAGE_SIZE = 0
      <4>1. PICK b \in Nat, k \in Nat, P \in Nat \ {0} :
              b = memmap[n].base /\ k = memmap[n].length /\ P = PAGE_SIZE
        BY <2>1, <2>4, PageSizeAssumption
      <4>2. b % P = 0 /\ k % P = 0
        BY <2>2, <2>4, <4>1
      <4>3. (b + c * P) % P = 0 /\ (k - c * P) % P = 0
        BY <4>2, CutAligned, ZenonT(60)
      <4> QED  BY <4>1, <4>3
    <3> QED  BY <1>5, <1>8, <2>4, <3>1
  <2> QED  BY <2>3, <2>4
<1>12. DatabaseApart'
  <2> SUFFICES ASSUME NEW i \in Usable(memmap)
               PROVE  \/ memmap'[i].base + memmap'[i].length <= g_pfndb_phys'
                      \/ g_pfndb_phys' + pfndb_storage_size(g_max_pfn') <= memmap'[i].base
    BY <1>10 DEF DatabaseApart
  <2>0. g_pfndb_phys' + pfndb_storage_size(g_max_pfn') = memmap[n].base + size
    BY <1>4, <1>5, <1>7
  <2>1. /\ i \in DOMAIN memmap /\ memmap[i].base \in Nat /\ memmap[i].length \in Nat
        /\ memmap[n].base \in Nat /\ memmap[n].length \in Nat
    BY <1>8 DEF Usable, MemMapEntry
  <2>2. CASE i = n
    BY <1>8, <2>0, <2>1, <2>2
  <2>3. CASE i # n
    <3>1. \/ memmap[i].base + memmap[i].length <= memmap[n].base
          \/ memmap[n].base + memmap[n].length <= memmap[i].base
      BY <1>1, <1>2, <2>3, UsableAssumption
    <3>2. memmap'[i] = memmap[i]
      BY <1>8, <2>1, <2>3
    <3> QED  BY <1>7, <2>0, <2>1, <3>1, <3>2
  <2> QED  BY <2>2, <2>3
<1>13. UnreservedIsUsable'
  BY <1>2 DEF UnreservedIsUsable, Pfns
<1> QED  BY <1>7, <1>8, <1>9, <1>11, <1>12, <1>13 DEF MemMapEntry

(***************************************************************************)
(* Every other step leaves the map and the RESERVED marks alone: flags are *)
(* assigned only to pages of a block, which has no RESERVED page.          *)
(***************************************************************************)
LEMMA RamKept ==
  ASSUME RamInv, UNCHANGED <<memmap, g_pfndb, g_pfndb_phys, g_max_pfn>>,
         pc' # "boot" \/ pc = "boot",
         \A q \in Pfns : g_pfndb /\ "RESERVED" \in flags[q] => "RESERVED" \in flags'[q]
  PROVE  RamInv'
<1>1. AlignedUsable => AlignedUsable'
  BY DEF AlignedUsable, Usable
<1>2. DatabaseApart => DatabaseApart'
  BY DEF DatabaseApart, Usable, pfndb_storage_size, PAGE_ALIGN_UP
<1>3. g_pfndb /\ UnreservedIsUsable => UnreservedIsUsable'
  BY DEF UnreservedIsUsable, Usable, Pfns, pfndb_mark_range, PHYS_PFN, PAGE_ALIGN_UP
<1> QED  BY <1>1, <1>2, <1>3 DEF RamInv

LEMMA RamStep == IInv /\ IInv' /\ RamInv /\ [Next]_vars => RamInv'
<1> SUFFICES ASSUME IInv, IInv', RamInv, [Next]_vars PROVE RamInv'
  OBVIOUS
<1>1. CASE BootPfndb
  BY <1>1, RamBoot
<1>2. CASE pmm_init_reset
  <2>1. \A q \in Pfns : "RESERVED" \in flags[q] => "RESERVED" \in flags'[q]
    BY <1>2 DEF pmm_init_reset, ResetFlags
  <2> QED  BY <1>2, <2>1, RamKept DEF pmm_init_reset
<1>3. CASE UNCHANGED <<memmap, g_pfndb, g_pfndb_phys, g_max_pfn, flags>> /\ pc' # "boot"
  BY <1>3, RamKept
<1>4. ASSUME NEW p \in Pfns, NEW f, g_pfndb, NEW h \in Heads, p \in BlockPages(h),
             flags' = [flags EXCEPT ![p] = f], pc' # "boot",
             UNCHANGED <<memmap, g_pfndb, g_pfndb_phys, g_max_pfn>>
      PROVE  RamInv'
  <2>1. "RESERVED" \notin flags[p]
    BY <1>4 DEF IInv, NoOverlap, BlockOK
  <2>2. flags \in [Pfns -> SUBSET PageFlags]
    BY <1>4 DEF IInv, TypeOK
  <2>3. \A q \in Pfns : "RESERVED" \in flags[q] => "RESERVED" \in flags'[q]
    BY <1>4, <2>1, <2>2
  <2> QED  BY <1>4, <2>3, RamKept
<1>5. ASSUME pc \in {"coalesce", "split"}
      PROVE  g_pfndb /\ page \in Heads /\ page \in Pfns /\ page \in BlockPages(page)
  <2>1. page \in Heads
    BY <1>5 DEF Heads, FreeHeads, InHand
  <2> QED  BY <1>5, <2>1, HeadFacts DEF IInv, PhaseOK
<1>6. CASE free_block_done \/ alloc_done
  <2>1. pc \in {"coalesce", "split"} /\ pc' # "boot"
        /\ UNCHANGED <<memmap, g_pfndb, g_pfndb_phys, g_max_pfn>>
    BY <1>6 DEF free_block_done, alloc_done
  <2>2. \E f : flags' = [flags EXCEPT ![page] = f]
    BY <1>6 DEF free_block_done, alloc_done, pmm_prepare_page
  <2> QED  BY <1>4, <1>5, <2>1, <2>2
<1>7. CASE alloc_split
  <2>1. /\ pc = "split" /\ pc' # "boot" /\ cur > req
        /\ UNCHANGED <<memmap, g_pfndb, g_pfndb_phys, g_max_pfn>>
        /\ flags' = [flags EXCEPT ![page + Pow2(cur - 1)] = {"FREE"}]
    BY <1>7 DEF alloc_split, pmm_prepare_page
  <2>2. PICK k \in 0 .. 8 : k = cur - 1 /\ cur = k + 1
    BY SMTT(30), <2>1, MaxOrderAssumption DEF IInv, TypeOK, Orders
  <2>3. Pow2(k) \in Nat /\ Pow2(k) >= 1 /\ Pow2(k + 1) = 2 * Pow2(k)
    BY Pow2Facts
  <2>4. OrderOf(page) = k + 1 /\ page \in Nat /\ page \in Heads /\ g_pfndb
    BY <1>5, <2>1, <2>2, HeadFacts DEF OrderOf, InHand
  <2>5. page + Pow2(k) \in BlockPages(page)
    BY <2>3, <2>4 DEF BlockPages
  <2>6. page + Pow2(k) \in Pfns
    BY <2>4, <2>5, HeadFacts
  <2> QED  BY <1>4, <2>1, <2>2, <2>4, <2>5, <2>6
<1>8. CASE pmm_init_fail \/ pmm_init_skip \/ pmm_init_free \/ pmm_init_done \/ free_block_merge
  BY <1>3, <1>8 DEF pmm_init_fail, pmm_init_skip, pmm_init_free, pmm_init_done,
     free_block_merge, pfndbVars, pageVars
<1>9. ASSUME UNCHANGED vars PROVE RamInv'
  BY <1>9, RamKept DEF vars, pfndbVars, pageVars, callVars
<1>10. CASE Call
  <2>1. ASSUME NEW k \in 0 .. PMM_MAX_ORDER, pmm_alloc(k) PROVE RamInv'
    BY <1>3, <1>9, <2>1 DEF pmm_alloc
  <2>2. ASSUME NEW p, pmm_free(p) PROVE RamInv'
    BY <1>3, <1>9, <2>2 DEF pmm_free, pfndbVars, pageVars
  <2> QED  BY <1>10, <2>1, <2>2 DEF Call
<1>11. CASE Halted \/ UNCHANGED vars
  BY <1>9, <1>11 DEF Halted
<1> QED  BY <1>1, <1>2, <1>6, <1>7, <1>8, <1>10, <1>11 DEF Next, Step

(***************************************************************************)
(* A page frame that pfndb_mark_range marks for an aligned entry lies in   *)
(* the entry with all its bytes.                                           *)
(***************************************************************************)
LEMMA MarkedInside ==
  ASSUME NEW b \in Nat, NEW n \in Nat, NEW m \in Nat, NEW q \in Nat,
         b % PAGE_SIZE = 0, n % PAGE_SIZE = 0, q \in pfndb_mark_range(b, n, m)
  PROVE  b <= PFN_PHYS(q) /\ PFN_PHYS(q + 1) <= b + n
<1>1. PICK P \in Nat \ {0} : P = PAGE_SIZE
  BY PageSizeAssumption
<1>2. b \in Int /\ n \in Int /\ b % P = 0 /\ n % P = 0
  BY <1>1
<1>3. PICK x \in Int : b = x * P
  BY <1>2, Multiple, Zenon
<1>4. PICK y \in Int : n = y * P
  BY <1>2, Multiple, Zenon
<1>5. PICK z \in Int : z = x + y /\ b + n = z * P
  BY <1>3, <1>4
<1>6. b \div P = x
  BY <1>3
<1>7. (b + n + P - 1) \div P = z
  <2>1. b + n + P - 1 = z * P + (P - 1)
    BY <1>5
  <2>2. (z * P + (P - 1)) \div P = z
    OBVIOUS
  <2> QED  BY <2>1, <2>2
<1>8. (z * P) \div P = z
  OBVIOUS
<1>9. x <= q /\ q < z
  BY <1>1, <1>6, <1>7, <1>8 DEF pfndb_mark_range, PHYS_PFN, PAGE_ALIGN_UP
<1>10. x * P <= q * P /\ (q + 1) * P <= z * P
  BY <1>9
<1> QED  BY <1>1, <1>3, <1>5, <1>10 DEF PFN_PHYS

(***************************************************************************)
(* What pmm_alloc hands out lies, with every byte, in memory the boot      *)
(* loader calls usable, and never overlaps the storage pfndb_init took for *)
(* the page frame database.                                                *)
(***************************************************************************)
THEOREM HandsOutUsableRam == Spec => []HeldIsUsableRam
<1>1. IInv /\ RamInv => HeldIsUsableRam
  <2> SUFFICES ASSUME IInv, RamInv, NEW p \in HeldPages
               PROVE  /\ \E i \in Usable(memmap) :
                           Bytes(p) \subseteq memmap[i].base .. (memmap[i].base + memmap[i].length - 1)
                      /\ Bytes(p) \cap (g_pfndb_phys ..
                            (g_pfndb_phys + pfndb_storage_size(g_max_pfn) - 1)) = {}
    BY DEF HeldIsUsableRam
  <2>1. PICK h \in held : p \in BlockPages(h)
    BY DEF HeldPages
  <2>2. h \in Heads /\ g_pfndb /\ p \in Pfns /\ p \in Nat /\ "RESERVED" \notin flags[p]
    BY <2>1, HeadFacts DEF Heads, IInv, NoOverlap, BlockOK
  <2>3. PICK i \in Usable(memmap) :
          p \in pfndb_mark_range(memmap[i].base, memmap[i].length, g_max_pfn)
    BY <2>2 DEF RamInv, UnreservedIsUsable
  <2>4. PICK b \in Nat, n \in Nat : b = memmap[i].base /\ n = memmap[i].length
    <3>1. i \in DOMAIN memmap /\ memmap \in Seq(MemMapEntry)
      BY <2>2 DEF RamInv, Usable
    <3>2. memmap[i] \in MemMapEntry
      BY <3>1
    <3> QED  BY <3>2 DEF MemMapEntry
  <2>5. b % PAGE_SIZE = 0 /\ n % PAGE_SIZE = 0 /\ g_max_pfn \in Nat
    BY <2>2, <2>4 DEF RamInv, AlignedUsable, IInv, TypeOK
  <2>6. b <= PFN_PHYS(p) /\ PFN_PHYS(p + 1) <= b + n
    BY <2>2, <2>3, <2>4, <2>5, MarkedInside
  <2>7. PFN_PHYS(p) \in Int /\ PFN_PHYS(p + 1) \in Int
    BY <2>2, PageSizeAssumption DEF PFN_PHYS
  <2>8. PICK f \in Int, l \in Int, d \in Nat, s \in Nat :
          /\ f = PFN_PHYS(p) /\ l = PFN_PHYS(p + 1)
          /\ d = g_pfndb_phys /\ s = pfndb_storage_size(g_max_pfn)
    BY <2>2, <2>5, <2>7, StorageSize DEF RamInv
  <2>9. Bytes(p) = f .. (l - 1)
    BY <2>8 DEF Bytes
  <2>10. b + n <= d \/ d + s <= b
    BY <2>2, <2>4, <2>8 DEF RamInv, DatabaseApart
  <2>11. f .. (l - 1) \subseteq b .. (b + n - 1)
    BY <2>6, <2>8
  <2>12. (f .. (l - 1)) \cap (d .. (d + s - 1)) = {}
    BY <2>6, <2>8, <2>10
  <2> QED  BY <2>4, <2>8, <2>9, <2>11, <2>12
<1>2. Init => RamInv
  BY DEF Init, PfndbInit, RamInv
<1> QED  BY <1>1, <1>2, RamStep, Inductive, PTL DEF Spec
=============================================================================
