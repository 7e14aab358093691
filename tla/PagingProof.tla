---------------------------- MODULE PagingProof -----------------------------
(***************************************************************************)
(* Proofs about the page table code beside the hardware's walk and its     *)
(* TLB, for every physical memory, every tree of tables the boot loader    *)
(* may leave, every mode, and every sequence of calls.                     *)
(***************************************************************************)
EXTENDS PagingProps, WellFoundedInduction, TLAPS

-----------------------------------------------------------------------------
(***************************************************************************)
(* A set of numbers that is not empty has a least element.                 *)
(***************************************************************************)
LEMMA LeastExists ==
  ASSUME NEW S \in SUBSET Nat, S # {}
  PROVE  \E x \in S : \A y \in S : x <= y
<1> DEFINE Less == {ss \in Nat \X Nat : ss[1] < ss[2]}
<1>1. IsWellFoundedOn(Less, Nat)
  BY NatLessThanWellFounded DEF OpToRel
<1>2. PICK x \in S : \A y \in S : ~(<<y, x>> \in Less)
  <2> HIDE DEF Less
  <2> QED  BY <1>1, WFMin
<1>3. x \in Nat /\ \A y \in S : y \in Nat /\ ~(y < x)
  BY <1>2
<1> QED  BY <1>3

(***************************************************************************)
(* A set of levels that is not empty has a highest one: what the walk,     *)
(* which goes down, is reasoned about with.                                *)
(***************************************************************************)
LEMMA HighestExists ==
  ASSUME NEW n \in Nat, NEW S \in SUBSET (0 .. n), S # {}
  PROVE  \E x \in S : \A y \in S : y <= x
<1> DEFINE T == {d \in Nat : \E x \in S : d = n - x}
<1>1. T \in SUBSET Nat /\ T # {}
  <2>1. PICK x \in S : TRUE
    OBVIOUS
  <2>2. n - x \in T
    BY <2>1
  <2> QED  BY <2>2
<1>2. PICK d \in T : \A e \in T : d <= e
  <2> HIDE DEF T
  <2> QED  BY <1>1, LeastExists
<1>3. PICK x \in S : d = n - x
  BY <1>2
<1>4. ASSUME NEW y \in S PROVE y <= x
  <2>1. n - y \in T
    OBVIOUS
  <2> QED  BY <1>2, <1>3, <2>1
<1> QED  BY <1>4

-----------------------------------------------------------------------------
(***************************************************************************)
(* What an entry of each level spans.                                      *)
(***************************************************************************)
LEMMA Blocks ==
  /\ BlockSize[0] = PAGE_SIZE
  /\ \A l \in 0 .. 5 : BlockSize[l] \in Nat \ {0}
  /\ \A l \in 0 .. 4 : BlockSize[l + 1] = PT_ENTRIES * BlockSize[l]
<1>1. PICK B \in Nat \ {0} : B = PT_ENTRIES
  BY PagingAssumption
<1>2. PICK a0 \in Nat \ {0} : a0 = PAGE_SIZE
  BY PageSizeAssumption
<1>3. PICK a1 \in Nat \ {0} : a1 = B * a0
  OBVIOUS
<1>4. PICK a2 \in Nat \ {0} : a2 = B * a1
  OBVIOUS
<1>5. PICK a3 \in Nat \ {0} : a3 = B * a2
  OBVIOUS
<1>6. PICK a4 \in Nat \ {0} : a4 = B * a3
  OBVIOUS
<1>7. PICK a5 \in Nat \ {0} : a5 = B * a4
  OBVIOUS
<1> DEFINE w == [l \in 0 .. 5 |-> IF l = 0 THEN a0 ELSE IF l = 1 THEN a1 ELSE
                   IF l = 2 THEN a2 ELSE IF l = 3 THEN a3 ELSE IF l = 4 THEN a4 ELSE a5]
<1>8. w = [l \in 0 .. 5 |-> IF l = 0 THEN PAGE_SIZE ELSE PT_ENTRIES * w[l - 1]]
  <2>1. \A l \in 0 .. 5 : w[l] = IF l = 0 THEN PAGE_SIZE ELSE PT_ENTRIES * w[l - 1]
    BY <1>1, <1>2, <1>3, <1>4, <1>5, <1>6, <1>7
  <2> QED  BY <2>1, Zenon
<1> HIDE DEF w
<1>9. \A l \in 0 .. 5 : BlockSize[l] = IF l = 0 THEN PAGE_SIZE ELSE PT_ENTRIES * BlockSize[l - 1]
  <2>1. \E g : g = [l \in 0 .. 5 |-> IF l = 0 THEN PAGE_SIZE ELSE PT_ENTRIES * g[l - 1]]
    BY <1>8
  <2>2. BlockSize = [l \in 0 .. 5 |->
                       IF l = 0 THEN PAGE_SIZE ELSE PT_ENTRIES * BlockSize[l - 1]]
    BY <2>1, Zenon DEF BlockSize
  <2> QED  BY <2>2, Zenon
<1>10. /\ BlockSize[0] = a0 /\ BlockSize[1] = B * BlockSize[0]
       /\ BlockSize[2] = B * BlockSize[1] /\ BlockSize[3] = B * BlockSize[2]
       /\ BlockSize[4] = B * BlockSize[3] /\ BlockSize[5] = B * BlockSize[4]
  BY <1>1, <1>2, <1>9
<1>11. /\ BlockSize[0] = a0 /\ BlockSize[1] = a1 /\ BlockSize[2] = a2
       /\ BlockSize[3] = a3 /\ BlockSize[4] = a4 /\ BlockSize[5] = a5
  BY <1>3, <1>4, <1>5, <1>6, <1>7, <1>10
<1> QED  BY <1>1, <1>2, <1>10, <1>11

LEMMA IndexRange ==
  ASSUME NEW v \in Nat, NEW l \in 0 .. 5
  PROVE  paging_level_index(v, l) \in 0 .. PT_ENTRIES - 1
<1>1. PICK S \in Nat \ {0}, B \in Nat \ {0} : S = BlockSize[l] /\ B = PT_ENTRIES
  <2>1. BlockSize[l] \in Nat \ {0}
    BY Blocks
  <2> QED  BY <2>1, PagingAssumption
<1>2. PICK x \in Nat : x = v \div S
  OBVIOUS
<1>3. x % B \in 0 .. B - 1
  OBVIOUS
<1> QED  BY <1>1, <1>2, <1>3 DEF paging_level_index, paging_level_block_size

-----------------------------------------------------------------------------
(***************************************************************************)
(* The hardware's walk, level by level.                                    *)
(***************************************************************************)
LEMMA ModeLevels ==
  ASSUME NEW s
  PROVE  paging_satp_levels(s) \in {0, 3, 4, 5}
BY DEF paging_satp_levels

TableStep(s, m, v, t, l) ==
  IF l + 1 \in HwLevels(s) THEN Below(m, v, t[l + 1], l) ELSE s.ppn

LEMMA TablesAre ==
  ASSUME NEW s, NEW m, NEW v
  PROVE  TablesIn(s, m, v) = [l \in HwLevels(s) |-> TableStep(s, m, v, TablesIn(s, m, v), l)]
<1>1. PICK n \in {0, 3, 4, 5} : n = paging_satp_levels(s)
  BY ModeLevels
<1>2. HwLevels(s) = 0 .. n - 1
  BY <1>1 DEF HwLevels
<1>3. PICK y0 : y0 = s.ppn
  OBVIOUS
<1>4. PICK y1 : y1 = Below(m, v, y0, n - 2)
  OBVIOUS
<1>5. PICK y2 : y2 = Below(m, v, y1, n - 3)
  OBVIOUS
<1>6. PICK y3 : y3 = Below(m, v, y2, n - 4)
  OBVIOUS
<1>7. PICK y4 : y4 = Below(m, v, y3, n - 5)
  OBVIOUS
<1>8. PICK w : w = [l \in 0 .. n - 1 |-> IF l = n - 1 THEN y0 ELSE IF l = n - 2 THEN y1 ELSE
                     IF l = n - 3 THEN y2 ELSE IF l = n - 4 THEN y3 ELSE y4]
  OBVIOUS
<1>9. ASSUME NEW l \in 0 .. n - 1 PROVE w[l] = TableStep(s, m, v, w, l)
  <2>1. CASE l = n - 1
    BY <1>2, <1>3, <1>8, <2>1 DEF TableStep
  <2>2. CASE l # n - 1
    <3>1. l + 1 \in 0 .. n - 1
      BY <2>2
    <3>2. TableStep(s, m, v, w, l) = Below(m, v, w[l + 1], l)
      BY <1>2, <3>1 DEF TableStep
    <3>3. CASE l = n - 2
      <4>1. w[l + 1] = y0 /\ w[l] = y1
        BY <1>8, <3>1, <3>3
      <4> QED  BY <1>4, <3>2, <3>3, <4>1
    <3>4. CASE l = n - 3
      <4>1. w[l + 1] = y1 /\ w[l] = y2
        BY <1>8, <3>1, <3>4
      <4> QED  BY <1>5, <3>2, <3>4, <4>1
    <3>5. CASE l = n - 4
      <4>1. w[l + 1] = y2 /\ w[l] = y3
        BY <1>8, <3>1, <3>5
      <4> QED  BY <1>6, <3>2, <3>5, <4>1
    <3>6. CASE l = n - 5
      <4>1. w[l + 1] = y3 /\ w[l] = y4
        BY <1>8, <3>1, <3>6
      <4> QED  BY <1>7, <3>2, <3>6, <4>1
    <3>7. l \in {n - 2, n - 3, n - 4, n - 5}
      BY <2>2
    <3> QED  BY <3>3, <3>4, <3>5, <3>6, <3>7
  <2> QED  BY <2>1, <2>2
<1>10. w = [l \in HwLevels(s) |-> TableStep(s, m, v, w, l)]
  BY <1>2, <1>8, <1>9
<1> QED  BY <1>10, Zenon DEF TablesIn, TableStep

(***************************************************************************)
(* The table at a level comes from an entry of the table above.            *)
(***************************************************************************)
LEMMA TableAt ==
  ASSUME NEW s, NEW m, NEW v, NEW l \in HwLevels(s), NEW t, t = TablesIn(s, m, v)
  PROVE  /\ l + 1 \notin HwLevels(s) => t[l] = s.ppn
         /\ l + 1 \in HwLevels(s) => t[l] = Below(m, v, t[l + 1], l)
<1>1. t[l] = TableStep(s, m, v, t, l)
  BY TablesAre
<1> QED  BY <1>1 DEF TableStep

LEMMA TableAbove ==
  ASSUME NEW s, NEW m, NEW v, NEW l \in HwLevels(s), l + 1 \in HwLevels(s),
         TablesIn(s, m, v)[l] # NULL
  PROVE  /\ TablesIn(s, m, v)[l + 1] # NULL
         /\ PteIn(s, m, v, l + 1) = m[TablesIn(s, m, v)[l + 1]][paging_level_index(v, l + 1)]
         /\ IsTable(PteIn(s, m, v, l + 1))
         /\ PteIn(s, m, v, l + 1).ppn = TablesIn(s, m, v)[l]
         /\ TablesIn(s, m, v)[l] \in Frames
<1>1. PICK t : t = TablesIn(s, m, v)
  OBVIOUS
<1>2. t[l] = Below(m, v, t[l + 1], l)
  BY <1>1, TableAt
<1>3. /\ t[l + 1] # NULL /\ IsTable(m[t[l + 1]][paging_level_index(v, l + 1)])
      /\ m[t[l + 1]][paging_level_index(v, l + 1)].ppn = t[l] /\ t[l] \in Frames
  BY <1>1, <1>2 DEF Below
<1> QED  BY <1>1, <1>3 DEF PteIn

(***************************************************************************)
(* A walk that gets to a level went through tables at every level above.   *)
(***************************************************************************)
LEMMA TablesAbove ==
  ASSUME NEW s, NEW m, NEW v, NEW l \in HwLevels(s), TablesIn(s, m, v)[l] # NULL,
         NEW k \in HwLevels(s), l < k
  PROVE  TablesIn(s, m, v)[k] # NULL /\ IsTable(PteIn(s, m, v, k))
<1>1. PICK n \in {0, 3, 4, 5} : n = paging_satp_levels(s) /\ HwLevels(s) = 0 .. n - 1
  BY ModeLevels DEF HwLevels
<1> DEFINE Fine(j) == TablesIn(s, m, v)[j] # NULL /\ IsTable(PteIn(s, m, v, j))
<1>2. PICK D : D = {j \in (l + 1) .. n - 1 : ~Fine(j)}
  OBVIOUS
<1>3. SUFFICES ASSUME D # {} PROVE FALSE
  BY <1>1, <1>2
<1>4. D \in SUBSET Nat
  BY <1>1, <1>2
<1>5. PICK j \in D : \A i \in D : j <= i
  BY <1>3, <1>4, LeastExists
<1>6. j \in (l + 1) .. n - 1 /\ ~Fine(j)
  BY <1>2
<1>7. PICK i : i = j - 1 /\ j = i + 1 /\ i \in HwLevels(s) /\ i + 1 \in HwLevels(s) /\ l <= i
  BY <1>1, <1>6
<1>8. TablesIn(s, m, v)[i] # NULL
  <2>1. CASE i = l
    BY <2>1
  <2>2. CASE i # l
    <3>1. i \in (l + 1) .. n - 1 /\ ~(j <= i)
      BY <1>1, <1>7, <2>2
    <3> QED  BY <1>2, <1>5, <3>1
  <2> QED  BY <2>1, <2>2
<1>9. TablesIn(s, m, v)[i + 1] # NULL /\ IsTable(PteIn(s, m, v, i + 1))
  BY <1>7, <1>8, TableAbove
<1> QED  BY <1>6, <1>7, <1>9

-----------------------------------------------------------------------------
(***************************************************************************)
(* Two memories in which a walk reads the same entry at level l.           *)
(***************************************************************************)
Agree(s, m, n, v, l) ==
  TablesIn(s, m, v)[l] # NULL =>
    n[TablesIn(s, m, v)[l]][paging_level_index(v, l)]
      = m[TablesIn(s, m, v)[l]][paging_level_index(v, l)]

(***************************************************************************)
(* Where the entries above a level agree, the tables down to it are the    *)
(* same.                                                                   *)
(***************************************************************************)
LEMMA SameAbove ==
  ASSUME NEW s, NEW m, NEW n, NEW v, NEW k \in HwLevels(s),
         \A j \in HwLevels(s) : j > k => Agree(s, m, n, v, j),
         NEW l \in HwLevels(s), l >= k
  PROVE  TablesIn(s, n, v)[l] = TablesIn(s, m, v)[l]
<1>1. PICK c \in {0, 3, 4, 5} : c = paging_satp_levels(s) /\ HwLevels(s) = 0 .. c - 1
  BY ModeLevels DEF HwLevels
<1>2. PICK D : D = {j \in 0 .. c : j \in HwLevels(s) /\ j >= k
                                   /\ TablesIn(s, n, v)[j] # TablesIn(s, m, v)[j]}
  OBVIOUS
<1>3. SUFFICES ASSUME D # {} PROVE FALSE
  BY <1>1, <1>2
<1>4. c \in Nat /\ D \in SUBSET (0 .. c)
  BY <1>2
<1>5. PICK j \in D : \A i \in D : i <= j
  BY <1>3, <1>4, HighestExists
<1>6. j \in 0 .. c - 1 /\ j \in HwLevels(s) /\ j >= k
      /\ TablesIn(s, n, v)[j] # TablesIn(s, m, v)[j]
  BY <1>1, <1>2
<1>7. CASE j + 1 \notin HwLevels(s)
  <2>1. TablesIn(s, n, v)[j] = s.ppn /\ TablesIn(s, m, v)[j] = s.ppn
    BY <1>6, <1>7, TableAt
  <2> QED  BY <1>6, <2>1
<1>8. CASE j + 1 \in HwLevels(s)
  <2>1. TablesIn(s, n, v)[j + 1] = TablesIn(s, m, v)[j + 1]
    <3>1. j + 1 \in 0 .. c /\ j + 1 >= k /\ ~(j + 1 <= j)
      BY <1>1, <1>6, <1>8
    <3> QED  BY <1>2, <1>5, <1>8, <3>1
  <2>2. PICK t : t = TablesIn(s, m, v)[j + 1]
    OBVIOUS
  <2>3. /\ TablesIn(s, n, v)[j] = Below(n, v, t, j)
        /\ TablesIn(s, m, v)[j] = Below(m, v, t, j)
    BY <1>6, <1>8, <2>1, <2>2, TableAt
  <2>4. j + 1 > k /\ Agree(s, m, n, v, j + 1)
    BY <1>1, <1>6, <1>8
  <2>5. t # NULL =>
          n[t][paging_level_index(v, j + 1)] = m[t][paging_level_index(v, j + 1)]
    BY <2>2, <2>4 DEF Agree
  <2> QED  BY <1>6, <2>3, <2>5 DEF Below
<1> QED  BY <1>7, <1>8

LEMMA SameTables ==
  ASSUME NEW s, NEW m, NEW n, NEW v,
         \A j \in HwLevels(s) : j > 0 => Agree(s, m, n, v, j)
  PROVE  TablesIn(s, n, v) = TablesIn(s, m, v)
<1>1. PICK c \in {0, 3, 4, 5} : c = paging_satp_levels(s) /\ HwLevels(s) = 0 .. c - 1
  BY ModeLevels DEF HwLevels
<1>2. ASSUME NEW l \in HwLevels(s)
      PROVE  TablesIn(s, n, v)[l] = TablesIn(s, m, v)[l]
  <2>1. 0 \in HwLevels(s) /\ l >= 0
    BY <1>1
  <2> QED  BY <2>1, SameAbove
<1>3. PICK a, b : a = TablesIn(s, n, v) /\ b = TablesIn(s, m, v)
  OBVIOUS
<1>4. /\ a = [l \in HwLevels(s) |-> TableStep(s, n, v, a, l)]
      /\ b = [l \in HwLevels(s) |-> TableStep(s, m, v, b, l)]
  BY <1>3, TablesAre
<1>5. a = [l \in HwLevels(s) |-> a[l]] /\ b = [l \in HwLevels(s) |-> b[l]]
  BY <1>4
<1>6. \A l \in HwLevels(s) : a[l] = b[l]
  BY <1>2, <1>3
<1>7. a = b
  BY <1>5, <1>6
<1> QED  BY <1>3, <1>7

(***************************************************************************)
(* Where all of them agree, so does the translation.                       *)
(***************************************************************************)
LEMMA SameEntries ==
  ASSUME NEW s, NEW m, NEW n, NEW v,
         \A l \in HwLevels(s) : PteIn(s, n, v, l) = PteIn(s, m, v, l)
  PROVE  TranslateIn(s, n, v) = TranslateIn(s, m, v)
<1>1. LeavesIn(s, n, v) = LeavesIn(s, m, v)
  BY DEF LeavesIn
<1>2. CASE LeavesIn(s, m, v) = {}
  BY <1>1, <1>2 DEF TranslateIn
<1>3. CASE LeavesIn(s, m, v) # {}
  <2>1. PICK l : l = CHOOSE j \in LeavesIn(s, m, v) : TRUE
    OBVIOUS
  <2>2. l \in LeavesIn(s, m, v)
    BY <1>3, <2>1
  <2>3. PteIn(s, n, v, l) = PteIn(s, m, v, l)
    BY <2>2 DEF LeavesIn
  <2> QED  BY <1>1, <1>3, <2>1, <2>3 DEF TranslateIn
<1> QED  BY <1>2, <1>3

LEMMA SameTranslation ==
  ASSUME NEW s, NEW m, NEW n, NEW v,
         \A l \in HwLevels(s) : Agree(s, m, n, v, l)
  PROVE  /\ TablesIn(s, n, v) = TablesIn(s, m, v)
         /\ \A l \in HwLevels(s) : PteIn(s, n, v, l) = PteIn(s, m, v, l)
         /\ TranslateIn(s, n, v) = TranslateIn(s, m, v)
<1>1. TablesIn(s, n, v) = TablesIn(s, m, v)
  BY SameTables
<1>2. \A l \in HwLevels(s) : PteIn(s, n, v, l) = PteIn(s, m, v, l)
  BY <1>1 DEF PteIn, Agree
<1> QED  BY <1>1, <1>2, SameEntries

-----------------------------------------------------------------------------
(***************************************************************************)
(* The stores of paging_map_one, for the hardware's walks of all pages.    *)
(***************************************************************************)
LEMMA NullNoFrame == NULL \notin Frames /\ NULL \notin PoolFrames
BY NullAssumption, PagingAssumption, PoolAssumption DEF PoolFrames

LEMMA FramesReached ==
  ASSUME NEW s, s.ppn \in Frames, NEW m, NEW v, NEW l \in HwLevels(s)
  PROVE  TablesIn(s, m, v)[l] \in Frames \cup {NULL}
<1>1. CASE l + 1 \notin HwLevels(s)
  BY <1>1, TableAt
<1>2. CASE l + 1 \in HwLevels(s)
  <2>1. TablesIn(s, m, v)[l] = Below(m, v, TablesIn(s, m, v)[l + 1], l)
    BY <1>2, TableAt
  <2> QED  BY <2>1 DEF Below
<1> QED  BY <1>1, <1>2

(***************************************************************************)
(* A frame that no walk of a page reads as a table.                        *)
(***************************************************************************)
Unreached(s, m, f) == \A v \in Pages : \A l \in HwLevels(s) : TablesIn(s, m, v)[l] # f

(***************************************************************************)
(* Whatever is stored in such a frame, no walk changes.                    *)
(***************************************************************************)
LEMMA StoreSpare ==
  ASSUME NEW s, s.ppn \in Frames, NEW m, NEW n, NEW f, Unreached(s, m, f),
         \A g \in Frames : g # f => n[g] = m[g],
         NEW v \in Pages, NEW l \in HwLevels(s)
  PROVE  Agree(s, m, n, v, l)
<1>1. PICK t : t = TablesIn(s, m, v)[l]
  OBVIOUS
<1>2. t \in Frames \cup {NULL} /\ t # f
  BY <1>1, FramesReached DEF Unreached
<1> QED  BY <1>1, <1>2 DEF Agree

(***************************************************************************)
(* The slot that the walk of page u reads at level k is read, in a tree,   *)
(* by those walks only that took the same way.                             *)
(***************************************************************************)
Shares(s, m, u, k, v) ==
  /\ TablesIn(s, m, v)[k] = TablesIn(s, m, u)[k]
  /\ paging_level_index(v, k) = paging_level_index(u, k)

LEMMA Apart ==
  ASSUME NEW s, NEW m, WalksApart(s, m), NEW v \in Pages, NEW w \in Pages,
         NEW k \in HwLevels(s), NEW l \in HwLevels(s),
         TablesIn(s, m, v)[k] # NULL, TablesIn(s, m, v)[k] = TablesIn(s, m, w)[l]
  PROVE  k = l /\ \A j \in k + 1 .. paging_satp_levels(s) - 1 :
                    paging_level_index(v, j) = paging_level_index(w, j)
BY DEF WalksApart

LEMMA StoreSlot ==
  ASSUME NEW s, s.ppn \in Frames, NEW m \in [Frames -> [0 .. PT_ENTRIES - 1 -> Pte]],
         WalksApart(s, m),
         NEW u \in Pages, NEW k \in HwLevels(s), TablesIn(s, m, u)[k] # NULL,
         NEW pte, NEW n,
         n = [m EXCEPT ![TablesIn(s, m, u)[k]][paging_level_index(u, k)] = pte],
         NEW v \in Pages, NEW l \in HwLevels(s)
  PROVE  /\ l # k => Agree(s, m, n, v, l)
         /\ l = k /\ ~Shares(s, m, u, k, v) => Agree(s, m, n, v, l)
         /\ l = k /\ Shares(s, m, u, k, v) =>
              n[TablesIn(s, m, v)[k]][paging_level_index(v, k)] = pte
<1>1. PICK F, i, t, j : /\ F = TablesIn(s, m, u)[k] /\ i = paging_level_index(u, k)
                        /\ t = TablesIn(s, m, v)[l] /\ j = paging_level_index(v, l)
  OBVIOUS
<1>2. F \in Frames /\ t \in Frames \cup {NULL}
  BY <1>1, FramesReached
<1>3. HwLevels(s) \subseteq 0 .. 5 /\ u \in Nat /\ v \in Nat
  <2>1. HwLevels(s) \subseteq 0 .. 5
    BY ModeLevels DEF HwLevels
  <2> QED  BY <2>1, PagingAssumption DEF Pages
<1>4. i \in 0 .. PT_ENTRIES - 1 /\ j \in 0 .. PT_ENTRIES - 1
  BY <1>1, <1>3, IndexRange
<1>5. n = [m EXCEPT ![F] = [m[F] EXCEPT ![i] = pte]]
  BY <1>1
<1>6. n[F][i] = pte
  <2>1. m[F] \in [0 .. PT_ENTRIES - 1 -> Pte]
    BY <1>2
  <2>2. n[F] = [m[F] EXCEPT ![i] = pte]
    BY <1>2, <1>5
  <2> QED  BY <1>4, <2>1, <2>2
<1>7. t \in Frames /\ (t # F \/ j # i) => n[t][j] = m[t][j]
  BY <1>2, <1>4, <1>5
<1>8. t # NULL /\ t = F => l = k
  <2>1. TablesIn(s, m, v)[l] # NULL /\ TablesIn(s, m, v)[l] = TablesIn(s, m, u)[k] => l = k
    BY Apart
  <2> QED  BY <1>1, <2>1
<1>9. l # k => Agree(s, m, n, v, l)
  BY <1>1, <1>2, <1>7, <1>8 DEF Agree
<1>10. l = k /\ ~Shares(s, m, u, k, v) => Agree(s, m, n, v, l)
  BY <1>1, <1>2, <1>7 DEF Agree, Shares
<1>11. l = k /\ Shares(s, m, u, k, v) => n[TablesIn(s, m, v)[k]][paging_level_index(v, k)] = pte
  BY <1>1, <1>6 DEF Shares
<1> QED  BY <1>9, <1>10, <1>11

(***************************************************************************)
(* paging_map_one links a table: the entry it fills was not valid, and the *)
(* new table is an empty one that no walk reads, or out of the hardware's  *)
(* sight.                                                                  *)
(***************************************************************************)
LinkStep(s, m, u, k, pte, n) ==
  /\ s.ppn \in Frames /\ m \in [Frames -> [0 .. PT_ENTRIES - 1 -> Pte]] /\ WalksApart(s, m)
  /\ u \in Pages /\ k \in HwLevels(s) /\ k > 0
  /\ TablesIn(s, m, u)[k] # NULL /\ "V" \notin PteIn(s, m, u, k).bits
  /\ IsTable(pte)
  /\ pte.ppn \in Frames => Unreached(s, m, pte.ppn) /\ m[pte.ppn] = ZeroTable
  /\ n = [m EXCEPT ![TablesIn(s, m, u)[k]][paging_level_index(u, k)] = pte]

LEMMA LinkAgree ==
  ASSUME NEW s, NEW m, NEW u, NEW k, NEW pte, NEW n, LinkStep(s, m, u, k, pte, n),
         NEW v \in Pages, NEW l \in HwLevels(s)
  PROVE  /\ l # k \/ ~Shares(s, m, u, k, v) => Agree(s, m, n, v, l)
         /\ Shares(s, m, u, k, v) => n[TablesIn(s, m, v)[k]][paging_level_index(v, k)] = pte
<1>1. /\ s.ppn \in Frames /\ m \in [Frames -> [0 .. PT_ENTRIES - 1 -> Pte]] /\ WalksApart(s, m)
      /\ u \in Pages /\ k \in HwLevels(s) /\ TablesIn(s, m, u)[k] # NULL
      /\ n = [m EXCEPT ![TablesIn(s, m, u)[k]][paging_level_index(u, k)] = pte]
  BY DEF LinkStep
<1>2. /\ l # k => Agree(s, m, n, v, l)
      /\ l = k /\ ~Shares(s, m, u, k, v) => Agree(s, m, n, v, l)
  BY <1>1, StoreSlot
<1>3. Shares(s, m, u, k, v) => n[TablesIn(s, m, v)[k]][paging_level_index(v, k)] = pte
  BY <1>1, StoreSlot
<1> QED  BY <1>2, <1>3

(***************************************************************************)
(* What a walk that shares the slot found before, and finds now.           *)
(***************************************************************************)
LEMMA LinkShared ==
  ASSUME NEW s, NEW m, NEW u, NEW k, NEW pte, NEW n, LinkStep(s, m, u, k, pte, n),
         NEW v \in Pages, Shares(s, m, u, k, v), NEW l \in HwLevels(s)
  PROVE  /\ l >= k => TablesIn(s, n, v)[l] = TablesIn(s, m, v)[l] /\ TablesIn(s, m, v)[l] # NULL
         /\ l < k => TablesIn(s, m, v)[l] = NULL
         /\ l = k - 1 => TablesIn(s, n, v)[l] = IF pte.ppn \in Frames THEN pte.ppn ELSE NULL
         /\ l < k - 1 => TablesIn(s, n, v)[l] = NULL
         /\ ~IsLeaf(PteIn(s, m, v, l)) /\ ~IsLeaf(PteIn(s, n, v, l))
<1>1. PICK c \in {0, 3, 4, 5} : c = paging_satp_levels(s) /\ HwLevels(s) = 0 .. c - 1
  BY ModeLevels DEF HwLevels
<1>2. k \in HwLevels(s) /\ k > 0 /\ k - 1 \in HwLevels(s) /\ (k - 1) + 1 = k
  BY <1>1 DEF LinkStep
<1>3. PICK F : F = TablesIn(s, m, v)[k]
  OBVIOUS
<1>4. F # NULL /\ F = TablesIn(s, m, u)[k] /\ F \in Frames
  <2>1. F # NULL /\ F = TablesIn(s, m, u)[k] /\ s.ppn \in Frames
    BY <1>3 DEF LinkStep, Shares
  <2>2. F \in Frames \cup {NULL}
    BY <1>2, <1>3, <2>1, FramesReached
  <2> QED  BY <2>1, <2>2
<1>5. PteIn(s, m, v, k) = PteIn(s, m, u, k) /\ "V" \notin PteIn(s, m, v, k).bits
  BY <1>3, <1>4 DEF PteIn, Shares, LinkStep
<1>6. ASSUME NEW j \in HwLevels(s), j >= k PROVE TablesIn(s, n, v)[j] = TablesIn(s, m, v)[j]
  <2>1. \A i \in HwLevels(s) : i > k => Agree(s, m, n, v, i)
    <3> SUFFICES ASSUME NEW i \in HwLevels(s), i > k PROVE Agree(s, m, n, v, i)
      OBVIOUS
    <3>1. i # k
      BY <1>1, <1>2
    <3> QED  BY <3>1, LinkAgree
  <2> QED  BY <1>2, <1>6, <2>1, SameAbove
<1>7. ASSUME NEW j \in HwLevels(s), j > k
      PROVE  TablesIn(s, m, v)[j] # NULL /\ IsTable(PteIn(s, m, v, j))
  BY <1>2, <1>3, <1>4, <1>7, TablesAbove
<1>8. ASSUME NEW j \in HwLevels(s), j < k PROVE TablesIn(s, m, v)[j] = NULL
  <2>1. SUFFICES ASSUME TablesIn(s, m, v)[j] # NULL PROVE FALSE
    OBVIOUS
  <2>2. IsTable(PteIn(s, m, v, k))
    BY <1>2, <1>8, <2>1, TablesAbove
  <2> QED  BY <1>5, <2>2 DEF IsTable
<1>9. TablesIn(s, n, v)[k] = F /\ n[F][paging_level_index(v, k)] = pte /\ IsTable(pte)
  <2>1. TablesIn(s, n, v)[k] = F
    BY <1>1, <1>2, <1>3, <1>6
  <2>2. n[F][paging_level_index(v, k)] = pte
    BY <1>2, <1>3, LinkAgree
  <2> QED  BY <2>1, <2>2 DEF LinkStep
<1>10. TablesIn(s, n, v)[k - 1] = IF pte.ppn \in Frames THEN pte.ppn ELSE NULL
  <2>1. TablesIn(s, n, v)[k - 1] = Below(n, v, F, k - 1)
    BY <1>2, <1>9, TableAt
  <2> QED  BY <1>2, <1>4, <1>9, <2>1 DEF Below
<1>11. ~IsTable(PteIn(s, n, v, k - 1)) /\ ~IsLeaf(PteIn(s, n, v, k - 1))
  <2>0. ~IsTable(ZeroPte) /\ ~IsLeaf(ZeroPte)
    BY DEF ZeroPte, IsTable, IsLeaf
  <2>1. CASE pte.ppn \notin Frames
    <3>1. PteIn(s, n, v, k - 1) = ZeroPte
      BY <1>10, <2>1 DEF PteIn
    <3> QED  BY <2>0, <3>1
  <2>2. CASE pte.ppn \in Frames
    <3>1. PICK f : f = pte.ppn /\ f \in Frames /\ Unreached(s, m, f) /\ m[f] = ZeroTable
      BY <2>2 DEF LinkStep
    <3>2. f # F /\ f # NULL
      BY <1>2, <1>3, <3>1, NullNoFrame DEF Unreached
    <3>3. n[f] = ZeroTable
      <4>1. n = [m EXCEPT ![F] = [m[F] EXCEPT ![paging_level_index(u, k)] = pte]]
            /\ m \in [Frames -> [0 .. PT_ENTRIES - 1 -> Pte]]
        BY <1>4 DEF LinkStep
      <4> QED  BY <3>1, <3>2, <4>1
    <3>4. k - 1 \in 0 .. 5 /\ v \in Nat
      BY SMTT(30), <1>1, <1>2, PagingAssumption DEF Pages
    <3>5. paging_level_index(v, k - 1) \in 0 .. PT_ENTRIES - 1
      BY <3>4, IndexRange
    <3>6. PteIn(s, n, v, k - 1) = ZeroPte
      BY <1>10, <2>2, <3>1, <3>2, <3>3, <3>5 DEF PteIn, ZeroTable
    <3> QED  BY <2>0, <3>6
  <2> QED  BY <2>1, <2>2
<1>12. ASSUME NEW j \in HwLevels(s), j < k - 1 PROVE TablesIn(s, n, v)[j] = NULL
  <2>1. SUFFICES ASSUME TablesIn(s, n, v)[j] # NULL PROVE FALSE
    OBVIOUS
  <2>2. IsTable(PteIn(s, n, v, k - 1))
    BY <1>2, <1>12, <2>1, TablesAbove
  <2> QED  BY <1>11, <2>2
<1>13. ~IsLeaf(PteIn(s, m, v, l))
  <2>1. CASE l > k
    BY <1>7, <2>1 DEF IsTable, IsLeaf
  <2>2. CASE l = k
    BY <1>5, <2>2 DEF IsLeaf
  <2>3. CASE l < k
    BY <1>8, <2>3 DEF PteIn, ZeroPte, IsLeaf
  <2> QED  BY <1>1, <1>2, <2>1, <2>2, <2>3
<1>14. ~IsLeaf(PteIn(s, n, v, l))
  <2>1. CASE l > k
    <3>1. IsTable(PteIn(s, n, v, l))
      BY <1>2, <1>4, <1>9, <2>1, TablesAbove
    <3> QED  BY <3>1 DEF IsTable, IsLeaf
  <2>2. CASE l = k
    <3>1. PteIn(s, n, v, k) = pte
      BY <1>4, <1>9 DEF PteIn
    <3> QED  BY <1>9, <2>2, <3>1 DEF IsTable, IsLeaf
  <2>3. CASE l = k - 1
    BY <1>11, <2>3
  <2>4. CASE l < k - 1
    BY <1>12, <2>4 DEF PteIn, ZeroPte, IsLeaf
  <2> QED  BY <1>1, <1>2, <2>1, <2>2, <2>3, <2>4
<1>15. l >= k => TablesIn(s, n, v)[l] = TablesIn(s, m, v)[l] /\ TablesIn(s, m, v)[l] # NULL
  <2>1. CASE l = k
    BY <1>3, <1>4, <1>9, <2>1
  <2>2. CASE l > k
    <3>1. l >= k
      BY <1>1, <1>2, <2>2
    <3> QED  BY <1>6, <1>7, <2>2, <3>1
  <2> QED  BY <1>1, <1>2, <2>1, <2>2
<1> QED  BY <1>8, <1>10, <1>12, <1>13, <1>14, <1>15

LEMMA LinkTable ==
  ASSUME NEW s, NEW m, NEW u, NEW k, NEW pte, NEW n, LinkStep(s, m, u, k, pte, n),
         NEW v \in Pages, NEW l \in HwLevels(s)
  PROVE  \/ TablesIn(s, n, v)[l] = TablesIn(s, m, v)[l]
         \/ /\ l = k - 1 /\ Shares(s, m, u, k, v) /\ pte.ppn \in Frames
            /\ TablesIn(s, n, v)[l] = pte.ppn
<1>1. PICK c \in {0, 3, 4, 5} : c = paging_satp_levels(s) /\ HwLevels(s) = 0 .. c - 1
  BY ModeLevels DEF HwLevels
<1>2. k \in HwLevels(s)
  BY DEF LinkStep
<1>3. CASE ~Shares(s, m, u, k, v)
  <2>1. \A j \in HwLevels(s) : j > 0 => Agree(s, m, n, v, j)
    BY <1>3, LinkAgree
  <2>2. TablesIn(s, n, v) = TablesIn(s, m, v)
    BY <2>1, SameTables
  <2> QED  BY <2>2
<1>4. CASE Shares(s, m, u, k, v)
  <2>1. /\ l >= k => TablesIn(s, n, v)[l] = TablesIn(s, m, v)[l]
        /\ l < k => TablesIn(s, m, v)[l] = NULL
        /\ l = k - 1 => TablesIn(s, n, v)[l] = IF pte.ppn \in Frames THEN pte.ppn ELSE NULL
        /\ l < k - 1 => TablesIn(s, n, v)[l] = NULL
    BY <1>4, LinkShared
  <2>2. l >= k \/ l = k - 1 \/ l < k - 1
    BY <1>1, <1>2
  <2>3. CASE l >= k
    BY <2>1, <2>3
  <2>4. CASE l = k - 1
    <3>1. l < k
      BY <1>1, <1>2, <2>4
    <3> QED  BY <1>4, <2>1, <2>4, <3>1
  <2>5. CASE l < k - 1
    <3>1. l < k
      BY <1>1, <1>2, <2>5
    <3> QED  BY <2>1, <2>5, <3>1
  <2> QED  BY <2>2, <2>3, <2>4, <2>5
<1> QED  BY <1>3, <1>4

(***************************************************************************)
(* Linking changes no translation, not even that of the page being mapped: *)
(* there was none.                                                         *)
(***************************************************************************)
LEMMA LinkTranslation ==
  ASSUME NEW s, NEW m, NEW u, NEW k, NEW pte, NEW n, LinkStep(s, m, u, k, pte, n),
         NEW v \in Pages
  PROVE  TranslateIn(s, n, v) = TranslateIn(s, m, v)
<1>1. CASE ~Shares(s, m, u, k, v)
  <2>1. \A l \in HwLevels(s) : Agree(s, m, n, v, l)
    BY <1>1, LinkAgree
  <2> QED  BY <2>1, SameTranslation
<1>2. CASE Shares(s, m, u, k, v)
  <2>1. \A l \in HwLevels(s) : ~IsLeaf(PteIn(s, m, v, l)) /\ ~IsLeaf(PteIn(s, n, v, l))
    BY <1>2, LinkShared
  <2>2. LeavesIn(s, m, v) = {} /\ LeavesIn(s, n, v) = {}
    BY <2>1 DEF LeavesIn
  <2> QED  BY <2>2 DEF TranslateIn
<1> QED  BY <1>1, <1>2

(***************************************************************************)
(* The tables remain a tree.                                               *)
(***************************************************************************)
LEMMA LinkApart ==
  ASSUME NEW s, NEW m, NEW u, NEW k, NEW pte, NEW n, LinkStep(s, m, u, k, pte, n)
  PROVE  WalksApart(s, n)
<1> SUFFICES ASSUME NEW v \in Pages, NEW w \in Pages, NEW a \in HwLevels(s), NEW b \in HwLevels(s),
                    TablesIn(s, n, v)[a] # NULL, TablesIn(s, n, v)[a] = TablesIn(s, n, w)[b]
             PROVE  a = b /\ \A j \in a + 1 .. paging_satp_levels(s) - 1 :
                               paging_level_index(v, j) = paging_level_index(w, j)
  BY DEF WalksApart
<1>1. PICK c \in {0, 3, 4, 5} : c = paging_satp_levels(s) /\ HwLevels(s) = 0 .. c - 1
  BY ModeLevels DEF HwLevels
<1>2. /\ k \in HwLevels(s) /\ WalksApart(s, m) /\ TablesIn(s, m, u)[k] # NULL
      /\ pte.ppn \in Frames => Unreached(s, m, pte.ppn)
  BY DEF LinkStep
<1> DEFINE New(x, l) == /\ l = k - 1 /\ Shares(s, m, u, k, x) /\ pte.ppn \in Frames
                        /\ TablesIn(s, n, x)[l] = pte.ppn
<1>3. /\ TablesIn(s, n, v)[a] = TablesIn(s, m, v)[a] \/ New(v, a)
      /\ TablesIn(s, n, w)[b] = TablesIn(s, m, w)[b] \/ New(w, b)
  BY LinkTable
<1>4. CASE New(v, a) /\ New(w, b)
  <2>1. a = b /\ a = k - 1
    BY <1>4
  <2>2. TablesIn(s, m, v)[k] # NULL /\ TablesIn(s, m, v)[k] = TablesIn(s, m, w)[k]
        /\ paging_level_index(v, k) = paging_level_index(w, k)
    BY <1>2, <1>4 DEF Shares
  <2>3. \A j \in k + 1 .. paging_satp_levels(s) - 1 :
          paging_level_index(v, j) = paging_level_index(w, j)
    BY <1>2, <2>2, Apart
  <2>4. ASSUME NEW j \in a + 1 .. paging_satp_levels(s) - 1
        PROVE  j = k \/ j \in k + 1 .. paging_satp_levels(s) - 1
    BY <1>1, <1>2, <2>1
  <2> QED  BY <2>1, <2>2, <2>3, <2>4
<1>5. CASE ~New(v, a) /\ ~New(w, b)
  <2>1. TablesIn(s, m, v)[a] # NULL /\ TablesIn(s, m, v)[a] = TablesIn(s, m, w)[b]
    BY <1>3, <1>5
  <2> QED  BY <1>2, <2>1, Apart
<1>6. CASE New(v, a) /\ ~New(w, b)
  <2>1. TablesIn(s, m, w)[b] = pte.ppn /\ pte.ppn \in Frames
    BY <1>3, <1>6
  <2> QED  BY <1>2, <2>1 DEF Unreached
<1>7. CASE ~New(v, a) /\ New(w, b)
  <2>1. TablesIn(s, m, v)[a] = pte.ppn /\ pte.ppn \in Frames
    BY <1>3, <1>7
  <2> QED  BY <1>2, <2>1 DEF Unreached
<1> QED  BY <1>4, <1>5, <1>6, <1>7

LEMMA LinkUnreached ==
  ASSUME NEW s, NEW m, NEW u, NEW k, NEW pte, NEW n, LinkStep(s, m, u, k, pte, n),
         NEW f, Unreached(s, m, f), f # pte.ppn
  PROVE  Unreached(s, n, f)
<1> SUFFICES ASSUME NEW v \in Pages, NEW l \in HwLevels(s) PROVE TablesIn(s, n, v)[l] # f
  BY DEF Unreached
<1>1. TablesIn(s, n, v)[l] = TablesIn(s, m, v)[l] \/ TablesIn(s, n, v)[l] = pte.ppn
  BY LinkTable
<1> QED  BY <1>1 DEF Unreached

(***************************************************************************)
(* The entries that walks read now: the new one, those of the new table,   *)
(* and old ones.                                                           *)
(***************************************************************************)
LEMMA LinkEntries ==
  ASSUME NEW s, NEW m, NEW u, NEW k, NEW pte, NEW n, LinkStep(s, m, u, k, pte, n),
         NEW v \in Pages, NEW l \in HwLevels(s), IsTable(PteIn(s, n, v, l))
  PROVE  PteIn(s, n, v, l) = pte \/ PteIn(s, n, v, l) = PteIn(s, m, v, l)
<1>1. PICK c \in {0, 3, 4, 5} : c = paging_satp_levels(s) /\ HwLevels(s) = 0 .. c - 1
  BY ModeLevels DEF HwLevels
<1>2. k \in HwLevels(s) /\ k > 0
  BY DEF LinkStep
<1>3. CASE ~Shares(s, m, u, k, v)
  <2>1. \A j \in HwLevels(s) : Agree(s, m, n, v, j)
    BY <1>3, LinkAgree
  <2> QED  BY <2>1, SameTranslation
<1>4. CASE Shares(s, m, u, k, v)
  <2>1. /\ l >= k => TablesIn(s, n, v)[l] = TablesIn(s, m, v)[l] /\ TablesIn(s, m, v)[l] # NULL
        /\ l = k - 1 => TablesIn(s, n, v)[l] = IF pte.ppn \in Frames THEN pte.ppn ELSE NULL
        /\ l < k - 1 => TablesIn(s, n, v)[l] = NULL
    BY <1>4, LinkShared
  <2>2. CASE l > k
    <3>1. l # k /\ l >= k
      BY <1>1, <1>2, <2>2
    <3>2. Agree(s, m, n, v, l)
      BY <3>1, LinkAgree
    <3> QED  BY <2>1, <3>1, <3>2 DEF Agree, PteIn
  <2>3. CASE l = k
    <3>1. n[TablesIn(s, m, v)[k]][paging_level_index(v, k)] = pte /\ l >= k
      BY <1>1, <1>2, <1>4, <2>3, LinkAgree
    <3> QED  BY <2>1, <2>3, <3>1 DEF PteIn
  <2>4. CASE l < k
    <3>1. TablesIn(s, n, v)[l] = NULL \/ (pte.ppn \in Frames /\ TablesIn(s, n, v)[l] = pte.ppn)
      BY <1>1, <1>2, <2>1, <2>4
    <3>2. CASE TablesIn(s, n, v)[l] = NULL
      BY <3>2 DEF PteIn, ZeroPte, IsTable
    <3>3. CASE pte.ppn \in Frames /\ TablesIn(s, n, v)[l] = pte.ppn
      <4>1. PICK f, F, i : /\ f = pte.ppn /\ F = TablesIn(s, m, u)[k]
                           /\ i = paging_level_index(u, k)
        OBVIOUS
      <4>2. /\ f \in Frames /\ m[f] = ZeroTable /\ f # F /\ f # NULL
            /\ m \in [Frames -> [0 .. PT_ENTRIES - 1 -> Pte]]
            /\ n = [m EXCEPT ![F][i] = pte]
        BY <1>2, <3>3, <4>1, NullNoFrame DEF LinkStep, Unreached
      <4>3. n[f] = ZeroTable
        BY <4>2
      <4>4. l \in 0 .. 5 /\ v \in Nat
        BY <1>1, PagingAssumption DEF Pages
      <4>5. paging_level_index(v, l) \in 0 .. PT_ENTRIES - 1
        BY <4>4, IndexRange
      <4>6. PteIn(s, n, v, l) = ZeroPte
        BY ZenonT(60), <3>3, <4>1, <4>2, <4>3, <4>5 DEF PteIn, ZeroTable
      <4> QED  BY <4>6 DEF ZeroPte, IsTable
    <3> QED  BY <3>1, <3>2, <3>3
  <2> QED  BY <1>1, <1>2, <2>2, <2>3, <2>4
<1> QED  BY <1>3, <1>4

-----------------------------------------------------------------------------
(***************************************************************************)
(* A page is known by the indices of its walk.                             *)
(***************************************************************************)
LEMMA Euclid ==
  ASSUME NEW x \in Nat, NEW d \in Nat \ {0}
  PROVE  \E q, r \in Nat : q = x \div d /\ r = x % d /\ x = d * q + r /\ r < d
<1>1. PICK q \in Nat, r \in Nat : q = x \div d /\ r = x % d
  OBVIOUS
<1>2. r < d
  BY <1>1
<1>3. x = d * q + r
  BY <1>1
<1> QED  BY <1>1, <1>2, <1>3

LEMMA DivUnique ==
  ASSUME NEW x \in Nat, NEW d \in Nat \ {0}, NEW q \in Nat, d * q <= x, x < d * (q + 1)
  PROVE  x \div d = q
<1>1. PICK p \in Nat : p = x \div d /\ d * p <= x /\ x < d * (p + 1)
  <2>1. PICK p \in Nat, r \in Nat : p = x \div d /\ x = d * p + r /\ r < d
    BY Euclid
  <2>2. d * p <= x /\ x < d * (p + 1)
    BY <2>1
  <2> QED  BY <2>1, <2>2
<1>2. ~(p < q)
  <2> SUFFICES ASSUME p + 1 <= q PROVE FALSE
    OBVIOUS
  <2>1. d * (p + 1) <= d * q
    OBVIOUS
  <2> QED  BY <1>1, <2>1
<1>3. ~(q < p)
  <2> SUFFICES ASSUME q + 1 <= p PROVE FALSE
    OBVIOUS
  <2>1. d * (q + 1) <= d * p
    OBVIOUS
  <2> QED  BY <1>1, <2>1
<1> QED  BY <1>1, <1>2, <1>3

Splits(x, S, B, D) ==
  \E q, p, r \in Nat :
    q = x \div S /\ p = x \div D /\ r = q % B /\ q = B * p + r /\ p = q \div B

LEMMA NextDigit ==
  ASSUME NEW x \in Nat, NEW S \in Nat \ {0}, NEW B \in Nat \ {0}, NEW D \in Nat \ {0}, D = B * S
  PROVE  Splits(x, S, B, D)
<1>1. PICK q \in Nat, t \in Nat : q = x \div S /\ x = S * q + t /\ t < S
  BY Euclid
<1>2. PICK p \in Nat, r \in Nat : p = q \div B /\ r = q % B /\ q = B * p + r /\ r <= B - 1
  <2>1. PICK p \in Nat, r \in Nat : p = q \div B /\ r = q % B /\ q = B * p + r /\ r < B
    BY Euclid
  <2> QED  BY <2>1
<1>4. x = D * p + (S * r + t)
  <2>1. S * (B * p + r) = (B * S) * p + S * r
    OBVIOUS
  <2>2. S * q = D * p + S * r
    BY <1>2, <2>1
  <2> QED  BY <1>1, <2>2
<1>5. S * r + t >= 0 /\ S * r + t < D
  <2>1. S * r <= S * (B - 1) /\ S * r >= 0
    BY <1>2
  <2>2. S * (B - 1) = D - S
    OBVIOUS
  <2> QED  BY <1>1, <2>1, <2>2
<1>6. D * p <= x /\ x < D * (p + 1)
  <2>1. D * (p + 1) = D * p + D
    OBVIOUS
  <2> QED  BY <1>4, <1>5, <2>1
<1>7. x \div D = p
  BY <1>6, DivUnique
<1> QED  BY <1>1, <1>2, <1>7 DEF Splits

Alike(v, w, S, B, D) == D = B * S /\ (v \div S) % B = (w \div S) % B /\ v \div D = w \div D

LEMMA SameDigit ==
  ASSUME NEW v \in Nat, NEW w \in Nat, NEW S \in Nat \ {0}, NEW B \in Nat \ {0},
         NEW D \in Nat \ {0}, Alike(v, w, S, B, D)
  PROVE  v \div S = w \div S
<1>0. Splits(v, S, B, D) /\ Splits(w, S, B, D)
  BY NextDigit, Zenon DEF Alike
<1>1. PICK a, b, d \in Nat : a = v \div S /\ b = v \div D /\ d = a % B /\ a = B * b + d
  BY <1>0 DEF Splits
<1>2. PICK e, f, g \in Nat : e = w \div S /\ f = w \div D /\ g = e % B /\ e = B * f + g
  BY <1>0 DEF Splits
<1>3. b = f /\ d = g
  BY <1>1, <1>2 DEF Alike
<1> QED  BY <1>1, <1>2, <1>3

LEMMA Digits ==
  ASSUME NEW n \in {3, 4, 5}, AddrSpan = BlockSize[n], NEW v \in Pages, NEW w \in Pages,
         \A j \in 0 .. n - 1 : paging_level_index(v, j) = paging_level_index(w, j)
  PROVE  v = w
<1>1. /\ v \in Nat /\ w \in Nat /\ v < AddrSpan /\ w < AddrSpan
      /\ v % PAGE_SIZE = 0 /\ w % PAGE_SIZE = 0
  BY PagingAssumption DEF Pages
<1> DEFINE Q(x, j) == x \div BlockSize[j]
<1>2. ASSUME NEW j \in 0 .. n PROVE Q(v, j) = Q(w, j)
  <2>1. PICK D : D = {i \in 0 .. n : Q(v, i) # Q(w, i)}
    OBVIOUS
  <2>2. SUFFICES ASSUME D # {} PROVE FALSE
    BY <2>1
  <2>3. n \in Nat /\ D \in SUBSET (0 .. n)
    BY <2>1
  <2>4. PICK i \in D : \A y \in D : y <= i
    BY <2>2, <2>3, HighestExists
  <2>5. i \in 0 .. n /\ Q(v, i) # Q(w, i)
    BY <2>1
  <2>6. CASE i = n
    <3>1. PICK A \in Nat \ {0} : A = BlockSize[n] /\ v < A /\ w < A
      BY <1>1, PagingAssumption
    <3>2. A * 0 <= v /\ v < A * (0 + 1) /\ A * 0 <= w /\ w < A * (0 + 1)
      BY <1>1, <3>1
    <3>3. v \div A = 0 /\ w \div A = 0
      BY <1>1, <3>2, DivUnique
    <3> QED  BY <2>5, <2>6, <3>1, <3>3
  <2>7. CASE i # n
    <3>1. i \in 0 .. 4 /\ i + 1 \in 0 .. n /\ ~(i + 1 <= i) /\ i \in 0 .. n - 1
      BY <2>5, <2>7
    <3>2. Q(v, i + 1) = Q(w, i + 1)
      BY <2>1, <2>4, <3>1
    <3>3. PICK S \in Nat \ {0}, B \in Nat \ {0} : S = BlockSize[i] /\ B = PT_ENTRIES
      <4>1. BlockSize[i] \in Nat \ {0}
        BY <3>1, Blocks
      <4> QED  BY <4>1, PagingAssumption
    <3>4. PICK D1 \in Nat \ {0} : D1 = BlockSize[i + 1] /\ D1 = B * S
      <4>1. BlockSize[i + 1] \in Nat \ {0} /\ BlockSize[i + 1] = PT_ENTRIES * BlockSize[i]
        BY <3>1, Blocks
      <4> QED  BY <3>3, <4>1
    <3>5. (v \div S) % B = (w \div S) % B
      <4>1. paging_level_index(v, i) = paging_level_index(w, i)
        BY <3>1
      <4> QED  BY <3>3, <4>1 DEF paging_level_index, paging_level_block_size
    <3>6. v \div D1 = w \div D1
      BY <3>2, <3>4
    <3>7. v \in Nat /\ w \in Nat /\ D1 = B * S
      BY <1>1, <3>4
    <3>8. v \div S = w \div S
      <4>1. Alike(v, w, S, B, D1)
        BY <3>5, <3>6, <3>7, Zenon DEF Alike
      <4> QED  BY <3>7, <4>1, SameDigit, Zenon
    <3> QED  BY <2>5, <3>3, <3>8
  <2> QED  BY <2>6, <2>7
<1>3. PICK P \in Nat \ {0} : P = PAGE_SIZE /\ P = BlockSize[0]
  BY PageSizeAssumption, Blocks
<1>4. v \div P = w \div P
  <2>1. Q(v, 0) = Q(w, 0)
    BY <1>2
  <2> QED  BY <1>3, <2>1
<1>5. PICK q \in Nat, r \in Nat : q = v \div P /\ r = v % P /\ v = P * q + r
  <2>1. v \in Nat
    BY <1>1
  <2> QED  BY <2>1, Euclid
<1>6. PICK x \in Nat, y \in Nat : x = w \div P /\ y = w % P /\ w = P * x + y
  BY <1>1, Euclid
<1>7. q = x /\ r = y
  BY <1>1, <1>3, <1>4, <1>5, <1>6
<1> QED  BY <1>5, <1>6, <1>7

-----------------------------------------------------------------------------
(***************************************************************************)
(* paging_map_one writes a leaf in the table its walk came to.             *)
(***************************************************************************)
LeafStep(s, m, u, pte, n) ==
  /\ s.ppn \in Frames /\ m \in [Frames -> [0 .. PT_ENTRIES - 1 -> Pte]] /\ WalksApart(s, m)
  /\ u \in Pages /\ 0 \in HwLevels(s) /\ AddrSpan = BlockSize[paging_satp_levels(s)]
  /\ TablesIn(s, m, u)[0] # NULL
  /\ n = [m EXCEPT ![TablesIn(s, m, u)[0]][paging_level_index(u, 0)] = pte]

LEMMA LeafAgree ==
  ASSUME NEW s, NEW m, NEW u, NEW pte, NEW n, LeafStep(s, m, u, pte, n),
         NEW v \in Pages, NEW l \in HwLevels(s)
  PROVE  /\ l # 0 \/ ~Shares(s, m, u, 0, v) => Agree(s, m, n, v, l)
         /\ Shares(s, m, u, 0, v) => n[TablesIn(s, m, v)[0]][paging_level_index(v, 0)] = pte
<1>1. /\ s.ppn \in Frames /\ m \in [Frames -> [0 .. PT_ENTRIES - 1 -> Pte]] /\ WalksApart(s, m)
      /\ u \in Pages /\ 0 \in HwLevels(s) /\ TablesIn(s, m, u)[0] # NULL
      /\ n = [m EXCEPT ![TablesIn(s, m, u)[0]][paging_level_index(u, 0)] = pte]
  BY DEF LeafStep
<1>2. /\ l # 0 => Agree(s, m, n, v, l)
      /\ l = 0 /\ ~Shares(s, m, u, 0, v) => Agree(s, m, n, v, l)
  BY <1>1, StoreSlot
<1>3. Shares(s, m, u, 0, v) => n[TablesIn(s, m, v)[0]][paging_level_index(v, 0)] = pte
  BY <1>1, StoreSlot
<1> QED  BY <1>2, <1>3

(***************************************************************************)
(* The tables that walks come to are the same as before.                   *)
(***************************************************************************)
LEMMA LeafTables ==
  ASSUME NEW s, NEW m, NEW u, NEW pte, NEW n, LeafStep(s, m, u, pte, n), NEW v \in Pages
  PROVE  /\ TablesIn(s, n, v) = TablesIn(s, m, v)
         /\ \A l \in HwLevels(s) : l > 0 => PteIn(s, n, v, l) = PteIn(s, m, v, l)
<1>1. HwLevels(s) \subseteq Nat
  BY ModeLevels DEF HwLevels
<1>2. \A l \in HwLevels(s) : l > 0 => Agree(s, m, n, v, l)
  BY <1>1, LeafAgree
<1>3. TablesIn(s, n, v) = TablesIn(s, m, v)
  BY <1>2, SameTables
<1> QED  BY <1>2, <1>3 DEF PteIn, Agree

(***************************************************************************)
(* Only the page being mapped reads the entry.                             *)
(***************************************************************************)
LEMMA LeafOthers ==
  ASSUME NEW s, NEW m, NEW u, NEW pte, NEW n, LeafStep(s, m, u, pte, n),
         NEW v \in Pages, v # u
  PROVE  TranslateIn(s, n, v) = TranslateIn(s, m, v)
<1>1. PICK c \in {0, 3, 4, 5} : c = paging_satp_levels(s) /\ HwLevels(s) = 0 .. c - 1
  BY ModeLevels DEF HwLevels
<1>2. /\ u \in Pages /\ 0 \in HwLevels(s) /\ AddrSpan = BlockSize[c] /\ WalksApart(s, m)
      /\ TablesIn(s, m, u)[0] # NULL /\ c \in {3, 4, 5}
  BY <1>1 DEF LeafStep
<1>3. ~Shares(s, m, u, 0, v)
  <2> SUFFICES ASSUME Shares(s, m, u, 0, v) PROVE FALSE
    OBVIOUS
  <2>1. /\ TablesIn(s, m, v)[0] # NULL /\ TablesIn(s, m, v)[0] = TablesIn(s, m, u)[0]
        /\ paging_level_index(v, 0) = paging_level_index(u, 0)
    BY <1>2 DEF Shares
  <2>2. \A j \in 0 + 1 .. c - 1 : paging_level_index(v, j) = paging_level_index(u, j)
    BY <1>1, <1>2, <2>1, Apart
  <2>3. \A j \in 0 .. c - 1 : j = 0 \/ j \in 0 + 1 .. c - 1
    OBVIOUS
  <2>4. \A j \in 0 .. c - 1 : paging_level_index(v, j) = paging_level_index(u, j)
    BY <2>1, <2>2, <2>3
  <2>5. v = u
    BY <1>2, <2>4, Digits
  <2> QED  BY <2>5
<1>4. \A l \in HwLevels(s) : Agree(s, m, n, v, l)
  BY <1>3, LeafAgree
<1> QED  BY <1>4, SameTranslation

-----------------------------------------------------------------------------
(***************************************************************************)
(* The inductive invariant.                                                *)
(***************************************************************************)
Regions == [virt : Address, phys : Address, size : Int, flags : Flags]

TypeOK ==
  /\ satp \in Satps /\ mem \in [Frames -> [0 .. PT_ENTRIES - 1 -> Pte]]
  /\ avail \subseteq Frames /\ avail \cap PoolFrames = {} /\ g_early_pt_pool_used \in Nat
  /\ pc \in {"start", "early", "uart", "up", "halt", "range", "walk", "link", "fence"}
  /\ virt \in 0 .. AddrSpan - 1 /\ phys \in Nat /\ todo \in Seq(Regions)
  /\ job \in Regions \/ (job = NoRegion /\ virt = 0)
  /\ pc = "range" => call \in {"mmio", "init", "map"}
  /\ tlb # NULL => tlb.virt \in Pages /\ tlb.to # NULL

(***************************************************************************)
(* From paging_early_init on, the globals name the root that satp names.   *)
(***************************************************************************)
RootKnown ==
  pc \notin {"start", "halt"} =>
    /\ paging_satp_levels(satp) # 0 /\ g_levels = paging_satp_levels(satp)
    /\ g_root_phys = PFN_PHYS(satp.ppn)

(***************************************************************************)
(* The tables that the hardware walks are a tree; none is a page that      *)
(* paging_alloc_table may still clear; they link frames, and tables of the *)
(* early pool only once the allocator had no page left.                    *)
(***************************************************************************)
SparesUnreached == \A f \in avail \cup PoolFrames : Unreached(satp, mem, f)

LinksKnown ==
  \A v \in Pages : \A l \in HwLevels(satp) : l > 0 /\ IsTable(PteIn(satp, mem, v, l)) =>
    \/ PteIn(satp, mem, v, l).ppn \in Frames
    \/ PteIn(satp, mem, v, l).ppn \in PoolLinks /\ avail = {}

PoolLinksPool ==
  \A f \in PoolFrames : \A i \in 0 .. PT_ENTRIES - 1 :
    IsTable(mem[f][i]) => mem[f][i].ppn \in PoolLinks

TablesOK ==
  paging_satp_levels(satp) # 0 =>
    WalksApart(satp, mem) /\ SparesUnreached /\ LinksKnown /\ PoolLinksPool

(***************************************************************************)
(* paging_map_one's pointer is at the table that the hardware's walk of    *)
(* the same page reads at that level, or in the early pool, where the      *)
(* hardware never gets.                                                    *)
(***************************************************************************)
InPool  == FrameAt(table) \in PoolFrames /\ avail = {}
OnWalk  == FrameAt(table) = TablesIn(satp, mem, virt)[level] /\ FrameAt(table) \in Frames
InMapOne == pc \in {"walk", "link", "fence"}

PointerOK ==
  InMapOne =>
    /\ virt \in Pages /\ level \in HwLevels(satp) /\ job \in Regions
    /\ call \in {"mmio", "init", "map"}
    /\ InPool \/ OnWalk
    /\ pc = "fence" => level = 0

(***************************************************************************)
(* The table that paging_alloc_table returned is empty and linked nowhere, *)
(* or one of the pool; the entry it is for is still not valid.             *)
(***************************************************************************)
NewFrame(f) ==
  /\ new_table = PHYS_TO_VIRT(PFN_PHYS(f)) /\ f \notin avail \cup PoolFrames
  /\ mem[f] = ZeroTable /\ Unreached(satp, mem, f)

NewTableOK ==
  pc = "link" =>
    /\ level > 0 /\ "V" \notin Entry.bits
    /\ \/ OnWalk /\ \E f \in Frames : NewFrame(f)
       \/ avail = {} /\ \E k \in DOMAIN Pool : new_table = Pool[k]

IInv ==
  TypeOK /\ RootKnown /\ TablesOK /\ PointerOK /\ NewTableOK /\ TlbCoherent

-----------------------------------------------------------------------------
(***************************************************************************)
(* Addresses: the pointer through which the code reaches a frame that the  *)
(* hardware knows by its page number.                                      *)
(***************************************************************************)
LEMMA ModShift ==
  ASSUME NEW x \in Nat, NEW A \in Nat \ {0}, x < A, NEW q \in Int
  PROVE  (x + A * q) % A = x
OBVIOUS

LEMMA WrapRange ==
  ASSUME NEW a \in Int
  PROVE  Wrap(a) \in 0 .. AddrSpan - 1 /\ Wrap(a) \in Nat
<1>1. PICK A \in Nat \ {0} : A = AddrSpan
  BY PagingAssumption
<1>2. a % A \in 0 .. A - 1
  OBVIOUS
<1> QED  BY <1>1, <1>2 DEF Wrap

LEMMA WrapIs ==
  ASSUME NEW a \in Int
  PROVE  \E q \in Int : a = Wrap(a) + AddrSpan * q
<1>1. PICK A \in Nat \ {0} : A = AddrSpan
  BY PagingAssumption
<1>2. PICK q \in Int, r \in Int : q = a \div A /\ r = a % A
  OBVIOUS
<1>3. a = r + A * q
  BY <1>2
<1>4. Wrap(a) = r
  BY <1>1, <1>2 DEF Wrap
<1> QED  BY <1>1, <1>3, <1>4

LEMMA WrapBack ==
  ASSUME NEW x \in Nat, x < AddrSpan
  PROVE  VIRT_TO_PHYS(PHYS_TO_VIRT(x)) = x /\ PHYS_TO_VIRT(VIRT_TO_PHYS(x)) = x
<1>1. PICK A \in Nat \ {0}, H \in Nat : A = AddrSpan /\ H = HhdmOffset
  BY PagingAssumption, HhdmAssumption
<1>2. PICK a \in Int : a = x + H
  OBVIOUS
<1>3. PICK b \in Int : b = x - H
  OBVIOUS
<1>6. PICK w \in Int, z \in Int : w = Wrap(a) /\ z = Wrap(b)
  BY WrapRange
<1>4. PICK q \in Int : a = w + A * q
  BY <1>1, <1>6, WrapIs
<1>5. PICK p \in Int : b = z + A * p
  BY <1>1, <1>6, WrapIs
<1>7. PICK mq \in Int, mp \in Int : mq = - q /\ mp = - p
  OBVIOUS
<1>8. w - H = x + A * mq
  <2>1. A * mq = - (A * q)
    BY <1>7
  <2> QED  BY <1>2, <1>4, <2>1
<1>9. z + H = x + A * mp
  <2>1. A * mp = - (A * p)
    BY <1>7
  <2> QED  BY <1>3, <1>5, <2>1
<1>10. (x + A * mq) % A = x /\ (x + A * mp) % A = x
  BY <1>1, ModShift
<1> QED  BY <1>1, <1>2, <1>3, <1>6, <1>8, <1>9, <1>10 DEF VIRT_TO_PHYS, PHYS_TO_VIRT, Wrap

LEMMA FrameBack ==
  ASSUME NEW f \in Frames
  PROVE  /\ PHYS_PFN(VIRT_TO_PHYS(PHYS_TO_VIRT(PFN_PHYS(f)))) = f
         /\ FrameAt(PHYS_TO_VIRT(PFN_PHYS(f))) = f
<1>1. PICK P \in Nat \ {0} : P = PAGE_SIZE
  BY PageSizeAssumption
<1>2. f \in Nat /\ f * P \in Nat /\ f * P < AddrSpan
  BY <1>1, PagingAssumption, HhdmAssumption DEF PFN_PHYS
<1>3. PFN_PHYS(f) \in Nat /\ PFN_PHYS(f) < AddrSpan
  BY <1>1, <1>2 DEF PFN_PHYS
<1>4. VIRT_TO_PHYS(PHYS_TO_VIRT(PFN_PHYS(f))) = PFN_PHYS(f)
  BY <1>3, WrapBack
<1>5. (f * P) \div P = f
  BY <1>2
<1>6. PHYS_PFN(PFN_PHYS(f)) = f
  BY <1>1, <1>5 DEF PHYS_PFN, PFN_PHYS
<1>7. ~InImage(PHYS_TO_VIRT(PFN_PHYS(f)))
  BY HhdmAssumption
<1> QED  BY <1>4, <1>6, <1>7 DEF FrameAt

LEMMA Whole ==
  ASSUME NEW x \in Int, NEW P \in Nat \ {0}, x % P = 0
  PROVE  \E y \in Int : x = y * P /\ x \div P = y
<1>1. PICK q \in Int, r \in Int : q = x \div P /\ r = x % P
  OBVIOUS
<1>2. x = P * q + r /\ r = 0
  BY <1>1
<1> QED  BY <1>1, <1>2

LEMMA PoolBack ==
  ASSUME NEW k \in DOMAIN Pool
  PROVE  /\ PHYS_PFN(VIRT_TO_PHYS(Pool[k])) \in Nat
         /\ PHYS_TO_VIRT(PFN_PHYS(PHYS_PFN(VIRT_TO_PHYS(Pool[k])))) = Pool[k]
<1>0. Pool[k] \in Pages
  BY PoolAssumption
<1>1. PICK P \in Nat \ {0}, A \in Nat \ {0}, H \in Nat, x \in Nat :
        P = PAGE_SIZE /\ A = AddrSpan /\ H = HhdmOffset /\ x = Pool[k] /\ x < A
  <2>1. HhdmOffset \in Nat
    BY HhdmAssumption
  <2>2. AddrSpan \in Nat \ {0}
    BY PagingAssumption
  <2>3. Pool[k] \in Nat /\ Pool[k] < AddrSpan
    BY <1>0, <2>2 DEF Pages
  <2> QED  BY <2>1, <2>2, <2>3, PageSizeAssumption
<1>13. A % P = 0 /\ H % P = 0 /\ x % P = 0
  BY <1>0, <1>1, HhdmAssumption DEF Pages
<1>14. A \in Int /\ H \in Int /\ x \in Int
  OBVIOUS
<1>2. PICK a \in Int : A = a * P
  BY <1>13, <1>14, Whole, Zenon
<1>3. PICK h \in Int : H = h * P
  BY <1>13, <1>14, Whole, Zenon
<1>4. PICK y \in Int : x = y * P
  BY <1>13, <1>14, Whole, Zenon
<1>5. PICK b \in Int : b = x - H
  OBVIOUS
<1>6. PICK q \in Int : b = Wrap(b) + A * q
  BY <1>1, WrapIs
<1>7. PICK z \in Nat : z = Wrap(b) /\ z = VIRT_TO_PHYS(x) /\ z < A
  BY <1>1, <1>5, WrapRange DEF VIRT_TO_PHYS
<1>8. PICK g \in Int : g = y - h - a * q /\ z = g * P
  <2>1. (a * P) * q = (a * q) * P
    OBVIOUS
  <2>2. A * q = (a * q) * P
    BY <1>2, <2>1
  <2>3. PICK c \in Int : c = a * q
    OBVIOUS
  <2>4. z = y * P - h * P - c * P
    BY <1>3, <1>4, <1>5, <1>6, <1>7, <2>2, <2>3
  <2>5. y * P - h * P - c * P = (y - h - c) * P
    OBVIOUS
  <2> QED  BY <2>3, <2>4, <2>5
<1>9. (g * P) \div P = g
  OBVIOUS
<1>10. PHYS_PFN(z) = g /\ PFN_PHYS(g) = z
  BY <1>1, <1>8, <1>9 DEF PHYS_PFN, PFN_PHYS
<1>11. z \div P \in Nat
  OBVIOUS
<1>12. PHYS_TO_VIRT(VIRT_TO_PHYS(x)) = x
  BY <1>1, WrapBack
<1> QED  BY <1>1, <1>7, <1>10, <1>11, <1>12 DEF PHYS_PFN

-----------------------------------------------------------------------------
(***************************************************************************)
(* The ranges to map.                                                      *)
(***************************************************************************)
LEMMA AlignFacts ==
  ASSUME NEW a \in Nat
  PROVE  PAGE_ALIGN_DOWN(a) \in Nat /\ PAGE_ALIGN_DOWN(a) <= a /\ PAGE_ALIGN_UP(a) \in Nat
<1>1. PICK P \in Nat \ {0} : P = PAGE_SIZE
  BY PageSizeAssumption
<1>2. PICK q \in Nat, r \in Nat : q = a \div P /\ a = P * q + r
  BY Euclid
<1>3. PICK b \in Nat : b = a + P - 1
  OBVIOUS
<1>4. PICK c \in Nat : c = b \div P
  OBVIOUS
<1>5. q * P \in Nat /\ q * P <= a /\ c * P \in Nat
  BY <1>2
<1> QED  BY <1>1, <1>2, <1>3, <1>4, <1>5 DEF PAGE_ALIGN_DOWN, PAGE_ALIGN_UP

LEMMA SomePermission == PAGING_PROT_RWG \in Flags
BY DEF PAGING_PROT_RWG, Flags, RWX

LEMMA HhdmRange ==
  ASSUME NEW base \in Address, NEW size \in Nat
  PROVE  Region(PHYS_TO_VIRT(PAGE_ALIGN_DOWN(base)), PAGE_ALIGN_DOWN(base),
                PAGE_ALIGN_UP(base + size) - PAGE_ALIGN_DOWN(base), PAGING_PROT_RWG) \in Regions
<1>0. base \in Nat /\ base < AddrSpan
  BY PagingAssumption DEF Address
<1>1. PAGE_ALIGN_DOWN(base) \in Nat /\ PAGE_ALIGN_DOWN(base) \in Address
  BY <1>0, AlignFacts, PagingAssumption DEF Address
<1>2. base + size \in Nat
  BY <1>0
<1>3. PAGE_ALIGN_UP(base + size) \in Nat
  BY <1>2, AlignFacts
<1>4. PAGE_ALIGN_DOWN(base) + HhdmOffset \in Int
  BY <1>1, HhdmAssumption
<1>5. PHYS_TO_VIRT(PAGE_ALIGN_DOWN(base)) \in 0 .. AddrSpan - 1
  BY <1>4, WrapRange DEF PHYS_TO_VIRT
<1> QED  BY <1>1, <1>3, <1>5, SomePermission DEF Region, Regions, Address

LEMMA InitRanges ==
  /\ paging_map_hhdm \in Seq(Regions) /\ paging_map_kernel_segments \in Seq(Regions)
  /\ InitRegions \in Seq(Regions)
<1>1. MemMap \in Seq([base : Address, length : Nat])
      /\ Segments \in Seq([start : Address, end : Nat, flags : Flags])
  BY CallsAssumption
<1>2. paging_map_hhdm \in Seq(Regions)
  <2>1. Len(MemMap) \in Nat /\ DOMAIN MemMap = 1 .. Len(MemMap)
    BY <1>1
  <2>2. ASSUME NEW i \in DOMAIN MemMap PROVE HhdmRegion(MemMap[i]) \in Regions
    <3>0. MemMap[i] \in [base : Address, length : Nat]
      <4>1. PICK Entries : Entries = [base : Address, length : Nat]
        OBVIOUS
      <4>2. MemMap \in Seq(Entries)
        BY <1>1, <4>1
      <4>3. MemMap[i] \in Entries
        BY <4>2
      <4> QED  BY <4>1, <4>3
    <3>1. MemMap[i].base \in Address /\ MemMap[i].length \in Nat
      BY <3>0
    <3> QED  BY <3>1, HhdmRange DEF HhdmRegion
  <2>3. paging_map_hhdm \in [1 .. Len(MemMap) -> Regions]
    BY <2>1, <2>2 DEF paging_map_hhdm
  <2> QED  BY <2>1, <2>3
<1>3. paging_map_kernel_segments \in Seq(Regions)
  <2>1. Len(Segments) \in Nat /\ DOMAIN Segments = 1 .. Len(Segments)
    BY <1>1
  <2>2. ASSUME NEW i \in DOMAIN Segments PROVE paging_map_kernel_segment(Segments[i]) \in Regions
    <3>0. Segments[i] \in [start : Address, end : Nat, flags : Flags]
      <4>1. PICK Entries : Entries = [start : Address, end : Nat, flags : Flags]
        OBVIOUS
      <4>2. Segments \in Seq(Entries)
        BY <1>1, <4>1
      <4>3. Segments[i] \in Entries
        BY <4>2
      <4> QED  BY <4>1, <4>3
    <3>1. /\ Segments[i].start \in 0 .. AddrSpan - 1 /\ Segments[i].end \in Nat
          /\ Segments[i].flags \in Flags
      BY <3>0 DEF Address
    <3>2. Segments[i].start \in Nat
      BY <3>1, PagingAssumption
    <3>3. PICK st \in Nat, up \in Nat : /\ st = PAGE_ALIGN_DOWN(Segments[i].start)
                                        /\ up = PAGE_ALIGN_UP(Segments[i].end)
      BY <3>1, <3>2, AlignFacts
    <3>4. st \in 0 .. AddrSpan - 1
      <4>1. st <= Segments[i].start
        BY <3>2, <3>3, AlignFacts
      <4> QED  BY <3>1, <4>1, PagingAssumption
    <3>5. Wrap(up) \in Nat
      BY WrapRange
    <3>6. KernelPhys + (st - KernelVirt) \in Int
      BY HhdmAssumption
    <3>7. Wrap(KernelPhys + (st - KernelVirt)) \in Address
      BY <3>6, WrapRange DEF Address
    <3>8. Wrap(up) - st \in Int
      BY <3>5
    <3> QED  BY <3>1, <3>3, <3>4, <3>7, <3>8
             DEF paging_map_kernel_segment, Region, Regions, Address
  <2>3. paging_map_kernel_segments \in [1 .. Len(Segments) -> Regions]
    BY <2>1, <2>2 DEF paging_map_kernel_segments
  <2> QED  BY <2>1, <2>3
<1> QED  BY <1>2, <1>3 DEF InitRegions

(***************************************************************************)
(* The entries that are written.                                           *)
(***************************************************************************)
LEMMA LeafEntry ==
  ASSUME NEW p \in Nat, NEW flags \in Flags
  PROVE  LeafPte(p, flags) \in Pte /\ IsLeaf(LeafPte(p, flags))
<1>1. PICK P \in Nat \ {0} : P = PAGE_SIZE
  BY PageSizeAssumption
<1>2. PHYS_PFN(p) \in Nat
  BY <1>1 DEF PHYS_PFN
<1>3. paging_leaf_flags(flags) \in SUBSET {"V", "R", "W", "X", "U", "G", "A", "D"}
  BY DEF paging_leaf_flags
<1>4. "V" \in paging_leaf_flags(flags) /\ paging_leaf_flags(flags) \cap RWX # {}
  BY DEF paging_leaf_flags, Flags, RWX
<1> QED  BY <1>2, <1>3, <1>4 DEF LeafPte, Pte, IsLeaf

LEMMA TableEntry ==
  ASSUME NEW p, PHYS_PFN(p) \in Nat
  PROVE  /\ paging_table_pte(p) \in Pte /\ IsTable(paging_table_pte(p))
         /\ paging_table_pte(p).ppn = PHYS_PFN(p)
BY DEF paging_table_pte, Pte, IsTable, RWX

LEMMA NoneIsTable ==
  ZeroPte \in Pte /\ ZeroTable \in [0 .. PT_ENTRIES - 1 -> Pte]
BY DEF ZeroPte, ZeroTable, Pte

-----------------------------------------------------------------------------
(***************************************************************************)
(* Steps that write no table.                                              *)
(***************************************************************************)
LEMMA InitOK == Init => IInv
<1> SUFFICES ASSUME Init PROVE IInv
  OBVIOUS
<1>1. TypeOK
  <2>1. avail \subseteq Frames /\ AddrSpan \in Nat \ {0}
    BY PagingAssumption DEF Init
  <2>2. mem \in [Frames -> [0 .. PT_ENTRIES - 1 -> Pte]]
    BY PagingAssumption DEF Init
  <2>3. 0 \in 0 .. AddrSpan - 1
    BY <2>1
  <2>4. avail \cap PoolFrames = {}
    BY PoolAssumption DEF Init, PoolFrames
  <2> QED  BY <2>1, <2>2, <2>3, <2>4 DEF Init, TypeOK
<1>2. TablesOK
  <2> SUFFICES ASSUME paging_satp_levels(satp) # 0
               PROVE  WalksApart(satp, mem) /\ SparesUnreached /\ LinksKnown /\ PoolLinksPool
    BY DEF TablesOK
  <2>1. satp \in Satps /\ mem = BootMem /\ avail \in PmmFree
    BY DEF Init
  <2>2. WalksApart(satp, mem)
    BY <2>1, BootTablesAssumption
  <2>3. SparesUnreached
    <3> SUFFICES ASSUME NEW f \in avail \cup PoolFrames, NEW v \in Pages, NEW l \in HwLevels(satp)
                 PROVE  TablesIn(satp, mem, v)[l] # f
      BY DEF SparesUnreached, Unreached
    <3>1. TablesIn(satp, BootMem, v)[l] \notin avail \cup PoolFrames
      BY <2>1, BootTablesAssumption
    <3> QED  BY <2>1, <3>1
  <2>4. LinksKnown
    <3> SUFFICES ASSUME NEW v \in Pages, NEW l \in HwLevels(satp), l > 0,
                        IsTable(PteIn(satp, mem, v, l))
                 PROVE  PteIn(satp, mem, v, l).ppn \in Frames
      BY DEF LinksKnown
    <3> QED  BY <2>1, BootTablesAssumption
  <2>5. PoolLinksPool
    <3> SUFFICES ASSUME NEW f \in PoolFrames, NEW i \in 0 .. PT_ENTRIES - 1
                 PROVE  ~IsTable(mem[f][i])
      BY DEF PoolLinksPool
    <3>1. mem[f] = ZeroTable
      BY <2>1, PoolAssumption DEF PoolFrames
    <3> QED  BY <3>1 DEF ZeroTable, ZeroPte, IsTable
  <2> QED  BY <2>2, <2>3, <2>4, <2>5
<1>3. RootKnown /\ PointerOK /\ NewTableOK /\ TlbCoherent
  BY DEF Init, RootKnown, PointerOK, InMapOne, NewTableOK, TlbCoherent
<1> QED  BY <1>1, <1>2, <1>3 DEF IInv

LEMMA TablesKept ==
  ASSUME TablesOK, UNCHANGED <<satp, mem, avail>>
  PROVE  TablesOK'
BY DEF TablesOK, SparesUnreached, LinksKnown, PoolLinksPool

LEMMA TlbKept ==
  ASSUME TlbCoherent, pc # "fence", UNCHANGED <<satp, mem>>, tlb' = tlb \/ tlb' = NULL
  PROVE  TlbCoherent'
BY DEF TlbCoherent, Translate

LEMMA OutsideOK ==
  ASSUME IInv, UNCHANGED <<satp, mem, avail>>, TlbCoherent',
         pc' \notin {"walk", "link", "fence"}, TypeOK', RootKnown'
  PROVE  IInv'
<1>1. TablesOK'
  BY TablesKept DEF IInv
<1>2. PointerOK' /\ NewTableOK'
  BY DEF PointerOK, InMapOne, NewTableOK
<1> QED  BY <1>1, <1>2 DEF IInv

LEMMA EarlyInitOK ==
  ASSUME IInv, paging_early_init
  PROVE  IInv'
<1>1. /\ pc = "start" /\ UNCHANGED <<satp, mem, avail, tlb>>
      /\ pc' = IF RootOK THEN "early" ELSE "halt"
  BY DEF paging_early_init, envVars
<1>2. TypeOK'
  BY <1>1 DEF IInv, TypeOK, paging_early_init, callVars
<1>3. RootKnown'
  BY <1>1 DEF RootKnown, RootOK, paging_early_init, paging_setup_root
<1>4. TlbCoherent'
  BY <1>1, TlbKept DEF IInv
<1> QED  BY <1>1, <1>2, <1>3, <1>4, OutsideOK

LEMMA BeginOK ==
  ASSUME IInv, pc \notin {"start", "halt", "fence"}, UNCHANGED <<satp, mem, avail, tlb>>,
         NEW c \in {"mmio", "init", "map"}, NEW ranges \in Seq(Regions), Begin(c, ranges),
         g_early_pt_pool_used' \in Nat, g_levels' = g_levels, g_root_phys' = g_root_phys
  PROVE  IInv'
<1>1. pc' = "range" /\ call' = c /\ todo' = ranges /\ UNCHANGED <<job, virt, phys>>
  BY DEF Begin
<1>2. TypeOK'
  BY <1>1 DEF IInv, TypeOK
<1>3. RootKnown'
  BY <1>1 DEF IInv, RootKnown
<1>4. TlbCoherent'
  BY TlbKept DEF IInv
<1> QED  BY <1>1, <1>2, <1>3, <1>4, OutsideOK

LEMMA HaltOK ==
  ASSUME IInv, pc # "fence", UNCHANGED <<satp, mem, avail, tlb, todo, job, virt, phys>>,
         pc' = "halt", g_early_pt_pool_used' \in Nat
  PROVE  IInv'
<1>1. TypeOK'
  BY DEF IInv, TypeOK
<1>2. RootKnown'
  BY DEF RootKnown
<1>3. TlbCoherent'
  BY TlbKept DEF IInv
<1> QED  BY <1>1, <1>2, <1>3, OutsideOK

LEMMA MapMmioOK ==
  ASSUME IInv, NEW m \in MmioCalls, paging_map_mmio(m)
  PROVE  IInv'
<1>1. pc = "early" /\ UNCHANGED <<satp, mem, avail, tlb, g_levels, g_root_phys>>
      /\ g_early_pt_pool_used' \in Nat
  BY DEF paging_map_mmio, envVars, pagingVars, IInv, TypeOK
<1>2. m.phys \in Address /\ m.size \in Nat
  BY CallsAssumption
<1>3. CASE m.size = 0
  <2>1. pc' = "halt" /\ UNCHANGED <<todo, job, virt, phys>>
    BY <1>3 DEF paging_map_mmio
  <2> QED  BY <1>1, <2>1, HaltOK
<1>4. CASE m.size # 0
  <2>1. PICK r \in Regions :
          r = Region(PHYS_TO_VIRT(PAGE_ALIGN_DOWN(m.phys)), PAGE_ALIGN_DOWN(m.phys),
                     PAGE_ALIGN_UP(m.phys + m.size) - PAGE_ALIGN_DOWN(m.phys), PAGING_PROT_RWG)
    BY <1>2, HhdmRange
  <2>2. Begin("mmio", <<r>>)
    BY <1>4, <2>1 DEF paging_map_mmio
  <2>3. <<r>> \in Seq(Regions)
    OBVIOUS
  <2> QED  BY <1>1, <2>2, <2>3, BeginOK
<1> QED  BY <1>3, <1>4

LEMMA MapRangeOK ==
  ASSUME IInv, NEW r \in MapCalls, paging_map_range(r)
  PROVE  IInv'
<1>1. pc = "up" /\ UNCHANGED <<satp, mem, avail, tlb, g_levels, g_root_phys>>
      /\ g_early_pt_pool_used' \in Nat /\ Begin("map", <<r>>)
  BY DEF paging_map_range, envVars, pagingVars, IInv, TypeOK
<1>2. r \in [virt : Address, phys : Address, size : Nat, flags : Flags]
  BY CallsAssumption
<1>3. r \in Regions
  BY <1>2 DEF Regions
<1>4. <<r>> \in Seq(Regions)
  BY <1>3
<1> QED  BY <1>1, <1>4, BeginOK

LEMMA PagingInitOK ==
  ASSUME IInv, paging_init
  PROVE  IInv'
<1>1. pc = "uart" /\ UNCHANGED <<satp, mem, avail, tlb>> /\ g_early_pt_pool_used' \in Nat
  BY DEF paging_init, envVars
<1>2. g_levels' = g_levels /\ g_root_phys' = g_root_phys
  BY <1>1 DEF paging_init, paging_setup_root, IInv, RootKnown
<1>3. CASE RootOK /\ exec
  <2>1. Begin("init", InitRegions)
    BY <1>3 DEF paging_init
  <2>2. PICK ranges \in Seq(Regions) : ranges = InitRegions
    BY InitRanges
  <2> QED  BY <1>1, <1>2, <2>1, <2>2, BeginOK
<1>4. CASE ~(RootOK /\ exec)
  <2>1. pc' = "halt" /\ UNCHANGED <<todo, job, virt, phys>>
    BY <1>4 DEF paging_init
  <2> QED  BY <1>1, <2>1, HaltOK
<1> QED  BY <1>3, <1>4

LEMMA RangeNextOK ==
  ASSUME IInv, range_next
  PROVE  IInv'
<1>1. /\ pc = "range" /\ pc' = "range" /\ todo # <<>>
      /\ job' = Head(todo) /\ todo' = Tail(todo)
      /\ virt' = Head(todo).virt /\ phys' = Head(todo).phys
      /\ UNCHANGED <<satp, mem, avail, tlb, call, g_early_pt_pool_used, g_levels, g_root_phys>>
  BY DEF range_next, envVars, pagingVars
<1>2. PICK r : r = Head(todo)
  OBVIOUS
<1>3. r \in Regions /\ Tail(todo) \in Seq(Regions)
  BY <1>1, <1>2 DEF IInv, TypeOK
<1>4. r.virt \in 0 .. AddrSpan - 1 /\ r.phys \in Nat
  BY <1>3, PagingAssumption DEF Regions, Address
<1>5. TypeOK'
  BY <1>1, <1>2, <1>3, <1>4 DEF IInv, TypeOK
<1>6. RootKnown'
  BY <1>1 DEF IInv, RootKnown
<1>7. TlbCoherent'
  BY <1>1, TlbKept DEF IInv
<1> QED  BY <1>1, <1>5, <1>6, <1>7, OutsideOK

LEMMA ReturnOK ==
  ASSUME IInv, NEW ok \in BOOLEAN, Return(ok), pc \notin {"start", "halt", "fence"},
         call \in {"mmio", "init", "map"}
  PROVE  IInv'
<1>1. /\ UNCHANGED <<satp, mem, avail, g_early_pt_pool_used, g_levels, g_root_phys>>
      /\ todo' = <<>> /\ job' = NoRegion /\ virt' = 0 /\ phys' = 0
  BY DEF Return, NoLocals, envVars, pagingVars
<1>2. pc' \in {"uart", "up", "halt"}
  BY DEF Return
<1>3. tlb' = tlb \/ tlb' = NULL
  BY DEF Return
<1>4. 0 \in 0 .. AddrSpan - 1
  BY PagingAssumption
<1>5. TypeOK'
  BY <1>1, <1>2, <1>3, <1>4 DEF IInv, TypeOK
<1>6. RootKnown'
  BY <1>1 DEF IInv, RootKnown
<1>7. TlbCoherent'
  BY <1>1, <1>3, TlbKept DEF IInv
<1> QED  BY <1>1, <1>2, <1>5, <1>6, <1>7, OutsideOK

LEMMA RefusalsOK ==
  ASSUME IInv, range_return \/ map_page_refuse \/ walk_alloc_fail \/ walk_conflict
  PROVE  IInv'
<1>1. pc \in {"range", "walk"}
  BY DEF range_return, map_page_refuse, walk_alloc_fail, walk_conflict
<1>2. call \in {"mmio", "init", "map"}
  BY <1>1 DEF IInv, TypeOK, PointerOK, InMapOne
<1>3. PICK ok \in BOOLEAN : Return(ok)
  BY DEF range_return, map_page_refuse, walk_alloc_fail, walk_conflict
<1> QED  BY <1>1, <1>2, <1>3, ReturnOK

LEMMA NextPageOK ==
  ASSUME IInv, NextPage, pc \in {"walk", "fence"}, UNCHANGED mem, TlbCoherent',
         tlb' = tlb \/ tlb' = NULL
  PROVE  IInv'
<1>1. /\ pc' = "range" /\ virt' = Wrap(virt + PAGE_SIZE) /\ phys' = Wrap(phys + PAGE_SIZE)
      /\ UNCHANGED <<satp, avail, call, todo, job, g_early_pt_pool_used, g_levels, g_root_phys>>
  BY DEF NextPage, Advance, envVars, pagingVars
<1>2. job \in Regions /\ call \in {"mmio", "init", "map"}
  BY DEF IInv, PointerOK, InMapOne
<1>3. virt + PAGE_SIZE \in Int /\ phys + PAGE_SIZE \in Int
  <2>1. virt \in Nat /\ phys \in Nat
    BY PagingAssumption DEF IInv, TypeOK
  <2> QED  BY <2>1, PageSizeAssumption
<1>4. virt' \in 0 .. AddrSpan - 1 /\ phys' \in Nat
  BY <1>1, <1>3, WrapRange
<1>5. TypeOK'
  BY <1>1, <1>2, <1>4 DEF IInv, TypeOK
<1>6. RootKnown'
  BY <1>1 DEF IInv, RootKnown
<1> QED  BY <1>1, <1>5, <1>6, OutsideOK

LEMMA CoversOK ==
  ASSUME IInv, walk_leaf_covers \/ leaf_covers
  PROVE  IInv'
<1>1. NextPage /\ UNCHANGED <<mem, tlb>> /\ pc = "walk"
  BY DEF walk_leaf_covers, leaf_covers
<1>2. UNCHANGED satp
  BY <1>1 DEF NextPage, envVars
<1>3. TlbCoherent'
  BY <1>1, <1>2, TlbKept DEF IInv
<1> QED  BY <1>1, <1>3, NextPageOK

LEMMA FenceOK ==
  ASSUME IInv, leaf_fence
  PROVE  IInv'
<1>1. NextPage /\ UNCHANGED mem /\ pc = "fence"
  BY DEF leaf_fence
<1>2. UNCHANGED satp
  BY <1>1 DEF NextPage, envVars
<1>3. tlb' = IF tlb # NULL /\ tlb.virt = virt THEN NULL ELSE tlb
  BY DEF leaf_fence, cpu_sfence_vma
<1>4. TlbCoherent'
  BY <1>1, <1>2, <1>3 DEF IInv, TlbCoherent, Translate
<1> QED  BY <1>1, <1>3, <1>4, NextPageOK

(***************************************************************************)
(* Where the pointer is, and what has been allocated, depends on nothing   *)
(* that the hart changes.                                                  *)
(***************************************************************************)
LEMMA HartOK ==
  ASSUME IInv, Hart
  PROVE  IInv'
<1>1. UNCHANGED <<envVars, mem, avail, pagingVars, pc, callVars>>
  BY DEF Hart, TlbDrop, TlbFill
<1>2. tlb' = NULL \/ \E v \in Lookups : /\ Translate(v) # NULL
                                        /\ tlb' = [virt |-> v, to |-> Translate(v)]
  BY DEF Hart, TlbDrop, TlbFill
<1>3. tlb' # NULL => tlb'.virt \in Pages /\ tlb'.to # NULL
  BY <1>2, PagingAssumption
<1>4. TypeOK'
  BY <1>1, <1>3 DEF IInv, TypeOK, envVars, pagingVars, callVars
<1>5. RootKnown'
  BY <1>1 DEF IInv, RootKnown, envVars, pagingVars
<1>6. TablesOK'
  BY <1>1, TablesKept DEF IInv, envVars
<1>7. PointerOK'
  BY <1>1 DEF IInv, PointerOK, InMapOne, InPool, OnWalk, envVars, callVars
<1>8. NewTableOK'
  BY <1>1 DEF IInv, NewTableOK, OnWalk, NewFrame, Entry, Load, Index, envVars, callVars
<1>9. TlbCoherent'
  <2>1. satp' = satp /\ mem' = mem
    BY <1>1 DEF envVars
  <2> QED  BY <1>2, <2>1 DEF TlbCoherent, Translate
<1> QED  BY <1>4, <1>5, <1>6, <1>7, <1>8, <1>9 DEF IInv

(***************************************************************************)
(* paging_map_one starts at the table that satp names.                     *)
(***************************************************************************)
LEMMA RootFacts ==
  ASSUME TypeOK, paging_satp_levels(satp) # 0
  PROVE  /\ satp.ppn \in Frames /\ AddrSpan = BlockSize[paging_satp_levels(satp)]
         /\ paging_satp_levels(satp) \in {3, 4, 5}
         /\ HwLevels(satp) = 0 .. paging_satp_levels(satp) - 1
<1>1. satp \in Satps
  BY DEF TypeOK
<1>2. satp.ppn \in Frames /\ AddrSpan = BlockSize[paging_satp_levels(satp)]
  BY <1>1, BootTablesAssumption
<1>3. paging_satp_levels(satp) \in {3, 4, 5}
  BY ModeLevels
<1> QED  BY <1>2, <1>3 DEF HwLevels

LEMMA NoRegionIsDone == End(NoRegion) = 0
<1>1. PICK P \in Nat \ {0} : P = PAGE_SIZE
  BY PageSizeAssumption
<1>2. (P - 1) \div P = 0
  <2>1. P - 1 \in Nat /\ P * 0 <= P - 1 /\ P - 1 < P * (0 + 1)
    OBVIOUS
  <2>2. 0 \in Nat
    OBVIOUS
  <2> QED  BY <2>1, <2>2, DivUnique
<1>3. 0 + P - 1 = P - 1
  OBVIOUS
<1>4. PAGE_ALIGN_UP(0) = 0
  BY <1>1, <1>2, <1>3 DEF PAGE_ALIGN_UP
<1>5. PICK A \in Nat \ {0} : A = AddrSpan
  BY PagingAssumption
<1>6. 0 % A = 0
  OBVIOUS
<1> QED  BY <1>4, <1>5, <1>6 DEF End, NoRegion, Region, Wrap

LEMMA RootOnWalk ==
  ASSUME IInv, paging_map_page
  PROVE  OnWalk' /\ level' \in HwLevels(satp)
<1>1. /\ pc = "range" /\ table' = PHYS_TO_VIRT(g_root_phys) /\ level' = g_levels - 1
      /\ UNCHANGED <<satp, mem, virt>>
  BY DEF paging_map_page, envVars
<1>2. /\ paging_satp_levels(satp) # 0 /\ g_levels = paging_satp_levels(satp)
      /\ g_root_phys = PFN_PHYS(satp.ppn)
  BY <1>1 DEF IInv, RootKnown
<1>3. PICK c \in {3, 4, 5} : c = paging_satp_levels(satp) /\ HwLevels(satp) = 0 .. c - 1
  BY <1>2, RootFacts DEF IInv
<1>4. satp.ppn \in Frames
  BY <1>2, RootFacts DEF IInv
<1>5. FrameAt(table') = satp.ppn
  BY <1>1, <1>2, <1>4, FrameBack
<1>6. level' \in HwLevels(satp) /\ level' + 1 \notin HwLevels(satp)
  BY <1>1, <1>2, <1>3
<1>7. PICK l : l = level'
  OBVIOUS
<1>8. TablesIn(satp, mem, virt)[l] = satp.ppn
  BY <1>6, <1>7, TableAt
<1> QED  BY <1>1, <1>4, <1>5, <1>6, <1>7, <1>8 DEF OnWalk

LEMMA MapPageOK ==
  ASSUME IInv, paging_map_page
  PROVE  IInv'
<1>1. /\ pc = "range" /\ pc' = "walk" /\ ~RangeDone /\ Aligned(virt)
      /\ UNCHANGED <<satp, mem, avail, tlb, call, todo, job, virt, phys,
                     g_early_pt_pool_used, g_levels, g_root_phys>>
  BY DEF paging_map_page, envVars, pagingVars
<1>2. job \in Regions
  <2>1. ~(job = NoRegion /\ virt = 0)
    BY <1>1, NoRegionIsDone DEF RangeDone
  <2> QED  BY <2>1 DEF IInv, TypeOK
<1>3. virt \in Pages
  BY <1>1 DEF IInv, TypeOK, Pages, Aligned
<1>4. PointerOK'
  <2>1. OnWalk' /\ level' \in HwLevels(satp)
    BY RootOnWalk
  <2>2. call \in {"mmio", "init", "map"}
    BY <1>1 DEF IInv, TypeOK
  <2> QED  BY <1>1, <1>2, <1>3, <2>1, <2>2 DEF PointerOK
<1>5. TypeOK'
  BY <1>1 DEF IInv, TypeOK
<1>6. RootKnown'
  BY <1>1 DEF IInv, RootKnown
<1>7. TablesOK' /\ TlbCoherent'
  BY <1>1, TablesKept, TlbKept DEF IInv
<1>8. NewTableOK'
  BY <1>1 DEF NewTableOK
<1> QED  BY <1>4, <1>5, <1>6, <1>7, <1>8 DEF IInv

-----------------------------------------------------------------------------
(***************************************************************************)
(* Steps that write a table.  What depends on the hardware's walks only,   *)
(* where these do not change.                                              *)
(***************************************************************************)
SameWalks(s, m, n) ==
  \A v \in Pages :
    /\ TablesIn(s, n, v) = TablesIn(s, m, v)
    /\ \A l \in HwLevels(s) : PteIn(s, n, v, l) = PteIn(s, m, v, l)
    /\ TranslateIn(s, n, v) = TranslateIn(s, m, v)

LEMMA SpareWalks ==
  ASSUME NEW s, s.ppn \in Frames, NEW m, NEW n, NEW f, Unreached(s, m, f),
         \A g \in Frames : g # f => n[g] = m[g]
  PROVE  SameWalks(s, m, n)
<1> SUFFICES ASSUME NEW v \in Pages
             PROVE  /\ TablesIn(s, n, v) = TablesIn(s, m, v)
                    /\ \A l \in HwLevels(s) : PteIn(s, n, v, l) = PteIn(s, m, v, l)
                    /\ TranslateIn(s, n, v) = TranslateIn(s, m, v)
  BY DEF SameWalks
<1>1. \A l \in HwLevels(s) : Agree(s, m, n, v, l)
  BY StoreSpare
<1> QED  BY <1>1, SameTranslation

LEMMA TablesStay ==
  ASSUME NEW s, NEW m, NEW n, \A v \in Pages : TablesIn(s, n, v) = TablesIn(s, m, v)
  PROVE  /\ WalksApart(s, m) => WalksApart(s, n)
         /\ \A f : Unreached(s, m, f) => Unreached(s, n, f)
<1>1. ASSUME WalksApart(s, m) PROVE WalksApart(s, n)
  <2> SUFFICES ASSUME NEW v \in Pages, NEW w \in Pages, NEW k \in HwLevels(s), NEW l \in HwLevels(s),
                      TablesIn(s, n, v)[k] # NULL, TablesIn(s, n, v)[k] = TablesIn(s, n, w)[l]
               PROVE  k = l /\ \A j \in k + 1 .. paging_satp_levels(s) - 1 :
                        paging_level_index(v, j) = paging_level_index(w, j)
    BY DEF WalksApart
  <2>1. TablesIn(s, m, v)[k] # NULL /\ TablesIn(s, m, v)[k] = TablesIn(s, m, w)[l]
    OBVIOUS
  <2> QED  BY <1>1, <2>1, Apart
<1>2. ASSUME NEW f, Unreached(s, m, f) PROVE Unreached(s, n, f)
  BY <1>2 DEF Unreached
<1> QED  BY <1>1, <1>2

LEMMA TablesOKSame ==
  ASSUME TablesOK, paging_satp_levels(satp) # 0, satp' = satp, avail' \subseteq avail,
         SameWalks(satp, mem, mem'), PoolLinksPool'
  PROVE  TablesOK'
<1>1. PICK n : n = mem'
  OBVIOUS
<1>2. \A v \in Pages : TablesIn(satp, n, v) = TablesIn(satp, mem, v)
  BY <1>1 DEF SameWalks
<1>3. WalksApart(satp, n)
  BY <1>2, TablesStay DEF TablesOK
<1>4. ASSUME NEW f \in avail' \cup PoolFrames PROVE Unreached(satp, n, f)
  <2>1. Unreached(satp, mem, f)
    BY <1>4 DEF TablesOK, SparesUnreached
  <2> QED  BY <1>2, <2>1, TablesStay
<1>5. SparesUnreached'
  BY <1>1, <1>4 DEF SparesUnreached
<1>6. LinksKnown'
  <2>1. LinksKnown
    BY DEF TablesOK
  <2>2. avail = {} => avail' = {}
    OBVIOUS
  <2> QED  BY <2>1, <2>2 DEF LinksKnown, SameWalks
<1> QED  BY <1>1, <1>3, <1>5, <1>6 DEF TablesOK

LEMMA TlbSame ==
  ASSUME TypeOK, TlbCoherent, pc # "fence", satp' = satp, tlb' = tlb,
         \A v \in Pages : TranslateIn(satp, mem', v) = Translate(v)
  PROVE  TlbCoherent'
<1>1. SUFFICES ASSUME tlb' # NULL PROVE TranslateIn(satp', mem', tlb'.virt) = tlb'.to
  BY DEF TlbCoherent, Translate
<1>2. tlb # NULL /\ tlb.virt \in Pages
  BY <1>1 DEF TypeOK
<1>3. Translate(tlb.virt) = tlb.to
  BY <1>2 DEF TlbCoherent
<1> QED  BY <1>2, <1>3

(***************************************************************************)
(* What holds in paging_map_one before the step.                           *)
(***************************************************************************)
LEMMA MapOneFacts ==
  ASSUME IInv, InMapOne
  PROVE  /\ paging_satp_levels(satp) # 0 /\ satp.ppn \in Frames
         /\ AddrSpan = BlockSize[paging_satp_levels(satp)]
         /\ HwLevels(satp) \subseteq 0 .. 5 /\ 0 \in HwLevels(satp)
         /\ virt \in Pages /\ level \in HwLevels(satp) /\ Index \in 0 .. PT_ENTRIES - 1
         /\ mem \in [Frames -> [0 .. PT_ENTRIES - 1 -> Pte]]
         /\ WalksApart(satp, mem) /\ SparesUnreached /\ LinksKnown /\ PoolLinksPool
         /\ FrameAt(table) \in Frames
         /\ PoolFrames \subseteq Frames /\ avail \subseteq Frames /\ avail \cap PoolFrames = {}
<1>1. paging_satp_levels(satp) # 0
  BY DEF IInv, RootKnown, InMapOne
<1>2. TypeOK /\ TablesOK /\ PointerOK
  BY DEF IInv
<1>3. /\ satp.ppn \in Frames /\ AddrSpan = BlockSize[paging_satp_levels(satp)]
      /\ HwLevels(satp) \subseteq 0 .. 5 /\ 0 \in HwLevels(satp)
  BY <1>1, <1>2, RootFacts
<1>4. virt \in Pages /\ level \in HwLevels(satp) /\ (InPool \/ OnWalk)
  BY <1>2 DEF PointerOK
<1>5. virt \in Nat /\ level \in 0 .. 5
  BY <1>3, <1>4, PagingAssumption DEF Pages
<1>6. Index \in 0 .. PT_ENTRIES - 1
  BY <1>5, IndexRange DEF Index
<1>7. PoolFrames \subseteq Frames
  BY PoolAssumption DEF PoolFrames
<1>8. FrameAt(table) \in Frames
  BY <1>4, <1>7 DEF InPool, OnWalk
<1>9. WalksApart(satp, mem) /\ SparesUnreached /\ LinksKnown /\ PoolLinksPool
  BY <1>1, <1>2 DEF TablesOK
<1>10. /\ mem \in [Frames -> [0 .. PT_ENTRIES - 1 -> Pte]]
       /\ avail \subseteq Frames /\ avail \cap PoolFrames = {}
  BY <1>2 DEF TypeOK
<1> QED  BY <1>1, <1>3, <1>4, <1>6, <1>7, <1>8, <1>9, <1>10

LEMMA OnWalkEntry ==
  ASSUME OnWalk
  PROVE  PteIn(satp, mem, virt, level) = Entry /\ TablesIn(satp, mem, virt)[level] # NULL
<1>1. FrameAt(table) # NULL
  BY NullNoFrame DEF OnWalk
<1> QED  BY <1>1 DEF OnWalk, PteIn, Entry, Load, Index

(***************************************************************************)
(* A pointer made from a page number.                                      *)
(***************************************************************************)
LEMMA PoolPointer ==
  ASSUME NEW x \in PoolLinks
  PROVE  FrameAt(PHYS_TO_VIRT(PFN_PHYS(x))) \in PoolFrames /\ x \in Nat /\ x \notin Frames
<1>1. PICK k \in DOMAIN Pool : x = PHYS_PFN(VIRT_TO_PHYS(Pool[k]))
  BY DEF PoolLinks
<1>2. PHYS_TO_VIRT(PFN_PHYS(x)) = Pool[k] /\ x \in Nat
  BY <1>1, PoolBack
<1>3. x \notin Frames
  BY PoolAssumption
<1> QED  BY <1>2, <1>3 DEF PoolFrames

LEMMA AllocSame ==
  ASSUME IInv, walk_alloc
  PROVE  SameWalks(satp, mem, mem')
<1>1. pc = "walk" /\ paging_alloc_table
  BY DEF walk_alloc
<1>2. InMapOne
  BY <1>1 DEF InMapOne
<1>3. PICK f \in avail \cup PoolFrames : mem' = [mem EXCEPT ![f] = ZeroTable]
  <2>1. CASE avail # {}
    BY <1>1, <2>1 DEF paging_alloc_table, ClearTable
  <2>2. CASE avail = {}
    <3>1. g_early_pt_pool_used + 1 \in DOMAIN Pool
      BY <1>1, <2>2, PoolAssumption DEF paging_alloc_table, IInv, TypeOK
    <3>2. mem' = [mem EXCEPT ![FrameAt(Pool[g_early_pt_pool_used + 1])] = ZeroTable]
      BY <1>1, <2>2 DEF paging_alloc_table, ClearTable
    <3> QED  BY <3>1, <3>2 DEF PoolFrames
  <2> QED  BY <2>1, <2>2
<1>4. Unreached(satp, mem, f)
  BY <1>2, MapOneFacts DEF SparesUnreached
<1>5. PICK n : n = mem'
  OBVIOUS
<1>6. \A g \in Frames : g # f => n[g] = mem[g]
  BY <1>2, <1>3, <1>5, MapOneFacts
<1>7. satp.ppn \in Frames
  BY <1>2, MapOneFacts
<1>8. SameWalks(satp, mem, n)
  BY <1>4, <1>6, <1>7, SpareWalks
<1> QED  BY <1>5, <1>8

LEMMA AllocOK ==
  ASSUME IInv, walk_alloc
  PROVE  IInv'
<1>1. /\ pc = "walk" /\ pc' = "link" /\ level > 0 /\ "V" \notin Entry.bits
      /\ paging_alloc_table
      /\ UNCHANGED <<satp, g_root_phys, g_levels, call, todo, job, virt, phys, table, level, tlb>>
  BY DEF walk_alloc, envVars
<1>2. InMapOne
  BY <1>1 DEF InMapOne
<1>3. /\ paging_satp_levels(satp) # 0 /\ mem \in [Frames -> [0 .. PT_ENTRIES - 1 -> Pte]]
      /\ virt \in Pages /\ level \in HwLevels(satp) /\ Index \in 0 .. PT_ENTRIES - 1
      /\ FrameAt(table) \in Frames /\ SparesUnreached /\ PoolLinksPool
      /\ PoolFrames \subseteq Frames /\ avail \subseteq Frames /\ avail \cap PoolFrames = {}
  BY <1>2, MapOneFacts
<1>4. PICK f \in avail \cup PoolFrames :
        /\ mem' = [mem EXCEPT ![f] = ZeroTable] /\ avail' = avail \ {f}
        /\ g_early_pt_pool_used' \in Nat
        /\ \/ f \in avail /\ new_table' = PHYS_TO_VIRT(PFN_PHYS(f))
           \/ avail = {} /\ \E k \in DOMAIN Pool : new_table' = Pool[k]
  <2>0. g_early_pt_pool_used \in Nat
    BY DEF IInv, TypeOK
  <2>1. CASE avail # {}
    BY <1>1, <2>0, <2>1 DEF paging_alloc_table, ClearTable
  <2>2. CASE avail = {}
    <3>1. PICK k : k = g_early_pt_pool_used + 1
      OBVIOUS
    <3>2. k \in DOMAIN Pool
      BY <1>1, <2>0, <2>2, <3>1, PoolAssumption DEF paging_alloc_table
    <3>3. /\ mem' = [mem EXCEPT ![FrameAt(Pool[k])] = ZeroTable]
          /\ new_table' = Pool[k] /\ avail' = avail /\ g_early_pt_pool_used' = k
      BY <1>1, <2>2, <3>1 DEF paging_alloc_table, ClearTable
    <3>4. FrameAt(Pool[k]) \in PoolFrames
      BY <3>2 DEF PoolFrames
    <3>5. PICK F \in PoolFrames : F = FrameAt(Pool[k])
      BY <3>4
    <3>6. k \in Nat /\ avail' = avail \ {F}
      BY <2>0, <2>2, <3>1, <3>3
    <3> QED  BY <2>2, <3>2, <3>3, <3>5, <3>6
  <2> QED  BY <2>1, <2>2
<1>5. /\ mem' \in [Frames -> [0 .. PT_ENTRIES - 1 -> Pte]]
      /\ \A g \in Frames : mem'[g] = IF g = f THEN ZeroTable ELSE mem[g]
  BY <1>3, <1>4, NoneIsTable
<1>6. SameWalks(satp, mem, mem')
  BY AllocSame
<1>7. TypeOK'
  <2>1. avail' \subseteq avail
    BY <1>4
  <2> QED  BY <1>1, <1>4, <1>5, <2>1 DEF IInv, TypeOK
<1>8. RootKnown'
  BY <1>1 DEF IInv, RootKnown
<1>9. TablesOK'
  <2>1. PoolLinksPool'
    <3> SUFFICES ASSUME NEW g \in PoolFrames, NEW i \in 0 .. PT_ENTRIES - 1, IsTable(mem'[g][i])
                 PROVE  mem'[g][i].ppn \in PoolLinks
      BY DEF PoolLinksPool
    <3>1. ~IsTable(ZeroTable[i])
      BY DEF ZeroTable, ZeroPte, IsTable
    <3> QED  BY <1>3, <1>5, <3>1 DEF PoolLinksPool
  <2>2. TablesOK /\ avail' \subseteq avail
    BY <1>4 DEF IInv
  <2> QED  BY <1>1, <1>3, <1>6, <2>1, <2>2, TablesOKSame
<1>10. TlbCoherent'
  <2>1. \A v \in Pages : TranslateIn(satp, mem', v) = Translate(v)
    BY <1>6 DEF SameWalks, Translate
  <2> QED  BY <1>1, <2>1, TlbSame DEF IInv
<1>11. OnWalk => OnWalk'
  <2>1. TablesIn(satp, mem', virt) = TablesIn(satp, mem, virt)
    BY <1>3, <1>6 DEF SameWalks
  <2> QED  BY <1>1, <2>1 DEF OnWalk
<1>12. InPool => InPool' /\ avail = {}
  BY <1>1, <1>4 DEF InPool
<1>13. PointerOK'
  BY <1>1, <1>2, <1>11, <1>12 DEF IInv, PointerOK
<1>14. NewTableOK'
  <2>1. "V" \notin Entry'.bits
    <3>1. Entry' = mem'[FrameAt(table)][Index]
      BY <1>1 DEF Entry, Load, Index
    <3>2. mem'[FrameAt(table)] = ZeroTable \/ mem'[FrameAt(table)] = mem[FrameAt(table)]
      BY <1>3, <1>5
    <3>3. "V" \notin ZeroTable[Index].bits
      BY <1>3 DEF ZeroTable, ZeroPte
    <3> QED  BY <1>1, <3>1, <3>2, <3>3 DEF Entry, Load
  <2>2. CASE f \in avail /\ new_table' = PHYS_TO_VIRT(PFN_PHYS(f))
    <3>1. OnWalk'
      BY <1>2, <1>11, <2>2 DEF IInv, PointerOK, InPool
    <3>2. Unreached(satp, mem', f)
      <4>1. Unreached(satp, mem, f)
        BY <1>3 DEF SparesUnreached
      <4> QED  BY <1>6, <4>1 DEF SameWalks, Unreached
    <3>3. f \in Frames /\ NewFrame(f)'
      BY <1>1, <1>3, <1>4, <1>5, <2>2, <3>2 DEF NewFrame
    <3> QED  BY <1>1, <2>1, <3>1, <3>3 DEF NewTableOK
  <2>3. CASE avail = {} /\ \E k \in DOMAIN Pool : new_table' = Pool[k]
    BY <1>1, <1>4, <2>1, <2>3 DEF NewTableOK
  <2> QED  BY <1>4, <2>2, <2>3
<1> QED  BY <1>7, <1>8, <1>9, <1>10, <1>13, <1>14 DEF IInv

LEMMA TableOnWalk ==
  ASSUME IInv, walk_table, Entry.ppn \in Frames, OnWalk
  PROVE  OnWalk'
<1>1. /\ pc = "walk" /\ level > 0 /\ IsTable(Entry)
      /\ table' = PHYS_TO_VIRT(PFN_PHYS(Entry.ppn)) /\ level' = level - 1
      /\ UNCHANGED <<satp, mem, virt>>
  BY DEF walk_table, Descend, paging_pte_to_phys, envVars
<1>2. InMapOne
  BY <1>1 DEF InMapOne
<1>3. virt \in Pages /\ level \in HwLevels(satp)
  BY <1>2, MapOneFacts
<1>4. PICK l : l = level - 1
  OBVIOUS
<1>5. l \in HwLevels(satp) /\ l + 1 = level
  <2>1. PICK c \in {0, 3, 4, 5} : HwLevels(satp) = 0 .. c - 1
    BY ModeLevels DEF HwLevels
  <2> QED  BY <1>1, <1>3, <1>4, <2>1
<1>6. FrameAt(table') = Entry.ppn
  BY <1>1, FrameBack
<1>7. PICK t : t = TablesIn(satp, mem, virt)
  OBVIOUS
<1>8. t[l] = Below(mem, virt, t[l + 1], l)
  BY <1>3, <1>5, <1>7, TableAt
<1>9. t[l + 1] # NULL /\ mem[t[l + 1]][paging_level_index(virt, l + 1)] = Entry
  BY <1>5, <1>7, NullNoFrame DEF OnWalk, Entry, Load, Index
<1>10. t[l] = Entry.ppn
  BY <1>1, <1>8, <1>9 DEF Below
<1>11. FrameAt(table') = TablesIn(satp, mem, virt)[l]
  BY <1>6, <1>7, <1>10
<1> QED  BY <1>1, <1>4, <1>6, <1>11 DEF OnWalk

LEMMA TableOK ==
  ASSUME IInv, walk_table
  PROVE  IInv'
<1>1. /\ pc = "walk" /\ pc' = "walk" /\ level > 0 /\ IsTable(Entry)
      /\ table' = PHYS_TO_VIRT(PFN_PHYS(Entry.ppn)) /\ level' = level - 1
      /\ UNCHANGED <<satp, mem, avail, g_early_pt_pool_used, g_root_phys, g_levels, call, todo,
                     job, virt, phys, tlb>>
  BY DEF walk_table, Descend, paging_pte_to_phys, envVars, pagingVars
<1>2. InMapOne
  BY <1>1 DEF InMapOne
<1>3. /\ virt \in Pages /\ level \in HwLevels(satp) /\ LinksKnown /\ PoolLinksPool
      /\ HwLevels(satp) \subseteq 0 .. 5 /\ Index \in 0 .. PT_ENTRIES - 1
  BY <1>2, MapOneFacts
<1>4. PICK l : l = level - 1
  OBVIOUS
<1>5. l \in HwLevels(satp) /\ l + 1 = level
  <2>1. PICK c \in {0, 3, 4, 5} : HwLevels(satp) = 0 .. c - 1
    BY ModeLevels DEF HwLevels
  <2> QED  BY <1>1, <1>3, <1>4, <2>1
<1>6. ASSUME Entry.ppn \in PoolLinks, avail = {} PROVE InPool'
  <2>1. FrameAt(table') \in PoolFrames
    BY <1>1, <1>6, PoolPointer
  <2> QED  BY <1>1, <1>6, <2>1 DEF InPool
<1>7. ASSUME Entry.ppn \in Frames, OnWalk PROVE OnWalk'
  BY <1>7, TableOnWalk
<1>8. InPool' \/ OnWalk'
  <2>1. CASE InPool
    <3>1. Entry = mem[FrameAt(table)][Index]
      BY DEF Entry, Load
    <3> QED  BY <1>1, <1>3, <1>6, <2>1, <3>1 DEF InPool, PoolLinksPool
  <2>2. CASE OnWalk
    <3>1. PteIn(satp, mem, virt, level) = Entry
      BY <2>2, OnWalkEntry
    <3> QED  BY <1>1, <1>3, <1>6, <1>7, <2>2, <3>1 DEF LinksKnown
  <2> QED  BY <1>2, <2>1, <2>2 DEF IInv, PointerOK
<1>9. PointerOK'
  BY <1>1, <1>2, <1>4, <1>5, <1>8 DEF IInv, PointerOK
<1>10. TypeOK'
  BY <1>1 DEF IInv, TypeOK
<1>11. RootKnown'
  BY <1>1 DEF IInv, RootKnown
<1>12. TablesOK' /\ TlbCoherent'
  BY <1>1, TablesKept, TlbKept DEF IInv
<1>13. NewTableOK'
  BY <1>1 DEF NewTableOK
<1> QED  BY <1>9, <1>10, <1>11, <1>12, <1>13 DEF IInv

(***************************************************************************)
(* The entry that links a new table names its frame, or its place in the   *)
(* pool as if the image were in the HHDM.                                  *)
(***************************************************************************)
LEMMA NewEntry ==
  ASSUME IInv, pc = "link", NEW pte, pte = paging_table_pte(VIRT_TO_PHYS(new_table))
  PROVE  /\ pte \in Pte /\ IsTable(pte)
         /\ \/ OnWalk /\ pte.ppn \in Frames /\ NewFrame(pte.ppn)
            \/ avail = {} /\ pte.ppn \in PoolLinks
<1>1. CASE OnWalk /\ \E f \in Frames : NewFrame(f)
  <2>1. PICK f \in Frames : NewFrame(f)
    BY <1>1
  <2>2. PHYS_PFN(VIRT_TO_PHYS(new_table)) = f
    BY <2>1, FrameBack DEF NewFrame
  <2>3. f \in Nat
    BY PagingAssumption
  <2>4. pte \in Pte /\ IsTable(pte) /\ pte.ppn = f
    BY <2>2, <2>3, TableEntry
  <2> QED  BY <1>1, <2>1, <2>4
<1>2. CASE avail = {} /\ \E k \in DOMAIN Pool : new_table = Pool[k]
  <2>1. PICK k \in DOMAIN Pool : new_table = Pool[k]
    BY <1>2
  <2>2. PHYS_PFN(VIRT_TO_PHYS(new_table)) \in Nat
    BY <2>1, PoolBack
  <2>3. PHYS_PFN(VIRT_TO_PHYS(new_table)) \in PoolLinks
    BY <2>1 DEF PoolLinks
  <2>4. pte \in Pte /\ IsTable(pte) /\ pte.ppn = PHYS_PFN(VIRT_TO_PHYS(new_table))
    BY <2>2, TableEntry
  <2> QED  BY <1>2, <2>3, <2>4
<1> QED  BY <1>1, <1>2 DEF IInv, NewTableOK

LEMMA LinkIsStep ==
  ASSUME IInv, walk_link, OnWalk, NEW pte, pte = paging_table_pte(VIRT_TO_PHYS(new_table)),
         NEW n, n = mem'
  PROVE  LinkStep(satp, mem, virt, level, pte, n)
<1>1. pc = "link" /\ mem' = [mem EXCEPT ![FrameAt(table)][Index] = pte]
  BY DEF walk_link, Store
<1>2. InMapOne
  BY <1>1 DEF InMapOne
<1>3. /\ satp.ppn \in Frames /\ mem \in [Frames -> [0 .. PT_ENTRIES - 1 -> Pte]]
      /\ WalksApart(satp, mem) /\ virt \in Pages /\ level \in HwLevels(satp)
  BY <1>2, MapOneFacts
<1>4. level > 0 /\ "V" \notin Entry.bits
  BY <1>1 DEF IInv, NewTableOK
<1>5. TablesIn(satp, mem, virt)[level] # NULL /\ "V" \notin PteIn(satp, mem, virt, level).bits
  BY <1>4, OnWalkEntry
<1>6. IsTable(pte)
  BY <1>1, NewEntry
<1>7. pte.ppn \in Frames => Unreached(satp, mem, pte.ppn) /\ mem[pte.ppn] = ZeroTable
  <2>1. \/ NewFrame(pte.ppn)
        \/ pte.ppn \in PoolLinks
    BY <1>1, NewEntry
  <2> QED  BY <2>1, PoolPointer DEF NewFrame
<1>8. n = [mem EXCEPT ![TablesIn(satp, mem, virt)[level]][paging_level_index(virt, level)] = pte]
  BY <1>1 DEF OnWalk, Index
<1> QED  BY <1>3, <1>4, <1>5, <1>6, <1>7, <1>8 DEF LinkStep

(***************************************************************************)
(* A table is stored into that is not on the walk: it is of the pool.      *)
(***************************************************************************)
LEMMA PoolStoreSame ==
  ASSUME IInv, InMapOne, InPool, NEW pte, Store(table, Index, pte)
  PROVE  SameWalks(satp, mem, mem')
<1>1. PICK f, n : f = FrameAt(table) /\ n = mem'
  OBVIOUS
<1>2. /\ satp.ppn \in Frames /\ mem \in [Frames -> [0 .. PT_ENTRIES - 1 -> Pte]]
      /\ SparesUnreached
  BY MapOneFacts
<1>3. Unreached(satp, mem, f)
  BY <1>1, <1>2 DEF SparesUnreached, InPool
<1>4. \A g \in Frames : g # f => n[g] = mem[g]
  BY <1>1, <1>2 DEF Store
<1>5. SameWalks(satp, mem, n)
  BY <1>2, <1>3, <1>4, SpareWalks
<1> QED  BY <1>1, <1>5

LEMMA LinkSame ==
  ASSUME IInv, walk_link
  PROVE  \A v \in Pages : TranslateIn(satp, mem', v) = Translate(v)
<1>1. PICK pte : pte = paging_table_pte(VIRT_TO_PHYS(new_table))
  OBVIOUS
<1>2. pc = "link" /\ Store(table, Index, pte)
  BY <1>1 DEF walk_link
<1>3. InMapOne
  BY <1>2 DEF InMapOne
<1>4. CASE InPool
  <2>1. SameWalks(satp, mem, mem')
    BY <1>2, <1>3, <1>4, PoolStoreSame
  <2> QED  BY <2>1 DEF SameWalks, Translate
<1>5. CASE OnWalk
  <2>1. PICK n : n = mem'
    OBVIOUS
  <2>2. LinkStep(satp, mem, virt, level, pte, n)
    BY <1>1, <1>5, <2>1, LinkIsStep
  <2>3. \A v \in Pages : TranslateIn(satp, n, v) = TranslateIn(satp, mem, v)
    BY <2>2, LinkTranslation
  <2> QED  BY <2>1, <2>3 DEF Translate
<1> QED  BY <1>3, <1>4, <1>5 DEF IInv, PointerOK

LEMMA LinkTables ==
  ASSUME IInv, walk_link, OnWalk
  PROVE  TablesOK'
<1>1. PICK pte : pte = paging_table_pte(VIRT_TO_PHYS(new_table))
  OBVIOUS
<1>2. /\ pc = "link" /\ Store(table, Index, pte) /\ UNCHANGED <<satp, avail>>
  BY <1>1 DEF walk_link, Descend, envVars
<1>3. InMapOne
  BY <1>2 DEF InMapOne
<1>4. PICK n : n = mem'
  OBVIOUS
<1>5. LinkStep(satp, mem, virt, level, pte, n)
  BY <1>1, <1>4, LinkIsStep
<1>6. /\ SparesUnreached /\ LinksKnown /\ PoolLinksPool
      /\ mem \in [Frames -> [0 .. PT_ENTRIES - 1 -> Pte]]
      /\ virt \in Pages /\ level \in HwLevels(satp)
      /\ PoolFrames \subseteq Frames /\ avail \subseteq Frames
  BY <1>3, MapOneFacts
<1>7. \/ pte.ppn \in Frames /\ NewFrame(pte.ppn)
      \/ avail = {} /\ pte.ppn \in PoolLinks /\ pte.ppn \notin Frames
  BY <1>1, <1>2, NewEntry, PoolPointer
<1>8. WalksApart(satp, n)
  BY <1>5, LinkApart
<1>9. SparesUnreached'
  <2> SUFFICES ASSUME NEW f \in avail \cup PoolFrames PROVE Unreached(satp, n, f)
    BY <1>2, <1>4 DEF SparesUnreached
  <2>1. Unreached(satp, mem, f) /\ f # pte.ppn
    BY <1>6, <1>7 DEF SparesUnreached, NewFrame
  <2> QED  BY <1>5, <2>1, LinkUnreached
<1>10. LinksKnown'
  <2> SUFFICES ASSUME NEW v \in Pages, NEW l \in HwLevels(satp), l > 0,
                      IsTable(PteIn(satp, n, v, l))
               PROVE  \/ PteIn(satp, n, v, l).ppn \in Frames
                      \/ PteIn(satp, n, v, l).ppn \in PoolLinks /\ avail = {}
    BY <1>2, <1>4 DEF LinksKnown
  <2>1. PteIn(satp, n, v, l) = pte \/ PteIn(satp, n, v, l) = PteIn(satp, mem, v, l)
    BY <1>5, LinkEntries
  <2> QED  BY <1>6, <1>7, <2>1 DEF LinksKnown
<1>11. PoolLinksPool'
  <2>1. FrameAt(table) \notin PoolFrames
    BY <1>6 DEF SparesUnreached, Unreached, OnWalk
  <2>2. \A f \in PoolFrames : mem'[f] = mem[f]
    BY <1>2, <1>6, <2>1 DEF Store
  <2> QED  BY <1>6, <2>2 DEF PoolLinksPool
<1> QED  BY <1>2, <1>4, <1>8, <1>9, <1>10, <1>11 DEF TablesOK

LEMMA LinkOnWalk ==
  ASSUME IInv, walk_link, OnWalk, NEW pte, pte = paging_table_pte(VIRT_TO_PHYS(new_table)),
         pte.ppn \in Frames
  PROVE  OnWalk'
<1>1. /\ pc = "link" /\ table' = PHYS_TO_VIRT(PFN_PHYS(pte.ppn)) /\ level' = level - 1
      /\ UNCHANGED <<satp, virt>>
  BY DEF walk_link, Descend, paging_pte_to_phys, envVars
<1>2. InMapOne
  BY <1>1 DEF InMapOne
<1>3. virt \in Pages /\ level \in HwLevels(satp)
  BY <1>2, MapOneFacts
<1>4. PICK l : l = level - 1
  OBVIOUS
<1>5. l \in HwLevels(satp)
  <2>1. PICK c \in {0, 3, 4, 5} : HwLevels(satp) = 0 .. c - 1
    BY ModeLevels DEF HwLevels
  <2>2. level > 0
    BY <1>1 DEF IInv, NewTableOK
  <2> QED  BY <1>3, <1>4, <2>1, <2>2
<1>6. PICK n : n = mem'
  OBVIOUS
<1>7. LinkStep(satp, mem, virt, level, pte, n)
  BY <1>6, LinkIsStep
<1>8. Shares(satp, mem, virt, level, virt)
  BY DEF Shares
<1>9. TablesIn(satp, n, virt)[l] = pte.ppn
  BY <1>3, <1>4, <1>5, <1>7, <1>8, LinkShared
<1>10. FrameAt(table') = pte.ppn
  BY <1>1, FrameBack
<1> QED  BY <1>1, <1>4, <1>6, <1>9, <1>10 DEF OnWalk

LEMMA LinkOK ==
  ASSUME IInv, walk_link
  PROVE  IInv'
<1>1. PICK pte : pte = paging_table_pte(VIRT_TO_PHYS(new_table))
  OBVIOUS
<1>2. /\ pc = "link" /\ pc' = "walk" /\ Store(table, Index, pte)
      /\ table' = PHYS_TO_VIRT(PFN_PHYS(pte.ppn)) /\ level' = level - 1
      /\ UNCHANGED <<satp, avail, g_early_pt_pool_used, g_root_phys, g_levels, call, todo,
                     job, virt, phys, tlb>>
  BY <1>1 DEF walk_link, Descend, paging_pte_to_phys, envVars, pagingVars
<1>3. InMapOne
  BY <1>2 DEF InMapOne
<1>4. /\ paging_satp_levels(satp) # 0 /\ mem \in [Frames -> [0 .. PT_ENTRIES - 1 -> Pte]]
      /\ virt \in Pages /\ level \in HwLevels(satp) /\ Index \in 0 .. PT_ENTRIES - 1
      /\ FrameAt(table) \in Frames /\ PoolLinksPool /\ PoolFrames \subseteq Frames
      /\ PoolFrames \cap avail = {} /\ SparesUnreached
  BY <1>3, MapOneFacts
<1>5. /\ pte \in Pte /\ IsTable(pte)
      /\ \/ OnWalk /\ pte.ppn \in Frames /\ NewFrame(pte.ppn)
         \/ avail = {} /\ pte.ppn \in PoolLinks
  BY <1>1, <1>2, NewEntry
<1>6. mem' \in [Frames -> [0 .. PT_ENTRIES - 1 -> Pte]]
  BY <1>2, <1>4, <1>5 DEF Store
<1>7. TypeOK'
  BY <1>2, <1>6 DEF IInv, TypeOK
<1>8. RootKnown'
  BY <1>2 DEF IInv, RootKnown
<1>9. TlbCoherent'
  <2>1. \A v \in Pages : TranslateIn(satp, mem', v) = Translate(v)
    BY LinkSame
  <2> QED  BY <1>2, <2>1, TlbSame DEF IInv
<1>10. TablesOK'
  <2>1. CASE OnWalk
    BY <2>1, LinkTables
  <2>2. CASE InPool /\ ~OnWalk
    <3>1. SameWalks(satp, mem, mem')
      BY <1>2, <1>3, <2>2, PoolStoreSame
    <3>2. PoolLinksPool'
      <4> SUFFICES ASSUME NEW f \in PoolFrames, NEW i \in 0 .. PT_ENTRIES - 1, IsTable(mem'[f][i])
                   PROVE  mem'[f][i].ppn \in PoolLinks
        BY DEF PoolLinksPool
      <4>1. mem'[f][i] = mem[f][i] \/ mem'[f][i] = pte
        BY <1>2, <1>4 DEF Store
      <4> QED  BY <1>4, <1>5, <2>2, <4>1 DEF PoolLinksPool
    <3>3. TablesOK /\ avail' \subseteq avail
      BY <1>2 DEF IInv
    <3> QED  BY <1>2, <1>4, <3>1, <3>2, <3>3, TablesOKSame
  <2> QED  BY <1>3, <2>1, <2>2 DEF IInv, PointerOK
<1>11. PICK l : l = level - 1
  OBVIOUS
<1>12. l \in HwLevels(satp)
  <2>1. PICK c \in {0, 3, 4, 5} : HwLevels(satp) = 0 .. c - 1
    BY ModeLevels DEF HwLevels
  <2>2. level > 0
    BY <1>2 DEF IInv, NewTableOK
  <2> QED  BY <1>4, <1>11, <2>1, <2>2
<1>13. InPool' \/ OnWalk'
  <2>1. CASE OnWalk /\ pte.ppn \in Frames
    BY <1>1, <2>1, LinkOnWalk
  <2>2. CASE avail = {} /\ pte.ppn \in PoolLinks
    <3>1. FrameAt(table') \in PoolFrames
      BY <1>2, <2>2, PoolPointer
    <3> QED  BY <1>2, <2>2, <3>1 DEF InPool
  <2> QED  BY <1>5, <2>1, <2>2
<1>14. PointerOK'
  BY <1>2, <1>3, <1>11, <1>12, <1>13 DEF IInv, PointerOK
<1>15. NewTableOK'
  BY <1>2 DEF NewTableOK
<1> QED  BY <1>7, <1>8, <1>9, <1>10, <1>14, <1>15 DEF IInv

(***************************************************************************)
(* The store of the leaf.                                                  *)
(***************************************************************************)
LEMMA LeafIsStep ==
  ASSUME IInv, leaf_write, OnWalk, NEW n, n = mem'
  PROVE  LeafStep(satp, mem, virt, LeafPte(phys, job.flags), n)
<1>1. /\ pc = "walk" /\ level = 0
      /\ mem' = [mem EXCEPT ![FrameAt(table)][Index] = LeafPte(phys, job.flags)]
  BY DEF leaf_write, Store
<1>2. InMapOne
  BY <1>1 DEF InMapOne
<1>3. /\ satp.ppn \in Frames /\ mem \in [Frames -> [0 .. PT_ENTRIES - 1 -> Pte]]
      /\ WalksApart(satp, mem) /\ virt \in Pages /\ 0 \in HwLevels(satp)
      /\ AddrSpan = BlockSize[paging_satp_levels(satp)]
  BY <1>2, MapOneFacts
<1>4. TablesIn(satp, mem, virt)[0] # NULL
  BY <1>1, OnWalkEntry
<1>5. n = [mem EXCEPT ![TablesIn(satp, mem, virt)[0]][paging_level_index(virt, 0)]
             = LeafPte(phys, job.flags)]
  BY <1>1 DEF OnWalk, Index
<1> QED  BY <1>3, <1>4, <1>5 DEF LeafStep

LEMMA LeafSame ==
  ASSUME IInv, leaf_write, NEW v \in Pages
  PROVE  /\ TablesIn(satp, mem', v) = TablesIn(satp, mem, v)
         /\ \A l \in HwLevels(satp) : l > 0 => PteIn(satp, mem', v, l) = PteIn(satp, mem, v, l)
         /\ v # virt => TranslateIn(satp, mem', v) = Translate(v)
         /\ IsLarge(Translate(v)) => TranslateIn(satp, mem', v) = Translate(v)
<1>1. pc = "walk" /\ level = 0 /\ Store(table, Index, LeafPte(phys, job.flags))
  BY DEF leaf_write
<1>2. InMapOne
  BY <1>1 DEF InMapOne
<1>3. CASE InPool
  <2>1. SameWalks(satp, mem, mem')
    BY <1>1, <1>2, <1>3, PoolStoreSame
  <2> QED  BY <2>1 DEF SameWalks, Translate
<1>4. CASE OnWalk
  <2>1. PICK n, pte : n = mem' /\ pte = LeafPte(phys, job.flags)
    OBVIOUS
  <2>2. LeafStep(satp, mem, virt, pte, n)
    BY <1>4, <2>1, LeafIsStep
  <2>3. /\ TablesIn(satp, n, v) = TablesIn(satp, mem, v)
        /\ \A l \in HwLevels(satp) : l > 0 => PteIn(satp, n, v, l) = PteIn(satp, mem, v, l)
    BY <2>2, LeafTables
  <2>4. v # virt => TranslateIn(satp, n, v) = TranslateIn(satp, mem, v)
    BY <2>2, LeafOthers
  <2>5. v = virt => ~IsLarge(Translate(v))
    <3> SUFFICES ASSUME v = virt, IsLarge(Translate(v)) PROVE FALSE
      OBVIOUS
    <3>1. PICK c \in {0, 3, 4, 5} : HwLevels(satp) = 0 .. c - 1
      BY ModeLevels DEF HwLevels
    <3>2. 0 \in HwLevels(satp) /\ TablesIn(satp, mem, v)[0] # NULL
      BY <2>2 DEF LeafStep
    <3>3. \A k \in HwLevels(satp) : 0 < k => ~IsLeaf(PteIn(satp, mem, v, k))
      <4>1. \A k \in HwLevels(satp) : 0 < k => IsTable(PteIn(satp, mem, v, k))
        BY <3>2, TablesAbove
      <4> QED  BY <4>1 DEF IsTable, IsLeaf
    <3>4. PICK k : k = CHOOSE x \in LeavesIn(satp, mem, v) : TRUE
      OBVIOUS
    <3>5. LeavesIn(satp, mem, v) # {}
      BY DEF IsLarge, Translate, TranslateIn
    <3>6. k \in LeavesIn(satp, mem, v)
      BY <3>4, <3>5
    <3>7. k \in HwLevels(satp) /\ IsLeaf(PteIn(satp, mem, v, k))
      BY <3>6 DEF LeavesIn
    <3>8. Translate(v).level = k
      BY <3>4, <3>5 DEF Translate, TranslateIn
    <3> QED  BY <3>1, <3>3, <3>7, <3>8 DEF IsLarge
  <2> QED  BY <2>1, <2>3, <2>4, <2>5 DEF Translate
<1> QED  BY <1>2, <1>3, <1>4 DEF IInv, PointerOK

LEMMA LeafOK ==
  ASSUME IInv, leaf_write
  PROVE  IInv'
<1>1. PICK pte : pte = LeafPte(phys, job.flags)
  OBVIOUS
<1>2. /\ pc = "walk" /\ pc' = "fence" /\ level = 0 /\ Store(table, Index, pte)
      /\ UNCHANGED <<satp, avail, g_early_pt_pool_used, g_root_phys, g_levels, call, todo,
                     job, virt, phys, table, level, tlb>>
  BY <1>1 DEF leaf_write, envVars, pagingVars, callVars
<1>3. InMapOne
  BY <1>2 DEF InMapOne
<1>4. /\ paging_satp_levels(satp) # 0 /\ mem \in [Frames -> [0 .. PT_ENTRIES - 1 -> Pte]]
      /\ virt \in Pages /\ Index \in 0 .. PT_ENTRIES - 1 /\ FrameAt(table) \in Frames
      /\ WalksApart(satp, mem) /\ SparesUnreached /\ LinksKnown /\ PoolLinksPool
      /\ PoolFrames \subseteq Frames
  BY <1>3, MapOneFacts
<1>5. pte \in Pte /\ ~IsTable(pte)
  <2>1. phys \in Nat /\ job \in Regions
    BY <1>3 DEF IInv, TypeOK, PointerOK
  <2>2. job.flags \in Flags
    BY <2>1 DEF Regions
  <2>3. pte \in Pte /\ IsLeaf(pte)
    BY <1>1, <2>1, <2>2, LeafEntry
  <2> QED  BY <2>3 DEF IsLeaf, IsTable
<1>6. mem' \in [Frames -> [0 .. PT_ENTRIES - 1 -> Pte]]
  BY <1>2, <1>4, <1>5 DEF Store
<1>7. TypeOK'
  BY <1>2, <1>6 DEF IInv, TypeOK
<1>8. RootKnown'
  BY <1>2 DEF IInv, RootKnown
<1>9. PICK n : n = mem'
  OBVIOUS
<1>10. \A v \in Pages : TablesIn(satp, n, v) = TablesIn(satp, mem, v)
  BY <1>9, LeafSame
<1>11. TablesOK'
  <2>1. WalksApart(satp, n)
    BY <1>4, <1>10, TablesStay
  <2>2. SparesUnreached'
    <3> SUFFICES ASSUME NEW f \in avail \cup PoolFrames PROVE Unreached(satp, n, f)
      BY <1>2, <1>9 DEF SparesUnreached
    <3>1. Unreached(satp, mem, f)
      BY <1>4 DEF SparesUnreached
    <3> QED  BY <1>10, <3>1, TablesStay
  <2>3. LinksKnown'
    <3>1. \A v \in Pages : \A l \in HwLevels(satp) :
            l > 0 => PteIn(satp, mem', v, l) = PteIn(satp, mem, v, l)
      BY LeafSame
    <3> QED  BY <1>2, <1>4, <3>1 DEF LinksKnown
  <2>4. PoolLinksPool'
    <3> SUFFICES ASSUME NEW f \in PoolFrames, NEW i \in 0 .. PT_ENTRIES - 1, IsTable(mem'[f][i])
                 PROVE  mem'[f][i].ppn \in PoolLinks
      BY DEF PoolLinksPool
    <3>1. mem'[f][i] = mem[f][i] \/ mem'[f][i] = pte
      BY <1>2, <1>4 DEF Store
    <3> QED  BY <1>4, <1>5, <3>1 DEF PoolLinksPool
  <2> QED  BY <1>2, <1>9, <2>1, <2>2, <2>3, <2>4 DEF TablesOK
<1>12. TlbCoherent'
  <2> SUFFICES ASSUME tlb # NULL, tlb.virt # virt PROVE TranslateIn(satp, mem', tlb.virt) = tlb.to
    BY <1>2 DEF TlbCoherent, Translate
  <2>1. tlb.virt \in Pages /\ Translate(tlb.virt) = tlb.to
    BY <1>2 DEF IInv, TypeOK, TlbCoherent
  <2> QED  BY <2>1, LeafSame
<1>13. PointerOK'
  <2>1. OnWalk => OnWalk'
    BY <1>2, <1>4, <1>9, <1>10 DEF OnWalk
  <2>2. InPool => InPool'
    BY <1>2 DEF InPool
  <2> QED  BY <1>2, <1>3, <2>1, <2>2 DEF IInv, PointerOK
<1>14. NewTableOK'
  BY <1>2 DEF NewTableOK
<1> QED  BY <1>7, <1>8, <1>11, <1>12, <1>13, <1>14 DEF IInv

-----------------------------------------------------------------------------
LEMMA StutterOK ==
  ASSUME IInv, UNCHANGED vars
  PROVE  IInv'
<1>1. UNCHANGED <<envVars, mem, avail, pagingVars, pc, callVars>> /\ tlb' = tlb
  BY DEF vars
<1>2. TypeOK'
  BY <1>1 DEF IInv, TypeOK, envVars, pagingVars, callVars
<1>3. RootKnown'
  BY <1>1 DEF IInv, RootKnown, envVars, pagingVars
<1>4. TablesOK'
  BY <1>1, TablesKept DEF IInv, envVars
<1>5. PointerOK'
  BY <1>1 DEF IInv, PointerOK, InMapOne, InPool, OnWalk, envVars, callVars
<1>6. NewTableOK'
  BY <1>1 DEF IInv, NewTableOK, OnWalk, NewFrame, Entry, Load, Index, envVars, callVars
<1>7. TlbCoherent'
  BY <1>1 DEF IInv, TlbCoherent, Translate, envVars, callVars
<1> QED  BY <1>2, <1>3, <1>4, <1>5, <1>6, <1>7 DEF IInv

LEMMA NextOK ==
  ASSUME IInv, [Next]_vars
  PROVE  IInv'
<1>1. CASE Step
  <2>1. CASE paging_early_init \/ (\E m \in MmioCalls : paging_map_mmio(m)) \/ paging_init
    BY <2>1, EarlyInitOK, MapMmioOK, PagingInitOK
  <2>2. CASE range_next \/ paging_map_page
    BY <2>2, RangeNextOK, MapPageOK
  <2>3. CASE range_return \/ map_page_refuse \/ walk_alloc_fail \/ walk_conflict
    BY <2>3, RefusalsOK
  <2>4. CASE walk_alloc \/ walk_link \/ walk_table
    BY <2>4, AllocOK, LinkOK, TableOK
  <2>5. CASE walk_leaf_covers \/ leaf_covers
    BY <2>5, CoversOK
  <2>6. CASE leaf_write \/ leaf_fence
    BY <2>6, LeafOK, FenceOK
  <2> QED  BY <1>1, <2>1, <2>2, <2>3, <2>4, <2>5, <2>6 DEF Step
<1>2. CASE \E r \in MapCalls : paging_map_range(r)
  BY <1>2, MapRangeOK
<1>3. CASE Hart
  BY <1>3, HartOK
<1>4. CASE Halted \/ UNCHANGED vars
  BY <1>4, StutterOK DEF Halted
<1> QED  BY <1>1, <1>2, <1>3, <1>4 DEF Next

LEMMA Invariant == Spec => []IInv
<1>1. Init => IInv
  BY InitOK
<1>2. IInv /\ [Next]_vars => IInv'
  BY NextOK
<1> QED  BY <1>1, <1>2, PTL DEF Spec

(***************************************************************************)
(* The only steps of Next that store into memory.                          *)
(***************************************************************************)
LEMMA Stores ==
  ASSUME [Next]_vars, mem' # mem
  PROVE  walk_alloc \/ walk_link \/ leaf_write
<1>1. ~UNCHANGED vars
  BY DEF vars
<1>2. ~Hart /\ ~Halted /\ ~(\E r \in MapCalls : paging_map_range(r))
  BY <1>1 DEF Hart, TlbFill, TlbDrop, Halted, paging_map_range
<1>3. ~paging_early_init /\ ~(\E m \in MmioCalls : paging_map_mmio(m)) /\ ~paging_init
  BY DEF paging_early_init, paging_map_mmio, paging_init
<1>4. ~range_next /\ ~paging_map_page /\ ~walk_table
  BY DEF range_next, paging_map_page, walk_table
<1>5. ~range_return /\ ~map_page_refuse /\ ~walk_alloc_fail /\ ~walk_conflict
  BY DEF range_return, map_page_refuse, walk_alloc_fail, walk_conflict, Return
<1>6. ~walk_leaf_covers /\ ~leaf_covers /\ ~leaf_fence
  BY DEF walk_leaf_covers, leaf_covers, leaf_fence
<1> QED  BY <1>1, <1>2, <1>3, <1>4, <1>5, <1>6 DEF Next, Step

LEMMA StoreOK ==
  ASSUME IInv, [Next]_vars, mem' # mem, NEW v \in Pages
  PROVE  /\ v # virt => TranslateIn(satp, mem', v) = Translate(v)
         /\ IsLarge(Translate(v)) => TranslateIn(satp, mem', v) = Translate(v)
<1>1. CASE walk_alloc
  BY <1>1, AllocSame DEF SameWalks, Translate
<1>2. CASE walk_link
  BY <1>2, LinkSame
<1>3. CASE leaf_write
  BY <1>3, LeafSame
<1> QED  BY <1>1, <1>2, <1>3, Stores

(***************************************************************************)
(* No step of the kernel and of the hart leaves a stale translation in the *)
(* TLB, but for the page whose leaf paging_map_one has just stored and is  *)
(* about to fence.                                                         *)
(***************************************************************************)
THEOREM TlbNeverStale == Spec => []TlbCoherent
<1>1. IInv => TlbCoherent
  BY DEF IInv
<1> QED  BY <1>1, Invariant, PTL

(***************************************************************************)
(* No store of paging_map_one or paging_alloc_table changes how the        *)
(* hardware translates a page other than the one being mapped.             *)
(***************************************************************************)
THEOREM OthersUntouched == Spec => OthersPreserved
<1>1. ASSUME IInv, [Next]_vars
      PROVE  [mem' # mem => \A v \in Pages : v # virt =>
                TranslateIn(satp, mem', v) = Translate(v)]_vars
  BY <1>1, StoreOK
<1> QED  BY <1>1, Invariant, PTL DEF Spec, OthersPreserved

(***************************************************************************)
(* No store splits or replaces a large page of the boot loader.            *)
(***************************************************************************)
THEOREM LargePagesKept == Spec => LargePagesStay
<1>1. ASSUME IInv, [Next]_vars
      PROVE  [mem' # mem => \A v \in Pages : IsLarge(Translate(v)) =>
                TranslateIn(satp, mem', v) = Translate(v)]_vars
  BY <1>1, StoreOK
<1> QED  BY <1>1, Invariant, PTL DEF Spec, LargePagesStay

-----------------------------------------------------------------------------
(***************************************************************************)
(* TablesFormTree speaks of the entries of tables, the invariant of walks. *)
(* They are about the same tables because every path of indices is the     *)
(* walk of some page.                                                      *)
(***************************************************************************)
LEMMA BlockPages ==
  ASSUME NEW l \in 0 .. 5
  PROVE  \E x \in Nat : BlockSize[l] = PAGE_SIZE * x
<1> DEFINE Fine(k) == \E x \in Nat : BlockSize[k] = PAGE_SIZE * x
<1>1. PICK P \in Nat \ {0}, B \in Nat \ {0} : P = PAGE_SIZE /\ B = PT_ENTRIES
  BY PageSizeAssumption, PagingAssumption
<1>2. Fine(0)
  <2>1. BlockSize[0] = P * 1
    BY <1>1, Blocks
  <2> QED  BY <1>1, <2>1
<1>3. ASSUME NEW k \in 0 .. 4, Fine(k) PROVE Fine(k + 1)
  <2>1. PICK x \in Nat : BlockSize[k] = P * x
    BY <1>1, <1>3
  <2>2. BlockSize[k + 1] = B * (P * x)
    BY <1>1, <2>1, Blocks
  <2>3. B * (P * x) = P * (B * x) /\ B * x \in Nat
    OBVIOUS
  <2>4. BlockSize[k + 1] = PAGE_SIZE * (B * x)
    BY <1>1, <2>2, <2>3
  <2> QED  BY <2>3, <2>4
<1>4. Fine(1)
  BY <1>2, <1>3
<1>5. Fine(2)
  BY <1>3, <1>4
<1>6. Fine(3)
  BY <1>3, <1>5
<1>7. Fine(4)
  BY <1>3, <1>6
<1>8. Fine(5)
  BY <1>3, <1>7
<1> QED  BY <1>2, <1>4, <1>5, <1>6, <1>7, <1>8

LEMMA SameHigher ==
  ASSUME NEW v \in Nat, NEW w \in Nat, NEW k \in 0 .. 5,
         v \div BlockSize[k] = w \div BlockSize[k], NEW j \in k .. 5
  PROVE  v \div BlockSize[j] = w \div BlockSize[j]
<1>1. PICK D : D = {i \in k .. 5 : v \div BlockSize[i] # w \div BlockSize[i]}
  OBVIOUS
<1>2. SUFFICES ASSUME D # {} PROVE FALSE
  BY <1>1
<1>3. D \in SUBSET Nat
  BY <1>1
<1>4. PICK i \in D : \A y \in D : i <= y
  BY <1>2, <1>3, LeastExists
<1>5. i \in k .. 5 /\ v \div BlockSize[i] # w \div BlockSize[i] /\ i # k
  BY <1>1
<1>6. PICK h : h \in k .. 5 /\ h \in 0 .. 4 /\ h + 1 = i /\ ~(i <= h)
  <2>1. i - 1 \in k .. 5 /\ i - 1 \in 0 .. 4 /\ (i - 1) + 1 = i /\ ~(i <= i - 1)
    BY <1>5
  <2> QED  BY <2>1
<1>7. v \div BlockSize[h] = w \div BlockSize[h]
  BY <1>1, <1>4, <1>6
<1>8. PICK S \in Nat \ {0}, B \in Nat \ {0}, E \in Nat \ {0} :
        S = BlockSize[h] /\ B = PT_ENTRIES /\ E = BlockSize[i] /\ E = B * S
  <2>1. BlockSize[h] \in Nat \ {0} /\ BlockSize[i] \in Nat \ {0}
    BY <1>5, <1>6, Blocks
  <2>2. BlockSize[i] = PT_ENTRIES * BlockSize[h]
    BY <1>6, Blocks
  <2> QED  BY <2>1, <2>2, PagingAssumption
<1>9. Splits(v, S, B, E) /\ Splits(w, S, B, E)
  BY <1>8, NextDigit, Zenon
<1>10. v \div E = (v \div S) \div B /\ w \div E = (w \div S) \div B
  BY <1>9, Zenon DEF Splits
<1> QED  BY <1>5, <1>7, <1>8, <1>10

SameUpTo(v, w, k, n) ==
  \A j \in k + 1 .. n - 1 : paging_level_index(w, j) = paging_level_index(v, j)

LEMMA SomePage ==
  ASSUME NEW n \in {3, 4, 5}, AddrSpan = BlockSize[n], NEW v \in Pages, NEW k \in 0 .. n - 1,
         NEW i \in 0 .. PT_ENTRIES - 1
  PROVE  \E w \in Pages : paging_level_index(w, k) = i /\ SameUpTo(v, w, k, n)
<1>1. PICK S \in Nat \ {0}, B \in Nat \ {0}, E \in Nat \ {0}, P \in Nat \ {0}, A \in Nat \ {0} :
        /\ S = BlockSize[k] /\ B = PT_ENTRIES /\ E = BlockSize[k + 1] /\ E = B * S
        /\ P = PAGE_SIZE /\ A = AddrSpan /\ A = BlockSize[n]
  <2>1. k \in 0 .. 4 /\ k \in 0 .. 5 /\ k + 1 \in 0 .. 5
    OBVIOUS
  <2>2. BlockSize[k] \in Nat \ {0} /\ BlockSize[k + 1] \in Nat \ {0}
    BY <2>1, Blocks
  <2>3. BlockSize[k + 1] = PT_ENTRIES * BlockSize[k]
    BY <2>1, Blocks
  <2> QED  BY <2>2, <2>3, PagingAssumption, PageSizeAssumption
<1>2. v \in Nat /\ v < A /\ i \in Nat /\ i <= B - 1
  BY <1>1 DEF Pages
<1>3. PICK p \in Nat : p = v \div E
  BY <1>2
<1>4. PICK c \in Nat : c = B * p + i
  BY <1>2
<1>5. PICK w \in Nat : w = S * c
  OBVIOUS
<1>6. w = E * p + S * i
  <2>1. S * (B * p + i) = (B * S) * p + S * i
    BY <1>2
  <2> QED  BY <1>1, <1>4, <1>5, <2>1
<1>7. w \div E = p
  <2>1. S * i <= S * (B - 1) /\ S * i >= 0
    BY <1>2
  <2>2. S * (B - 1) = E - S
    BY <1>1
  <2>3. E * (p + 1) = E * p + E
    OBVIOUS
  <2>4. E * p <= w /\ w < E * (p + 1)
    BY <1>6, <2>1, <2>2, <2>3
  <2> QED  BY <2>4, DivUnique
<1>8. w \div S = c
  <2>1. S * c <= w /\ w < S * (c + 1)
    BY <1>5
  <2> QED  BY <2>1, DivUnique
<1>9. c % B = i
  <2>1. i < B /\ p \in Int
    BY <1>2
  <2>2. (i + B * p) % B = i
    BY <1>2, <2>1, ModShift
  <2> QED  BY <1>2, <1>4, <2>2
<1>10. paging_level_index(w, k) = i
  BY <1>1, <1>8, <1>9 DEF paging_level_index, paging_level_block_size
<1>11. ASSUME NEW j \in k + 1 .. 5 PROVE w \div BlockSize[j] = v \div BlockSize[j]
  <2>1. k + 1 \in 0 .. 5 /\ w \div BlockSize[k + 1] = v \div BlockSize[k + 1]
    BY <1>1, <1>3, <1>7
  <2> QED  BY <1>2, <2>1, SameHigher
<1>12. w < A
  <2>1. v \div A = 0
    <3>1. A * 0 <= v /\ v < A * (0 + 1)
      BY <1>2
    <3> QED  BY <1>2, <3>1, DivUnique
  <2>2. w \div A = 0
    <3>1. n \in k + 1 .. 5
      OBVIOUS
    <3> QED  BY <1>1, <1>11, <2>1, <3>1
  <2>3. PICK q \in Nat, r \in Nat : q = w \div A /\ w = A * q + r /\ r < A
    BY Euclid
  <2> QED  BY <2>2, <2>3
<1>13. w % P = 0
  <2>0. k \in 0 .. 5
    OBVIOUS
  <2>1. PICK x \in Nat : S = P * x
    BY <1>1, <2>0, BlockPages
  <2>2. PICK y \in Nat : y = x * c
    OBVIOUS
  <2>3. w = P * y
    <3>1. (P * x) * c = P * (x * c)
      OBVIOUS
    <3> QED  BY <1>5, <2>1, <2>2, <3>1
  <2>4. (0 + P * y) % P = 0
    <3>1. 0 \in Nat /\ 0 < P /\ y \in Int
      OBVIOUS
    <3> QED  BY <3>1, ModShift
  <2> QED  BY <2>3, <2>4
<1>14. w \in Pages
  BY <1>1, <1>12, <1>13 DEF Pages
<1>15. SameUpTo(v, w, k, n)
  BY <1>11 DEF SameUpTo, paging_level_index, paging_level_block_size
<1> QED  BY <1>10, <1>14, <1>15

(***************************************************************************)
(* Pages with the same indices have the same tables.                       *)
(***************************************************************************)
LEMMA SameIndices ==
  ASSUME NEW s, NEW m, NEW v, NEW w, NEW k \in HwLevels(s),
         SameUpTo(v, w, k, paging_satp_levels(s)), NEW l \in HwLevels(s), k <= l
  PROVE  TablesIn(s, m, w)[l] = TablesIn(s, m, v)[l]
<1>1. PICK n \in {0, 3, 4, 5} : n = paging_satp_levels(s) /\ HwLevels(s) = 0 .. n - 1
  BY ModeLevels DEF HwLevels
<1>2. PICK t, u : t = TablesIn(s, m, v) /\ u = TablesIn(s, m, w)
  OBVIOUS
<1>3. PICK D : D = {i \in k .. n - 1 : u[i] # t[i]}
  OBVIOUS
<1>4. SUFFICES ASSUME D # {} PROVE FALSE
  BY <1>1, <1>2, <1>3
<1>5. n \in Nat /\ D \in SUBSET (0 .. n)
  BY <1>1, <1>3
<1>6. PICK i \in D : \A y \in D : y <= i
  BY <1>4, <1>5, HighestExists
<1>7. i \in k .. n - 1 /\ i \in HwLevels(s) /\ u[i] # t[i]
  BY <1>1, <1>3
<1>8. CASE i = n - 1
  <2>1. i + 1 \notin HwLevels(s)
    BY <1>1, <1>7, <1>8
  <2>2. u[i] = s.ppn /\ t[i] = s.ppn
    BY <1>2, <1>7, <2>1, TableAt
  <2> QED  BY <1>7, <2>2
<1>9. CASE i # n - 1
  <2>1. i + 1 \in HwLevels(s) /\ i + 1 \in k .. n - 1 /\ i + 1 \in k + 1 .. n - 1 /\ ~(i + 1 <= i)
    BY <1>1, <1>7, <1>9
  <2>2. u[i + 1] = t[i + 1]
    BY <1>3, <1>6, <2>1
  <2>3. u[i] = Below(m, w, u[i + 1], i) /\ t[i] = Below(m, v, t[i + 1], i)
    BY <1>2, <1>7, <2>1, TableAt
  <2>4. paging_level_index(w, i + 1) = paging_level_index(v, i + 1)
    BY <1>1, <2>1 DEF SameUpTo
  <2> QED  BY <1>7, <2>2, <2>3, <2>4 DEF Below
<1> QED  BY <1>8, <1>9

(***************************************************************************)
(* The tables that TablesFormTree collects, level by level, are those of   *)
(* the walks.                                                              *)
(***************************************************************************)
ReachedAt(t, l) ==
  IF l + 1 \in HwLevels(satp)
    THEN {Target(slot) : slot \in Slots(t[l + 1])} \cap Frames ELSE {satp.ppn}

Walked(l) == {TablesIn(satp, mem, v)[l] : v \in Pages} \ {NULL}

LEMMA SlotOfWalk ==
  ASSUME IInv, paging_satp_levels(satp) # 0, NEW l \in HwLevels(satp), NEW slot \in Slots(Walked(l))
  PROVE  \E w \in Pages : /\ slot = <<TablesIn(satp, mem, w)[l], paging_level_index(w, l)>>
                          /\ TablesIn(satp, mem, w)[l] # NULL
                          /\ PteIn(satp, mem, w, l) = mem[slot[1]][slot[2]]
                          /\ IsTable(PteIn(satp, mem, w, l))
<1>1. PICK n \in {3, 4, 5} : /\ n = paging_satp_levels(satp) /\ HwLevels(satp) = 0 .. n - 1
                             /\ AddrSpan = BlockSize[n]
  BY RootFacts DEF IInv
<1>2. PICK g \in Walked(l), i \in 0 .. PT_ENTRIES - 1 : slot = <<g, i>> /\ IsTable(mem[g][i])
  BY DEF Slots
<1>3. PICK v \in Pages : g = TablesIn(satp, mem, v)[l] /\ g # NULL
  BY DEF Walked
<1>4. PICK w \in Pages : paging_level_index(w, l) = i /\ SameUpTo(v, w, l, n)
  <2>1. AddrSpan = BlockSize[n] /\ l \in 0 .. n - 1
    BY <1>1
  <2> QED  BY <2>1, SomePage
<1>5. TablesIn(satp, mem, w)[l] = g
  <2>1. l <= l
    BY <1>1
  <2>2. SameUpTo(v, w, l, paging_satp_levels(satp))
    BY <1>1, <1>4
  <2> QED  BY <1>3, <2>1, <2>2, SameIndices
<1>6. PteIn(satp, mem, w, l) = mem[g][i]
  BY <1>3, <1>4, <1>5 DEF PteIn
<1> QED  BY <1>2, <1>3, <1>4, <1>5, <1>6

LEMMA WalkedAt ==
  ASSUME IInv, paging_satp_levels(satp) # 0, NEW t, NEW l \in HwLevels(satp),
         l + 1 \in HwLevels(satp) => t[l + 1] = Walked(l + 1)
  PROVE  ReachedAt(t, l) = Walked(l)
<1>1. PICK n \in {3, 4, 5} : n = paging_satp_levels(satp) /\ HwLevels(satp) = 0 .. n - 1
  BY RootFacts DEF IInv
<1>2. satp.ppn \in Frames /\ satp.ppn # NULL
  BY RootFacts, NullNoFrame DEF IInv
<1>3. CASE l + 1 \notin HwLevels(satp)
  <2>1. \A v \in Pages : TablesIn(satp, mem, v)[l] = satp.ppn
    BY <1>3, TableAt
  <2>2. 0 \in Pages
    <3>1. PICK P \in Nat \ {0}, A \in Nat \ {0} : P = PAGE_SIZE /\ A = AddrSpan
      BY PageSizeAssumption, PagingAssumption
    <3>2. 0 % P = 0 /\ 0 \in 0 .. A - 1
      OBVIOUS
    <3> QED  BY <3>1, <3>2 DEF Pages
  <2>3. Walked(l) = {satp.ppn}
    BY <1>2, <2>1, <2>2 DEF Walked
  <2> QED  BY <1>3, <2>3 DEF ReachedAt
<1>4. CASE l + 1 \in HwLevels(satp)
  <2>1. ReachedAt(t, l) = {Target(slot) : slot \in Slots(Walked(l + 1))} \cap Frames
    BY <1>4 DEF ReachedAt
  <2>2. ASSUME NEW slot \in Slots(Walked(l + 1)), Target(slot) \in Frames
        PROVE  Target(slot) \in Walked(l)
    <3>1. PICK w \in Pages :
            /\ slot = <<TablesIn(satp, mem, w)[l + 1], paging_level_index(w, l + 1)>>
            /\ TablesIn(satp, mem, w)[l + 1] # NULL
            /\ PteIn(satp, mem, w, l + 1) = mem[slot[1]][slot[2]]
            /\ IsTable(PteIn(satp, mem, w, l + 1))
      BY <1>4, SlotOfWalk
    <3>2. PICK u : u = TablesIn(satp, mem, w)
      OBVIOUS
    <3>3. u[l] = Below(mem, w, u[l + 1], l)
      BY <1>4, <3>2, TableAt
    <3>4. PteIn(satp, mem, w, l + 1) = mem[u[l + 1]][paging_level_index(w, l + 1)]
      BY <3>1, <3>2 DEF PteIn
    <3>5. u[l] = Target(slot)
      BY <2>2, <3>1, <3>2, <3>3, <3>4 DEF Below, Target
    <3>6. Target(slot) # NULL
      BY <2>2, NullNoFrame
    <3> QED  BY <3>2, <3>5, <3>6 DEF Walked
  <2>3. ASSUME NEW f \in Walked(l)
        PROVE  f \in Frames /\ \E slot \in Slots(Walked(l + 1)) : f = Target(slot)
    <3>1. PICK v \in Pages : f = TablesIn(satp, mem, v)[l] /\ f # NULL
      BY DEF Walked
    <3>2. PICK g, i : g = TablesIn(satp, mem, v)[l + 1] /\ i = paging_level_index(v, l + 1)
      OBVIOUS
    <3>3. /\ g # NULL /\ IsTable(mem[g][i]) /\ mem[g][i].ppn = f /\ f \in Frames
      BY <1>4, <3>1, <3>2, TableAbove
    <3>4. i \in 0 .. PT_ENTRIES - 1
      <4>1. v \in Nat /\ l + 1 \in 0 .. 5
        BY <1>1, <1>4, PagingAssumption DEF Pages
      <4> QED  BY <3>2, <4>1, IndexRange
    <3>5. g \in Walked(l + 1)
      BY <3>2, <3>3 DEF Walked
    <3>6. <<g, i>> \in Slots(Walked(l + 1)) /\ Target(<<g, i>>) = f
      BY <3>3, <3>4, <3>5 DEF Slots, Target
    <3> QED  BY <3>3, <3>6
  <2> QED  BY <2>1, <2>2, <2>3
<1> QED  BY <1>3, <1>4

LEMMA ReachedIs ==
  ASSUME IInv, paging_satp_levels(satp) # 0, NEW l \in HwLevels(satp)
  PROVE  Reached[l] = Walked(l)
<1>1. PICK n \in {3, 4, 5} : n = paging_satp_levels(satp) /\ HwLevels(satp) = 0 .. n - 1
  BY RootFacts DEF IInv
<1>2. PICK w : w = [k \in HwLevels(satp) |-> Walked(k)]
  OBVIOUS
<1>3. \A k \in HwLevels(satp) : w[k] = ReachedAt(w, k)
  BY <1>2, WalkedAt
<1>4. w = [k \in HwLevels(satp) |-> ReachedAt(w, k)]
  BY <1>2, <1>3
<1>5. Reached = [k \in HwLevels(satp) |-> ReachedAt(Reached, k)]
  BY <1>4, Zenon DEF Reached, ReachedAt
<1>6. PICK t : t = Reached
  OBVIOUS
<1>7. PICK D : D = {i \in 0 .. n - 1 : t[i] # Walked(i)}
  OBVIOUS
<1>8. SUFFICES ASSUME D # {} PROVE FALSE
  BY <1>1, <1>6, <1>7
<1>9. n \in Nat /\ D \in SUBSET (0 .. n)
  BY <1>7
<1>10. PICK i \in D : \A y \in D : y <= i
  BY <1>8, <1>9, HighestExists
<1>11. i \in HwLevels(satp) /\ i \in 0 .. n - 1 /\ t[i] # Walked(i)
  BY <1>1, <1>7
<1>12. i + 1 \in HwLevels(satp) => t[i + 1] = Walked(i + 1)
  <2>1. ~(i + 1 <= i)
    BY <1>11
  <2> QED  BY <1>1, <1>7, <1>10, <2>1
<1>13. t[i] = ReachedAt(t, i)
  BY <1>5, <1>6, <1>11
<1> QED  BY <1>11, <1>12, <1>13, WalkedAt

(***************************************************************************)
(* The tables that Reached collects are the ones walks come to, and the    *)
(* invariant keeps those apart.                                            *)
(***************************************************************************)
LEMMA TreeOK == IInv => TablesFormTree
<1> SUFFICES ASSUME IInv, satp.mode # "BARE", ~PoolUsed
             PROVE  LET t      == Reached
                        tables == UNION {t[l] : l \in HwLevels(satp)}
                        slots  == UNION {Slots(t[l]) : l \in HwLevels(satp) \ {0}}
                    IN  /\ tables \cap avail = {}
                        /\ \A slot \in slots : Target(slot) # satp.ppn
                        /\ \A x, y \in slots : Target(x) = Target(y) => x = y
  BY DEF TablesFormTree
<1> DEFINE tables == UNION {Reached[l] : l \in HwLevels(satp)}
           slots  == UNION {Slots(Reached[l]) : l \in HwLevels(satp) \ {0}}
<1>1. CASE paging_satp_levels(satp) = 0
  <2>1. HwLevels(satp) = {}
    BY <1>1 DEF HwLevels
  <2> QED  BY <2>1
<1>2. CASE paging_satp_levels(satp) # 0
  <2>1. PICK n \in {3, 4, 5} : n = paging_satp_levels(satp) /\ HwLevels(satp) = 0 .. n - 1
    BY <1>2, RootFacts DEF IInv
  <2>2. WalksApart(satp, mem) /\ SparesUnreached /\ LinksKnown
    BY <1>2 DEF IInv, TablesOK
  <2>3. mem \in [Frames -> [0 .. PT_ENTRIES - 1 -> Pte]] /\ satp.ppn \in Frames
    BY <1>2, RootFacts DEF IInv, TypeOK
  <2>4. tables \cap avail = {}
    <3> SUFFICES ASSUME NEW l \in HwLevels(satp), NEW f \in avail, f \in Reached[l] PROVE FALSE
      OBVIOUS
    <3>1. f \in Walked(l)
      BY <1>2, ReachedIs
    <3> QED  BY <2>2, <3>1 DEF Walked, SparesUnreached, Unreached
  <2>5. ASSUME NEW slot \in slots
        PROVE  \E l, k \in HwLevels(satp) : \E w \in Pages :
                 /\ k = l + 1
                 /\ slot = <<TablesIn(satp, mem, w)[k], paging_level_index(w, k)>>
                 /\ TablesIn(satp, mem, w)[l] = Target(slot) /\ Target(slot) # NULL
    <3>1. PICK k \in HwLevels(satp) \ {0} : slot \in Slots(Reached[k])
      OBVIOUS
    <3>2. slot \in Slots(Walked(k))
      BY <1>2, <3>1, ReachedIs
    <3>3. PICK w \in Pages : /\ slot = <<TablesIn(satp, mem, w)[k], paging_level_index(w, k)>>
                             /\ TablesIn(satp, mem, w)[k] # NULL
                             /\ PteIn(satp, mem, w, k) = mem[slot[1]][slot[2]]
                             /\ IsTable(PteIn(satp, mem, w, k))
      BY <1>2, <3>2, SlotOfWalk
    <3>4. PICK l \in HwLevels(satp) : k = l + 1
      <4>1. k - 1 \in HwLevels(satp) /\ k = (k - 1) + 1
        BY <2>1
      <4> QED  BY <4>1
    <3>5. slot[1] \in Frames /\ slot[2] \in 0 .. PT_ENTRIES - 1
      <4>1. slot[1] \in Frames
        BY <2>3, <3>3, FramesReached
      <4>2. w \in Nat /\ k \in 0 .. 5
        BY <2>1, PagingAssumption DEF Pages
      <4> QED  BY <3>3, <4>1, <4>2, IndexRange
    <3>6. Target(slot) \in Frames
      <4>1. k > 0
        BY <2>1
      <4>2. PteIn(satp, mem, w, k).ppn \in Frames \/ PteIn(satp, mem, w, k).ppn \in PoolLinks
        BY <2>2, <3>3, <4>1 DEF LinksKnown
      <4> QED  BY <3>3, <3>5, <4>2 DEF PoolUsed, Target
    <3>7. PICK u : u = TablesIn(satp, mem, w)
      OBVIOUS
    <3>8. u[l] = Below(mem, w, u[l + 1], l)
      BY <3>4, <3>7, TableAt
    <3>9. u[l] = Target(slot)
      BY <3>3, <3>4, <3>6, <3>7, <3>8 DEF Below, Target
    <3> QED  BY <3>3, <3>4, <3>6, <3>7, <3>9, NullNoFrame
  <2>6. ASSUME NEW slot \in slots PROVE Target(slot) # satp.ppn
    <3>1. PICK l \in HwLevels(satp), k \in HwLevels(satp), w \in Pages :
            k = l + 1 /\ TablesIn(satp, mem, w)[l] = Target(slot) /\ Target(slot) # NULL
      BY <2>5
    <3>2. PICK top \in HwLevels(satp) : top + 1 \notin HwLevels(satp) /\ l # top
      <4>1. n - 1 \in HwLevels(satp) /\ (n - 1) + 1 \notin HwLevels(satp) /\ l # n - 1
        BY <2>1, <3>1
      <4> QED  BY <4>1
    <3>3. TablesIn(satp, mem, w)[top] = satp.ppn
      BY <3>2, TableAt
    <3> QED  BY <2>2, <3>1, <3>2, <3>3, Apart
  <2>7. ASSUME NEW x \in slots, NEW y \in slots, Target(x) = Target(y) PROVE x = y
    <3>1. PICK l \in HwLevels(satp), k \in HwLevels(satp), v \in Pages :
            /\ k = l + 1 /\ x = <<TablesIn(satp, mem, v)[k], paging_level_index(v, k)>>
            /\ TablesIn(satp, mem, v)[l] = Target(x) /\ Target(x) # NULL
      BY <2>5
    <3>2. PICK i \in HwLevels(satp), h \in HwLevels(satp), w \in Pages :
            /\ h = i + 1 /\ y = <<TablesIn(satp, mem, w)[h], paging_level_index(w, h)>>
            /\ TablesIn(satp, mem, w)[i] = Target(y)
      BY <2>5
    <3>3. l = i /\ \A j \in l + 1 .. n - 1 : paging_level_index(v, j) = paging_level_index(w, j)
      BY SMTT(30), <2>1, <2>2, <2>7, <3>1, <3>2, Apart
    <3>4. paging_level_index(v, k) = paging_level_index(w, k)
      BY <2>1, <3>1, <3>3
    <3>5. TablesIn(satp, mem, v)[k] = TablesIn(satp, mem, w)[k]
      <4>1. \A j \in k + 1 .. n - 1 : paging_level_index(v, j) = paging_level_index(w, j)
        BY <2>1, <3>1, <3>3
      <4>2. k <= k
        BY <2>1
      <4>3. SameUpTo(w, v, k, paging_satp_levels(satp))
        BY <2>1, <4>1 DEF SameUpTo
      <4> QED  BY <4>2, <4>3, SameIndices
    <3> QED  BY <3>1, <3>2, <3>3, <3>4, <3>5
  <2> QED  BY <2>4, <2>6, <2>7
<1> QED  BY <1>1, <1>2

(***************************************************************************)
(* Two entries of reached tables never lead to the same table, none leads  *)
(* back to the root, and no table is a page that page_alloc may hand out,  *)
(* through every call of the mapping functions that got its tables from    *)
(* the page allocator.                                                     *)
(***************************************************************************)
THEOREM TablesStayTree == Spec => []TablesFormTree
BY TreeOK, Invariant, PTL

-----------------------------------------------------------------------------
(***************************************************************************)
(* That a range is mapped needs a second invariant.  PoolReached is when   *)
(* the hardware's walks meet an entry that links the early pool: from then *)
(* on the code may be in tables that the hardware does not see.            *)
(***************************************************************************)
PoolReached ==
  \E v \in Pages : \E l \in HwLevels(satp) :
    l > 0 /\ IsTable(PteIn(satp, mem, v, l)) /\ PteIn(satp, mem, v, l).ppn \in PoolLinks

(***************************************************************************)
(* Where the loop is in its range, and the page that paging_map_one maps.  *)
(***************************************************************************)
AtPage ==
  /\ job.virt <= virt /\ phys = Wrap(job.phys + (virt - job.virt))
  /\ virt = job.virt \/ Aligned(job.virt)

InRange == InMapOne => virt < End(job) /\ Aligned(phys) /\ Aligned(job.virt)

PoolWalk == InMapOne /\ ~OnWalk => PoolReached

DoneMapped ==
  ~PoolReached => \A v \in Pages : job.virt <= v /\ v < virt => Mapped(job, v)

FenceMapped == pc = "fence" /\ ~PoolReached => Mapped(job, virt)

MInv == AtPage /\ InRange /\ PoolWalk /\ DoneMapped /\ FenceMapped

LEMMA PoolReachedIsUsed ==
  ASSUME IInv, paging_satp_levels(satp) # 0, PoolReached
  PROVE  PoolUsed
<1>1. PICK v \in Pages, l \in HwLevels(satp) :
        l > 0 /\ IsTable(PteIn(satp, mem, v, l)) /\ PteIn(satp, mem, v, l).ppn \in PoolLinks
  BY DEF PoolReached
<1>2. PICK t : t = TablesIn(satp, mem, v)[l]
  OBVIOUS
<1>3. satp.ppn \in Frames
  BY RootFacts DEF IInv
<1>4. t # NULL
  BY <1>1, <1>2 DEF PteIn, ZeroPte, IsTable
<1>5. t \in Frames
  BY <1>2, <1>3, <1>4, FramesReached
<1>6. PICK i : i = paging_level_index(v, l)
  OBVIOUS
<1>7. v \in Nat /\ l \in 0 .. 5
  <2>1. HwLevels(satp) \subseteq 0 .. 5
    BY ModeLevels DEF HwLevels
  <2> QED  BY <2>1, PagingAssumption DEF Pages
<1>8. i \in 0 .. PT_ENTRIES - 1
  BY <1>6, <1>7, IndexRange
<1>9. PteIn(satp, mem, v, l) = mem[t][i]
  BY <1>2, <1>4, <1>6 DEF PteIn
<1> QED  BY <1>1, <1>5, <1>8, <1>9 DEF PoolUsed

(***************************************************************************)
(* An entry that links a table, above level 0, is never overwritten.       *)
(***************************************************************************)
LEMMA LinkKeepsLinks ==
  ASSUME NEW s, NEW m, NEW u, NEW k, NEW pte, NEW n, LinkStep(s, m, u, k, pte, n),
         NEW v \in Pages, NEW l \in HwLevels(s), IsTable(PteIn(s, m, v, l))
  PROVE  PteIn(s, n, v, l) = PteIn(s, m, v, l)
<1>1. PICK c \in {0, 3, 4, 5} : c = paging_satp_levels(s) /\ HwLevels(s) = 0 .. c - 1
  BY ModeLevels DEF HwLevels
<1>2. k \in HwLevels(s)
  BY DEF LinkStep
<1>3. CASE ~Shares(s, m, u, k, v)
  <2>1. \A j \in HwLevels(s) : Agree(s, m, n, v, j)
    BY <1>3, LinkAgree
  <2> QED  BY <2>1, SameTranslation
<1>4. CASE Shares(s, m, u, k, v)
  <2>1. /\ l >= k => TablesIn(s, n, v)[l] = TablesIn(s, m, v)[l]
        /\ l < k => TablesIn(s, m, v)[l] = NULL
    BY <1>4, LinkShared
  <2>2. ~(l < k)
    BY <2>1 DEF PteIn, ZeroPte, IsTable
  <2>3. l # k
    <3>1. "V" \notin PteIn(s, m, v, k).bits
      BY <1>4 DEF PteIn, Shares, LinkStep
    <3> QED  BY <3>1 DEF IsTable
  <2>4. Agree(s, m, n, v, l) /\ TablesIn(s, n, v)[l] = TablesIn(s, m, v)[l]
    BY <1>1, <1>2, <2>1, <2>2, <2>3, LinkAgree
  <2> QED  BY <2>4 DEF Agree, PteIn
<1> QED  BY <1>3, <1>4

LEMMA LinkKeeps ==
  ASSUME IInv, walk_link, NEW v \in Pages, NEW l \in HwLevels(satp),
         IsTable(PteIn(satp, mem, v, l))
  PROVE  PteIn(satp, mem', v, l) = PteIn(satp, mem, v, l)
<1>1. PICK pte : pte = paging_table_pte(VIRT_TO_PHYS(new_table))
  OBVIOUS
<1>2. pc = "link" /\ Store(table, Index, pte)
  BY <1>1 DEF walk_link
<1>3. InMapOne
  BY <1>2 DEF InMapOne
<1>4. CASE InPool
  <2>1. SameWalks(satp, mem, mem')
    BY <1>2, <1>3, <1>4, PoolStoreSame
  <2> QED  BY <2>1 DEF SameWalks
<1>5. CASE OnWalk
  <2>1. PICK n : n = mem'
    OBVIOUS
  <2>2. LinkStep(satp, mem, virt, level, pte, n)
    BY <1>1, <1>5, <2>1, LinkIsStep
  <2>3. PteIn(satp, n, v, l) = PteIn(satp, mem, v, l)
    BY <2>2, LinkKeepsLinks
  <2> QED  BY <2>1, <2>3
<1> QED  BY <1>3, <1>4, <1>5 DEF IInv, PointerOK

LEMMA PoolStays ==
  ASSUME IInv, [Next]_vars, PoolReached, satp' = satp
  PROVE  PoolReached'
<1>1. PICK v \in Pages, l \in HwLevels(satp) :
        l > 0 /\ IsTable(PteIn(satp, mem, v, l)) /\ PteIn(satp, mem, v, l).ppn \in PoolLinks
  BY DEF PoolReached
<1>2. CASE mem' = mem
  BY <1>1, <1>2 DEF PoolReached
<1>3. SUFFICES ASSUME mem' # mem PROVE PteIn(satp, mem', v, l) = PteIn(satp, mem, v, l)
  BY <1>1, <1>2 DEF PoolReached
<1>4. CASE walk_alloc
  BY <1>4, AllocSame DEF SameWalks
<1>5. CASE leaf_write
  BY <1>1, <1>5, LeafSame
<1>6. CASE walk_link
  BY <1>1, <1>6, LinkKeeps
<1> QED  BY <1>3, <1>4, <1>5, <1>6, Stores

-----------------------------------------------------------------------------
(***************************************************************************)
(* Addresses in a range.                                                   *)
(***************************************************************************)
LEMMA WrapAdd ==
  ASSUME NEW x \in Int, NEW d \in Int
  PROVE  Wrap(Wrap(x) + d) = Wrap(x + d)
<1>1. PICK A \in Nat \ {0} : A = AddrSpan
  BY PagingAssumption
<1>2. PICK a \in Int : a = Wrap(x)
  BY WrapRange
<1>3. PICK q \in Int : x = a + A * q
  BY <1>1, <1>2, WrapIs
<1>4. PICK y \in Int : y = a + d
  OBVIOUS
<1>5. PICK w \in Nat : w = Wrap(y) /\ w < A
  BY <1>1, WrapRange
<1>6. PICK p \in Int : y = w + A * p
  BY <1>1, <1>5, WrapIs
<1>7. PICK k \in Int : k = p + q
  OBVIOUS
<1>8. A * k = A * p + A * q
  BY <1>7
<1>9. x + d = w + A * k
  BY <1>3, <1>4, <1>6, <1>8
<1>10. (w + A * k) % A = w
  BY <1>5, ModShift
<1>11. Wrap(x + d) = w
  BY <1>1, <1>9, <1>10 DEF Wrap
<1> QED  BY <1>2, <1>4, <1>5, <1>11

LEMMA WrapSmall ==
  ASSUME NEW x \in Address
  PROVE  Wrap(x) = x
<1>1. PICK A \in Nat \ {0} : A = AddrSpan
  BY PagingAssumption
<1>2. x \in Nat /\ x < A
  BY <1>1 DEF Address
<1>3. x % A = x
  BY <1>2
<1> QED  BY <1>1, <1>3 DEF Wrap

LEMMA EndAligned ==
  ASSUME NEW r, r.virt \in Nat, Aligned(r.virt), r.size \in Int
  PROVE  End(r) \in Address /\ Aligned(End(r))
<1>1. PICK P \in Nat \ {0} : P = PAGE_SIZE
  BY PageSizeAssumption
<1>2. PICK a \in Int : r.virt = a * P
  <2>1. PICK x \in Int : x = r.virt
    OBVIOUS
  <2>2. x % P = 0
    BY <1>1, <2>1 DEF Aligned
  <2> QED  BY <2>1, <2>2, Whole
<1>3. PICK s \in Int : s = r.size + P - 1
  OBVIOUS
<1>4. PICK b \in Int : b = s \div P
  OBVIOUS
<1>5. PAGE_ALIGN_UP(r.size) = b * P
  BY <1>1, <1>3, <1>4 DEF PAGE_ALIGN_UP
<1>6. PICK c \in Int : AddrSpan = c * P
  <2>1. PICK A \in Int : A = AddrSpan
    BY PagingAssumption
  <2>2. A % P = 0
    BY <1>1, <2>1, HhdmAssumption
  <2> QED  BY <2>1, <2>2, Whole
<1>7. PICK y \in Int : y = a * P + b * P
  OBVIOUS
<1>8. End(r) = Wrap(y)
  BY <1>2, <1>5, <1>7 DEF End
<1>9. PICK w \in Nat : w = Wrap(y) /\ w \in 0 .. AddrSpan - 1
  BY WrapRange
<1>10. PICK q \in Int : y = w + (c * P) * q
  BY <1>6, <1>9, WrapIs
<1>11. PICK k \in Int : k = a + b - c * q
  OBVIOUS
<1>12. w = 0 + P * k
  <2>1. P * k = a * P + b * P - (c * P) * q
    BY <1>11
  <2> QED  BY <1>7, <1>10, <2>1
<1>13. (0 + P * k) % P = 0
  <2>1. 0 \in Nat /\ 0 < P
    OBVIOUS
  <2> QED  BY <2>1, ModShift
<1>14. w % P = 0
  BY <1>12, <1>13
<1> QED  BY <1>1, <1>8, <1>9, <1>14 DEF Address, Aligned

LEMMA PageAfter ==
  ASSUME NEW v \in Nat, NEW w \in Nat, Aligned(v), Aligned(w), v < w
  PROVE  v + PAGE_SIZE <= w
<1>1. PICK P \in Nat \ {0} : P = PAGE_SIZE
  BY PageSizeAssumption
<1>2. PICK a \in Int : v = a * P
  BY <1>1, Whole DEF Aligned
<1>3. PICK b \in Int : w = b * P
  BY <1>1, Whole DEF Aligned
<1>4. a < b
  <2> SUFFICES ASSUME b <= a PROVE FALSE
    OBVIOUS
  <2>1. PICK d \in Nat : a = b + d
    OBVIOUS
  <2>2. a * P = b * P + d * P /\ d * P \in Nat
    BY <2>1
  <2> QED  BY <1>2, <1>3, <2>2
<1>5. PICK d \in Nat : b = a + 1 + d
  BY <1>4
<1>6. b * P = a * P + P + d * P /\ d * P \in Nat
  BY <1>5
<1> QED  BY <1>1, <1>2, <1>3, <1>6

-----------------------------------------------------------------------------
(***************************************************************************)
(* What the hardware finds where its walk ends in a leaf.                  *)
(***************************************************************************)
LEMMA TranslateAt ==
  ASSUME NEW s, NEW m, NEW v, NEW l \in HwLevels(s), IsLeaf(PteIn(s, m, v, l))
  PROVE  TranslateIn(s, m, v) =
           [phys |-> paging_pte_to_phys(PteIn(s, m, v, l)) + (v % paging_level_block_size(l)),
            perm |-> PteIn(s, m, v, l).bits \cap RWX, level |-> l]
<1>1. PICK c \in {0, 3, 4, 5} : c = paging_satp_levels(s) /\ HwLevels(s) = 0 .. c - 1
  BY ModeLevels DEF HwLevels
<1>2. TablesIn(s, m, v)[l] # NULL
  BY DEF PteIn, ZeroPte, IsLeaf
<1>3. ASSUME NEW k \in HwLevels(s), k # l PROVE ~IsLeaf(PteIn(s, m, v, k))
  <2>1. CASE l < k
    <3>1. IsTable(PteIn(s, m, v, k))
      BY <1>2, <2>1, TablesAbove
    <3> QED  BY <3>1 DEF IsTable, IsLeaf
  <2>2. CASE k < l
    <3>1. TablesIn(s, m, v)[k] = NULL
      <4> SUFFICES ASSUME TablesIn(s, m, v)[k] # NULL PROVE FALSE
        OBVIOUS
      <4>1. IsTable(PteIn(s, m, v, l))
        BY <2>2, TablesAbove
      <4> QED  BY <4>1 DEF IsTable, IsLeaf
    <3> QED  BY <3>1 DEF PteIn, ZeroPte, IsLeaf
  <2> QED  BY <1>1, <1>3, <2>1, <2>2
<1>4. LeavesIn(s, m, v) = {l}
  BY <1>3 DEF LeavesIn
<1>5. (CHOOSE k \in LeavesIn(s, m, v) : TRUE) = l
  BY <1>4
<1>6. PICK S : S = LeavesIn(s, m, v)
  OBVIOUS
<1>7. S # {} /\ (CHOOSE k \in S : TRUE) = l
  BY <1>4, <1>5, <1>6
<1> QED  BY <1>6, <1>7 DEF TranslateIn

LEMMA CoversMapped ==
  ASSUME IInv, MInv, pc = "walk", "V" \in Entry.bits, Covered, ~PoolReached
  PROVE  Mapped(job, virt)
<1>1. InMapOne
  BY DEF InMapOne
<1>2. OnWalk /\ job \in Regions /\ level \in HwLevels(satp)
  BY <1>1 DEF MInv, PoolWalk, IInv, PointerOK
<1>3. PteIn(satp, mem, virt, level) = Entry
  BY <1>2, OnWalkEntry
<1>4. /\ paging_pte_to_phys(Entry) + (virt % paging_level_block_size(level)) = phys
      /\ paging_leaf_flags(job.flags) \cap RWX \subseteq Entry.bits
  BY DEF Covered, paging_entry_covers
<1>5. IsLeaf(Entry)
  <2>1. job.flags \in Flags
    BY <1>2 DEF Regions
  <2>2. paging_leaf_flags(job.flags) \cap RWX # {}
    BY <2>1 DEF paging_leaf_flags, Flags, RWX
  <2> QED  BY <1>4, <2>2 DEF IsLeaf
<1>6. Translate(virt) = [phys |-> phys, perm |-> Entry.bits \cap RWX, level |-> level]
  BY <1>2, <1>3, <1>4, <1>5, TranslateAt DEF Translate
<1>7. Translate(virt).phys = phys /\ Translate(virt).perm = Entry.bits \cap RWX
  BY <1>6
<1>8. phys = Wrap(job.phys + (virt - job.virt))
  BY DEF MInv, AtPage
<1>9. Translate(virt) # NULL
  <2>1. level \in 0 .. 4
    BY <1>2, ModeLevels DEF HwLevels
  <2>2. phys \in Nat /\ Entry.bits \cap RWX \in SUBSET RWX
    BY DEF IInv, TypeOK
  <2> QED  BY <1>6, <2>1, <2>2, NullNoTranslation
<1> QED  BY <1>4, <1>7, <1>8, <1>9 DEF Mapped

(***************************************************************************)
(* The leaf just stored translates the page.                               *)
(***************************************************************************)
LEMMA WriteMapped ==
  ASSUME IInv, MInv, leaf_write, OnWalk
  PROVE  Mapped(job, virt)'
<1>1. /\ pc = "walk" /\ level = 0 /\ UNCHANGED <<satp, job, virt, phys>>
  BY DEF leaf_write, envVars, callVars
<1>2. InMapOne
  BY <1>1 DEF InMapOne
<1>3. PICK n, pte : n = mem' /\ pte = LeafPte(phys, job.flags)
  OBVIOUS
<1>4. LeafStep(satp, mem, virt, pte, n)
  BY <1>3, LeafIsStep
<1>5. /\ virt \in Pages /\ 0 \in HwLevels(satp) /\ job \in Regions /\ phys \in Nat
      /\ TablesIn(satp, mem, virt)[0] # NULL
  BY <1>2, <1>4, MapOneFacts DEF IInv, PointerOK, TypeOK, LeafStep
<1>6. PteIn(satp, n, virt, 0) = pte
  <2>1. TablesIn(satp, n, virt) = TablesIn(satp, mem, virt)
    BY <1>4, <1>5, LeafTables
  <2>2. Shares(satp, mem, virt, 0, virt)
    BY DEF Shares
  <2>3. n[TablesIn(satp, mem, virt)[0]][paging_level_index(virt, 0)] = pte
    BY <1>4, <1>5, <2>2, LeafAgree
  <2> QED  BY <1>5, <2>1, <2>3 DEF PteIn
<1>7. IsLeaf(pte)
  <2>1. job.flags \in Flags
    BY <1>5 DEF Regions
  <2> QED  BY <1>3, <1>5, <2>1, LeafEntry
<1>8. paging_pte_to_phys(pte) + (virt % paging_level_block_size(0)) = phys
  <2>1. PICK P \in Nat \ {0} : P = PAGE_SIZE
    BY PageSizeAssumption
  <2>2. virt % P = 0 /\ paging_level_block_size(0) = P
    BY <1>5, <2>1, Blocks DEF Pages, paging_level_block_size
  <2>3. phys % P = 0
    BY <1>2, <2>1 DEF MInv, InRange, Aligned
  <2>4. PICK y \in Int : phys = y * P /\ phys \div P = y
    BY <1>5, <2>3, Whole
  <2>5. pte.ppn = y
    BY <1>3, <2>1, <2>4 DEF LeafPte, PHYS_PFN
  <2>6. paging_pte_to_phys(pte) = phys
    BY <2>1, <2>4, <2>5 DEF paging_pte_to_phys, PFN_PHYS
  <2> QED  BY <1>5, <2>2, <2>6
<1>9. TranslateIn(satp, n, virt) = [phys |-> phys, perm |-> pte.bits \cap RWX, level |-> 0]
  BY <1>5, <1>6, <1>7, <1>8, TranslateAt
<1>10. pte.bits = paging_leaf_flags(job.flags)
  BY <1>3 DEF LeafPte
<1>11. phys = Wrap(job.phys + (virt - job.virt))
  BY DEF MInv, AtPage
<1>12. TranslateIn(satp, n, virt) # NULL
  <2>1. phys \in Nat /\ pte.bits \cap RWX \in SUBSET RWX /\ 0 \in 0 .. 4
    BY <1>5
  <2> QED  BY <1>9, <2>1, NullNoTranslation
<1>13. PICK t : t = TranslateIn(satp, n, virt)
  OBVIOUS
<1>14. /\ t # NULL /\ t.phys = Wrap(job.phys + (virt - job.virt))
       /\ paging_leaf_flags(job.flags) \cap RWX \subseteq t.perm
  BY <1>9, <1>10, <1>11, <1>12, <1>13
<1>15. Translate(virt)' = t
  BY <1>1, <1>3, <1>13 DEF Translate
<1>16. /\ Translate(virt)' # NULL /\ Translate(virt)'.phys = Wrap(job'.phys + (virt' - job'.virt))
       /\ paging_leaf_flags(job'.flags) \cap RWX \subseteq Translate(virt)'.perm
  BY <1>1, <1>14, <1>15
<1> QED  BY <1>16 DEF Mapped, Wrap, paging_leaf_flags

-----------------------------------------------------------------------------
(***************************************************************************)
(* Steps that stay at their page.                                          *)
(***************************************************************************)
LEMMA MappedKept ==
  ASSUME NEW r, NEW v, Mapped(r, v), TranslateIn(satp', mem', v) = Translate(v)
  PROVE  Mapped(r, v)'
BY DEF Mapped, Translate, Wrap, paging_leaf_flags

LEMMA StayOK ==
  ASSUME IInv, MInv, [Next]_vars, UNCHANGED <<satp, job, virt, phys>>,
         InRange', PoolWalk', FenceMapped'
  PROVE  MInv'
<1>1. AtPage'
  BY DEF MInv, AtPage, Wrap, Aligned
<1>2. DoneMapped'
  <2>1. PICK r, w : r = job /\ w = virt
    OBVIOUS
  <2>2. SUFFICES ASSUME ~PoolReached', NEW v \in Pages, r.virt <= v, v < w PROVE Mapped(r, v)'
    BY <2>1 DEF DoneMapped, Mapped, Translate
  <2>3. ~PoolReached
    BY <2>2, PoolStays
  <2>4. Mapped(r, v)
    BY <2>1, <2>2, <2>3 DEF MInv, DoneMapped
  <2>5. v # virt
    <3>1. v \in Nat /\ virt \in Nat
      BY PagingAssumption DEF Pages, IInv, TypeOK
    <3> QED  BY <2>1, <2>2, <3>1
  <2>6. TranslateIn(satp', mem', v) = Translate(v)
    <3>1. CASE mem' = mem
      BY <3>1 DEF Translate
    <3>2. CASE mem' # mem
      BY <2>5, <3>2, StoreOK
    <3> QED  BY <3>1, <3>2
  <2> QED  BY <2>4, <2>6, MappedKept
<1> QED  BY <1>1, <1>2 DEF MInv

LEMMA StayOutsideOK ==
  ASSUME IInv, MInv, [Next]_vars, UNCHANGED <<satp, job, virt, phys>>,
         pc' \notin {"walk", "link", "fence"}
  PROVE  MInv'
<1>1. InRange' /\ PoolWalk' /\ FenceMapped'
  BY DEF InRange, PoolWalk, FenceMapped, InMapOne
<1> QED  BY <1>1, StayOK

LEMMA QuietOK ==
  ASSUME IInv, MInv, [Next]_vars, UNCHANGED <<satp, mem, pc, callVars>>
  PROVE  MInv'
<1>1. UNCHANGED <<job, virt, phys, table, level>>
  BY DEF callVars
<1>2. InRange'
  BY <1>1 DEF MInv, InRange, InMapOne, End, Aligned, Wrap
<1>3. PoolWalk'
  BY <1>1 DEF MInv, PoolWalk, InMapOne, OnWalk, PoolReached
<1>4. FenceMapped'
  BY <1>1 DEF MInv, FenceMapped, Mapped, Translate, PoolReached
<1> QED  BY <1>1, <1>2, <1>3, <1>4, StayOK

(***************************************************************************)
(* A call begins, before its first range, or ends.                         *)
(***************************************************************************)
LEMMA CallOK ==
  ASSUME IInv, MInv, [Next]_vars,
         \/ paging_early_init \/ (\E m \in MmioCalls : paging_map_mmio(m)) \/ paging_init
         \/ (\E r \in MapCalls : paging_map_range(r))
  PROVE  MInv'
<1>1. CASE paging_early_init
  <2>1. UNCHANGED <<satp, job, virt, phys>> /\ pc' \notin {"walk", "link", "fence"}
    BY <1>1 DEF paging_early_init, envVars, callVars
  <2> QED  BY <2>1, StayOutsideOK
<1>2. CASE \E m \in MmioCalls : paging_map_mmio(m)
  <2>1. UNCHANGED <<satp, job, virt, phys>> /\ pc' \notin {"walk", "link", "fence"}
    BY <1>2 DEF paging_map_mmio, Begin, envVars
  <2> QED  BY <2>1, StayOutsideOK
<1>3. CASE paging_init
  <2>1. UNCHANGED <<satp, job, virt, phys>> /\ pc' \notin {"walk", "link", "fence"}
    BY <1>3 DEF paging_init, Begin, envVars
  <2> QED  BY <2>1, StayOutsideOK
<1>4. CASE \E r \in MapCalls : paging_map_range(r)
  <2>1. UNCHANGED <<satp, job, virt, phys>> /\ pc' \notin {"walk", "link", "fence"}
    BY <1>4 DEF paging_map_range, Begin, envVars
  <2> QED  BY <2>1, StayOutsideOK
<1> QED  BY <1>1, <1>2, <1>3, <1>4

(***************************************************************************)
(* A range at its first page.                                              *)
(***************************************************************************)
LEMMA FreshOK ==
  ASSUME pc' \notin {"walk", "link", "fence"}, NEW r, job' = r, virt' = r.virt, phys' = r.phys,
         r.virt \in Nat, r.phys \in Address
  PROVE  MInv'
<1>1. Wrap(r.phys + (r.virt - r.virt)) = r.phys
  <2>1. r.phys \in Int /\ r.phys + (r.virt - r.virt) = r.phys
    BY PagingAssumption DEF Address
  <2> QED  BY <2>1, WrapSmall
<1>2. AtPage'
  <2>1. job'.virt <= virt' /\ virt' = job'.virt /\ phys' = Wrap(job'.phys + (virt' - job'.virt))
    BY <1>1
  <2> QED  BY <2>1 DEF AtPage, Wrap
<1>3. InRange' /\ PoolWalk' /\ FenceMapped'
  BY DEF InRange, PoolWalk, FenceMapped, InMapOne
<1>4. DoneMapped'
  <2>1. \A v \in Pages : ~(r.virt <= v /\ v < r.virt)
    BY PagingAssumption DEF Pages
  <2> QED  BY <2>1 DEF DoneMapped
<1> QED  BY <1>2, <1>3, <1>4 DEF MInv

LEMMA FirstPageOK ==
  ASSUME IInv, MInv, range_next
  PROVE  MInv'
<1>1. /\ pc = "range" /\ pc' = "range" /\ todo # <<>>
      /\ job' = Head(todo) /\ virt' = Head(todo).virt /\ phys' = Head(todo).phys
  BY DEF range_next
<1>2. PICK r : r = Head(todo)
  OBVIOUS
<1>3. r \in Regions
  BY <1>1, <1>2 DEF IInv, TypeOK
<1>4. r.virt \in Nat /\ r.phys \in Address
  BY <1>3, PagingAssumption DEF Regions, Address
<1> QED  BY <1>1, <1>2, <1>4, FreshOK

LEMMA CallEndOK ==
  ASSUME IInv, MInv, range_return \/ map_page_refuse \/ walk_alloc_fail \/ walk_conflict
  PROVE  MInv'
<1>1. PICK ok \in BOOLEAN : Return(ok)
  BY DEF range_return, map_page_refuse, walk_alloc_fail, walk_conflict
<1>2. pc \in {"range", "walk"}
  BY DEF range_return, map_page_refuse, walk_alloc_fail, walk_conflict
<1>3. call \in {"mmio", "init", "map"}
  BY <1>2 DEF IInv, TypeOK, PointerOK, InMapOne
<1>4. pc' \notin {"walk", "link", "fence"}
  BY <1>1, <1>3 DEF Return
<1>5. job' = NoRegion /\ virt' = 0 /\ phys' = 0
  BY <1>1 DEF Return, NoLocals
<1>6. PICK r : r = NoRegion
  OBVIOUS
<1>7. r.virt = 0 /\ r.phys = 0
  BY <1>6 DEF NoRegion, Region
<1>8. 0 \in Nat /\ 0 \in Address
  BY PagingAssumption DEF Address
<1> QED  BY <1>4, <1>5, <1>6, <1>7, <1>8, FreshOK

(***************************************************************************)
(* On to the next page, once the current one is mapped.                    *)
(***************************************************************************)
LEMMA AdvanceOK ==
  ASSUME IInv, MInv, NextPage, pc \in {"walk", "fence"}, UNCHANGED mem,
         ~PoolReached => Mapped(job, virt)
  PROVE  MInv'
<1>1. /\ pc' = "range" /\ virt' = Wrap(virt + PAGE_SIZE) /\ phys' = Wrap(phys + PAGE_SIZE)
      /\ UNCHANGED <<satp, job>>
  BY DEF NextPage, Advance, envVars
<1>2. InMapOne
  BY DEF InMapOne
<1>3. PICK P \in Nat \ {0} : P = PAGE_SIZE
  BY PageSizeAssumption
<1>4. /\ virt \in Pages /\ job \in Regions /\ virt < End(job) /\ Aligned(job.virt)
      /\ job.virt <= virt /\ phys = Wrap(job.phys + (virt - job.virt))
  BY <1>2 DEF IInv, PointerOK, MInv, InRange, AtPage
<1>5. /\ job.virt \in Nat /\ job.phys \in Nat /\ job.size \in Int /\ virt \in Nat
      /\ Aligned(virt)
  BY <1>4, PagingAssumption DEF Regions, Address, Pages, Aligned
<1>6. PICK e : e = End(job) /\ e \in Nat /\ e < AddrSpan /\ Aligned(e)
  <2>1. PICK r : r = job
    OBVIOUS
  <2>2. End(r) \in Address /\ Aligned(End(r))
    BY <1>4, <1>5, <2>1, EndAligned
  <2> QED  BY <2>1, <2>2, PagingAssumption DEF Address
<1>7. virt + P <= e
  BY <1>3, <1>4, <1>5, <1>6, PageAfter
<1>8. virt' = virt + P
  <2>1. PICK x : x = virt + P
    OBVIOUS
  <2>2. x \in Address
    BY <1>5, <1>6, <1>7, <2>1, PagingAssumption DEF Address
  <2> QED  BY <1>1, <1>3, <2>1, <2>2, WrapSmall
<1>9. phys' = Wrap(job.phys + (virt' - job.virt))
  <2>1. PICK x \in Int : x = job.phys + (virt - job.virt)
    BY <1>5
  <2>2. phys' = Wrap(x + P)
    BY <1>1, <1>3, <1>4, <2>1, WrapAdd
  <2>3. x + P = job.phys + (virt' - job.virt)
    BY <1>5, <1>8, <2>1
  <2> QED  BY <2>2, <2>3
<1>10. AtPage'
  <2>1. job.virt <= virt'
    BY <1>4, <1>5, <1>8
  <2> QED  BY <1>1, <1>4, <1>9, <2>1 DEF AtPage, Wrap, Aligned
<1>11. InRange' /\ PoolWalk' /\ FenceMapped'
  BY <1>1 DEF InRange, PoolWalk, FenceMapped, InMapOne
<1>12. DoneMapped'
  <2>1. PICK r, w : r = job /\ w = virt'
    OBVIOUS
  <2>2. SUFFICES ASSUME ~PoolReached', NEW v \in Pages, r.virt <= v, v < w PROVE Mapped(r, v)'
    BY <1>1, <2>1 DEF DoneMapped, Mapped, Translate
  <2>3. ~PoolReached
    BY <1>1, <2>2 DEF PoolReached
  <2>4. v \in Nat /\ Aligned(v)
    BY PagingAssumption DEF Pages, Aligned
  <2>5. v <= virt
    <3> SUFFICES ASSUME virt < v PROVE FALSE
      BY <1>5, <2>4
    <3>1. virt + P <= v
      BY <1>3, <1>5, <2>4, PageAfter
    <3> QED  BY <1>5, <1>8, <2>1, <2>2, <2>4, <3>1
  <2>6. Mapped(r, v)
    <3>1. CASE v = virt
      BY <2>1, <2>3, <3>1
    <3>2. CASE v < virt
      BY <2>1, <2>2, <2>3, <3>2 DEF MInv, DoneMapped
    <3> QED  BY <1>5, <2>4, <2>5, <3>1, <3>2
  <2>7. TranslateIn(satp', mem', v) = Translate(v)
    BY <1>1 DEF Translate
  <2> QED  BY <2>6, <2>7, MappedKept
<1> QED  BY <1>10, <1>11, <1>12 DEF MInv

(***************************************************************************)
(* paging_map_one at work on a page: it is where the hardware's walk is,   *)
(* unless it went through an entry that links the pool.                    *)
(***************************************************************************)
LEMMA StartOK ==
  ASSUME IInv, MInv, [Next]_vars, paging_map_page
  PROVE  MInv'
<1>1. /\ pc' = "walk" /\ ~RangeDone /\ Aligned(virt) /\ Aligned(phys)
      /\ UNCHANGED <<satp, job, virt, phys>>
  BY DEF paging_map_page, envVars
<1>2. virt < End(job)
  <2>1. virt \in Nat
    BY PagingAssumption DEF IInv, TypeOK
  <2>2. End(job) \in Int
    <3>1. job \in Regions
      <4>1. ~(job = NoRegion /\ virt = 0)
        BY <1>1, NoRegionIsDone DEF RangeDone
      <4> QED  BY <4>1 DEF IInv, TypeOK
    <3>2. job.virt \in Nat /\ job.size \in Int
      BY <3>1, PagingAssumption DEF Regions, Address
    <3>3. Aligned(job.virt)
      BY <1>1 DEF MInv, AtPage
    <3>4. PICK r : r = job
      OBVIOUS
    <3>5. End(r) \in Address
      BY <3>2, <3>3, <3>4, EndAligned
    <3> QED  BY <3>4, <3>5, PagingAssumption DEF Address
  <2> QED  BY <1>1, <2>1, <2>2 DEF RangeDone
<1>3. Aligned(job.virt)
  BY <1>1 DEF MInv, AtPage
<1>4. InRange'
  BY <1>1, <1>2, <1>3 DEF InRange, End, Wrap, Aligned
<1>5. PoolWalk'
  BY RootOnWalk DEF PoolWalk
<1>6. FenceMapped'
  BY <1>1 DEF FenceMapped
<1> QED  BY <1>1, <1>4, <1>5, <1>6, StayOK

LEMMA InRangeKept ==
  ASSUME MInv, InMapOne, UNCHANGED <<job, virt, phys>>
  PROVE  InRange'
BY DEF MInv, InRange, End, Wrap, Aligned

LEMMA AllocStays ==
  ASSUME IInv, MInv, [Next]_vars, walk_alloc
  PROVE  MInv'
<1>1. pc = "walk" /\ pc' = "link" /\ UNCHANGED <<satp, job, virt, phys, table, level>>
  BY DEF walk_alloc, envVars
<1>2. InMapOne
  BY <1>1 DEF InMapOne
<1>3. OnWalk => OnWalk'
  <2>1. virt \in Pages
    BY <1>2, MapOneFacts
  <2>2. TablesIn(satp, mem', virt) = TablesIn(satp, mem, virt)
    BY <2>1, AllocSame DEF SameWalks
  <2> QED  BY <1>1, <2>2 DEF OnWalk
<1>4. ~OnWalk => PoolReached'
  BY <1>1, <1>2, PoolStays DEF MInv, PoolWalk
<1>5. PoolWalk' /\ FenceMapped'
  BY <1>1, <1>3, <1>4 DEF PoolWalk, FenceMapped
<1> QED  BY <1>1, <1>2, <1>5, InRangeKept, StayOK

LEMMA DescendStays ==
  ASSUME IInv, MInv, [Next]_vars, walk_table
  PROVE  MInv'
<1>1. /\ pc = "walk" /\ pc' = "walk" /\ level > 0 /\ IsTable(Entry)
      /\ UNCHANGED <<satp, mem, job, virt, phys>>
  BY DEF walk_table, Descend, envVars
<1>2. InMapOne
  BY <1>1 DEF InMapOne
<1>3. OnWalk => OnWalk' \/ PoolReached'
  <2> SUFFICES ASSUME OnWalk, Entry.ppn \notin Frames PROVE PoolReached
    BY <1>1, TableOnWalk, PoolStays
  <2>1. virt \in Pages /\ level \in HwLevels(satp) /\ LinksKnown
    BY <1>2, MapOneFacts
  <2>2. PteIn(satp, mem, virt, level) = Entry
    BY OnWalkEntry
  <2>3. Entry.ppn \in PoolLinks
    BY <1>1, <2>1, <2>2 DEF LinksKnown
  <2> QED  BY <1>1, <2>1, <2>2, <2>3 DEF PoolReached
<1>4. ~OnWalk => PoolReached'
  BY <1>1, <1>2, PoolStays DEF MInv, PoolWalk
<1>5. PoolWalk' /\ FenceMapped'
  BY <1>1, <1>3, <1>4 DEF PoolWalk, FenceMapped
<1> QED  BY <1>1, <1>2, <1>5, InRangeKept, StayOK

LEMMA LinkStays ==
  ASSUME IInv, MInv, [Next]_vars, walk_link
  PROVE  MInv'
<1>1. pc = "link" /\ pc' = "walk" /\ UNCHANGED <<satp, job, virt, phys>>
  BY DEF walk_link, Descend, envVars
<1>2. InMapOne
  BY <1>1 DEF InMapOne
<1>3. PICK pte, n : pte = paging_table_pte(VIRT_TO_PHYS(new_table)) /\ n = mem'
  OBVIOUS
<1>4. CASE OnWalk /\ pte.ppn \in Frames
  <2>1. OnWalk'
    BY <1>3, <1>4, LinkOnWalk
  <2>2. PoolWalk' /\ FenceMapped'
    BY <1>1, <2>1 DEF PoolWalk, FenceMapped
  <2> QED  BY <1>1, <1>2, <2>2, InRangeKept, StayOK
<1>5. CASE OnWalk /\ pte.ppn \notin Frames
  <2>1. pte.ppn \in PoolLinks /\ IsTable(pte)
    BY <1>1, <1>3, <1>5, NewEntry
  <2>2. LinkStep(satp, mem, virt, level, pte, n)
    BY <1>3, <1>5, LinkIsStep
  <2>3. Shares(satp, mem, virt, level, virt)
    BY DEF Shares
  <2>4. virt \in Pages /\ level \in HwLevels(satp) /\ level > 0 /\ level >= level
    BY <1>1, <1>2, MapOneFacts, ModeLevels DEF HwLevels, IInv, NewTableOK
  <2>5. /\ TablesIn(satp, n, virt)[level] = TablesIn(satp, mem, virt)[level]
        /\ TablesIn(satp, mem, virt)[level] # NULL
        /\ n[TablesIn(satp, mem, virt)[level]][paging_level_index(virt, level)] = pte
    BY <2>2, <2>3, <2>4, LinkShared, LinkAgree
  <2>6. PteIn(satp, n, virt, level) = pte
    BY <2>5 DEF PteIn
  <2>7. PICK l \in HwLevels(satp), v \in Pages :
          l > 0 /\ PteIn(satp, n, v, l) = pte
    BY <2>4, <2>6
  <2>8. PoolReached'
    BY <1>1, <1>3, <2>1, <2>7 DEF PoolReached
  <2>9. PoolWalk' /\ FenceMapped'
    BY <1>1, <2>8 DEF PoolWalk, FenceMapped
  <2> QED  BY <1>1, <1>2, <2>9, InRangeKept, StayOK
<1>6. CASE ~OnWalk
  <2>1. PoolReached'
    BY <1>1, <1>2, <1>6, PoolStays DEF MInv, PoolWalk
  <2>2. PoolWalk' /\ FenceMapped'
    BY <1>1, <2>1 DEF PoolWalk, FenceMapped
  <2> QED  BY <1>1, <1>2, <2>2, InRangeKept, StayOK
<1> QED  BY <1>4, <1>5, <1>6

LEMMA WriteStays ==
  ASSUME IInv, MInv, [Next]_vars, leaf_write
  PROVE  MInv'
<1>1. pc = "walk" /\ pc' = "fence" /\ UNCHANGED <<satp, job, virt, phys, table, level>>
  BY DEF leaf_write, envVars, callVars
<1>2. InMapOne
  BY <1>1 DEF InMapOne
<1>3. OnWalk => OnWalk'
  <2>1. virt \in Pages
    BY <1>2, MapOneFacts
  <2>2. TablesIn(satp, mem', virt) = TablesIn(satp, mem, virt)
    BY <2>1, LeafSame
  <2> QED  BY <1>1, <2>2 DEF OnWalk
<1>4. ~OnWalk => PoolReached'
  BY <1>1, <1>2, PoolStays DEF MInv, PoolWalk
<1>5. PoolWalk'
  BY <1>3, <1>4 DEF PoolWalk
<1>6. FenceMapped'
  <2>1. CASE OnWalk
    BY <2>1, WriteMapped DEF FenceMapped
  <2>2. CASE ~OnWalk
    BY <1>4, <2>2 DEF FenceMapped
  <2> QED  BY <2>1, <2>2
<1> QED  BY <1>1, <1>2, <1>5, <1>6, InRangeKept, StayOK

LEMMA PageDoneOK ==
  ASSUME IInv, MInv, walk_leaf_covers \/ leaf_covers \/ leaf_fence
  PROVE  MInv'
<1>1. NextPage /\ UNCHANGED mem /\ pc \in {"walk", "fence"}
  BY DEF walk_leaf_covers, leaf_covers, leaf_fence
<1>2. ~PoolReached => Mapped(job, virt)
  <2>1. CASE walk_leaf_covers \/ leaf_covers
    <3>1. pc = "walk" /\ "V" \in Entry.bits /\ Covered
      BY <2>1 DEF walk_leaf_covers, leaf_covers, IsLeaf
    <3> QED  BY <3>1, CoversMapped
  <2>2. CASE leaf_fence
    BY <2>2 DEF leaf_fence, MInv, FenceMapped
  <2> QED  BY <2>1, <2>2
<1> QED  BY <1>1, <1>2, AdvanceOK

-----------------------------------------------------------------------------
LEMMA MInitOK == Init => MInv
<1> SUFFICES ASSUME Init PROVE MInv
  OBVIOUS
<1>1. pc = "start" /\ job = NoRegion /\ virt = 0 /\ phys = 0
  BY DEF Init
<1>2. job.virt = 0 /\ job.phys = 0
  BY <1>1 DEF NoRegion, Region
<1>3. Wrap(0) = 0
  <2>1. 0 \in Address
    BY PagingAssumption DEF Address
  <2> QED  BY <2>1, WrapSmall
<1>4. AtPage
  <2>1. 0 + (0 - 0) = 0 /\ 0 <= 0
    OBVIOUS
  <2> QED  BY <1>1, <1>2, <1>3, <2>1 DEF AtPage
<1>5. InRange /\ PoolWalk /\ FenceMapped
  BY <1>1 DEF InRange, PoolWalk, FenceMapped, InMapOne
<1>6. DoneMapped
  <2>1. \A v \in Pages : ~(v < 0)
    BY PagingAssumption DEF Pages
  <2> QED  BY <1>1, <2>1 DEF DoneMapped
<1> QED  BY <1>4, <1>5, <1>6 DEF MInv

LEMMA MNextOK ==
  ASSUME IInv, MInv, [Next]_vars
  PROVE  MInv'
<1>1. CASE Step
  <2>1. CASE paging_early_init \/ (\E m \in MmioCalls : paging_map_mmio(m)) \/ paging_init
    BY <2>1, CallOK
  <2>2. CASE range_next \/ paging_map_page
    BY <2>2, FirstPageOK, StartOK
  <2>3. CASE range_return \/ map_page_refuse \/ walk_alloc_fail \/ walk_conflict
    BY <2>3, CallEndOK
  <2>4. CASE walk_alloc \/ walk_link \/ walk_table
    BY <2>4, AllocStays, LinkStays, DescendStays
  <2>5. CASE walk_leaf_covers \/ leaf_covers \/ leaf_fence
    BY <2>5, PageDoneOK
  <2>6. CASE leaf_write
    BY <2>6, WriteStays
  <2> QED  BY <1>1, <2>1, <2>2, <2>3, <2>4, <2>5, <2>6 DEF Step
<1>2. CASE \E r \in MapCalls : paging_map_range(r)
  BY <1>2, CallOK
<1>3. CASE Hart \/ Halted \/ UNCHANGED vars
  <2>1. UNCHANGED <<satp, mem, pc, callVars>>
    BY <1>3 DEF Hart, TlbDrop, TlbFill, Halted, vars, envVars
  <2> QED  BY <2>1, QuietOK
<1> QED  BY <1>1, <1>2, <1>3 DEF Next

LEMMA MInvariant == Spec => []MInv
<1>1. Init => MInv
  BY MInitOK
<1>2. IInv /\ MInv /\ [Next]_vars => MInv'
  BY MNextOK
<1> QED  BY <1>1, <1>2, Invariant, PTL DEF Spec

(***************************************************************************)
(* Whatever tables the boot loader left, and however many pages the        *)
(* allocator had for new ones, the loop of paging_map_range has mapped     *)
(* every page before the current one to its physical page, with the        *)
(* permissions asked for, as long as no table came from the early pool.    *)
(* A range whose end wraps has no such page: the loop passes none.         *)
(***************************************************************************)
THEOREM RangeMapsPages == Spec => []MappedSoFar
<1>1. IInv /\ MInv => MappedSoFar
  <2> SUFFICES ASSUME IInv, MInv, pc = "range", ~PoolUsed
               PROVE  \A v \in Pages : job.virt <= v /\ v < virt => Mapped(job, v)
    BY DEF MappedSoFar
  <2>1. paging_satp_levels(satp) # 0
    BY DEF IInv, RootKnown
  <2>2. ~PoolReached
    BY <2>1, PoolReachedIsUsed
  <2> QED  BY <2>2 DEF MInv, DoneMapped
<1> QED  BY <1>1, Invariant, MInvariant, PTL

-----------------------------------------------------------------------------
(***************************************************************************)
(* paging_init: the regions it has been through stay mapped while it maps  *)
(* the others.  Nth is the number of the region being mapped.              *)
(***************************************************************************)
Running == pc = "range" \/ InMapOne

Nth == Len(InitRegions) - Len(todo)

WholeMapped(r) == \A v \in Pages : Holds(r, v) => Mapped(r, v)

Idle == ~Running => job = NoRegion

InitProgress ==
  call = "init" /\ Running =>
    /\ Len(todo) <= Len(InitRegions)
    /\ \A i \in 1 .. Len(todo) : todo[i] = InitRegions[Nth + i]
    /\ job = IF Nth = 0 THEN NoRegion ELSE InitRegions[Nth]
    /\ ~PoolReached => \A i \in 1 .. Nth - 1 : WholeMapped(InitRegions[i])

InitDone ==
  call = "init" /\ pc = "up" /\ ~PoolReached =>
    \A i \in DOMAIN InitRegions : WholeMapped(InitRegions[i])

SInv == Idle /\ InitProgress /\ InitDone

LEMMA ListFacts ==
  ASSUME IInv
  PROVE  /\ Len(InitRegions) \in Nat /\ Len(todo) \in Nat /\ Nth \in Int
         /\ DOMAIN InitRegions = 1 .. Len(InitRegions)
         /\ \A i \in DOMAIN InitRegions : InitRegions[i] \in Regions
<1>1. todo \in Seq(Regions)
  BY DEF IInv, TypeOK
<1>2. PICK R \in Seq(Regions) : R = InitRegions
  BY InitRanges
<1>3. Len(R) \in Nat /\ Len(todo) \in Nat /\ DOMAIN R = 1 .. Len(R)
  BY <1>1, <1>2
<1>4. \A i \in DOMAIN R : R[i] \in Regions
  BY <1>2
<1> QED  BY <1>2, <1>3, <1>4 DEF Nth

(***************************************************************************)
(* A page that two regions hold is mapped for both or for none.            *)
(***************************************************************************)
LEMMA MappedAlike ==
  ASSUME IInv, NEW i \in DOMAIN InitRegions, NEW j \in DOMAIN InitRegions, NEW v \in Pages,
         Holds(InitRegions[i], v), Holds(InitRegions[j], v)
  PROVE  Mapped(InitRegions[j], v)' => Mapped(InitRegions[i], v)'
<1>1. PICK r \in Regions, s \in Regions : r = InitRegions[i] /\ s = InitRegions[j]
  BY ListFacts
<1>2. r.flags = s.flags /\ r.phys - r.virt = s.phys - s.virt
  BY <1>1, RegionsAssumption
<1>3. /\ r.phys \in Int /\ r.virt \in Int /\ s.phys \in Int /\ s.virt \in Int /\ v \in Int
  BY PagingAssumption DEF Regions, Address, Pages
<1>4. r.phys + (v - r.virt) = s.phys + (v - s.virt)
  BY <1>2, <1>3
<1>5. Mapped(s, v)' => Mapped(r, v)'
  BY <1>2, <1>4 DEF Mapped, Wrap
<1> QED  BY <1>1, <1>5

(***************************************************************************)
(* A step while region Nth is being mapped.                                *)
(***************************************************************************)
LEMMA WholeStays ==
  ASSUME IInv, MInv, MInv', [Next]_vars, satp' = satp, ~PoolReached',
         NEW i \in DOMAIN InitRegions, NEW j \in DOMAIN InitRegions, job = InitRegions[j],
         WholeMapped(InitRegions[i])
  PROVE  WholeMapped(InitRegions[i])'
<1>1. PICK r : r = InitRegions[i]
  OBVIOUS
<1>2. SUFFICES ASSUME NEW v \in Pages, Holds(r, v) PROVE Mapped(r, v)'
  BY <1>1 DEF WholeMapped, Holds, End, Wrap
<1>3. Mapped(r, v)
  BY <1>1, <1>2 DEF WholeMapped
<1>4. CASE TranslateIn(satp', mem', v) = Translate(v)
  BY <1>3, <1>4, MappedKept
<1>5. CASE TranslateIn(satp', mem', v) # Translate(v)
  <2>1. mem' # mem
    BY <1>5 DEF Translate
  <2>2. v = virt
    BY <1>5, <2>1, StoreOK
  <2>3. leaf_write
    <3>1. CASE walk_alloc
      BY <1>5, <3>1, AllocSame DEF SameWalks, Translate
    <3>2. CASE walk_link
      BY <1>5, <3>2, LinkSame
    <3> QED  BY <2>1, <3>1, <3>2, Stores
  <2>4. pc = "walk" /\ pc' = "fence" /\ UNCHANGED <<job, virt>>
    BY <2>3 DEF leaf_write, callVars
  <2>5. Holds(InitRegions[j], v)
    BY <2>2, <2>4 DEF MInv, AtPage, InRange, InMapOne, Holds
  <2>6. Mapped(InitRegions[j], v)'
    <3>1. Mapped(job, virt)'
      BY <2>4 DEF MInv, FenceMapped
    <3>2. PICK s : s = InitRegions[j]
      OBVIOUS
    <3>3. job' = s /\ virt' = v
      BY <2>2, <2>4, <3>2
    <3>4. Mapped(s, v)'
      BY <3>1, <3>3 DEF Mapped, Translate, Wrap, paging_leaf_flags
    <3> QED  BY <3>2, <3>4
  <2>7. Mapped(InitRegions[i], v)'
    BY <1>1, <1>2, <2>5, <2>6, MappedAlike
  <2> QED  BY <1>1, <2>7
<1> QED  BY <1>4, <1>5

LEMMA InitStays ==
  ASSUME IInv, MInv, MInv', SInv, [Next]_vars, UNCHANGED <<satp, job, todo, call>>,
         Running, Running'
  PROVE  SInv'
<1>1. Idle'
  BY DEF Idle
<1>2. InitDone'
  BY DEF InitDone, Running, InMapOne
<1>3. InitProgress'
  <2>1. SUFFICES ASSUME call = "init"
                 PROVE  /\ Len(todo) <= Len(InitRegions)
                        /\ \A i \in 1 .. Len(todo) : todo[i] = InitRegions[Nth + i]
                        /\ job = IF Nth = 0 THEN NoRegion ELSE InitRegions[Nth]
                        /\ ~PoolReached' => \A i \in 1 .. Nth - 1 : WholeMapped(InitRegions[i])'
    BY DEF InitProgress, Nth
  <2>2. /\ Len(todo) <= Len(InitRegions)
        /\ \A i \in 1 .. Len(todo) : todo[i] = InitRegions[Nth + i]
        /\ job = IF Nth = 0 THEN NoRegion ELSE InitRegions[Nth]
        /\ ~PoolReached => \A i \in 1 .. Nth - 1 : WholeMapped(InitRegions[i])
    BY <2>1 DEF SInv, InitProgress
  <2>3. ASSUME ~PoolReached', NEW i \in 1 .. Nth - 1 PROVE WholeMapped(InitRegions[i])'
    <3>1. ~PoolReached
      BY <2>3, PoolStays
    <3>2. PICK j : j = Nth
      OBVIOUS
    <3>3. /\ j # 0 /\ j \in DOMAIN InitRegions /\ i \in DOMAIN InitRegions
      BY <2>2, <2>3, <3>2, ListFacts DEF Nth
    <3>4. WholeMapped(InitRegions[i]) /\ job = InitRegions[j]
      BY <2>2, <2>3, <3>1, <3>2, <3>3
    <3> QED  BY <2>3, <3>3, <3>4, WholeStays
  <2> QED  BY <2>2, <2>3
<1> QED  BY <1>1, <1>2, <1>3 DEF SInv

LEMMA InitQuiet ==
  ASSUME SInv, UNCHANGED <<satp, mem, pc, callVars>>
  PROVE  SInv'
<1>1. UNCHANGED <<job, todo, call>>
  BY DEF callVars
<1>2. Running' = Running /\ PoolReached' = PoolReached
  BY DEF Running, InMapOne, PoolReached
<1>3. ASSUME NEW r PROVE WholeMapped(r)' = WholeMapped(r)
  BY DEF WholeMapped, Holds, End, Wrap, Mapped, Translate, paging_leaf_flags
<1>4. Idle'
  BY <1>1, <1>2 DEF SInv, Idle
<1>5. InitDone'
  BY <1>1, <1>2, <1>3 DEF SInv, InitDone
<1>6. InitProgress'
  BY <1>1, <1>2, <1>3 DEF SInv, InitProgress, Nth
<1> QED  BY <1>4, <1>5, <1>6 DEF SInv

LEMMA InitOutside ==
  ASSUME SInv, job' = NoRegion, pc' \in {"early", "uart", "halt"}
  PROVE  SInv'
BY DEF SInv, Idle, InitProgress, InitDone, Running, InMapOne

LEMMA InitBegins ==
  ASSUME IInv, SInv, ~Running, NEW c, NEW ranges, Begin(c, ranges),
         c = "init" => ranges = InitRegions
  PROVE  SInv'
<1>1. pc' = "range" /\ call' = c /\ todo' = ranges /\ job' = job /\ job = NoRegion
  BY DEF Begin, SInv, Idle
<1>2. Idle' /\ InitDone'
  BY <1>1 DEF Idle, InitDone, Running
<1>3. InitProgress'
  <2>1. SUFFICES ASSUME todo' = InitRegions PROVE InitProgress'
    BY <1>1 DEF InitProgress
  <2>2. Len(InitRegions) \in Nat
    BY ListFacts
  <2>3. Nth' = 0 /\ Len(todo') <= Len(InitRegions)
    BY <2>1, <2>2 DEF Nth
  <2>4. \A i \in 1 .. Len(todo') : todo'[i] = InitRegions[Nth' + i]
    BY <2>1, <2>2, <2>3
  <2>5. \A i : i \notin 1 .. Nth' - 1
    BY <2>3
  <2> QED  BY <1>1, <2>3, <2>4, <2>5 DEF InitProgress
<1> QED  BY <1>2, <1>3 DEF SInv

(***************************************************************************)
(* A region is over: all of its pages are mapped.                          *)
(***************************************************************************)
LEMMA RegionDone ==
  ASSUME IInv, MInv, SInv, pc = "range", RangeDone, call = "init", ~PoolReached,
         NEW i \in 1 .. Nth
  PROVE  WholeMapped(InitRegions[i])
<1>1. /\ job = IF Nth = 0 THEN NoRegion ELSE InitRegions[Nth]
      /\ \A k \in 1 .. Nth - 1 : WholeMapped(InitRegions[k])
  BY DEF SInv, InitProgress, Running
<1>2. Nth \in Int /\ Nth # 0
  BY ListFacts
<1>3. CASE i # Nth
  <2>1. i \in 1 .. Nth - 1
    BY <1>2, <1>3
  <2> QED  BY <1>1, <2>1
<1>4. CASE i = Nth
  <2>1. job = InitRegions[i]
    BY <1>1, <1>2, <1>4
  <2>2. SUFFICES ASSUME NEW v \in Pages, Holds(job, v) PROVE Mapped(job, v)
    BY <2>1 DEF WholeMapped
  <2>3. job.virt <= v /\ v < End(job) /\ virt >= End(job)
    BY <2>2 DEF Holds, RangeDone
  <2>4. v \in Int /\ virt \in Int /\ End(job) \in Int
    <3>1. v \in Int /\ virt \in Int
      BY PagingAssumption DEF Pages, IInv, TypeOK
    <3>2. job \in Regions
      <4>1. i \in DOMAIN InitRegions
        BY <1>2, ListFacts DEF Nth
      <4> QED  BY <2>1, <4>1, ListFacts
    <3>3. job.virt \in Int /\ job.size \in Int
      BY <3>2, PagingAssumption DEF Regions, Address
    <3>4. PICK P \in Nat \ {0}, s \in Int : P = PAGE_SIZE /\ s = job.size + P - 1
      BY <3>3, PageSizeAssumption
    <3>5. PICK b \in Int : b = s \div P
      OBVIOUS
    <3>6. PAGE_ALIGN_UP(job.size) = b * P
      BY <3>4, <3>5 DEF PAGE_ALIGN_UP
    <3>7. PICK y \in Int : y = job.virt + b * P
      BY <3>3, <3>4, <3>5
    <3>8. Wrap(y) \in Int
      BY WrapRange
    <3>9. End(job) = Wrap(y)
      BY <3>6, <3>7 DEF End
    <3> QED  BY <3>1, <3>8, <3>9
  <2>5. v < virt
    BY <2>3, <2>4
  <2> QED  BY <2>3, <2>5 DEF MInv, DoneMapped
<1> QED  BY <1>3, <1>4

LEMMA NextRegionOK ==
  ASSUME IInv, MInv, SInv, range_next
  PROVE  SInv'
<1>1. /\ pc = "range" /\ pc' = "range" /\ RangeDone /\ todo # <<>>
      /\ job' = Head(todo) /\ todo' = Tail(todo) /\ UNCHANGED <<satp, mem, call>>
  BY DEF range_next, envVars
<1>2. Idle' /\ InitDone'
  BY <1>1 DEF Idle, InitDone, Running
<1>3. InitProgress'
  <2>1. SUFFICES ASSUME call = "init" PROVE InitProgress'
    BY <1>1 DEF InitProgress
  <2>2. todo \in Seq(Regions) /\ Len(InitRegions) \in Nat
    BY ListFacts DEF IInv, TypeOK
  <2>3. /\ Len(todo) <= Len(InitRegions)
        /\ \A i \in 1 .. Len(todo) : todo[i] = InitRegions[Nth + i]
    BY <1>1, <2>1 DEF SInv, InitProgress, Running
  <2>4. /\ Len(todo) \in Nat \ {0} /\ Len(todo') = Len(todo) - 1 /\ job' = todo[1]
        /\ \A i \in 1 .. Len(todo') : todo'[i] = todo[i + 1]
    BY <1>1, <2>2
  <2>5. Nth \in Int /\ Nth' = Nth + 1 /\ Nth >= 0
    BY <2>2, <2>3, <2>4 DEF Nth
  <2>6. Len(todo') <= Len(InitRegions)
    BY <2>2, <2>3, <2>4
  <2>7. \A i \in 1 .. Len(todo') : todo'[i] = InitRegions[Nth' + i]
    <3> SUFFICES ASSUME NEW i \in 1 .. Len(todo') PROVE todo'[i] = InitRegions[Nth' + i]
      OBVIOUS
    <3>1. i + 1 \in 1 .. Len(todo) /\ Nth + (i + 1) = Nth' + i
      BY <2>4, <2>5
    <3>2. PICK k : k = i + 1
      OBVIOUS
    <3>3. todo'[i] = todo[k] /\ todo[k] = InitRegions[Nth + k]
      BY <2>3, <2>4, <3>1, <3>2
    <3> QED  BY <3>1, <3>2, <3>3
  <2>8. job' = InitRegions[Nth'] /\ Nth' # 0
    <3>1. 1 \in 1 .. Len(todo)
      BY <2>4
    <3> QED  BY <2>3, <2>4, <2>5, <3>1
  <2>9. ASSUME ~PoolReached', NEW i \in 1 .. Nth' - 1 PROVE WholeMapped(InitRegions[i])'
    <3>1. ~PoolReached
      BY <1>1, <2>9 DEF PoolReached
    <3>2. i \in 1 .. Nth
      BY <2>5
    <3>3. WholeMapped(InitRegions[i])
      BY <1>1, <2>1, <3>1, <3>2, RegionDone
    <3>4. PICK r : r = InitRegions[i]
      OBVIOUS
    <3>5. WholeMapped(r)'
      BY <1>1, <3>3, <3>4
      DEF WholeMapped, Holds, End, Wrap, Mapped, Translate, paging_leaf_flags
    <3> QED  BY <3>4, <3>5
  <2> QED  BY <2>6, <2>7, <2>8, <2>9 DEF InitProgress
<1> QED  BY <1>2, <1>3 DEF SInv

LEMMA InitEndOK ==
  ASSUME IInv, MInv, SInv, range_return
  PROVE  SInv'
<1>1. /\ pc = "range" /\ RangeDone /\ todo = <<>> /\ UNCHANGED <<satp, mem, call>>
      /\ job' = NoRegion
  BY DEF range_return, Return, NoLocals, envVars
<1>2. pc' \in {"uart", "up", "halt"}
  BY <1>1 DEF range_return, Return, IInv, TypeOK
<1>3. Idle' /\ InitProgress'
  BY <1>1, <1>2 DEF Idle, InitProgress, Running, InMapOne
<1>4. InitDone'
  <2>1. SUFFICES ASSUME call = "init", ~PoolReached, NEW i \in DOMAIN InitRegions
                 PROVE  WholeMapped(InitRegions[i])'
    BY <1>1 DEF InitDone, PoolReached
  <2>2. i \in 1 .. Nth
    BY <1>1, ListFacts DEF Nth
  <2>3. WholeMapped(InitRegions[i])
    BY <1>1, <2>1, <2>2, RegionDone
  <2>4. PICK r : r = InitRegions[i]
    OBVIOUS
  <2>5. WholeMapped(r)'
    BY <1>1, <2>3, <2>4
    DEF WholeMapped, Holds, End, Wrap, Mapped, Translate, paging_leaf_flags
  <2> QED  BY <2>4, <2>5
<1> QED  BY <1>3, <1>4 DEF SInv

LEMMA InitFailsOK ==
  ASSUME IInv, SInv, map_page_refuse \/ walk_alloc_fail \/ walk_conflict
  PROVE  SInv'
<1>1. Return(FALSE) /\ pc \in {"range", "walk"}
  BY DEF map_page_refuse, walk_alloc_fail, walk_conflict
<1>2. call \in {"mmio", "init", "map"}
  BY <1>1 DEF IInv, TypeOK, PointerOK, InMapOne
<1>3. job' = NoRegion /\ call' = call /\ pc' = IF call = "map" THEN "up" ELSE "halt"
  BY <1>1, <1>2 DEF Return, NoLocals
<1> QED  BY <1>3 DEF SInv, Idle, InitProgress, InitDone, Running, InMapOne

LEMMA SInitOK == Init => SInv
<1> SUFFICES ASSUME Init PROVE SInv
  OBVIOUS
<1>1. pc = "start" /\ call = NULL /\ job = NoRegion
  BY DEF Init
<1> QED  BY <1>1 DEF SInv, Idle, InitProgress, InitDone, Running, InMapOne

LEMMA SCallOK ==
  ASSUME IInv, SInv,
         \/ paging_early_init \/ (\E m \in MmioCalls : paging_map_mmio(m)) \/ paging_init
         \/ (\E r \in MapCalls : paging_map_range(r))
  PROVE  SInv'
<1>1. pc \in {"start", "early", "uart", "up"}
  BY DEF paging_early_init, paging_map_mmio, paging_init, paging_map_range
<1>2. ~Running /\ job = NoRegion
  BY <1>1 DEF SInv, Idle, Running, InMapOne
<1>3. CASE paging_early_init
  <2>1. job' = job /\ pc' \in {"early", "halt"}
    BY <1>3 DEF paging_early_init, callVars
  <2> QED  BY <1>2, <2>1, InitOutside
<1>4. CASE \E m \in MmioCalls : paging_map_mmio(m)
  <2>1. (job' = job /\ pc' = "halt") \/ \E ranges : Begin("mmio", ranges)
    BY <1>4 DEF paging_map_mmio
  <2>2. ASSUME NEW ranges, Begin("mmio", ranges) PROVE SInv'
    BY <1>2, <2>2, InitBegins
  <2> QED  BY <1>2, <2>1, <2>2, InitOutside
<1>5. CASE paging_init
  <2>1. (job' = job /\ pc' = "halt") \/ Begin("init", InitRegions)
    BY <1>5 DEF paging_init
  <2>2. ASSUME Begin("init", InitRegions) PROVE SInv'
    BY <1>2, <2>2, InitBegins
  <2> QED  BY <1>2, <2>1, <2>2, InitOutside
<1>6. CASE \E r \in MapCalls : paging_map_range(r)
  <2>1. PICK r \in MapCalls : Begin("map", <<r>>)
    BY <1>6 DEF paging_map_range
  <2> QED  BY <1>2, <2>1, InitBegins
<1> QED  BY <1>3, <1>4, <1>5, <1>6

LEMMA SNextOK ==
  ASSUME IInv, MInv, MInv', SInv, [Next]_vars
  PROVE  SInv'
<1>1. CASE Step
  <2>1. CASE paging_early_init \/ (\E m \in MmioCalls : paging_map_mmio(m)) \/ paging_init
    BY <2>1, SCallOK
  <2>2. CASE range_next
    BY <2>2, NextRegionOK
  <2>3. CASE range_return
    BY <2>3, InitEndOK
  <2>4. CASE map_page_refuse \/ walk_alloc_fail \/ walk_conflict
    BY <2>4, InitFailsOK
  <2>5. CASE paging_map_page \/ walk_alloc
    <3>1. UNCHANGED <<satp, job, todo, call>> /\ Running /\ Running'
      BY <2>5 DEF paging_map_page, walk_alloc, envVars, Running, InMapOne
    <3> QED  BY <3>1, InitStays
  <2>6. CASE walk_link \/ walk_table
    <3>1. UNCHANGED <<satp, job, todo, call>> /\ Running /\ Running'
      BY <2>6 DEF walk_link, walk_table, Descend, envVars, Running, InMapOne
    <3> QED  BY <3>1, InitStays
  <2>7. CASE walk_leaf_covers \/ leaf_covers \/ leaf_fence
    <3>1. UNCHANGED <<satp, job, todo, call>> /\ Running /\ Running'
      BY <2>7 DEF walk_leaf_covers, leaf_covers, leaf_fence, NextPage, envVars, Running, InMapOne
    <3> QED  BY <3>1, InitStays
  <2>8. CASE leaf_write
    <3>1. UNCHANGED <<satp, job, todo, call>> /\ Running /\ Running'
      BY <2>8 DEF leaf_write, envVars, callVars, Running, InMapOne
    <3> QED  BY <3>1, InitStays
  <2> QED  BY <1>1, <2>1, <2>2, <2>3, <2>4, <2>5, <2>6, <2>7, <2>8 DEF Step
<1>2. CASE \E r \in MapCalls : paging_map_range(r)
  BY <1>2, SCallOK
<1>3. CASE Hart \/ Halted \/ UNCHANGED vars
  <2>1. UNCHANGED <<satp, mem, pc, callVars>>
    BY <1>3 DEF Hart, TlbDrop, TlbFill, Halted, vars, envVars
  <2> QED  BY <2>1, InitQuiet
<1> QED  BY <1>1, <1>2, <1>3 DEF Next

LEMMA SInvariant == Spec => []SInv
<1>1. Init => SInv
  BY SInitOK
<1>2. IInv /\ MInv /\ MInv' /\ SInv /\ [Next]_vars => SInv'
  BY SNextOK
<1> QED  BY <1>1, <1>2, Invariant, MInvariant, PTL DEF Spec

-----------------------------------------------------------------------------
(***************************************************************************)
(* The page of a byte, and the pages of a region of bytes.                 *)
(***************************************************************************)
LEMMA DownIs ==
  ASSUME NEW a \in Nat, NEW q \in Nat, NEW x \in Nat, a = PAGE_SIZE * q + x, x < PAGE_SIZE
  PROVE  PAGE_ALIGN_DOWN(a) = PAGE_SIZE * q
<1>1. PICK P \in Nat \ {0} : P = PAGE_SIZE
  BY PageSizeAssumption
<1>2. P * q <= a /\ a < P * (q + 1)
  BY <1>1
<1>3. a \div P = q
  BY <1>2, DivUnique
<1>4. q * P = P * q
  OBVIOUS
<1> QED  BY <1>1, <1>3, <1>4 DEF PAGE_ALIGN_DOWN

LEMMA DownFacts ==
  ASSUME NEW a \in Nat
  PROVE  \E q, x \in Nat : /\ a = PAGE_SIZE * q + x /\ x < PAGE_SIZE
                           /\ PAGE_ALIGN_DOWN(a) = PAGE_SIZE * q
<1>1. PICK P \in Nat \ {0} : P = PAGE_SIZE
  BY PageSizeAssumption
<1>2. PICK q, x \in Nat : a = P * q + x /\ x < P
  BY Euclid
<1>3. PAGE_ALIGN_DOWN(a) = PAGE_SIZE * q
  BY <1>1, <1>2, DownIs
<1> QED  BY <1>1, <1>2, <1>3

LEMMA UpFacts ==
  ASSUME NEW a \in Nat
  PROVE  \E q \in Nat : PAGE_ALIGN_UP(a) = PAGE_SIZE * q /\ a <= PAGE_SIZE * q
                        /\ PAGE_SIZE * q < a + PAGE_SIZE
<1>1. PICK P \in Nat \ {0} : P = PAGE_SIZE
  BY PageSizeAssumption
<1>2. PICK b \in Nat : b = a + P - 1
  OBVIOUS
<1>3. PICK q, x \in Nat : q = b \div P /\ b = P * q + x /\ x < P
  BY Euclid
<1>4. a <= P * q /\ P * q < a + P
  BY <1>2, <1>3
<1>5. q * P = P * q
  OBVIOUS
<1> QED  BY <1>1, <1>2, <1>3, <1>4, <1>5 DEF PAGE_ALIGN_UP

LEMMA UpWhole ==
  ASSUME NEW k \in Nat
  PROVE  PAGE_ALIGN_UP(PAGE_SIZE * k) = PAGE_SIZE * k
<1>1. PICK P \in Nat \ {0} : P = PAGE_SIZE
  BY PageSizeAssumption
<1>2. PICK b \in Nat : b = P * k + P - 1
  OBVIOUS
<1>3. P * k <= b /\ b < P * (k + 1)
  BY <1>2
<1>4. b \div P = k
  BY <1>3, DivUnique
<1>5. k * P = P * k
  OBVIOUS
<1> QED  BY <1>1, <1>2, <1>4, <1>5 DEF PAGE_ALIGN_UP

LEMMA MultipleOrder ==
  ASSUME NEW P \in Nat \ {0}, NEW a \in Nat, NEW b \in Nat
  PROVE  /\ P * a < P * b + P => P * a <= P * b
         /\ a <= b => P * a <= P * b
         /\ P * a <= P * b => \E d \in Nat : P * b = P * a + P * d /\ b = a + d
<1>1. CASE a <= b
  <2>1. PICK d \in Nat : b = a + d
    BY <1>1
  <2>2. P * b = P * a + P * d /\ P * d \in Nat
    BY <2>1
  <2> QED  BY <2>1, <2>2
<1>2. CASE b < a
  <2>1. PICK d \in Nat : a = b + 1 + d
    BY <1>2
  <2>2. P * a = P * b + P + P * d /\ P * d \in Nat
    BY <2>1
  <2>3. P * b \in Nat /\ P * a \in Nat
    OBVIOUS
  <2> QED  BY <1>2, <2>2, <2>3
<1> QED  BY <1>1, <1>2

LEMMA WholePage ==
  ASSUME NEW k \in Nat, PAGE_SIZE * k < AddrSpan
  PROVE  PAGE_SIZE * k \in Pages /\ PAGE_SIZE * k \in Address
<1>1. PICK P \in Nat \ {0} : P = PAGE_SIZE
  BY PageSizeAssumption
<1>2. P * k \in Nat
  OBVIOUS
<1>3. (0 + P * k) % P = 0
  <2>1. 0 \in Nat /\ 0 < P /\ k \in Int
    OBVIOUS
  <2> QED  BY <2>1, ModShift
<1>4. (P * k) % P = 0
  BY <1>2, <1>3
<1> QED  BY <1>1, <1>2, <1>4, PagingAssumption DEF Pages, Address

LEMMA WholeNat ==
  ASSUME NEW n \in Nat, n % PAGE_SIZE = 0
  PROVE  \E k \in Nat : n = PAGE_SIZE * k
<1>1. PICK P \in Nat \ {0} : P = PAGE_SIZE
  BY PageSizeAssumption
<1>2. PICK k, z \in Nat : k = n \div P /\ z = n % P /\ n = P * k + z /\ z < P
  BY Euclid
<1>3. z = 0
  BY <1>1, <1>2
<1>4. n = PAGE_SIZE * k
  BY <1>1, <1>2, <1>3
<1> QED  BY <1>4

(***************************************************************************)
(* The region that covers the bytes from lo up to hi starts at page number *)
(* s, ends at page number e and is d pages long; byte a, the x-th of page  *)
(* number q, lies between.                                                 *)
(***************************************************************************)
PageOf(P, lo, hi, a, s, q, x, e, d) ==
  /\ PAGE_ALIGN_DOWN(lo) = P * s /\ PAGE_ALIGN_DOWN(a) = P * q
  /\ PAGE_ALIGN_UP(hi) = P * e
  /\ a = P * q + x /\ x < P
  /\ P * s <= P * q /\ P * q < P * e
  /\ P * e = P * s + P * d
  /\ PAGE_ALIGN_UP(P * d) = P * d

LEMMA PageInside ==
  ASSUME NEW lo \in Nat, NEW hi \in Nat, NEW a \in lo .. hi - 1,
         NEW P \in Nat \ {0}, P = PAGE_SIZE
  PROVE  \E s, q, x, e, d \in Nat : PageOf(P, lo, hi, a, s, q, x, e, d)
<1>1. P = PAGE_SIZE
  OBVIOUS
<1>2. PICK s, z \in Nat : lo = P * s + z /\ z < P /\ PAGE_ALIGN_DOWN(lo) = P * s
  BY <1>1, DownFacts
<1>3. a \in Nat /\ lo <= a /\ a < hi
  OBVIOUS
<1>4. PICK q, x \in Nat : a = P * q + x /\ x < P /\ PAGE_ALIGN_DOWN(a) = P * q
  BY <1>1, <1>3, DownFacts
<1>5. PICK e \in Nat : PAGE_ALIGN_UP(hi) = P * e /\ hi <= P * e
  BY <1>1, UpFacts
<1>6. P * s \in Nat /\ P * q \in Nat /\ P * e \in Nat
  OBVIOUS
<1>7. P * s <= P * q
  <2>1. P * s < P * q + P
    BY <1>2, <1>3, <1>4, <1>6
  <2> QED  BY <2>1, MultipleOrder
<1>8. P * q < P * e
  BY <1>3, <1>4, <1>5, <1>6
<1>9. PICK d \in Nat : P * e = P * s + P * d /\ e = s + d
  <2>1. P * s <= P * e
    BY <1>6, <1>7, <1>8
  <2> QED  BY <2>1, MultipleOrder
<1>10. PAGE_ALIGN_UP(P * d) = P * d
  BY <1>1, UpWhole
<1>11. PageOf(P, lo, hi, a, s, q, x, e, d)
  BY <1>2, <1>4, <1>5, <1>7, <1>8, <1>9, <1>10 DEF PageOf
<1> QED  BY <1>11

LEMMA HhdmPage ==
  ASSUME NEW base \in Nat, NEW size \in Nat, NEW a \in base .. base + size - 1,
         PAGE_ALIGN_UP(base + size) + HhdmOffset < AddrSpan,
         NEW r, r = Region(PHYS_TO_VIRT(PAGE_ALIGN_DOWN(base)), PAGE_ALIGN_DOWN(base),
                           PAGE_ALIGN_UP(base + size) - PAGE_ALIGN_DOWN(base), PAGING_PROT_RWG),
         NEW v, v = PAGE_ALIGN_DOWN(PHYS_TO_VIRT(a))
  PROVE  v \in Pages /\ Holds(r, v) /\ Wrap(r.phys + (v - r.virt)) = PAGE_ALIGN_DOWN(a)
<1>1. PICK P \in Nat \ {0} : P = PAGE_SIZE
  BY PageSizeAssumption
<1>2. PICK s, q, x, e, d \in Nat :
           /\ PAGE_ALIGN_DOWN(base) = P * s /\ PAGE_ALIGN_DOWN(a) = P * q
           /\ PAGE_ALIGN_UP(base + size) = P * e
           /\ a = P * q + x /\ x < P
           /\ P * s <= P * q /\ P * q < P * e
           /\ P * e = P * s + P * d
           /\ PAGE_ALIGN_UP(P * d) = P * d
  <2>1. PICK hi \in Nat : hi = base + size
    OBVIOUS
  <2>2. a \in base .. hi - 1
    BY <2>1
  <2>3. PICK s, q, x, e, d \in Nat : PageOf(P, base, hi, a, s, q, x, e, d)
    BY <1>1, <2>2, PageInside
  <2> QED  BY <2>1, <2>3 DEF PageOf
<1>3. PICK H \in Nat, h \in Nat : H = HhdmOffset /\ H = P * h
  <2>1. PICK H \in Nat : H = HhdmOffset
    BY HhdmAssumption
  <2>2. HhdmOffset % PAGE_SIZE = 0
    BY HhdmAssumption
  <2>3. H % PAGE_SIZE = 0
    BY <2>1, <2>2
  <2>4. PICK h \in Nat : H = PAGE_SIZE * h
    BY <2>3, WholeNat
  <2> QED  BY <1>1, <2>1, <2>4
<1>4. PICK S \in Nat, Q \in Nat, E \in Nat, D \in Nat :
        S = P * s /\ Q = P * q /\ E = P * e /\ D = P * d
  OBVIOUS
<1>5. S <= Q /\ Q < E /\ E = S + D /\ E + H < AddrSpan /\ a = Q + x /\ x < P /\ a < E + 0
  <2>1. S <= Q /\ Q < E /\ E = S + D /\ E + H < AddrSpan /\ a = Q + x /\ x < P
    BY <1>2, <1>3, <1>4
  <2>2. a < base + size
    OBVIOUS
  <2>3. base + size <= E
    <3>1. PICK hi \in Nat : hi = base + size
      OBVIOUS
    <3>2. PICK k \in Nat : PAGE_ALIGN_UP(hi) = PAGE_SIZE * k /\ hi <= PAGE_SIZE * k
      BY UpFacts
    <3> QED  BY <1>2, <1>4, <3>1, <3>2
  <2> QED  BY <2>1, <2>2, <2>3
<1>6. S + H \in Address /\ a + H \in Address /\ Q \in Address /\ E + H \in Address
  BY <1>3, <1>5, PagingAssumption DEF Address
<1>7. PHYS_TO_VIRT(S) = S + H /\ PHYS_TO_VIRT(a) = a + H
  BY <1>3, <1>6, WrapSmall DEF PHYS_TO_VIRT
<1>8. v = Q + H
  <2>1. PICK k \in Nat, b \in Nat : k = q + h /\ b = a + H
    BY <1>5
  <2>2. P * k = Q + H
    BY <1>3, <1>4, <2>1
  <2>3. b = P * k + x
    BY <1>5, <2>1, <2>2
  <2>4. PAGE_ALIGN_DOWN(b) = P * k
    BY <1>1, <1>5, <2>3, DownIs
  <2> QED  BY <1>7, <2>1, <2>2, <2>4
<1>9. v \in Pages
  <2>1. PICK k \in Nat : k = q + h
    OBVIOUS
  <2>2. P * k = Q + H
    BY <1>3, <1>4, <2>1
  <2>3. P * k < AddrSpan
    BY <1>3, <1>5, <2>2, PagingAssumption
  <2>4. PAGE_SIZE * k \in Pages
    BY <1>1, <2>3, WholePage
  <2> QED  BY <1>1, <1>8, <2>2, <2>4
<1>10. r.virt = S + H /\ r.phys = S /\ r.size = E - S
  BY <1>2, <1>4, <1>7 DEF Region
<1>11. End(r) = E + H
  <2>1. r.size = D /\ PAGE_ALIGN_UP(D) = D
    BY <1>2, <1>4, <1>5, <1>10
  <2>2. S + H + D = E + H
    BY <1>5
  <2> QED  BY <1>6, <1>10, <2>1, <2>2, WrapSmall DEF End
<1>12. Holds(r, v)
  BY <1>5, <1>8, <1>10, <1>11 DEF Holds
<1>13. r.phys + (v - r.virt) = Q
  BY <1>8, <1>10
<1>14. Wrap(Q) = Q
  BY <1>6, WrapSmall
<1> QED  BY <1>2, <1>4, <1>9, <1>12, <1>13, <1>14

LEMMA SegmentPage ==
  ASSUME NEW seg, seg.start \in Nat, seg.end \in Nat, NEW a \in seg.start .. seg.end - 1,
         KernelVirt <= PAGE_ALIGN_DOWN(seg.start), PAGE_ALIGN_UP(seg.end) < AddrSpan,
         KernelPhys + (PAGE_ALIGN_UP(seg.end) - KernelVirt) < AddrSpan,
         NEW r, r = paging_map_kernel_segment(seg), NEW v, v = PAGE_ALIGN_DOWN(a)
  PROVE  /\ v \in Pages /\ Holds(r, v)
         /\ Wrap(r.phys + (v - r.virt)) = PAGE_ALIGN_DOWN(KernelPhys + (a - KernelVirt))
<1>1. PICK P \in Nat \ {0} : P = PAGE_SIZE
  BY PageSizeAssumption
<1>2. PICK lo \in Nat, hi \in Nat : lo = seg.start /\ hi = seg.end /\ a \in lo .. hi - 1
  OBVIOUS
<1>3. PICK s, q, x, e, d \in Nat :
           /\ PAGE_ALIGN_DOWN(lo) = P * s /\ PAGE_ALIGN_DOWN(a) = P * q
           /\ PAGE_ALIGN_UP(hi) = P * e
           /\ a = P * q + x /\ x < P
           /\ P * s <= P * q /\ P * q < P * e
           /\ P * e = P * s + P * d
           /\ PAGE_ALIGN_UP(P * d) = P * d
  <2>1. PICK s, q, x, e, d \in Nat : PageOf(P, lo, hi, a, s, q, x, e, d)
    BY <1>1, <1>2, PageInside
  <2> QED  BY <2>1 DEF PageOf
<1>4. PICK KP \in Nat, kp \in Nat : KP = KernelPhys /\ KP = P * kp
  <2>1. PICK KP \in Nat : KP = KernelPhys
    BY HhdmAssumption
  <2>2. KernelPhys % PAGE_SIZE = 0
    BY RegionsAssumption
  <2>3. KP % PAGE_SIZE = 0
    BY <2>1, <2>2
  <2>4. PICK kp \in Nat : KP = PAGE_SIZE * kp
    BY <2>3, WholeNat
  <2> QED  BY <1>1, <2>1, <2>4
<1>5. PICK KV \in Nat, kv \in Nat : KV = KernelVirt /\ KV = P * kv
  <2>1. PICK KV \in Nat : KV = KernelVirt
    BY HhdmAssumption
  <2>2. KernelVirt % PAGE_SIZE = 0
    BY RegionsAssumption
  <2>3. KV % PAGE_SIZE = 0
    BY <2>1, <2>2
  <2>4. PICK kv \in Nat : KV = PAGE_SIZE * kv
    BY <2>3, WholeNat
  <2> QED  BY <1>1, <2>1, <2>4
<1>6. PICK S \in Nat, Q \in Nat, E \in Nat, D \in Nat :
        S = P * s /\ Q = P * q /\ E = P * e /\ D = P * d
  OBVIOUS
<1>7. /\ S <= Q /\ Q < E /\ E = S + D /\ E < AddrSpan /\ a = Q + x /\ x < P
      /\ KV <= S /\ KP + (E - KV) < AddrSpan
  BY <1>2, <1>3, <1>4, <1>5, <1>6
<1>8. PICK B \in Nat, C \in Nat : B = KP + (S - KV) /\ C = KP + (Q - KV)
  BY <1>7
<1>9. Q \in Address /\ E \in Address /\ B \in Address /\ C \in Address
  BY <1>7, <1>8, PagingAssumption DEF Address
<1>10. v = Q /\ v \in Pages
  <2>1. P * q < AddrSpan
    BY SMTT(30), <1>6, <1>7, PagingAssumption
  <2>2. PAGE_SIZE * q \in Pages
    BY <1>1, <2>1, WholePage
  <2> QED  BY <1>1, <1>3, <1>6, <2>2
<1>11. r.virt = S /\ r.phys = B /\ r.size = E - S
  <2>1. Wrap(E) = E /\ Wrap(B) = B
    BY <1>9, WrapSmall
  <2> QED  BY <1>2, <1>3, <1>4, <1>5, <1>6, <1>8, <2>1 DEF paging_map_kernel_segment, Region
<1>12. End(r) = E
  <2>1. r.size = D /\ PAGE_ALIGN_UP(D) = D
    BY <1>3, <1>6, <1>7, <1>11
  <2>2. S + D = E
    BY <1>7
  <2> QED  BY <1>9, <1>11, <2>1, <2>2, WrapSmall DEF End
<1>13. Holds(r, v)
  BY <1>7, <1>10, <1>11, <1>12 DEF Holds
<1>14. Wrap(r.phys + (v - r.virt)) = C
  <2>1. B + (Q - S) = C
    BY <1>8
  <2> QED  BY <1>9, <1>10, <1>11, <2>1, WrapSmall
<1>15. PAGE_ALIGN_DOWN(KP + (a - KV)) = C
  <2>1. P * kv <= P * q
    BY <1>5, <1>6, <1>7
  <2>2. PICK g \in Nat : P * q = P * kv + P * g /\ q = kv + g
    BY <2>1, MultipleOrder
  <2>3. PICK k \in Nat : k = kp + g
    OBVIOUS
  <2>4. P * k = C
    <3>1. P * k = P * kp + P * g
      BY <2>3
    <3> QED  BY <1>4, <1>5, <1>6, <1>8, <2>2, <3>1
  <2>5. PICK b \in Nat : b = KP + (a - KV) /\ b = P * k + x
    BY <1>7, <1>8, <2>4
  <2>6. PAGE_ALIGN_DOWN(b) = P * k
    BY <1>1, <1>7, <2>5, DownIs
  <2> QED  BY <2>4, <2>5, <2>6
<1> QED  BY <1>4, <1>5, <1>10, <1>13, <1>14, <1>15

(***************************************************************************)
(* Once paging_init has returned true, every page that the memory map      *)
(* touches is in the HHDM and every page of a kernel segment is mapped     *)
(* with its permissions, whatever the boot loader's tables held before and *)
(* however the regions share pages, unless a table came from the early     *)
(* pool.                                                                   *)
(***************************************************************************)
THEOREM InitMapsRegions == Spec => []InitMapsAll
<1>1. ASSUME IInv, SInv PROVE InitMapsAll
  <2> USE <1>1
  <2>1. SUFFICES ASSUME ~PoolUsed, pc = "up", call = "init" PROVE InitOkMapsAll
    BY DEF InitMapsAll, InitOkMapsAll
  <2>2. ~PoolReached
    <3>1. paging_satp_levels(satp) # 0
      BY <2>1 DEF IInv, RootKnown
    <3> QED  BY <2>1, <3>1, PoolReachedIsUsed
  <2>3. \A i \in DOMAIN InitRegions : WholeMapped(InitRegions[i])
    BY <2>1, <2>2 DEF SInv, InitDone
  <2>4. /\ MemMap \in Seq([base : Address, length : Nat])
        /\ Segments \in Seq([start : Address, end : Nat, flags : Flags])
    BY CallsAssumption
  <2>5. /\ Len(MemMap) \in Nat /\ DOMAIN MemMap = 1 .. Len(MemMap)
        /\ Len(Segments) \in Nat /\ DOMAIN Segments = 1 .. Len(Segments)
    BY <2>4
  <2>6. /\ Len(paging_map_hhdm) = Len(MemMap) /\ Len(paging_map_kernel_segments) = Len(Segments)
    <3>1. DOMAIN paging_map_hhdm = 1 .. Len(MemMap)
      BY <2>5 DEF paging_map_hhdm
    <3>2. DOMAIN paging_map_kernel_segments = 1 .. Len(Segments)
      BY <2>5 DEF paging_map_kernel_segments
    <3>3. PICK A \in Seq(Regions), B \in Seq(Regions) :
            A = paging_map_hhdm /\ B = paging_map_kernel_segments
      BY InitRanges
    <3>4. Len(A) = Len(MemMap) /\ Len(B) = Len(Segments)
      BY <2>5, <3>1, <3>2, <3>3
    <3> QED  BY <3>3, <3>4
  <2>7. /\ \A i \in 1 .. Len(MemMap) :
             i \in DOMAIN InitRegions /\ InitRegions[i] = HhdmRegion(MemMap[i])
        /\ \A i \in 1 .. Len(Segments) :
             /\ Len(MemMap) + i \in DOMAIN InitRegions
             /\ InitRegions[Len(MemMap) + i] = paging_map_kernel_segment(Segments[i])
    <3>1. PICK A \in Seq(Regions), B \in Seq(Regions) :
            A = paging_map_hhdm /\ B = paging_map_kernel_segments
      BY InitRanges
    <3>2. InitRegions = A \o B
      BY <3>1 DEF InitRegions
    <3>3. /\ \A i \in 1 .. Len(A) : i \in DOMAIN (A \o B) /\ (A \o B)[i] = A[i]
          /\ \A i \in 1 .. Len(B) : Len(A) + i \in DOMAIN (A \o B) /\ (A \o B)[Len(A) + i] = B[i]
      OBVIOUS
    <3>4. \A i \in 1 .. Len(MemMap) : A[i] = HhdmRegion(MemMap[i])
      BY <2>5, <3>1 DEF paging_map_hhdm
    <3>5. \A i \in 1 .. Len(Segments) : B[i] = paging_map_kernel_segment(Segments[i])
      BY <2>5, <3>1 DEF paging_map_kernel_segments
    <3> QED  BY <2>6, <3>1, <3>2, <3>3, <3>4, <3>5
  <2>8. ASSUME NEW i \in DOMAIN MemMap,
               NEW a \in MemMap[i].base .. MemMap[i].base + MemMap[i].length - 1,
               NEW v, v = PAGE_ALIGN_DOWN(PHYS_TO_VIRT(a))
        PROVE  /\ Translate(v) # NULL /\ Translate(v).phys = PAGE_ALIGN_DOWN(a)
               /\ {"R", "W"} \subseteq Translate(v).perm
    <3>1. MemMap[i] \in [base : Address, length : Nat]
      <4>1. PICK Entries : Entries = [base : Address, length : Nat]
        OBVIOUS
      <4>2. MemMap \in Seq(Entries)
        BY <2>4, <4>1
      <4>3. MemMap[i] \in Entries
        BY <4>2
      <4> QED  BY <4>1, <4>3
    <3>2. MemMap[i].base \in Nat /\ MemMap[i].length \in Nat
      BY <3>1, PagingAssumption DEF Address
    <3>3. PICK r : r = HhdmRegion(MemMap[i])
      OBVIOUS
    <3>4. v \in Pages /\ Holds(r, v) /\ Wrap(r.phys + (v - r.virt)) = PAGE_ALIGN_DOWN(a)
      <4>1. PICK b \in Nat, n \in Nat : b = MemMap[i].base /\ n = MemMap[i].length
        BY <3>2
      <4>2. a \in b .. b + n - 1 /\ PAGE_ALIGN_UP(b + n) + HhdmOffset < AddrSpan
        BY <4>1, RegionsAssumption
      <4>3. r = Region(PHYS_TO_VIRT(PAGE_ALIGN_DOWN(b)), PAGE_ALIGN_DOWN(b),
                       PAGE_ALIGN_UP(b + n) - PAGE_ALIGN_DOWN(b), PAGING_PROT_RWG)
        BY <3>3, <4>1 DEF HhdmRegion
      <4>4. v = PAGE_ALIGN_DOWN(PHYS_TO_VIRT(a))
        BY <2>8
      <4> QED  BY <4>2, <4>3, <4>4, HhdmPage
    <3>5. Mapped(r, v)
      BY <2>3, <2>5, <2>7, <3>3, <3>4 DEF WholeMapped
    <3>6. r.flags = {"R", "W", "G"}
      BY <3>3 DEF HhdmRegion, Region, PAGING_PROT_RWG
    <3>7. {"R", "W"} \subseteq paging_leaf_flags(r.flags) \cap RWX
      BY <3>6 DEF paging_leaf_flags, RWX
    <3> QED  BY <3>4, <3>5, <3>7 DEF Mapped
  <2>9. ASSUME NEW i \in DOMAIN Segments, NEW a \in Segments[i].start .. Segments[i].end - 1,
               NEW v, v = PAGE_ALIGN_DOWN(a)
        PROVE  /\ Translate(v) # NULL
               /\ Translate(v).phys = PAGE_ALIGN_DOWN(KernelPhys + (a - KernelVirt))
               /\ Segments[i].flags \cap RWX \subseteq Translate(v).perm
    <3>1. Segments[i] \in [start : Address, end : Nat, flags : Flags]
      <4>1. PICK Entries : Entries = [start : Address, end : Nat, flags : Flags]
        OBVIOUS
      <4>2. Segments \in Seq(Entries)
        BY <2>4, <4>1
      <4>3. Segments[i] \in Entries
        BY <4>2
      <4> QED  BY <4>1, <4>3
    <3>2. PICK seg : seg = Segments[i]
      OBVIOUS
    <3>3. seg.start \in Nat /\ seg.end \in Nat /\ seg.flags \in Flags
      BY <3>1, <3>2, PagingAssumption DEF Address
    <3>4. PICK r : r = paging_map_kernel_segment(seg)
      OBVIOUS
    <3>5. /\ v \in Pages /\ Holds(r, v)
          /\ Wrap(r.phys + (v - r.virt)) = PAGE_ALIGN_DOWN(KernelPhys + (a - KernelVirt))
      <4>1. /\ KernelVirt <= PAGE_ALIGN_DOWN(seg.start) /\ PAGE_ALIGN_UP(seg.end) < AddrSpan
            /\ KernelPhys + (PAGE_ALIGN_UP(seg.end) - KernelVirt) < AddrSpan
            /\ a \in seg.start .. seg.end - 1
        BY <3>2, RegionsAssumption
      <4> QED  BY <2>9, <3>3, <3>4, <4>1, SegmentPage
    <3>6. Mapped(r, v)
      BY <2>3, <2>5, <2>7, <3>2, <3>4, <3>5 DEF WholeMapped
    <3>7. r.flags = seg.flags
      BY <3>4 DEF paging_map_kernel_segment, Region
    <3>8. seg.flags \cap RWX \subseteq paging_leaf_flags(r.flags) \cap RWX
      BY <3>3, <3>7 DEF paging_leaf_flags, RWX, Flags
    <3> QED  BY <3>2, <3>5, <3>6, <3>8 DEF Mapped
  <2> QED  BY <2>8, <2>9 DEF InitOkMapsAll
<1> QED  BY <1>1, Invariant, SInvariant, PTL
=============================================================================
