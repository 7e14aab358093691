------------------------------ MODULE DtbProof ------------------------------
(***************************************************************************)
(* Proofs about the device tree lookups, for every blob, well formed or    *)
(* not, every header and every list of names.                              *)
(***************************************************************************)
EXTENDS DtbProps, FiniteSetTheorems, WellFoundedInduction, TLAPS

-----------------------------------------------------------------------------
(***************************************************************************)
(* ReadsInside is not inductive: that a walk is running says something of  *)
(* the header only because dtb_ready was tested before it began, and       *)
(* uart_find_port reads a node only after a walk has found one.            *)
(***************************************************************************)
HeaderOK ==
  \A f \in {"total", "off_struct", "size_struct", "off_strings", "size_strings"} :
    header[f] \in Nat

ReadyMeans == dtb_ready => header.resp = "blob" /\ fdt_init(header)

WalksWhenReady ==
  /\ pc \in {"walk", "done"}
  /\ pc = "walk" \/ found \/ at \in {"reg", "found"} => dtb_ready

HeaderInv == HeaderOK /\ ReadyMeans /\ WalksWhenReady

LEMMA HeaderInit == Init => HeaderInv
<1> SUFFICES ASSUME Init PROVE HeaderInv
  OBVIOUS
<1>1. HeaderOK
  BY DtbAssumption DEF Init, HeaderOK
<1> QED  BY <1>1 DEF Init, NoCallYet, HeaderInv, ReadyMeans, WalksWhenReady

(***************************************************************************)
(* A token of the walk: it goes on or ends, and finds something only while *)
(* it runs.                                                                *)
(***************************************************************************)
LEMMA WalkStep == ASSUME HeaderInv, Walk, UNCHANGED dtbVars PROVE HeaderInv'
<1>1. pc = "walk" /\ pc' \in {"walk", "done"}
  BY DEF Walk, walk_begin, walk_end, walk_prop, walk_nop, walk_stop, walk_off_end, Reads, Fails
<1>2. UNCHANGED <<header, dtb_ready, at>>
  BY DEF dtbVars
<1>3. HeaderOK' /\ ReadyMeans'
  BY <1>2 DEF HeaderInv, HeaderOK, ReadyMeans, fdt_init, fdt_range_valid
<1>4. dtb_ready'
  BY <1>1, <1>2 DEF HeaderInv, WalksWhenReady
<1> QED  BY <1>1, <1>3, <1>4 DEF HeaderInv, WalksWhenReady

(***************************************************************************)
(* A lookup starts a walk only if there is a tree.                         *)
(***************************************************************************)
LEMMA LookupStep ==
  ASSUME HeaderInv, NEW o, NEW a, Lookup(o, a), UNCHANGED <<header, dtb_ready>>,
         at' \notin {"reg", "found"}
  PROVE  HeaderInv'
<1>1. HeaderOK' /\ ReadyMeans'
  BY DEF HeaderInv, HeaderOK, ReadyMeans, fdt_init, fdt_range_valid
<1>2. CASE dtb_ready
  BY <1>1, <1>2 DEF HeaderInv, WalksWhenReady, Lookup, fdt_walk_init
<1>3. CASE ~dtb_ready
  BY <1>1, <1>3 DEF HeaderInv, WalksWhenReady, Lookup
<1> QED  BY <1>2, <1>3

(***************************************************************************)
(* A step of uart_find_port that starts no lookup.                         *)
(***************************************************************************)
LEMMA QuietStep ==
  ASSUME HeaderInv, UNCHANGED <<vars, header, dtb_ready>>,
         at' \in {"reg", "found"} => found \/ at = "reg" \/ at' = at
  PROVE  HeaderInv'
<1>1. HeaderOK' /\ ReadyMeans'
  BY DEF HeaderInv, HeaderOK, ReadyMeans, fdt_init, fdt_range_valid
<1> QED  BY <1>1 DEF HeaderInv, WalksWhenReady, vars

LEMMA HeaderStep == HeaderInv /\ [Next]_allVars => HeaderInv'
<1> SUFFICES ASSUME HeaderInv, [Next]_allVars PROVE HeaderInv'
  OBVIOUS
<1>1. CASE Walk /\ UNCHANGED dtbVars
  BY <1>1, WalkStep
<1>2. CASE dtb_init
  <2>1. HeaderOK'
    BY <1>2 DEF dtb_init, HeaderInv, HeaderOK
  <2>2. ReadyMeans'
    BY <1>2 DEF dtb_init, ReadyMeans, fdt_init, fdt_range_valid
  <2>3. ~found \/ dtb_ready
    BY DEF HeaderInv, WalksWhenReady
  <2>4. ASSUME ~dtb_ready PROVE WalksWhenReady'
    BY <1>2, <2>4 DEF dtb_init, At, vars, HeaderInv, WalksWhenReady
  <2>5. ASSUME dtb_ready PROVE dtb_ready'
    BY <1>2, <2>5 DEF dtb_init, HeaderInv, ReadyMeans
  <2>6. ASSUME dtb_ready PROVE WalksWhenReady'
    BY <1>2, <2>5, <2>6 DEF dtb_init, At, vars, HeaderInv, WalksWhenReady
  <2> QED  BY <2>1, <2>2, <2>4, <2>6 DEF HeaderInv
<1>3. CASE uart_find_port
  BY <1>3, LookupStep DEF uart_find_port
<1>4. CASE get_stdout_path
  <2>1. UNCHANGED <<header, dtb_ready>> /\ at' \in {"search", "path", "alias"}
    BY <1>4 DEF get_stdout_path, StartSearch
  <2>2. \E o, a : Lookup(o, a)
    BY <1>4 DEF get_stdout_path, StartSearch
  <2> QED  BY <2>1, <2>2, LookupStep
<1>5. CASE resolve_alias
  <2>1. UNCHANGED <<header, dtb_ready>> /\ at' = "path" /\ \E o, a : Lookup(o, a)
    BY <1>5 DEF resolve_alias
  <2> QED  BY <2>1, LookupStep
<1>6. CASE test_stdout_node
  <2>1. CASE at' = "reg" /\ found /\ UNCHANGED vars
    BY <1>6, <2>1, QuietStep DEF test_stdout_node
  <2>2. CASE StartSearch
    BY <1>6, <2>2, LookupStep DEF test_stdout_node, StartSearch
  <2> QED  BY <1>6, <2>1, <2>2 DEF test_stdout_node
<1>7. CASE find_compatible
  <2>1. CASE found \/ at' = "failed"
    BY <1>7, <2>1, QuietStep DEF find_compatible, At
  <2>2. CASE ~found /\ at' # "failed"
    <3>1. at' = "search" /\ UNCHANGED <<header, dtb_ready>> /\ \E o, a : Lookup(o, a)
      BY <1>7, <2>2 DEF find_compatible, At
    <3> QED  BY <3>1, LookupStep
  <2> QED  BY <2>1, <2>2
<1>8. CASE get_reg
  <2>1. UNCHANGED <<vars, header, dtb_ready>> /\ at = "reg"
    BY <1>8 DEF get_reg, At
  <2> QED  BY <2>1, QuietStep
<1>9. CASE Over \/ UNCHANGED allVars
  BY <1>9, QuietStep DEF Over, allVars, dtbVars
<1> QED  BY <1>1, <1>2, <1>3, <1>4, <1>5, <1>6, <1>7, <1>8, <1>9 DEF Next, Step

(***************************************************************************)
(* dtb_init and the lookups of dtb.c: whatever 32-bit numbers the header   *)
(* holds, no walk ever runs and no port is ever found on a blob whose      *)
(* structure and strings blocks do not lie inside it.                      *)
(***************************************************************************)
THEOREM WalksInsideBlob == Spec => []ReadsInside
<1>1. HeaderInv => ReadsInside
  BY DEF HeaderInv, HeaderOK, ReadyMeans, WalksWhenReady, fdt_init, fdt_range_valid, ReadsInside
<1> QED  BY <1>1, HeaderInit, HeaderStep, PTL DEF Spec

-----------------------------------------------------------------------------
(***************************************************************************)
(* Least and greatest numbers.                                             *)
(***************************************************************************)
LEMMA LeastExists ==
  ASSUME NEW S \in SUBSET Nat, S # {}
  PROVE  \E x \in S : \A y \in S : x <= y
<1> DEFINE Less == {ss \in Nat \X Nat : ss[1] < ss[2]}
<1>1. IsWellFoundedOn(Less, Nat)
  BY NatLessThanWellFounded DEF OpToRel
<1>2. PICK x \in S : \A y \in S : ~(<<y, x>> \in Less)
  <2> HIDE DEF Less
  <2> QED  BY <1>1, WFMin
<1>3. x \in Nat /\ \A y \in S : y \in Nat /\ ~(y < x)
  BY <1>2
<1> QED  BY <1>3

LEMMA MinOfIs ==
  ASSUME NEW S \in SUBSET Int, NEW x \in S, \A y \in S : x <= y
  PROVE  MinOf(S) = x
<1>1. MinOf(S) \in S /\ \A y \in S : MinOf(S) <= y
  BY DEF MinOf
<1>2. MinOf(S) <= x /\ x <= MinOf(S) /\ x \in Int /\ MinOf(S) \in Int
  BY <1>1
<1> QED  BY <1>2

LEMMA MinOfExists ==
  ASSUME NEW S \in SUBSET Nat, S # {}
  PROVE  MinOf(S) \in S /\ \A y \in S : MinOf(S) <= y
<1>1. PICK x \in S : \A y \in S : x <= y
  BY LeastExists
<1> QED  BY <1>1, MinOfIs

LEMMA MaxOfIs ==
  ASSUME NEW S \in SUBSET Int, NEW x \in S, \A y \in S : y <= x
  PROVE  MaxOf(S) = x
<1>1. MaxOf(S) \in S /\ \A y \in S : y <= MaxOf(S)
  BY DEF MaxOf
<1>2. MaxOf(S) <= x /\ x <= MaxOf(S) /\ x \in Int /\ MaxOf(S) \in Int
  BY <1>1
<1> QED  BY <1>2

-----------------------------------------------------------------------------
(***************************************************************************)
(* The nesting of the tokens of any sequence.                              *)
(***************************************************************************)
IsBlob(b) == Len(b) \in Nat /\ DOMAIN b = 1 .. Len(b)

LEMMA CountStep ==
  ASSUME NEW b, NEW kind, NEW j \in Nat \ {0}
  PROVE  /\ CountBefore(b, j, kind) \in Nat /\ CountBefore(b, 1, kind) = 0
         /\ CountBefore(b, j + 1, kind) =
              CountBefore(b, j, kind) + (IF b[j].t = kind THEN 1 ELSE 0)
<1> DEFINE S(n) == {k \in 1 .. n - 1 : b[k].t = kind}
<1>1. IsFiniteSet(S(j)) /\ Cardinality(S(j)) \in Nat
  <2>1. IsFiniteSet(1 .. j - 1)
    BY FS_Interval
  <2>2. S(j) \in SUBSET (1 .. j - 1)
    OBVIOUS
  <2>3. IsFiniteSet(S(j))
    BY <2>1, <2>2, FS_Subset
  <2> QED  BY <2>3, FS_CardinalityType
<1>2. S(1) = {}
  OBVIOUS
<1>3. CASE b[j].t = kind
  <2>1. S(j + 1) = S(j) \cup {j} /\ j \notin S(j)
    BY <1>3
  <2>2. Cardinality(S(j + 1)) = Cardinality(S(j)) + 1
    <3> HIDE DEF S
    <3> QED  BY <1>1, <2>1, FS_AddElement
  <2> QED  BY <1>1, <1>2, <1>3, <2>2, FS_EmptySet DEF CountBefore
<1>4. CASE b[j].t # kind
  <2>1. S(j + 1) = S(j)
    BY <1>4
  <2>2. Cardinality(S(j + 1)) = Cardinality(S(j))
    BY <2>1
  <2> QED  BY <1>1, <1>2, <1>4, <2>2, FS_EmptySet DEF CountBefore
<1> QED  BY <1>3, <1>4

LEMMA DepthStep ==
  ASSUME NEW b, NEW j \in Nat \ {0}
  PROVE  /\ Depth(b, j) \in Int /\ Depth(b, 1) = 0
         /\ b[j].t = "begin" => Depth(b, j + 1) = Depth(b, j) + 1
         /\ b[j].t = "end" => Depth(b, j + 1) = Depth(b, j) - 1
         /\ b[j].t \notin {"begin", "end"} => Depth(b, j + 1) = Depth(b, j)
<1>1. PICK p, q \in Nat : p = CountBefore(b, j, "begin") /\ q = CountBefore(b, j, "end")
  BY CountStep
<1>2. /\ CountBefore(b, j + 1, "begin") = p + (IF b[j].t = "begin" THEN 1 ELSE 0)
      /\ CountBefore(b, j + 1, "end") = q + (IF b[j].t = "end" THEN 1 ELSE 0)
  BY <1>1, CountStep
<1>3. CountBefore(b, 1, "begin") = 0 /\ CountBefore(b, 1, "end") = 0
  BY CountStep
<1> QED  BY <1>1, <1>2, <1>3 DEF Depth

(***************************************************************************)
(* Node e, at depth d, is still open at position j.                        *)
(***************************************************************************)
Open(b, j, d, e) ==
  /\ e \in Nodes(b) /\ e < j /\ Depth(b, e) = d
  /\ \A k \in e + 1 .. j : Depth(b, k) > d

Nested(b, j) == \A d \in 0 .. Depth(b, j) - 1 : \E e \in Nodes(b) : Open(b, j, d, e)

LEMMA NestedStep ==
  ASSUME NEW b, IsBlob(b), NEW j \in 1 .. Len(b), Nested(b, j)
  PROVE  Nested(b, j + 1)
<1>1. Len(b) \in Nat /\ j \in Nat \ {0}
  BY DEF IsBlob
<1>2. PICK D \in Int : D = Depth(b, j)
  BY <1>1, DepthStep
<1>3. PICK D1 \in Int : D1 = Depth(b, j + 1)
  BY <1>1, DepthStep
<1>4. SUFFICES ASSUME NEW d \in 0 .. D1 - 1
               PROVE  \E e \in Nodes(b) : Open(b, j + 1, d, e)
  BY <1>3 DEF Nested
<1>5. CASE d < D
  <2>1. d \in 0 .. D - 1
    BY <1>5
  <2>2. PICK e \in Nodes(b) : Open(b, j, d, e)
    BY <1>2, <2>1 DEF Nested
  <2>3. e \in Nat /\ e < j
    BY <1>1, <2>2 DEF Open, Nodes
  <2>4. ASSUME NEW k \in e + 1 .. j + 1 PROVE Depth(b, k) > d
    <3>1. CASE k = j + 1
      BY <1>3, <1>4, <3>1
    <3>2. CASE k # j + 1
      <4>1. k \in e + 1 .. j
        BY <1>1, <2>3, <3>2
      <4> QED  BY <2>2, <4>1 DEF Open
    <3> QED  BY <3>1, <3>2
  <2>5. e < j + 1
    BY <1>1, <2>3
  <2>6. Open(b, j + 1, d, e)
    BY <2>2, <2>4, <2>5 DEF Open
  <2> QED  BY <2>6
<1>6. CASE d >= D
  <2>1. b[j].t = "begin" /\ d = D /\ D1 = D + 1
    BY SMTT(30), <1>1, <1>2, <1>3, <1>6, DepthStep
  <2>2. j \in Nodes(b)
    BY <1>1, <2>1 DEF Nodes
  <2>3. \A k \in j + 1 .. j + 1 : k = j + 1
    BY <1>1
  <2>4. Open(b, j + 1, d, j)
    BY <1>1, <1>2, <1>3, <2>1, <2>2, <2>3 DEF Open
  <2> QED  BY <2>2, <2>4
<1> QED  BY <1>2, <1>4, <1>5, <1>6

LEMMA AllNested ==
  ASSUME NEW b, IsBlob(b), NEW j \in 1 .. Len(b) + 1
  PROVE  Nested(b, j)
<1> DEFINE T == {k \in 1 .. Len(b) + 1 : ~Nested(b, k)}
<1>1. Len(b) \in Nat
  BY DEF IsBlob
<1>2. SUFFICES ASSUME T # {} PROVE FALSE
  OBVIOUS
<1>3. PICK k \in T : \A i \in T : k <= i
  <2>1. T \in SUBSET Nat
    BY <1>1
  <2> HIDE DEF T
  <2> QED  BY <1>2, <2>1, LeastExists
<1>4. CASE k = 1
  <2>1. Depth(b, 1) = 0
    BY DepthStep
  <2> QED  BY <1>3, <1>4, <2>1 DEF Nested
<1>5. CASE k # 1
  <2>1. PICK i \in 1 .. Len(b) : k = i + 1
    BY <1>1, <1>3, <1>5
  <2>2. Nested(b, i)
    BY <1>1, <1>3, <2>1
  <2> QED  BY <1>3, <2>1, <2>2, NestedStep
<1> QED  BY <1>4, <1>5

(***************************************************************************)
(* So the enclosing nodes of FdtProps are the nodes that are open.         *)
(***************************************************************************)
LEMMA EnclosingIs ==
  ASSUME NEW b, IsBlob(b), NEW j \in 1 .. Len(b) + 1, NEW d \in Int, NEW e, Open(b, j, d, e)
  PROVE  Enclosing(b, j, d) = e
<1> DEFINE S == {k \in Nodes(b) : k < j /\ Depth(b, k) = d}
<1>1. Len(b) \in Nat /\ j \in Nat /\ Nodes(b) \subseteq 1 .. Len(b)
  BY DEF IsBlob, Nodes
<1>2. e \in S /\ S \in SUBSET Int
  BY <1>1 DEF Open
<1>3. ASSUME NEW k \in S PROVE k <= e
  <2>1. k \in Nat /\ e \in Nat /\ k < j
    BY <1>1, <1>2
  <2>2. ASSUME e < k PROVE FALSE
    <3>1. k \in e + 1 .. j
      BY <1>1, <2>1, <2>2
    <3> QED  BY <3>1 DEF Open
  <2> QED  BY <2>1, <2>2
<1>4. MaxOf(S) = e
  <2> HIDE DEF S
  <2> QED  BY <1>2, <1>3, MaxOfIs
<1> QED  BY <1>4 DEF Enclosing

LEMMA EnclosingOpen ==
  ASSUME NEW b, IsBlob(b), NEW j \in 1 .. Len(b) + 1, NEW d \in 0 .. Depth(b, j) - 1
  PROVE  Open(b, j, d, Enclosing(b, j, d))
<1>1. PICK e \in Nodes(b) : Open(b, j, d, e)
  BY AllNested DEF Nested
<1>2. d \in Int
  BY DepthStep
<1> QED  BY <1>1, <1>2, EnclosingIs

(***************************************************************************)
(* An outer node is open wherever an inner one begins.                     *)
(***************************************************************************)
LEMMA OuterOpen ==
  ASSUME NEW b, IsBlob(b), NEW j \in 1 .. Len(b) + 1, NEW c \in Int, NEW d \in Int, c < d,
         NEW e, NEW f, Open(b, j, c, e), Open(b, j, d, f)
  PROVE  Open(b, f, c, e) /\ e < f
<1>1. Len(b) \in Nat /\ j \in Nat /\ e \in Nat /\ f \in Nat /\ e < j /\ f < j
  BY DEF IsBlob, Nodes, Open
<1>2. ~(f < e) /\ e # f
  <2>1. ASSUME f < e PROVE FALSE
    <3>1. e \in f + 1 .. j
      BY <1>1, <2>1
    <3> QED  BY <3>1 DEF Open
  <2>2. e # f
    BY DEF Open
  <2> QED  BY <2>1, <2>2
<1>3. e < f
  BY <1>1, <1>2
<1>4. ASSUME NEW k \in e + 1 .. f PROVE Depth(b, k) > c
  <2>1. k \in e + 1 .. j
    BY <1>1
  <2> QED  BY <2>1 DEF Open
<1> QED  BY <1>3, <1>4 DEF Open

LEMMA EnclosingKept ==
  ASSUME NEW b, IsBlob(b), NEW j \in 1 .. Len(b), NEW d \in 0 .. Depth(b, j) - 1,
         d < Depth(b, j + 1)
  PROVE  Enclosing(b, j + 1, d) = Enclosing(b, j, d)
<1>1. Len(b) \in Nat /\ j \in Nat \ {0} /\ j \in 1 .. Len(b) + 1 /\ j + 1 \in 1 .. Len(b) + 1
  BY DEF IsBlob
<1>2. PICK e : e = Enclosing(b, j, d) /\ Open(b, j, d, e)
  BY <1>1, EnclosingOpen
<1>3. d \in Int /\ e \in Nat /\ e < j
  BY <1>1, <1>2, DepthStep DEF Open, Nodes
<1>4. ASSUME NEW k \in e + 1 .. j + 1 PROVE Depth(b, k) > d
  <2>1. CASE k = j + 1
    BY <1>1, <1>3, <2>1, DepthStep
  <2>2. CASE k # j + 1
    <3>1. k \in e + 1 .. j
      BY <1>1, <1>3, <2>2
    <3> QED  BY <1>2, <3>1 DEF Open
  <2> QED  BY <2>1, <2>2
<1>5. Open(b, j + 1, d, e)
  BY <1>1, <1>2, <1>3, <1>4 DEF Open
<1> QED  BY <1>1, <1>2, <1>3, <1>5, EnclosingIs

LEMMA EnclosingBegun ==
  ASSUME NEW b, IsBlob(b), NEW j \in Nodes(b)
  PROVE  Open(b, j + 1, Depth(b, j), j) /\ Enclosing(b, j + 1, Depth(b, j)) = j
<1>1. Len(b) \in Nat /\ j \in Nat \ {0} /\ j + 1 \in 1 .. Len(b) + 1 /\ b[j].t = "begin"
  BY DEF IsBlob, Nodes
<1>2. PICK d \in Int : d = Depth(b, j) /\ Depth(b, j + 1) = d + 1
  BY <1>1, DepthStep
<1>3. \A k \in j + 1 .. j + 1 : k = j + 1
  BY <1>1
<1>4. Open(b, j + 1, d, j)
  BY <1>1, <1>2, <1>3 DEF Open
<1> QED  BY <1>1, <1>2, <1>4, EnclosingIs

-----------------------------------------------------------------------------
(***************************************************************************)
(* What the walk state is at any token of any blob.  The prefixes of the   *)
(* path fit because each of them was the path when it was made, and they   *)
(* are what FDT_END_NODE goes back to.                                     *)
(***************************************************************************)
Frame == [path_len : Nat, child_address_cells : Nat, child_size_cells : Nat]

BlobOK ==
  /\ IsBlob(blob)
  /\ \A j \in 1 .. Len(blob) : blob[j].t = "prop" => ValueTyped(blob[j])

NodeNames == {blob[k].name : k \in Nodes(blob)}

WalkState ==
  /\ pc \in {"walk", "done"} /\ depth \in 0 .. FDT_MAX_DEPTH
  /\ path \in Seq(NodeNames) /\ Len(path) = IF depth = 0 THEN 0 ELSE depth - 1
  /\ \A n \in 0 .. Len(path) : PathFits(SubSeq(path, 1, n))
  /\ frames \in [1 .. FDT_MAX_DEPTH -> Frame]
  /\ \A d \in 1 .. depth : frames[d].path_len = IF d = 1 THEN 0 ELSE d - 2

InStep ==
  pc = "walk" =>
    /\ cursor \in 1 .. Len(blob) + 1 /\ depth = Depth(blob, cursor)
    /\ \A d \in 1 .. depth - 1 : path[d] = blob[Enclosing(blob, cursor, d)].name

TreeInv == BlobOK /\ WalkState /\ InStep

LEMMA EmptyPath == PathFits(<<>>)
<1>1. PathChars(<<>>) = 1
  BY DEF PathChars
<1> QED  BY <1>1, FdtAssumption DEF PathFits

LEMMA StartState ==
  ASSUME pc \in {"walk", "done"}, depth = 0, path = <<>>, frames = ZeroFrames
  PROVE  WalkState
<1>1. \A n \in 0 .. Len(path) : SubSeq(path, 1, n) = <<>>
  OBVIOUS
<1>2. frames \in [1 .. FDT_MAX_DEPTH -> Frame]
  BY DEF ZeroFrames, Frame
<1>3. path \in Seq(NodeNames) /\ Len(path) = 0
  OBVIOUS
<1>4. \A n \in 0 .. Len(path) : PathFits(SubSeq(path, 1, n))
  BY <1>1, EmptyPath
<1>5. /\ depth \in 0 .. FDT_MAX_DEPTH
      /\ \A d \in 1 .. depth : frames[d].path_len = IF d = 1 THEN 0 ELSE d - 2
  BY FdtAssumption
<1> QED  BY <1>2, <1>3, <1>4, <1>5 DEF WalkState

LEMMA TreeInit == Init => TreeInv
<1> SUFFICES ASSUME Init PROVE TreeInv
  OBVIOUS
<1>1. PICK i \in Inputs : blob = i.blob
  BY DEF Init
<1>2. BlobOK
  <2>1. /\ Len(i.blob) \in Nat /\ DOMAIN i.blob = 1 .. Len(i.blob)
        /\ \A j \in 1 .. Len(i.blob) : i.blob[j].t = "prop" => ValueTyped(i.blob[j])
    BY DtbAssumption
  <2> QED  BY <1>1, <2>1 DEF BlobOK, IsBlob
<1>3. WalkState
  BY StartState DEF Init, NoCallYet
<1> QED  BY <1>2, <1>3 DEF Init, NoCallYet, InStep, TreeInv

LEMMA TreeQuiet ==
  ASSUME TreeInv, UNCHANGED <<blob, cursor, depth, path, frames>>,
         pc' \in {"walk", "done"}, pc' = "walk" => pc = "walk"
  PROVE  TreeInv'
<1>1. BlobOK'
  BY DEF TreeInv, BlobOK, IsBlob
<1>2. WalkState'
  BY DEF TreeInv, WalkState, NodeNames, Nodes
<1>3. InStep'
  <2>1. SUFFICES ASSUME pc = "walk" PROVE InStep'
    BY DEF InStep
  <2>2. /\ cursor' \in 1 .. Len(blob') + 1 /\ depth' = Depth(blob', cursor')
        /\ \A d \in 1 .. depth' - 1 : path'[d] = blob'[Enclosing(blob', cursor', d)].name
    BY <2>1 DEF TreeInv, InStep
  <2> QED  BY <2>2 DEF InStep
<1> QED  BY <1>1, <1>2, <1>3 DEF TreeInv

LEMMA TreeRestart ==
  ASSUME TreeInv, NEW c, fdt_walk_init(c)
  PROVE  TreeInv'
<1>1. blob' = blob /\ cursor' = 1 /\ depth' = 0 /\ path' = <<>> /\ frames' = ZeroFrames /\ pc' = "walk"
  BY DEF fdt_walk_init
<1>2. BlobOK'
  BY <1>1 DEF TreeInv, BlobOK, IsBlob
<1>3. WalkState'
  <2>1. \A n \in 0 .. Len(path') : SubSeq(path', 1, n) = <<>>
    BY <1>1
  <2>2. frames' \in [1 .. FDT_MAX_DEPTH -> Frame]
    BY <1>1 DEF ZeroFrames, Frame
  <2>3. path' \in Seq(NodeNames') /\ Len(path') = 0
    BY <1>1
  <2>4. \A n \in 0 .. Len(path') : PathFits(SubSeq(path', 1, n))
    BY <2>1, EmptyPath
  <2>5. /\ depth' \in 0 .. FDT_MAX_DEPTH
        /\ \A d \in 1 .. depth' : frames'[d].path_len = IF d = 1 THEN 0 ELSE d - 2
    BY <1>1, FdtAssumption
  <2> QED  BY <1>1, <2>2, <2>3, <2>4, <2>5 DEF WalkState
<1>4. InStep'
  <2>1. Depth(blob, 1) = 0
    BY DepthStep
  <2>2. Len(blob) \in Nat
    BY DEF TreeInv, BlobOK, IsBlob
  <2> QED  BY <1>1, <2>1, <2>2 DEF InStep
<1> QED  BY <1>2, <1>3, <1>4 DEF TreeInv

LEMMA TreeBegin == ASSUME TreeInv, walk_begin PROVE TreeInv'
<1>1. CASE Fails
  BY <1>1, TreeQuiet DEF Fails
<1>2. CASE ~Fails
  <2> DEFINE newPath == IF depth = 0 THEN <<>> ELSE Append(path, blob[cursor].name)
  <2>1. /\ pc = "walk" /\ cursor <= Len(blob) /\ blob[cursor].t = "begin"
        /\ depth < FDT_MAX_DEPTH /\ (depth > 0 => PathFits(newPath))
        /\ path' = newPath /\ frames' = [frames EXCEPT ![depth + 1] = NewFrame(Len(path))]
        /\ depth' = depth + 1 /\ cursor' = cursor + 1 /\ pc' \in {"walk", "done"}
        /\ blob' = blob
    <3>1. depth \in Nat /\ FDT_MAX_DEPTH \in Nat
      BY FdtAssumption DEF TreeInv, WalkState
    <3> QED  BY <1>2, <3>1 DEF walk_begin, Reads, TooDeep, TreeInv, WalkState
  <2>2. /\ cursor \in 1 .. Len(blob) + 1 /\ depth = Depth(blob, cursor) /\ Len(blob) \in Nat
        /\ \A d \in 1 .. depth - 1 : path[d] = blob[Enclosing(blob, cursor, d)].name
        /\ depth \in Nat /\ FDT_MAX_DEPTH \in Nat /\ IsBlob(blob)
    <3>1. /\ cursor \in 1 .. Len(blob) + 1 /\ depth = Depth(blob, cursor)
          /\ \A d \in 1 .. depth - 1 : path[d] = blob[Enclosing(blob, cursor, d)].name
      <4>1. pc = "walk" /\ InStep
        BY <2>1 DEF TreeInv
      <4> HIDE DEF newPath
      <4> QED  BY <4>1 DEF InStep
    <3>2. IsBlob(blob) /\ Len(blob) \in Nat
      BY DEF TreeInv, BlobOK, IsBlob
    <3>3. depth \in Nat /\ FDT_MAX_DEPTH \in Nat
      BY FdtAssumption DEF TreeInv, WalkState
    <3> QED  BY <3>1, <3>2, <3>3
  <2>3. cursor \in Nodes(blob) /\ cursor \in 1 .. Len(blob)
    BY <2>1, <2>2 DEF Nodes
  <2>4. BlobOK'
    BY <2>1 DEF TreeInv, BlobOK, IsBlob
  <2>5. /\ path \in Seq(NodeNames) /\ Len(path) = IF depth = 0 THEN 0 ELSE depth - 1
        /\ \A n \in 0 .. Len(path) : PathFits(SubSeq(path, 1, n))
        /\ frames \in [1 .. FDT_MAX_DEPTH -> Frame]
        /\ \A d \in 1 .. depth : frames[d].path_len = IF d = 1 THEN 0 ELSE d - 2
    BY DEF TreeInv, WalkState
  <2>6. /\ newPath \in Seq(NodeNames) /\ Len(newPath) = depth
        /\ depth > 0 => \A d \in 1 .. Len(path) : newPath[d] = path[d]
        /\ depth > 0 => newPath[depth] = blob[cursor].name
    <3>1. blob[cursor].name \in NodeNames
      BY <2>3 DEF NodeNames
    <3>2. CASE depth = 0
      BY <3>2
    <3>3. CASE depth # 0
      <4>1. PICK N, m : N = NodeNames /\ m = blob[cursor].name
        OBVIOUS
      <4>2. path \in Seq(N) /\ m \in N /\ newPath = Append(path, m)
        BY <2>5, <3>1, <3>3, <4>1
      <4>3. Len(path) = depth - 1
        BY <2>5, <3>3
      <4>4. /\ Append(path, m) \in Seq(N) /\ Len(Append(path, m)) = Len(path) + 1
            /\ \A d \in 1 .. Len(path) : Append(path, m)[d] = path[d]
            /\ Append(path, m)[Len(path) + 1] = m
        BY <4>2
      <4> QED  BY SMTT(30), <2>2, <4>1, <4>2, <4>3, <4>4
    <3> QED  BY <3>2, <3>3
  <2>7. ASSUME NEW n \in 0 .. Len(newPath) PROVE PathFits(SubSeq(newPath, 1, n))
    <3>1. CASE depth = 0
      <4>1. SubSeq(newPath, 1, n) = <<>>
        BY <2>6, <3>1
      <4> QED  BY <4>1, EmptyPath
    <3>2. CASE depth > 0 /\ n = depth
      <4>1. SubSeq(newPath, 1, n) = newPath
        BY <2>6, <3>2
      <4> QED  BY <2>1, <3>2, <4>1
    <3>3. CASE depth > 0 /\ n # depth
      <4>1. n \in 0 .. Len(path)
        BY <2>2, <2>5, <2>6, <3>3
      <4>2. SubSeq(newPath, 1, n) = SubSeq(path, 1, n)
        BY SMTT(30), <2>2, <2>5, <2>6, <3>3, <4>1
      <4> QED  BY <2>5, <4>1, <4>2
    <3> QED  BY <2>2, <2>6, <3>1, <3>2, <3>3
  <2>8. /\ frames' \in [1 .. FDT_MAX_DEPTH -> Frame]
        /\ \A d \in 1 .. depth + 1 : frames'[d].path_len = IF d = 1 THEN 0 ELSE d - 2
    <3>1. Len(path) \in Nat /\ depth + 1 \in 1 .. FDT_MAX_DEPTH
      BY SMTT(30), <2>1, <2>2, <2>5
    <3>2. NewFrame(Len(path)) \in Frame /\ NewFrame(Len(path)).path_len = Len(path)
      BY <3>1 DEF NewFrame, DefaultFrame, Frame, FDT_DEFAULT_ADDRESS_CELLS, FDT_DEFAULT_SIZE_CELLS
    <3>3. PICK x, n, g : x = NewFrame(Len(path)) /\ n = depth + 1 /\ g = frames'
      OBVIOUS
    <3>4. g = [frames EXCEPT ![n] = x]
      BY <2>1, <3>3
    <3>5. /\ n \in 1 .. FDT_MAX_DEPTH /\ depth \in Nat /\ n = depth + 1 /\ x \in Frame
          /\ frames \in [1 .. FDT_MAX_DEPTH -> Frame]
      BY <2>2, <2>5, <3>1, <3>2, <3>3
    <3>6. g \in [1 .. FDT_MAX_DEPTH -> Frame] /\ g[n] = x /\ \A d \in 1 .. depth : g[d] = frames[d]
      BY ONLY <3>4, <3>5
    <3>7. x.path_len = IF n = 1 THEN 0 ELSE n - 2
      BY SMTT(30), <2>2, <2>5, <3>2, <3>3, <3>5
    <3>8. ASSUME NEW d \in 1 .. n PROVE g[d].path_len = IF d = 1 THEN 0 ELSE d - 2
      <4>1. d = n \/ d \in 1 .. depth
        BY <3>5
      <4> QED  BY <2>5, <3>6, <3>7, <4>1
    <3> HIDE DEF newPath
    <3> QED  BY <3>3, <3>6, <3>8
  <2>9. WalkState'
    <3>1. NodeNames' = NodeNames
      BY <2>1 DEF NodeNames, Nodes
    <3> HIDE DEF newPath
    <3> QED  BY SMTT(30), <2>1, <2>2, <2>6, <2>7, <2>8, <3>1 DEF WalkState
  <2>10. InStep'
    <3>1. Depth(blob, cursor + 1) = depth + 1 /\ cursor + 1 \in 1 .. Len(blob) + 1
      BY <2>1, <2>2, <2>3, DepthStep
    <3>2. ASSUME NEW d \in 1 .. depth
          PROVE  newPath[d] = blob[Enclosing(blob, cursor + 1, d)].name
      <4>1. CASE d = depth
        BY <2>2, <2>3, <2>6, <4>1, EnclosingBegun
      <4>2. CASE d # depth
        <5>1. d \in 1 .. depth - 1 /\ d \in 0 .. Depth(blob, cursor) - 1 /\ d \in 1 .. Len(path)
              /\ d < Depth(blob, cursor + 1)
          BY SMTT(30), <2>2, <2>5, <3>1, <4>2
        <5>2. Enclosing(blob, cursor + 1, d) = Enclosing(blob, cursor, d)
          BY <2>2, <2>3, <5>1, EnclosingKept
        <5> QED  BY <2>2, <2>6, <5>1, <5>2
      <4> QED  BY <4>1, <4>2
    <3> HIDE DEF newPath
    <3> QED  BY <2>1, <2>2, <3>1, <3>2 DEF InStep
  <2> QED  BY <2>4, <2>9, <2>10 DEF TreeInv
<1> QED  BY <1>1, <1>2

LEMMA TreeEnd == ASSUME TreeInv, walk_end PROVE TreeInv'
<1>1. CASE Fails
  BY <1>1, TreeQuiet DEF Fails
<1>2. CASE ~Fails
  <2>1. /\ pc = "walk" /\ cursor <= Len(blob) /\ blob[cursor].t = "end" /\ depth # 0
        /\ path' = SubSeq(path, 1, frames[depth].path_len)
        /\ depth' = depth - 1 /\ cursor' = cursor + 1
        /\ UNCHANGED <<blob, pc, frames>>
    BY <1>2 DEF walk_end, Reads
  <2>2. /\ cursor \in 1 .. Len(blob) + 1 /\ depth = Depth(blob, cursor) /\ Len(blob) \in Nat
        /\ \A d \in 1 .. depth - 1 : path[d] = blob[Enclosing(blob, cursor, d)].name
        /\ depth \in Nat \ {0} /\ depth \in 1 .. FDT_MAX_DEPTH /\ FDT_MAX_DEPTH \in Nat
        /\ IsBlob(blob)
    BY <2>1, FdtAssumption DEF TreeInv, InStep, BlobOK, IsBlob, WalkState
  <2>3. cursor \in 1 .. Len(blob) /\ cursor \in Nat \ {0}
    BY <2>1, <2>2
  <2>4. BlobOK'
    BY <2>1 DEF TreeInv, BlobOK, IsBlob
  <2>5. /\ path \in Seq(NodeNames) /\ Len(path) = depth - 1
        /\ \A n \in 0 .. Len(path) : PathFits(SubSeq(path, 1, n))
        /\ frames \in [1 .. FDT_MAX_DEPTH -> Frame]
        /\ \A d \in 1 .. depth : frames[d].path_len = IF d = 1 THEN 0 ELSE d - 2
    BY <2>2 DEF TreeInv, WalkState
  <2>6. PICK n \in 0 .. Len(path) : n = frames[depth].path_len /\ n = IF depth = 1 THEN 0 ELSE depth - 2
    BY SMTT(30), <2>2, <2>5
  <2>7. path' \in Seq(NodeNames) /\ Len(path') = n /\ \A d \in 1 .. n : path'[d] = path[d]
    BY <2>1, <2>5, <2>6
  <2>8. \A m \in 0 .. n : SubSeq(path', 1, m) = SubSeq(path, 1, m) /\ m \in 0 .. Len(path)
    BY <2>5, <2>6, <2>7
  <2>9. WalkState'
    <3>1. NodeNames' = NodeNames
      BY <2>1 DEF NodeNames, Nodes
    <3>2. pc' \in {"walk", "done"} /\ depth' \in 0 .. FDT_MAX_DEPTH
      BY SMTT(30), <2>1, <2>2
    <3>3. Len(path') = IF depth' = 0 THEN 0 ELSE depth' - 1
      BY <2>1, <2>2, <2>6, <2>7
    <3>4. \A m \in 0 .. Len(path') : PathFits(SubSeq(path', 1, m))
      BY <2>5, <2>7, <2>8
    <3>5. \A d \in 1 .. depth' : frames'[d].path_len = IF d = 1 THEN 0 ELSE d - 2
      <4>1. frames' = frames /\ \A d \in 1 .. depth' : d \in 1 .. depth
        BY <2>1, <2>2
      <4> QED  BY <2>5, <4>1
    <3>6. path' \in Seq(NodeNames') /\ frames' \in [1 .. FDT_MAX_DEPTH -> Frame]
      BY <2>1, <2>5, <2>7, <3>1
    <3> QED  BY <3>2, <3>3, <3>4, <3>5, <3>6 DEF WalkState
  <2>10. InStep'
    <3>1. Depth(blob, cursor + 1) = depth - 1 /\ cursor + 1 \in 1 .. Len(blob) + 1
      BY SMTT(30), <2>1, <2>2, <2>3, DepthStep
    <3>2. ASSUME NEW d \in 1 .. depth - 1 - 1
          PROVE  path'[d] = blob[Enclosing(blob, cursor + 1, d)].name
      <4>1. /\ d \in 1 .. depth - 1 /\ d \in 0 .. Depth(blob, cursor) - 1 /\ d \in 1 .. n
            /\ d < Depth(blob, cursor + 1)
        BY SMTT(30), <2>2, <2>6, <3>1
      <4>2. Enclosing(blob, cursor + 1, d) = Enclosing(blob, cursor, d)
        BY <2>2, <2>3, <4>1, EnclosingKept
      <4> QED  BY <2>2, <2>7, <4>1, <4>2
    <3> QED  BY <2>1, <2>2, <3>1, <3>2 DEF InStep
  <2> QED  BY <2>4, <2>9, <2>10 DEF TreeInv
<1> QED  BY <1>1, <1>2

(***************************************************************************)
(* A token that neither opens nor closes a node.                           *)
(***************************************************************************)
LEMMA TreeOn ==
  ASSUME TreeInv, pc = "walk", cursor <= Len(blob), blob[cursor].t \notin {"begin", "end"},
         cursor' = cursor + 1, pc' = "walk", blob' = blob, depth' = depth, path' = path,
         frames' \in [1 .. FDT_MAX_DEPTH -> Frame],
         \A d \in 1 .. depth : frames'[d].path_len = frames[d].path_len
  PROVE  TreeInv'
<1>1. /\ cursor \in 1 .. Len(blob) + 1 /\ depth = Depth(blob, cursor) /\ Len(blob) \in Nat
      /\ \A d \in 1 .. depth - 1 : path[d] = blob[Enclosing(blob, cursor, d)].name
      /\ depth \in Nat /\ IsBlob(blob)
  BY DEF TreeInv, InStep, BlobOK, IsBlob, WalkState
<1>2. cursor \in 1 .. Len(blob) /\ cursor \in Nat \ {0}
  BY <1>1
<1>3. BlobOK'
  BY DEF TreeInv, BlobOK, IsBlob
<1>4. WalkState'
  <2>1. NodeNames' = NodeNames
    BY DEF NodeNames, Nodes
  <2>2. \A d \in 1 .. depth' : frames'[d].path_len = IF d = 1 THEN 0 ELSE d - 2
    BY DEF TreeInv, WalkState
  <2> QED  BY <2>1, <2>2 DEF TreeInv, WalkState
<1>5. InStep'
  <2>1. Depth(blob, cursor + 1) = depth /\ cursor + 1 \in 1 .. Len(blob) + 1
    BY <1>1, <1>2, DepthStep
  <2>2. ASSUME NEW d \in 1 .. depth - 1
        PROVE  path[d] = blob[Enclosing(blob, cursor + 1, d)].name
    <3>1. d \in 0 .. Depth(blob, cursor) - 1 /\ d < Depth(blob, cursor + 1)
      BY <1>1, <2>1
    <3>2. Enclosing(blob, cursor + 1, d) = Enclosing(blob, cursor, d)
      BY <1>1, <1>2, <3>1, EnclosingKept
    <3> QED  BY <1>1, <3>2
  <2> QED  BY <1>1, <2>1, <2>2 DEF InStep
<1> QED  BY <1>3, <1>4, <1>5 DEF TreeInv

LEMMA TreeProp == ASSUME TreeInv, walk_prop PROVE TreeInv'
<1>1. CASE Fails
  BY <1>1, TreeQuiet DEF Fails
<1>2. CASE ~Fails
  <2>1. PICK p, field : p = blob[cursor] /\ field = CellField(p.key)
    OBVIOUS
  <2>2. /\ pc = "walk" /\ cursor <= Len(blob) /\ p.t = "prop" /\ depth # 0
        /\ field # "none" => fdt_prop_get_u32(p) # <<>>
        /\ frames' = IF field = "none" THEN frames
                     ELSE [frames EXCEPT ![depth][field] = fdt_prop_get_u32(p)[1]]
        /\ cursor' = cursor + 1 /\ pc' = pc /\ blob' = blob /\ depth' = depth /\ path' = path
    BY <1>2, <2>1 DEF walk_prop, Reads
  <2>3. depth \in 1 .. FDT_MAX_DEPTH /\ frames \in [1 .. FDT_MAX_DEPTH -> Frame]
    BY <2>2, FdtAssumption DEF TreeInv, WalkState
  <2>4. /\ frames' \in [1 .. FDT_MAX_DEPTH -> Frame]
        /\ \A d \in 1 .. depth : frames'[d].path_len = frames[d].path_len
    <3>1. CASE field = "none"
      BY <2>2, <2>3, <3>1
    <3>2. CASE field # "none"
      <4>1. field \in {"child_address_cells", "child_size_cells"}
        BY <2>1, <3>2 DEF CellField
      <4>2. PICK x \in Nat : x = fdt_prop_get_u32(p)[1]
        <5>1. p.whole /\ Len(p.val) = 1 /\ fdt_prop_get_u32(p) = p.val
          BY <2>2, <3>2 DEF fdt_prop_get_u32
        <5>2. cursor \in 1 .. Len(blob)
          BY <2>2 DEF TreeInv, InStep, BlobOK, IsBlob
        <5>3. p.val \in Seq(0 .. CellBase - 1)
          <6>1. p.key \in CellKeys
            BY <2>1, <3>2 DEF CellField, CellKeys
          <6>2. ValueTyped(p)
            BY <2>1, <2>2, <5>2 DEF TreeInv, BlobOK
          <6> QED  BY <5>1, <6>1, <6>2 DEF ValueTyped
        <5>4. p.val[1] \in 0 .. CellBase - 1
          <6>1. PICK s, S : s = p.val /\ S = 0 .. CellBase - 1
            OBVIOUS
          <6>2. s \in Seq(S) /\ Len(s) = 1
            BY <5>1, <5>3, <6>1
          <6>3. \A i \in 1 .. Len(s) : s[i] \in S
            BY <6>2
          <6>4. 1 \in 1 .. Len(s)
            BY <6>2
          <6> QED  BY <6>1, <6>3, <6>4
        <5> QED  BY <5>1, <5>4, FdtAssumption
      <4>3. PICK f \in Frame : f = frames[depth]
        BY <2>3
      <4>4. [f EXCEPT ![field] = x] \in Frame /\ [f EXCEPT ![field] = x].path_len = f.path_len
        <5>1. CASE field = "child_address_cells"
          BY <5>1 DEF Frame
        <5>2. CASE field = "child_size_cells"
          BY <5>2 DEF Frame
        <5> QED  BY <4>1, <5>1, <5>2
      <4>5. frames' = [frames EXCEPT ![depth] = [f EXCEPT ![field] = x]]
        BY <2>2, <3>2, <4>2, <4>3
      <4> QED  BY <2>3, <4>3, <4>4, <4>5
    <3> QED  BY <3>1, <3>2
  <2> QED  BY <2>1, <2>2, <2>4, TreeOn
<1> QED  BY <1>1, <1>2

LEMMA TreeStep == TreeInv /\ [Next]_allVars => TreeInv'
<1> SUFFICES ASSUME TreeInv, [Next]_allVars PROVE TreeInv'
  OBVIOUS
<1>1. CASE walk_begin
  BY <1>1, TreeBegin
<1>2. CASE walk_end
  BY <1>2, TreeEnd
<1>3. CASE walk_prop
  BY <1>3, TreeProp
<1>4. CASE walk_nop
  <2>1. frames \in [1 .. FDT_MAX_DEPTH -> Frame]
    BY DEF TreeInv, WalkState
  <2> QED  BY <1>4, <2>1, TreeOn DEF walk_nop, Reads
<1>5. CASE walk_stop \/ walk_off_end
  BY <1>5, TreeQuiet DEF walk_stop, walk_off_end, Fails
<1>6. ASSUME NEW o, NEW a, Lookup(o, a) PROVE TreeInv'
  <2>1. CASE dtb_ready
    BY <1>6, <2>1, TreeRestart DEF Lookup
  <2>2. CASE ~dtb_ready
    <3>1. pc \in {"walk", "done"}
      BY DEF TreeInv, WalkState
    <3> QED  BY <1>6, <2>2, <3>1, TreeQuiet DEF Lookup
  <2> QED  BY <2>1, <2>2
<1>7. ASSUME UNCHANGED vars PROVE TreeInv'
  <2>1. pc \in {"walk", "done"}
    BY DEF TreeInv, WalkState
  <2> QED  BY <1>7, <2>1, TreeQuiet DEF vars
<1>8. CASE UNCHANGED allVars \/ Over \/ dtb_init \/ get_reg
  BY <1>7, <1>8 DEF allVars, Over, dtb_init, get_reg
<1>9. CASE uart_find_port \/ get_stdout_path \/ resolve_alias
  BY <1>6, <1>9 DEF uart_find_port, get_stdout_path, resolve_alias, StartSearch
<1>10. CASE test_stdout_node \/ find_compatible
  BY <1>6, <1>7, <1>10 DEF test_stdout_node, find_compatible, StartSearch
<1> QED  BY <1>1, <1>2, <1>3, <1>4, <1>5, <1>8, <1>9, <1>10 DEF Next, Step, Walk

LEMMA TreeInvariant == Spec => []TreeInv
BY TreeInit, TreeStep, PTL DEF Spec

(***************************************************************************)
(* The path of a node from the names of the nodes open at its begin.       *)
(***************************************************************************)
LEMMA OwnerPath ==
  ASSUME NEW b, IsBlob(b), NEW j \in 1 .. Len(b) + 1, Depth(b, j) > 0
  PROVE  /\ Open(b, j, Depth(b, j) - 1, Owner(b, j)) /\ Owner(b, j) \in Nodes(b)
         /\ TruePath(b, Owner(b, j)) =
              [d \in 1 .. Depth(b, j) - 1 |-> b[Enclosing(b, j, d)].name]
<1>1. PICK D \in Nat \ {0} : D = Depth(b, j)
  BY DepthStep DEF IsBlob
<1>2. PICK o : o = Owner(b, j) /\ Open(b, j, D - 1, o)
  <2>1. D - 1 \in 0 .. Depth(b, j) - 1
    BY <1>1
  <2> QED  BY <1>1, <2>1, EnclosingOpen DEF Owner
<1>3. o \in Nodes(b) /\ Depth(b, o) = D - 1
  BY <1>2 DEF Open
<1>4. ASSUME NEW d \in 1 .. D - 1
      PROVE  (IF d = Depth(b, o) THEN b[o].name ELSE b[Enclosing(b, o, d)].name)
               = b[Enclosing(b, j, d)].name
  <2>1. CASE d = D - 1
    BY <1>1, <1>2, <1>3, <2>1 DEF Owner
  <2>2. CASE d # D - 1
    <3>1. d \in 0 .. Depth(b, j) - 1 /\ d \in Int /\ D - 1 \in Int /\ d < D - 1
      BY <1>1, <2>2
    <3>2. PICK e : e = Enclosing(b, j, d) /\ Open(b, j, d, e)
      BY <3>1, EnclosingOpen
    <3>3. Open(b, o, d, e)
      BY <1>2, <3>1, <3>2, OuterOpen
    <3>4. o \in 1 .. Len(b) + 1
      BY <1>3 DEF IsBlob, Nodes
    <3>5. Enclosing(b, o, d) = e
      BY <3>1, <3>3, <3>4, EnclosingIs
    <3> QED  BY <1>3, <2>2, <3>2, <3>5
  <2> QED  BY <2>1, <2>2
<1>5. TruePath(b, o) = [d \in 1 .. D - 1 |-> b[Enclosing(b, j, d)].name]
  BY <1>3, <1>4 DEF TruePath
<1> QED  BY <1>1, <1>2, <1>3, <1>5

(***************************************************************************)
(* fdt_walk_next_node over any blob, broken or not, however deep and with  *)
(* whatever names: depth and path are those of the innermost open node,    *)
(* and neither array of struct fdt_walk_state is overrun.                  *)
(***************************************************************************)
THEOREM WalkFollowsTree == Spec => []WalkInStep
<1>1. ASSUME TreeInv PROVE WalkInStep
  <2>1. depth \in 0 .. FDT_MAX_DEPTH /\ depth \in Nat
    BY <1>1, FdtAssumption DEF TreeInv, WalkState
  <2>2. PICK n \in Nat : n = Len(path) /\ path \in [1 .. n -> NodeNames]
    BY <1>1 DEF TreeInv, WalkState
  <2>3. PathFits(path)
    <3>1. SubSeq(path, 1, Len(path)) = path
      BY <1>1 DEF TreeInv, WalkState
    <3>2. Len(path) \in 0 .. Len(path)
      BY <2>2
    <3> QED  BY <1>1, <3>1, <3>2 DEF TreeInv, WalkState
  <2>4. ASSUME pc = "walk", depth > 0 PROVE path = TruePath(blob, Owner(blob, cursor))
    <3>1. /\ cursor \in 1 .. Len(blob) + 1 /\ depth = Depth(blob, cursor) /\ IsBlob(blob)
          /\ \A d \in 1 .. depth - 1 : path[d] = blob[Enclosing(blob, cursor, d)].name
      BY <1>1, <2>4 DEF TreeInv, InStep, BlobOK
    <3>2. TruePath(blob, Owner(blob, cursor)) =
            [d \in 1 .. depth - 1 |-> blob[Enclosing(blob, cursor, d)].name]
      BY <2>4, <3>1, OwnerPath
    <3>3. n = depth - 1
      BY <1>1, <2>2, <2>4 DEF TreeInv, WalkState
    <3>4. path = [d \in 1 .. depth - 1 |-> blob[Enclosing(blob, cursor, d)].name]
      BY <2>2, <3>1, <3>3
    <3> QED  BY <3>2, <3>4
  <2> QED  BY <1>1, <2>1, <2>3, <2>4 DEF WalkInStep, TreeInv, InStep
<1> QED  BY <1>1, TreeInvariant, PTL

-----------------------------------------------------------------------------
(***************************************************************************)
(* fdt_get_property.  Its scan is a recursive function, of which first its *)
(* own equation is shown.                                                  *)
(***************************************************************************)
ScanBody(b, name, f, j, d) ==
  IF j > Len(b) THEN NoProp
  ELSE CASE b[j].t = "begin" -> f[j + 1][d + 1]
         [] b[j].t = "end"   -> IF d = 0 THEN NoProp ELSE f[j + 1][d - 1]
         [] b[j].t = "prop"  -> IF d = 0 /\ b[j].key = name THEN b[j] ELSE f[j + 1][d]
         [] b[j].t = "nop"   -> f[j + 1][d]
         [] OTHER            -> NoProp

ScanFrom(b, name, f, i) ==
  f = [j \in i .. Len(b) + 1 |-> [d \in 0 .. Len(b) |-> ScanBody(b, name, f, j, d)]]

Scan(b, name) == CHOOSE f : ScanFrom(b, name, f, 1)

LEMMA PropertyScans ==
  ASSUME NEW b, NEW n, NEW name
  PROVE  fdt_get_property(b, n, name) = Scan(b, name)[n.struct_offset + 1][0]
BY DEF fdt_get_property, Scan, ScanFrom, ScanBody

LEMMA ScanExtends ==
  ASSUME NEW b, NEW name, IsBlob(b), NEW i \in 1 .. Len(b), NEW f, ScanFrom(b, name, f, i + 1)
  PROVE  \E g : ScanFrom(b, name, g, i)
<1>1. PICK L \in Nat : L = Len(b)
  BY Zenon DEF IsBlob
<1>2. i \in Nat /\ 1 <= i /\ i <= L
  BY <1>1
<1> DEFINE g == [j \in i .. L + 1 |-> IF j = i THEN [d \in 0 .. L |-> ScanBody(b, name, f, i, d)]
                                      ELSE f[j]]
<1>3. ASSUME NEW j \in i .. L + 1, NEW d \in 0 .. L
      PROVE  ScanBody(b, name, g, j, d) = ScanBody(b, name, f, j, d)
  <2>1. CASE j > L
    BY <1>1, <2>1 DEF ScanBody
  <2>2. CASE j <= L
    <3>1. j + 1 \in i .. L + 1 /\ j + 1 # i
      BY <1>2, <2>2
    <3>2. g[j + 1] = f[j + 1]
      BY <3>1
    <3> HIDE DEF g
    <3> QED  BY <3>2 DEF ScanBody
  <2> QED  BY <1>2, <2>1, <2>2
<1>4. ASSUME NEW j \in i .. L + 1
      PROVE  g[j] = [d \in 0 .. L |-> ScanBody(b, name, f, j, d)]
  <2>1. CASE j = i
    BY <2>1
  <2>2. CASE j # i
    <3>1. j \in i + 1 .. L + 1
      BY <1>2, <2>2
    <3>2. f[j] = [d \in 0 .. L |-> ScanBody(b, name, f, j, d)]
      BY <1>1, <3>1 DEF ScanFrom
    <3> QED  BY <2>2, <3>2
  <2> QED  BY <2>1, <2>2
<1>5. g = [j \in i .. L + 1 |-> [d \in 0 .. L |-> ScanBody(b, name, g, j, d)]]
  <2>1. ASSUME NEW j \in i .. L + 1
        PROVE  g[j] = [d \in 0 .. L |-> ScanBody(b, name, g, j, d)]
    <3>1. [d \in 0 .. L |-> ScanBody(b, name, f, j, d)] = [d \in 0 .. L |-> ScanBody(b, name, g, j, d)]
      <4> HIDE DEF g
      <4> QED  BY <1>3
    <3> QED  BY <1>4, <3>1
  <2>2. PICK h : h = g /\ h \in [i .. L + 1 -> {g[j] : j \in i .. L + 1}]
    OBVIOUS
  <2>3. h = [j \in i .. L + 1 |-> [d \in 0 .. L |-> ScanBody(b, name, h, j, d)]]
    <3> HIDE DEF g
    <3> QED  BY <2>1, <2>2
  <2> HIDE DEF g
  <2> QED  BY <2>2, <2>3
<1>6. ScanFrom(b, name, g, i)
  <2> HIDE DEF g
  <2> QED  BY Zenon, <1>1, <1>5 DEF ScanFrom
<1> HIDE DEF g
<1> QED  BY SMTT(30), <1>6

LEMMA ScanDef ==
  ASSUME NEW b, NEW name, IsBlob(b)
  PROVE  ScanFrom(b, name, Scan(b, name), 1)
<1>1. PICK L \in Nat : L = Len(b)
  BY Zenon DEF IsBlob
<1> DEFINE T == {k \in 0 .. L : ~\E f : ScanFrom(b, name, f, L + 1 - k)}
<1>2. T = {}
  <2>1. SUFFICES ASSUME T # {} PROVE FALSE
    OBVIOUS
  <2>2. PICK k \in T : \A i \in T : k <= i
    <3>1. T \in SUBSET Nat
      BY <1>1
    <3> HIDE DEF T
    <3> QED  BY <2>1, <3>1, LeastExists
  <2>3. CASE k = 0
    <3>1. PICK f : f = [j \in L + 1 .. L + 1 |-> [d \in 0 .. L |-> NoProp]]
      OBVIOUS
    <3>2. ASSUME NEW j \in L + 1 .. L + 1, NEW d \in 0 .. L
          PROVE  ScanBody(b, name, f, j, d) = NoProp
      BY <1>1 DEF ScanBody
    <3>3. ScanFrom(b, name, f, L + 1)
      BY <1>1, <3>1, <3>2 DEF ScanFrom
    <3>4. L + 1 - k = L + 1
      BY <2>3
    <3> QED  BY <2>2, <3>3, <3>4
  <2>4. CASE k # 0
    <3>1. k - 1 \in 0 .. L /\ ~(k <= k - 1) /\ k \in 0 .. L
      BY <2>2, <2>4
    <3>2. PICK f : ScanFrom(b, name, f, L + 1 - (k - 1))
      BY <2>2, <3>1
    <3>3. PICK i \in 1 .. Len(b) : i = L + 1 - k /\ i + 1 = L + 1 - (k - 1)
      <4>1. PICK i \in Int : i = L + 1 - k
        BY <3>1
      <4>2. i \in 1 .. L /\ i + 1 = L + 1 - (k - 1)
        BY <2>4, <3>1, <4>1
      <4> QED  BY <1>1, <4>1, <4>2
    <3>4. \E g : ScanFrom(b, name, g, i)
      BY <3>2, <3>3, ScanExtends
    <3> QED  BY <2>2, <3>3, <3>4
  <2> QED  BY <2>3, <2>4
<1>3. \E f : ScanFrom(b, name, f, 1)
  <2>1. L \in 0 .. L /\ L + 1 - L = 1
    OBVIOUS
  <2> QED  BY <1>2, <2>1
<1> QED  BY <1>3 DEF Scan

LEMMA ScanAt ==
  ASSUME NEW b, NEW name, IsBlob(b), NEW j \in 1 .. Len(b) + 1, NEW d \in 0 .. Len(b)
  PROVE  Scan(b, name)[j][d] = ScanBody(b, name, Scan(b, name), j, d)
<1>1. PICK f : f = Scan(b, name) /\ ScanFrom(b, name, f, 1)
  BY ScanDef
<1>2. f[j] = [e \in 0 .. Len(b) |-> ScanBody(b, name, f, j, e)]
  BY <1>1 DEF ScanFrom
<1>3. f[j][d] = ScanBody(b, name, f, j, d)
  BY <1>2
<1> QED  BY <1>1, <1>3

(***************************************************************************)
(* What the scan finds from token j on, inside node e.                     *)
(***************************************************************************)
First(b, S) == IF S = {} THEN NoProp ELSE b[MinOf(S)]

OwnFrom(b, e, key, j) == {k \in OwnProps(b, e, key) : k >= j}

LEMMA OwnAreInside ==
  ASSUME NEW b, IsBlob(b), NEW e, NEW key, NEW k \in OwnProps(b, e, key)
  PROVE  /\ k \in 1 .. Len(b) /\ b[k].t = "prop" /\ b[k].key = key
         /\ e \in Nodes(b) /\ e < k /\ Depth(b, e) = Depth(b, k) - 1
         /\ \A i \in e + 1 .. k : Depth(b, i) > Depth(b, e)
<1>1. k \in 1 .. Len(b) /\ b[k].t = "prop" /\ b[k].key = key /\ Depth(b, k) > 0 /\ Owner(b, k) = e
  BY DEF OwnProps
<1>2. k \in 1 .. Len(b) + 1
  BY <1>1 DEF IsBlob
<1>3. Open(b, k, Depth(b, k) - 1, e) /\ e \in Nodes(b)
  BY <1>1, <1>2, OwnerPath
<1> QED  BY <1>1, <1>3 DEF Open

LEMMA DepthBound ==
  ASSUME NEW b, NEW j \in Nat \ {0}
  PROVE  Depth(b, j) <= j - 1
<1>1. ASSUME NEW kind PROVE CountBefore(b, j, kind) <= j - 1 /\ CountBefore(b, j, kind) \in Nat
  <2>1. IsFiniteSet(1 .. j - 1) /\ Cardinality(1 .. j - 1) = j - 1
    BY FS_Interval
  <2>2. PICK S \in SUBSET (1 .. j - 1) : S = {k \in 1 .. j - 1 : b[k].t = kind}
    OBVIOUS
  <2>3. Cardinality(S) <= Cardinality(1 .. j - 1)
    BY <2>1, FS_Subset
  <2>4. CountBefore(b, j, kind) = Cardinality(S)
    BY <2>2 DEF CountBefore
  <2>5. CountBefore(b, j, kind) \in Nat
    BY CountStep
  <2> QED  BY <2>1, <2>3, <2>4, <2>5
<1> QED  BY <1>1 DEF Depth

LEMMA NodeDepth ==
  ASSUME NEW b, IsBlob(b), WellFormed(b), NEW e \in Nodes(b)
  PROVE  Depth(b, e) \in Nat /\ e \in 1 .. Len(b) /\ e \in Nat \ {0}
<1>1. e \in 1 .. Len(b) /\ e \in Nat \ {0} /\ b[e].t = "begin"
  BY DEF IsBlob, Nodes
<1>2. Depth(b, e) > 0 \/ e = 1
  BY <1>1 DEF WellFormed
<1> QED  BY <1>1, <1>2, DepthStep

LEMMA ScanStepRight ==
  ASSUME NEW b, IsBlob(b), WellFormed(b), NEW e \in Nodes(b), NEW key,
         NEW j \in 1 .. Len(b), Open(b, j, Depth(b, e), e),
         Open(b, j + 1, Depth(b, e), e) =>
           Scan(b, key)[j + 1][Depth(b, j + 1) - Depth(b, e) - 1] = First(b, OwnFrom(b, e, key, j + 1))
  PROVE  Scan(b, key)[j][Depth(b, j) - Depth(b, e) - 1] = First(b, OwnFrom(b, e, key, j))
<1>1. /\ Len(b) \in Nat /\ j \in Nat \ {0} /\ j + 1 \in 1 .. Len(b) + 1 /\ j \in 1 .. Len(b) + 1
      /\ e \in Nat /\ e < j
  BY SMTT(30), NodeDepth DEF IsBlob, Open
<1>2. PICK E \in Nat, D \in Int, D1 \in Int :
        E = Depth(b, e) /\ D = Depth(b, j) /\ D1 = Depth(b, j + 1)
  BY <1>1, NodeDepth, DepthStep
<1>3. D > E /\ D <= j - 1
  <2>1. j \in e + 1 .. j
    BY <1>1
  <2>2. \A k \in e + 1 .. j : Depth(b, k) > E
    BY <1>2 DEF Open
  <2> QED  BY <1>1, <1>2, <2>1, <2>2, DepthBound
<1>4. PICK d \in 0 .. Len(b) : d = D - E - 1
  BY SMTT(30), <1>1, <1>2, <1>3
<1>5. PICK f : f = Scan(b, key) /\ f[j][d] = ScanBody(b, key, f, j, d)
  BY <1>1, ScanAt
<1>6. OwnProps(b, e, key) \subseteq Nat
  BY DEF OwnProps, IsBlob
<1>7. ASSUME D1 > E, j \notin OwnProps(b, e, key)
      PROVE  f[j + 1][D1 - E - 1] = First(b, OwnFrom(b, e, key, j))
  <2>1. Open(b, j + 1, E, e)
    <3>1. ASSUME NEW k \in e + 1 .. j + 1 PROVE Depth(b, k) > E
      <4>1. CASE k = j + 1
        BY <1>2, <1>7, <4>1
      <4>2. CASE k # j + 1
        <5>1. k \in e + 1 .. j
          BY <1>1, <4>2
        <5> QED  BY <1>2, <5>1 DEF Open
      <4> QED  BY <4>1, <4>2
    <3>2. e < j + 1
      BY <1>1
    <3> QED  BY <1>2, <3>1, <3>2 DEF Open
  <2>2. OwnFrom(b, e, key, j) = OwnFrom(b, e, key, j + 1)
    BY <1>1, <1>6, <1>7 DEF OwnFrom
  <2> QED  BY <1>2, <1>5, <2>1, <2>2
<1>8. \/ b[j].t \in {"begin", "end", "prop", "nop"} \/ D = 0
  BY <1>2 DEF WellFormed
<1>9. ~(j > Len(b))
  BY <1>1
<1>10. CASE b[j].t = "begin"
  <2>1. D1 = D + 1 /\ D1 - E - 1 = d + 1 /\ D1 > E
    <3>1. D1 = D + 1
      BY <1>1, <1>2, <1>10, DepthStep
    <3> QED  BY SMTT(30), <1>3, <1>4, <3>1
  <2>2. j \notin OwnProps(b, e, key)
    BY <1>10 DEF OwnProps
  <2>3. f[j][d] = f[j + 1][d + 1]
    BY <1>5, <1>9, <1>10 DEF ScanBody
  <2> QED  BY <1>2, <1>4, <1>5, <1>7, <2>1, <2>2, <2>3
<1>11. CASE b[j].t = "nop"
  <2>1. D1 = D /\ D1 - E - 1 = d /\ D1 > E
    BY <1>1, <1>2, <1>3, <1>4, <1>11, DepthStep
  <2>2. j \notin OwnProps(b, e, key)
    BY <1>11 DEF OwnProps
  <2>3. f[j][d] = f[j + 1][d]
    BY <1>5, <1>9, <1>11 DEF ScanBody
  <2> QED  BY <1>2, <1>4, <1>5, <1>7, <2>1, <2>2, <2>3
<1>12. CASE b[j].t = "end"
  <2>1. D1 = D - 1 /\ j \notin OwnProps(b, e, key)
    BY <1>1, <1>2, <1>12, DepthStep DEF OwnProps
  <2>2. CASE d = 0
    <3>1. f[j][d] = NoProp
      BY <1>5, <1>9, <1>12, <2>2 DEF ScanBody
    <3>2. ASSUME NEW k \in OwnFrom(b, e, key, j) PROVE FALSE
      <4>1. k \in OwnProps(b, e, key) /\ k >= j /\ k \in Nat
        BY <1>6 DEF OwnFrom
      <4>2. \A i \in e + 1 .. k : Depth(b, i) > E
        BY <1>2, <4>1, OwnAreInside
      <4>3. j + 1 \in e + 1 .. k
        BY <1>1, <2>1, <4>1
      <4> QED  BY <1>2, <1>4, <2>1, <2>2, <4>2, <4>3
    <3> QED  BY <1>2, <1>4, <1>5, <3>1, <3>2 DEF First
  <2>3. CASE d # 0
    <3>1. D1 - E - 1 = d - 1 /\ D1 > E
      BY SMTT(30), <1>4, <2>1, <2>3
    <3>2. f[j][d] = f[j + 1][d - 1]
      BY <1>5, <1>9, <1>12, <2>3 DEF ScanBody
    <3> QED  BY <1>2, <1>4, <1>5, <1>7, <2>1, <3>1, <3>2
  <2> QED  BY <2>2, <2>3
<1>13. CASE b[j].t = "prop"
  <2>1. D1 = D /\ D1 - E - 1 = d /\ D1 > E
    BY <1>1, <1>2, <1>3, <1>4, <1>13, DepthStep
  <2>2. CASE d = 0 /\ b[j].key = key
    <3>1. f[j][d] = b[j]
      BY <1>5, <1>9, <1>13, <2>2 DEF ScanBody
    <3>2. Owner(b, j) = e
      <4>1. Open(b, j, D - 1, e) /\ D - 1 \in Int
        BY <1>2, <1>4, <2>2
      <4> QED  BY <1>1, <1>2, <4>1, EnclosingIs DEF Owner
    <3>3. j \in OwnProps(b, e, key)
      BY <1>2, <1>3, <1>13, <2>2, <3>2 DEF OwnProps
    <3>4. j \in OwnFrom(b, e, key, j) /\ OwnFrom(b, e, key, j) \in SUBSET Int
          /\ \A k \in OwnFrom(b, e, key, j) : j <= k
      BY <1>1, <1>6, <3>3 DEF OwnFrom
    <3>5. MinOf(OwnFrom(b, e, key, j)) = j
      BY <3>4, MinOfIs
    <3> QED  BY <1>2, <1>4, <1>5, <3>1, <3>4, <3>5 DEF First
  <2>3. CASE ~(d = 0 /\ b[j].key = key)
    <3>1. f[j][d] = f[j + 1][d]
      BY <1>5, <1>9, <1>13, <2>3 DEF ScanBody
    <3>2. j \notin OwnProps(b, e, key)
      <4>1. ASSUME j \in OwnProps(b, e, key) PROVE FALSE
        <5>1. b[j].key = key /\ E = D - 1
          BY SMTT(30), <1>2, <4>1, OwnAreInside
        <5> QED  BY <1>2, <1>4, <2>3, <5>1
      <4> QED  BY <4>1
    <3> QED  BY <1>2, <1>4, <1>5, <1>7, <2>1, <3>1, <3>2
  <2> QED  BY <2>2, <2>3
<1> QED  BY SMTT(30), <1>2, <1>3, <1>8, <1>10, <1>11, <1>12, <1>13

LEMMA ScanRight ==
  ASSUME NEW b, IsBlob(b), WellFormed(b), NEW e \in Nodes(b), NEW key,
         NEW i \in 1 .. Len(b) + 1, Open(b, i, Depth(b, e), e)
  PROVE  Scan(b, key)[i][Depth(b, i) - Depth(b, e) - 1] = First(b, OwnFrom(b, e, key, i))
<1>1. PICK L \in Nat : L = Len(b)
  BY Zenon DEF IsBlob
<1> DEFINE Claim(j) == Open(b, j, Depth(b, e), e) =>
             Scan(b, key)[j][Depth(b, j) - Depth(b, e) - 1] = First(b, OwnFrom(b, e, key, j))
           T == {k \in 0 .. L : ~Claim(L + 1 - k)}
<1>2. T = {}
  <2>1. SUFFICES ASSUME T # {} PROVE FALSE
    OBVIOUS
  <2>2. PICK k \in T : \A m \in T : k <= m
    <3>1. T \in SUBSET Nat
      BY <1>1
    <3> HIDE DEF T
    <3> QED  BY <2>1, <3>1, LeastExists
  <2>3. CASE k = 0
    <3>1. ASSUME Open(b, L + 1, Depth(b, e), e)
          PROVE  Scan(b, key)[L + 1][Depth(b, L + 1) - Depth(b, e) - 1]
                   = First(b, OwnFrom(b, e, key, L + 1))
      <4>1. PICK E \in Nat, D \in Int : E = Depth(b, e) /\ D = Depth(b, L + 1)
        BY <1>1, NodeDepth, DepthStep
      <4>2. D > E
        <5>1. L + 1 \in e + 1 .. L + 1
          BY <1>1, NodeDepth
        <5> QED  BY <3>1, <4>1, <5>1 DEF Open
      <4>3. D <= L
        <5>1. L + 1 \in Nat \ {0} /\ L + 1 - 1 = L
          BY <1>1
        <5> QED  BY <4>1, <5>1, DepthBound
      <4>4. PICK d \in 0 .. Len(b) : d = D - E - 1
        BY SMTT(30), <1>1, <4>1, <4>2, <4>3
      <4>5. L + 1 \in 1 .. Len(b) + 1 /\ L + 1 > Len(b)
        BY <1>1
      <4>6. Scan(b, key)[L + 1][d] = NoProp
        BY <4>5, ScanAt DEF ScanBody
      <4>7. OwnFrom(b, e, key, L + 1) = {}
        BY <1>1 DEF OwnFrom, OwnProps
      <4> QED  BY <4>1, <4>4, <4>6, <4>7 DEF First
    <3>2. L + 1 - k = L + 1
      BY <2>3
    <3> QED  BY <2>2, <3>1, <3>2
  <2>4. CASE k # 0
    <3>1. k - 1 \in 0 .. L /\ ~(k <= k - 1) /\ k \in 0 .. L
      BY <2>2, <2>4
    <3>2. Claim(L + 1 - (k - 1))
      BY <2>2, <3>1
    <3>3. PICK j \in Int : j = L + 1 - k
      BY <3>1
    <3>4. j \in 1 .. L /\ j + 1 = L + 1 - (k - 1)
      BY <2>4, <3>1, <3>3
    <3>5. j \in 1 .. Len(b) /\ Claim(j + 1)
      BY <1>1, <3>2, <3>4
    <3>6. Claim(j)
      BY <3>5, ScanStepRight
    <3> QED  BY <2>2, <3>3, <3>6
  <2> QED  BY <2>3, <2>4
<1>3. PICK k \in 0 .. L : i = L + 1 - k
  <2>1. L + 1 - i \in 0 .. L /\ i = L + 1 - (L + 1 - i)
    BY <1>1
  <2> QED  BY <2>1
<1>4. Claim(i)
  BY <1>2, <1>3
<1> QED  BY <1>4

(***************************************************************************)
(* fdt_get_property returns the node's first property of that name, and    *)
(* nothing of the nodes below it or behind it.                             *)
(***************************************************************************)
LEMMA PropertyRight ==
  ASSUME NEW b, IsBlob(b), WellFormed(b), NEW n, n.struct_offset \in Nodes(b), NEW key
  PROVE  fdt_get_property(b, n, key) = First(b, OwnProps(b, n.struct_offset, key))
<1>1. PICK e \in Nodes(b) : e = n.struct_offset
  OBVIOUS
<1>2. PICK E \in Nat : E = Depth(b, e) /\ Depth(b, e + 1) = E + 1
  BY NodeDepth, DepthStep DEF Nodes
<1>3. e + 1 \in 1 .. Len(b) + 1 /\ Open(b, e + 1, Depth(b, e), e)
  BY NodeDepth, EnclosingBegun DEF IsBlob
<1>4. Depth(b, e + 1) - Depth(b, e) - 1 = 0
  BY <1>2
<1>5. OwnFrom(b, e, key, e + 1) = OwnProps(b, e, key)
  <2>1. ASSUME NEW k \in OwnProps(b, e, key) PROVE k >= e + 1
    <3>1. e < k /\ k \in Nat /\ e \in Nat
      BY OwnAreInside, NodeDepth DEF IsBlob
    <3> QED  BY <3>1
  <2> QED  BY <2>1 DEF OwnFrom
<1>6. Scan(b, key)[e + 1][0] = First(b, OwnProps(b, e, key))
  BY <1>3, <1>4, <1>5, ScanRight
<1> QED  BY <1>1, <1>6, PropertyScans

LEMMA CompatibleRight ==
  ASSUME BlobOK, WellFormed(blob), NEW n, n.struct_offset \in Nodes(blob), NEW c
  PROVE  fdt_node_has_compatible(blob, n, c) <=> Compatible(blob, n.struct_offset, c)
<1>1. PICK S : S = OwnProps(blob, n.struct_offset, "compatible")
  OBVIOUS
<1>2. fdt_get_property(blob, n, "compatible") = First(blob, S)
  BY <1>1, PropertyRight DEF BlobOK
<1>3. CASE S = {}
  BY <1>1, <1>2, <1>3 DEF fdt_node_has_compatible, Compatible, First
<1>4. CASE S # {}
  <2>1. S \in SUBSET Nat
    BY <1>1 DEF OwnProps, BlobOK, IsBlob
  <2>2. MinOf(S) \in S
    BY <1>4, <2>1, MinOfExists
  <2>3. PICK p : p = blob[MinOf(S)]
    OBVIOUS
  <2>4. p.t = "prop" /\ ValueTyped(p)
    BY <1>1, <2>2, <2>3 DEF OwnProps, BlobOK
  <2>5. p # NoProp /\ Len(p.val) \in Nat
    BY <2>4 DEF NoProp, ValueTyped, IsSequence
  <2>6. PICK L \in Nat : L = Len(p.val)
    BY <2>5
  <2>7. c \in StringsOf(p) <=> \E k \in 1 .. L : p.val[k] = c /\ (k < L \/ p.str)
    <3>1. StringsOf(p) = {p.val[k] : k \in 1 .. (IF p.str THEN L ELSE L - 1)}
      BY <2>6 DEF StringsOf
    <3>2. CASE p.str
      BY <3>1, <3>2
    <3>3. CASE ~p.str
      <4>1. \A k : k \in 1 .. L - 1 <=> k \in 1 .. L /\ k < L
        OBVIOUS
      <4> QED  BY <3>1, <3>3, <4>1
    <3> QED  BY <3>2, <3>3
  <2>8. Compatible(blob, n.struct_offset, c) <=> c \in StringsOf(p)
    BY <1>1, <1>4, <2>3 DEF Compatible
  <2>9. fdt_get_property(blob, n, "compatible") = p
    BY <1>2, <1>4, <2>3 DEF First
  <2>10. fdt_node_has_compatible(blob, n, c) <=>
           \E k \in 1 .. L : p.val[k] = c /\ (k < L \/ p.str)
    BY <2>5, <2>6, <2>9 DEF fdt_node_has_compatible
  <2> QED  BY <2>7, <2>8, <2>10
<1> QED  BY <1>3, <1>4

-----------------------------------------------------------------------------
(***************************************************************************)
(* The cell counts of an open node: those of its properties that the walk  *)
(* has passed, which at its first subnode are all of them.                 *)
(***************************************************************************)
OwnBefore(b, e, key, c) == {k \in OwnProps(b, e, key) : k < c}

CellsBefore(b, e, c, key, default) ==
  IF OwnBefore(b, e, key, c) = {} THEN default ELSE b[MinOf(OwnBefore(b, e, key, c))].val[1]

LEMMA CellsSame ==
  ASSUME NEW b, IsBlob(b), NEW c \in 1 .. Len(b), NEW e, NEW key, NEW default,
         c \notin OwnProps(b, e, key)
  PROVE  CellsBefore(b, e, c + 1, key, default) = CellsBefore(b, e, c, key, default)
<1>1. c \in Nat /\ OwnProps(b, e, key) \subseteq Nat
  BY DEF OwnProps, IsBlob
<1>2. OwnBefore(b, e, key, c + 1) = OwnBefore(b, e, key, c)
  BY <1>1 DEF OwnBefore
<1> QED  BY <1>2 DEF CellsBefore

LEMMA CellsRead ==
  ASSUME NEW b, IsBlob(b), WellFormed(b), NEW c \in 1 .. Len(b), NEW e, NEW key, NEW default,
         c \in OwnProps(b, e, key)
  PROVE  CellsBefore(b, e, c + 1, key, default) = b[c].val[1]
<1>1. b[c].t = "prop" /\ b[c].key = key /\ Owner(b, c) = e /\ c \in Int
  BY DEF OwnProps, IsBlob
<1>2. OwnProps(b, e, key) = {c}
  BY <1>1 DEF WellFormed
<1>3. OwnBefore(b, e, key, c + 1) = {c}
  BY <1>1, <1>2 DEF OwnBefore
<1>4. MinOf({c}) = c
  <2>1. PICK S : S = {c}
    OBVIOUS
  <2>2. S \in SUBSET Int /\ c \in S /\ \A y \in S : c <= y
    BY <1>1, <2>1
  <2> QED  BY <2>1, <2>2, MinOfIs
<1> QED  BY <1>3, <1>4 DEF CellsBefore

LEMMA CellsFresh ==
  ASSUME NEW b, IsBlob(b), NEW c \in Nodes(b), NEW key, NEW default
  PROVE  CellsBefore(b, c, c + 1, key, default) = default
<1>1. ASSUME NEW k \in OwnProps(b, c, key) PROVE ~(k < c + 1)
  <2>1. c < k /\ k \in Int /\ c \in Int
    BY OwnAreInside DEF IsBlob, Nodes
  <2> QED  BY <2>1
<1>2. OwnBefore(b, c, key, c + 1) = {}
  BY <1>1 DEF OwnBefore
<1> QED  BY <1>2 DEF CellsBefore

LEMMA CellsWhole ==
  ASSUME NEW b, IsBlob(b), WellFormed(b), NEW c \in Nodes(b), Depth(b, c) > 0, NEW key, NEW default
  PROVE  CellsBefore(b, Owner(b, c), c, key, default) = TrueCells(b, c, key, default)
<1>1. c \in 1 .. Len(b) + 1 /\ c \in Int
  BY DEF IsBlob, Nodes
<1>2. PICK o : o = Owner(b, c) /\ o < c
  BY <1>1, OwnerPath DEF Open
<1>3. ASSUME NEW k \in OwnProps(b, o, key) PROVE k < c
  <2>1. k \in 1 .. Len(b) /\ b[k].t = "prop" /\ Owner(b, k) = o
    BY DEF OwnProps
  <2> QED  BY <1>2, <2>1 DEF WellFormed
<1>4. OwnBefore(b, o, key, c) = OwnProps(b, o, key)
  BY <1>3 DEF OwnBefore
<1>5. Depth(b, c) # 0
  BY DepthStep, <1>1 DEF Nodes
<1> QED  BY <1>2, <1>4, <1>5 DEF CellsBefore, TrueCells

-----------------------------------------------------------------------------
(***************************************************************************)
(* What a walk over a well-formed blob knows: none of the nodes behind it  *)
(* was wanted, and its frames hold the cell counts read so far.            *)
(***************************************************************************)
CellsKept(field, key, default) ==
  \A d \in 1 .. depth :
    frames[d][field] = CellsBefore(blob, Enclosing(blob, cursor, d - 1), cursor, key, default)

AddressCellsKept == CellsKept("child_address_cells", "#address-cells", FDT_DEFAULT_ADDRESS_CELLS)
SizeCellsKept    == CellsKept("child_size_cells", "#size-cells", FDT_DEFAULT_SIZE_CELLS)

NoneYet == \A k \in Nodes(blob) : k < cursor => ~Wanted(blob, k)

SeenInv ==
  /\ found \in BOOLEAN /\ (found => pc = "done")
  /\ pc = "walk" => call.op \in {"path", "compatible"}
  /\ pc = "walk" /\ WellFormed(blob) => NoneYet /\ AddressCellsKept /\ SizeCellsKept
  /\ LookupRight

(***************************************************************************)
(* The path fdt_walk_next_node makes at a node, and what the loops of the  *)
(* lookups then test, is that of the tree.                                 *)
(***************************************************************************)
LEMMA NewPathRight ==
  ASSUME TreeInv, pc = "walk", cursor \in Nodes(blob)
  PROVE  (IF depth = 0 THEN <<>> ELSE Append(path, blob[cursor].name)) = TruePath(blob, cursor)
<1>1. /\ cursor \in 1 .. Len(blob) + 1 /\ depth = Depth(blob, cursor) /\ depth \in Nat
      /\ \A d \in 1 .. depth - 1 : path[d] = blob[Enclosing(blob, cursor, d)].name
  BY DEF TreeInv, InStep, WalkState
<1>2. CASE depth = 0
  <2>1. TruePath(blob, cursor) = <<>>
    BY <1>1, <1>2 DEF TruePath
  <2> QED  BY <1>2, <2>1
<1>3. CASE depth # 0
  <2>1. PICK N, m : N = NodeNames /\ m = blob[cursor].name
    OBVIOUS
  <2>2. path \in Seq(N) /\ m \in N /\ Len(path) = depth - 1
    BY <1>3, <2>1 DEF TreeInv, WalkState, NodeNames
  <2>3. /\ Append(path, m) \in [1 .. depth -> N]
        /\ \A d \in 1 .. depth : Append(path, m)[d] = IF d = depth THEN m ELSE path[d]
    <3>1. /\ Append(path, m) \in Seq(N) /\ Len(Append(path, m)) = Len(path) + 1
          /\ \A d \in 1 .. Len(path) : Append(path, m)[d] = path[d]
          /\ Append(path, m)[Len(path) + 1] = m
      BY <2>2
    <3>2. PICK s : s = Append(path, m)
      OBVIOUS
    <3>3. s \in Seq(N) /\ Len(s) = depth
      BY <1>1, <2>2, <3>1, <3>2
    <3>4. s \in [1 .. depth -> N]
      BY <3>3
    <3>5. \A d \in 1 .. depth : d = Len(path) + 1 \/ d \in 1 .. Len(path)
      BY <1>1, <2>2
    <3>6. \A d \in 1 .. depth : d = depth <=> d = Len(path) + 1
      BY <1>1, <2>2
    <3> QED  BY <3>1, <3>2, <3>4, <3>5, <3>6
  <2>4. TruePath(blob, cursor) =
          [d \in 1 .. depth |-> IF d = depth THEN m ELSE blob[Enclosing(blob, cursor, d)].name]
    BY <1>1, <2>1 DEF TruePath
  <2>5. ASSUME NEW d \in 1 .. depth
        PROVE  Append(path, m)[d] = IF d = depth THEN m ELSE blob[Enclosing(blob, cursor, d)].name
    BY <1>1, <2>3
  <2>6. Append(path, m) = [d \in 1 .. depth |-> Append(path, m)[d]]
    BY <2>3
  <2> QED  BY <1>3, <2>1, <2>4, <2>5, <2>6
<1> QED  BY <1>2, <1>3

LEMMA MatchRight ==
  ASSUME TreeInv, SeenInv, WellFormed(blob), pc = "walk", cursor \in Nodes(blob),
         NEW n, n.struct_offset = cursor
  PROVE  Matches(n, TruePath(blob, cursor)) <=> Wanted(blob, cursor)
<1>1. BlobOK
  BY DEF TreeInv
<1>2. CASE call.op = "path"
  BY <1>2 DEF Matches, Wanted
<1>3. CASE call.op = "compatible"
  <2>1. fdt_node_has_compatible(blob, n, call.arg) <=> Compatible(blob, cursor, call.arg)
    BY <1>1, CompatibleRight
  <2> QED  BY <1>3, <2>1 DEF Matches, Wanted
<1> QED  BY <1>2, <1>3 DEF SeenInv

(***************************************************************************)
(* A frame that the token at cursor says nothing about.                    *)
(***************************************************************************)
LEMMA CellsGoOn ==
  ASSUME TreeInv, pc = "walk", cursor \in 1 .. Len(blob), NEW d \in 1 .. depth,
         d <= Depth(blob, cursor + 1), NEW key, NEW default,
         cursor \notin OwnProps(blob, Enclosing(blob, cursor, d - 1), key)
  PROVE  CellsBefore(blob, Enclosing(blob, cursor + 1, d - 1), cursor + 1, key, default)
           = CellsBefore(blob, Enclosing(blob, cursor, d - 1), cursor, key, default)
<1>1. IsBlob(blob) /\ depth = Depth(blob, cursor) /\ depth \in Nat
  BY DEF TreeInv, BlobOK, InStep, WalkState
<1>2. Depth(blob, cursor + 1) \in Int
  BY <1>1, DepthStep DEF IsBlob
<1>3. d - 1 \in 0 .. Depth(blob, cursor) - 1 /\ d - 1 < Depth(blob, cursor + 1)
  BY <1>1, <1>2
<1>4. Enclosing(blob, cursor + 1, d - 1) = Enclosing(blob, cursor, d - 1)
  BY <1>1, <1>3, EnclosingKept
<1> QED  BY <1>1, <1>4, CellsSame

LEMMA CellsBegin ==
  ASSUME TreeInv, pc = "walk", cursor \in Nodes(blob), NEW field, NEW key, NEW default, NEW fr,
         CellsKept(field, key, default), depth + 1 \in 1 .. FDT_MAX_DEPTH, fr[field] = default,
         frames' = [frames EXCEPT ![depth + 1] = fr],
         depth' = depth + 1, cursor' = cursor + 1, blob' = blob
  PROVE  CellsKept(field, key, default)'
<1>1. /\ IsBlob(blob) /\ depth = Depth(blob, cursor) /\ depth \in Nat
      /\ frames \in [1 .. FDT_MAX_DEPTH -> Frame]
  BY DEF TreeInv, BlobOK, InStep, WalkState
<1>2. cursor \in 1 .. Len(blob) /\ cursor \in Nat \ {0} /\ blob[cursor].t = "begin"
  BY <1>1 DEF Nodes, IsBlob
<1>3. Depth(blob, cursor + 1) = depth + 1
  BY <1>1, <1>2, DepthStep
<1>4. ASSUME NEW d \in 1 .. depth + 1
      PROVE  frames'[d][field] =
               CellsBefore(blob, Enclosing(blob, cursor + 1, d - 1), cursor + 1, key, default)
  <2>1. CASE d = depth + 1
    <3>1. d - 1 = depth /\ frames'[d] = fr
      BY <1>1, <2>1
    <3>2. Enclosing(blob, cursor + 1, d - 1) = cursor
      BY <1>1, <3>1, EnclosingBegun
    <3> QED  BY <1>1, <3>1, <3>2, CellsFresh
  <2>2. CASE d # depth + 1
    <3>1. d \in 1 .. depth /\ d <= Depth(blob, cursor + 1)
      BY <1>1, <1>3, <2>2
    <3>2. frames'[d] = frames[d]
      BY <1>1, <2>2
    <3>3. cursor \notin OwnProps(blob, Enclosing(blob, cursor, d - 1), key)
      BY <1>2 DEF OwnProps
    <3>4. frames[d][field] = CellsBefore(blob, Enclosing(blob, cursor, d - 1), cursor, key, default)
      BY <3>1 DEF CellsKept
    <3> QED  BY <1>2, <3>1, <3>2, <3>3, <3>4, CellsGoOn
  <2> QED  BY <2>1, <2>2
<1> QED  BY <1>4 DEF CellsKept

LEMMA CellsEnd ==
  ASSUME TreeInv, pc = "walk", cursor \in 1 .. Len(blob), blob[cursor].t = "end",
         NEW field, NEW key, NEW default, CellsKept(field, key, default),
         frames' = frames, depth' = depth - 1, cursor' = cursor + 1, blob' = blob
  PROVE  CellsKept(field, key, default)'
<1>1. IsBlob(blob) /\ depth = Depth(blob, cursor) /\ depth \in Nat /\ cursor \in Nat \ {0}
  BY DEF TreeInv, BlobOK, IsBlob, InStep, WalkState
<1>2. Depth(blob, cursor + 1) = depth - 1
  BY <1>1, DepthStep
<1>3. ASSUME NEW d \in 1 .. depth - 1
      PROVE  frames[d][field] =
               CellsBefore(blob, Enclosing(blob, cursor + 1, d - 1), cursor + 1, key, default)
  <2>1. d \in 1 .. depth /\ d <= Depth(blob, cursor + 1)
    BY <1>1, <1>2
  <2>2. cursor \notin OwnProps(blob, Enclosing(blob, cursor, d - 1), key)
    BY DEF OwnProps
  <2>3. frames[d][field] = CellsBefore(blob, Enclosing(blob, cursor, d - 1), cursor, key, default)
    BY <2>1 DEF CellsKept
  <2> QED  BY <2>1, <2>2, <2>3, CellsGoOn
<1> QED  BY <1>3 DEF CellsKept

LEMMA CellsOn ==
  ASSUME TreeInv, WellFormed(blob), pc = "walk", cursor \in 1 .. Len(blob),
         blob[cursor].t \notin {"begin", "end"},
         NEW field, NEW key, NEW default, CellsKept(field, key, default),
         \A d \in 1 .. depth :
           frames'[d][field] = IF cursor \in OwnProps(blob, Enclosing(blob, cursor, d - 1), key)
                                 THEN blob[cursor].val[1] ELSE frames[d][field],
         depth' = depth, cursor' = cursor + 1, blob' = blob
  PROVE  CellsKept(field, key, default)'
<1>1. IsBlob(blob) /\ depth = Depth(blob, cursor) /\ depth \in Nat /\ cursor \in Nat \ {0}
  BY DEF TreeInv, BlobOK, IsBlob, InStep, WalkState
<1>2. Depth(blob, cursor + 1) = depth
  BY <1>1, DepthStep
<1>3. ASSUME NEW d \in 1 .. depth
      PROVE  frames'[d][field] =
               CellsBefore(blob, Enclosing(blob, cursor + 1, d - 1), cursor + 1, key, default)
  <2>1. d <= Depth(blob, cursor + 1)
    BY <1>1, <1>2
  <2>2. PICK e : e = Enclosing(blob, cursor, d - 1)
    OBVIOUS
  <2>3. CASE cursor \notin OwnProps(blob, e, key)
    <3>1. frames[d][field] = CellsBefore(blob, e, cursor, key, default)
      BY <2>2 DEF CellsKept
    <3> QED  BY <2>1, <2>2, <2>3, <3>1, CellsGoOn
  <2>4. CASE cursor \in OwnProps(blob, e, key)
    <3>1. d - 1 \in 0 .. Depth(blob, cursor) - 1 /\ d - 1 < Depth(blob, cursor + 1)
      BY <1>1, <1>2
    <3>2. Enclosing(blob, cursor + 1, d - 1) = e
      BY <1>1, <2>2, <3>1, EnclosingKept
    <3>3. CellsBefore(blob, e, cursor + 1, key, default) = blob[cursor].val[1]
      BY <1>1, <2>4, CellsRead
    <3> QED  BY <2>2, <2>4, <3>2, <3>3
  <2> QED  BY <2>3, <2>4
<1> QED  BY <1>3 DEF CellsKept

-----------------------------------------------------------------------------
(***************************************************************************)
(* The lookups, step by step.                                              *)
(***************************************************************************)
LEMMA WantedKept ==
  ASSUME UNCHANGED <<blob, call>>
  PROVE  \A k : Wanted(blob, k)' <=> Wanted(blob, k)
BY DEF Wanted

(***************************************************************************)
(* The cell counts of its parent that a node is found with.                *)
(***************************************************************************)
LEMMA ParentCells ==
  ASSUME TreeInv, WellFormed(blob), pc = "walk", cursor \in Nodes(blob),
         NEW field, NEW key, NEW default, CellsKept(field, key, default)
  PROVE  (IF depth = 0 THEN default ELSE frames[depth][field])
           = TrueCells(blob, cursor, key, default)
<1>1. IsBlob(blob) /\ depth = Depth(blob, cursor) /\ depth \in Nat
  BY DEF TreeInv, BlobOK, InStep, WalkState
<1>2. CASE depth = 0
  BY <1>1, <1>2 DEF TrueCells
<1>3. CASE depth # 0
  <2>1. depth \in 1 .. depth /\ Depth(blob, cursor) > 0
    BY <1>1, <1>3
  <2>2. frames[depth][field] = CellsBefore(blob, Owner(blob, cursor), cursor, key, default)
    BY <1>1, <2>1 DEF CellsKept, Owner
  <2> QED  BY <1>1, <1>3, <2>1, <2>2, CellsWhole
<1> QED  BY <1>2, <1>3

(***************************************************************************)
(* A step that ends the walk without a node.                               *)
(***************************************************************************)
LEMMA SeenFails ==
  ASSUME SeenInv, Fails, pc = "walk",
         WellFormed(blob) /\ InLimits(blob) => \A k \in Nodes(blob) : ~Wanted(blob, k)
  PROVE  SeenInv'
<1>1. pc' = "done" /\ found' = FALSE /\ blob' = blob /\ call' = call
  BY DEF Fails
<1>2. \A k : Wanted(blob, k)' <=> Wanted(blob, k)
  BY <1>1, WantedKept
<1>3. LookupRight'
  <2>1. ASSUME WellFormed(blob), InLimits(blob)
        PROVE  {j \in Nodes(blob) : Wanted(blob, j)'} = {}
    BY <1>2, <2>1
  <2> QED  BY <1>1, <2>1 DEF LookupRight
<1> QED  BY <1>1, <1>3 DEF SeenInv

LEMMA SeenBegin == ASSUME TreeInv, SeenInv, walk_begin PROVE SeenInv'
<1>1. /\ IsBlob(blob) /\ depth = Depth(blob, cursor) /\ depth \in 0 .. FDT_MAX_DEPTH
      /\ depth \in Nat /\ FDT_MAX_DEPTH \in Nat
      /\ pc = "walk" /\ cursor \in 1 .. Len(blob) /\ blob[cursor].t = "begin" /\ Len(path) \in Nat
  BY FdtAssumption DEF walk_begin, Reads, TreeInv, BlobOK, IsBlob, InStep, WalkState
<1>2. cursor \in Nodes(blob)
  BY <1>1 DEF Nodes
<1> DEFINE parent  == IF depth = 0 THEN DefaultFrame(0) ELSE frames[depth]
           newPath == IF depth = 0 THEN <<>> ELSE Append(path, blob[cursor].name)
           n == [struct_offset        |-> cursor,
                 parent_address_cells |-> parent.child_address_cells,
                 parent_size_cells    |-> parent.child_size_cells]
<1>3. newPath = TruePath(blob, cursor)
  BY <1>1, <1>2, NewPathRight
<1>4. CASE TooDeep \/ (depth > 0 /\ ~PathFits(newPath))
  <2>1. Fails
    BY <1>4 DEF walk_begin
  <2>2. ~InLimits(blob)
    <3>1. CASE TooDeep
      BY <1>1, <1>2, <3>1 DEF InLimits, TooDeep
    <3>2. CASE ~PathFits(newPath)
      BY <1>2, <1>3, <3>2 DEF InLimits
    <3> QED  BY <1>4, <3>1, <3>2
  <2> QED  BY <1>1, <2>1, <2>2, SeenFails
<1>5. CASE ~(TooDeep \/ (depth > 0 /\ ~PathFits(newPath)))
  <2>1. /\ path' = newPath /\ frames' = [frames EXCEPT ![depth + 1] = NewFrame(Len(path))]
        /\ depth' = depth + 1 /\ cursor' = cursor + 1 /\ blob' = blob /\ call' = call
        /\ Matches(n, newPath) => pc' = "done" /\ found' = TRUE /\ node' = n
        /\ ~Matches(n, newPath) => UNCHANGED <<pc, found, node>>
    BY <1>5 DEF walk_begin
  <2>2. \A k : Wanted(blob, k)' <=> Wanted(blob, k)
    BY <2>1, WantedKept
  <2>3. found \in BOOLEAN /\ found = FALSE /\ call.op \in {"path", "compatible"}
    BY <1>1 DEF SeenInv
  <2>4. CASE ~WellFormed(blob)
    <3>1. CASE Matches(n, newPath)
      BY <2>1, <2>3, <2>4, <3>1 DEF SeenInv, LookupRight
    <3>2. CASE ~Matches(n, newPath)
      BY <2>1, <2>3, <2>4, <3>2 DEF SeenInv, LookupRight
    <3> QED  BY <3>1, <3>2
  <2>5. CASE WellFormed(blob)
    <3>1. NoneYet /\ AddressCellsKept /\ SizeCellsKept
      BY <1>1, <2>5 DEF SeenInv
    <3>2. Matches(n, newPath) <=> Wanted(blob, cursor)
      <4>1. PICK q : q = n /\ q.struct_offset = cursor
        <5>1. n.struct_offset = cursor
          OBVIOUS
        <5> HIDE DEF n
        <5> QED  BY <5>1
      <4> QED  BY <1>1, <1>2, <1>3, <2>5, <4>1, MatchRight
    <3>3. CASE Wanted(blob, cursor)
      <4>1. pc' = "done" /\ found' = TRUE /\ node' = n
        BY <2>1, <3>2, <3>3
      <4>2. PICK W : W = {j \in Nodes(blob) : Wanted(blob, j)'}
        OBVIOUS
      <4>3. MinOf(W) = cursor /\ cursor \in W
        <5>1. W \in SUBSET Int /\ cursor \in W
          BY <1>2, <2>2, <3>3, <4>2 DEF Nodes
        <5>2. ASSUME NEW y \in W PROVE cursor <= y
          <6>1. y \in Nodes(blob) /\ Wanted(blob, y) /\ y \in Int /\ cursor \in Int
            BY <1>1, <2>2, <4>2 DEF Nodes
          <6>2. ~(y < cursor)
            BY <3>1, <6>1 DEF NoneYet
          <6> QED  BY <6>1, <6>2
        <5> QED  BY <5>1, <5>2, MinOfIs
      <4>4. parent.child_address_cells =
              TrueCells(blob, cursor, "#address-cells", FDT_DEFAULT_ADDRESS_CELLS)
        <5>1. parent.child_address_cells =
                IF depth = 0 THEN FDT_DEFAULT_ADDRESS_CELLS ELSE frames[depth]["child_address_cells"]
          BY DEF DefaultFrame
        <5> QED  BY <1>1, <1>2, <2>5, <3>1, <5>1, ParentCells DEF AddressCellsKept
      <4>5. parent.child_size_cells =
              TrueCells(blob, cursor, "#size-cells", FDT_DEFAULT_SIZE_CELLS)
        <5>1. parent.child_size_cells =
                IF depth = 0 THEN FDT_DEFAULT_SIZE_CELLS ELSE frames[depth]["child_size_cells"]
          BY DEF DefaultFrame
        <5> QED  BY <1>1, <1>2, <2>5, <3>1, <5>1, ParentCells DEF SizeCellsKept
      <4>6. /\ node'.struct_offset = cursor
            /\ node'.parent_address_cells = parent.child_address_cells
            /\ node'.parent_size_cells = parent.child_size_cells
        BY <4>1
      <4>7. LookupRight'
        <5> HIDE DEF parent, n, newPath
        <5> QED  BY <2>1, <4>1, <4>2, <4>3, <4>4, <4>5, <4>6 DEF LookupRight
      <4> QED  BY <4>1, <4>7 DEF SeenInv
    <3>4. CASE ~Wanted(blob, cursor)
      <4>1. UNCHANGED <<pc, found, node>>
        BY <2>1, <3>2, <3>4
      <4>2. NoneYet'
        <5>1. ASSUME NEW k \in Nodes(blob), k < cursor + 1 PROVE ~Wanted(blob, k)
          <6>1. k = cursor \/ k < cursor
            BY <1>1, <5>1 DEF Nodes
          <6> QED  BY <3>1, <3>4, <6>1 DEF NoneYet
        <5> QED  BY <2>1, <2>2, <5>1 DEF NoneYet
      <4>3. depth + 1 \in 1 .. FDT_MAX_DEPTH
        BY <1>1, <1>5 DEF TooDeep
      <4>4. PICK fr : /\ fr = NewFrame(Len(path))
                      /\ fr["child_address_cells"] = FDT_DEFAULT_ADDRESS_CELLS
                      /\ fr["child_size_cells"] = FDT_DEFAULT_SIZE_CELLS
        <5>1. PICK fr : fr = NewFrame(Len(path))
          OBVIOUS
        <5>2. fr = [path_len |-> Len(path), child_address_cells |-> FDT_DEFAULT_ADDRESS_CELLS,
                    child_size_cells |-> FDT_DEFAULT_SIZE_CELLS]
          BY <5>1 DEF NewFrame, DefaultFrame
        <5>3. /\ fr["child_address_cells"] = FDT_DEFAULT_ADDRESS_CELLS
              /\ fr["child_size_cells"] = FDT_DEFAULT_SIZE_CELLS
          BY <5>2
        <5> QED  BY <5>1, <5>3
      <4>5. AddressCellsKept'
        BY <1>1, <1>2, <2>1, <3>1, <4>3, <4>4, CellsBegin DEF AddressCellsKept
      <4>6. SizeCellsKept'
        BY <1>1, <1>2, <2>1, <3>1, <4>3, <4>4, CellsBegin DEF SizeCellsKept
      <4>7. LookupRight'
        BY <1>1, <4>1 DEF LookupRight
      <4> QED  BY <1>1, <2>1, <2>3, <4>1, <4>2, <4>5, <4>6, <4>7 DEF SeenInv
    <3> QED  BY <3>3, <3>4
  <2> QED  BY <2>4, <2>5
<1> QED  BY <1>4, <1>5

(***************************************************************************)
(* A token that begins no node.                                            *)
(***************************************************************************)
LEMMA SeenOn ==
  ASSUME TreeInv, SeenInv, pc = "walk", cursor \in 1 .. Len(blob), blob[cursor].t # "begin",
         cursor' = cursor + 1, UNCHANGED <<blob, call, pc, found, node>>,
         WellFormed(blob) => (AddressCellsKept' /\ SizeCellsKept')
  PROVE  SeenInv'
<1>1. \A k : Wanted(blob, k)' <=> Wanted(blob, k)
  BY WantedKept
<1>2. ASSUME WellFormed(blob) PROVE NoneYet'
  <2>1. NoneYet
    BY <1>2 DEF SeenInv
  <2>2. ASSUME NEW k \in Nodes(blob), k < cursor + 1 PROVE k < cursor
    <3>1. k # cursor /\ k \in Int /\ cursor \in Int
      BY DEF Nodes
    <3> QED  BY <2>2, <3>1
  <2> QED  BY <1>1, <2>1, <2>2 DEF NoneYet
<1>3. LookupRight'
  BY DEF LookupRight
<1> QED  BY <1>2, <1>3 DEF SeenInv

LEMMA SeenEnd == ASSUME TreeInv, SeenInv, walk_end PROVE SeenInv'
<1>1. /\ IsBlob(blob) /\ depth = Depth(blob, cursor) /\ depth \in Nat
      /\ pc = "walk" /\ cursor \in 1 .. Len(blob) /\ blob[cursor].t = "end"
  BY DEF walk_end, Reads, TreeInv, BlobOK, IsBlob, InStep, WalkState
<1>2. CASE depth = 0
  <2>1. Fails
    BY <1>2 DEF walk_end
  <2>2. ~WellFormed(blob)
    <3>1. ASSUME WellFormed(blob) PROVE FALSE
      <4>1. cursor = 1
        <5>1. Depth(blob, cursor) > 0 \/ cursor = 1
          BY <1>1, <3>1 DEF WellFormed
        <5> QED  BY <1>1, <1>2, <5>1
      <4>2. ASSUME blob = <<>> PROVE FALSE
        BY <1>1, <4>2
      <4>3. blob[1].t = "begin"
        BY <3>1, <4>2 DEF WellFormed
      <4> QED  BY <1>1, <4>1, <4>3
    <3> QED  BY <3>1
  <2> QED  BY <1>1, <2>1, <2>2, SeenFails
<1>3. CASE depth # 0
  <2>1. /\ depth' = depth - 1 /\ cursor' = cursor + 1
        /\ UNCHANGED <<blob, call, pc, frames, found, node>>
    BY <1>3 DEF walk_end
  <2>2. ASSUME WellFormed(blob) PROVE AddressCellsKept' /\ SizeCellsKept'
    <3>1. AddressCellsKept /\ SizeCellsKept
      BY <1>1, <2>2 DEF SeenInv
    <3>2. AddressCellsKept'
      BY <1>1, <2>1, <3>1, CellsEnd DEF AddressCellsKept
    <3>3. SizeCellsKept'
      BY <1>1, <2>1, <3>1, CellsEnd DEF SizeCellsKept
    <3> QED  BY <3>2, <3>3
  <2> QED  BY <1>1, <2>1, <2>2, SeenOn
<1> QED  BY <1>2, <1>3

(***************************************************************************)
(* The property at cursor is the innermost open node's and no other's.     *)
(***************************************************************************)
LEMMA OwnHere ==
  ASSUME TreeInv, pc = "walk", cursor \in 1 .. Len(blob), blob[cursor].t = "prop",
         NEW d \in 1 .. depth, NEW key
  PROVE  cursor \in OwnProps(blob, Enclosing(blob, cursor, d - 1), key)
           <=> d = depth /\ blob[cursor].key = key
<1>1. /\ IsBlob(blob) /\ depth = Depth(blob, cursor) /\ depth \in Nat
      /\ cursor \in 1 .. Len(blob) + 1
  BY DEF TreeInv, BlobOK, IsBlob, InStep, WalkState
<1>2. CASE d = depth
  <2>1. Depth(blob, cursor) > 0 /\ Owner(blob, cursor) = Enclosing(blob, cursor, d - 1)
    BY <1>1, <1>2 DEF Owner
  <2> QED  BY <1>2, <2>1 DEF OwnProps
<1>3. CASE d # depth
  <2>1. d - 1 \in 0 .. Depth(blob, cursor) - 1 /\ d - 1 # depth - 1
    BY <1>1, <1>3
  <2>2. PICK e : e = Enclosing(blob, cursor, d - 1) /\ Open(blob, cursor, d - 1, e)
    BY <1>1, <2>1, EnclosingOpen
  <2>3. Depth(blob, e) = d - 1
    BY <2>2 DEF Open
  <2>4. ASSUME cursor \in OwnProps(blob, e, key) PROVE FALSE
    <3>1. Depth(blob, e) = Depth(blob, cursor) - 1
      BY <1>1, <2>4, OwnAreInside
    <3> QED  BY <1>1, <2>1, <2>3, <3>1
  <2> QED  BY <1>3, <2>2, <2>4
<1> QED  BY <1>2, <1>3

LEMMA SeenProp == ASSUME TreeInv, SeenInv, walk_prop PROVE SeenInv'
<1>1. /\ IsBlob(blob) /\ depth = Depth(blob, cursor) /\ depth \in Nat /\ depth \in 0 .. FDT_MAX_DEPTH
      /\ pc = "walk" /\ cursor \in 1 .. Len(blob) /\ blob[cursor].t = "prop"
      /\ frames \in [1 .. FDT_MAX_DEPTH -> Frame] /\ FDT_MAX_DEPTH \in Nat
  BY FdtAssumption DEF walk_prop, Reads, TreeInv, BlobOK, IsBlob, InStep, WalkState
<1>2. PICK p, field : p = blob[cursor] /\ field = CellField(p.key)
  OBVIOUS
<1>3. CASE depth = 0 \/ (field # "none" /\ fdt_prop_get_u32(p) = <<>>)
  <2>1. Fails
    BY <1>2, <1>3 DEF walk_prop
  <2>2. ~WellFormed(blob)
    BY <1>1, <1>2, <1>3 DEF WellFormed
  <2> QED  BY <1>1, <2>1, <2>2, SeenFails
<1>4. CASE ~(depth = 0 \/ (field # "none" /\ fdt_prop_get_u32(p) = <<>>))
  <2>1. /\ frames' = IF field = "none" THEN frames
                     ELSE [frames EXCEPT ![depth][field] = fdt_prop_get_u32(p)[1]]
        /\ cursor' = cursor + 1 /\ UNCHANGED <<blob, call, pc, depth, path, found, node>>
    BY <1>2, <1>4 DEF walk_prop
  <2>2. field # "none" => fdt_prop_get_u32(p) = p.val
    BY <1>4 DEF fdt_prop_get_u32
  <2>3. depth \in 1 .. FDT_MAX_DEPTH
    BY <1>1, <1>4
  <2>4. /\ field = "child_address_cells" <=> p.key = "#address-cells"
        /\ field = "child_size_cells" <=> p.key = "#size-cells"
        /\ field \in {"none", "child_address_cells", "child_size_cells"}
    BY <1>2 DEF CellField
  <2>5. ASSUME NEW d \in 1 .. depth, NEW g \in {"child_address_cells", "child_size_cells"}
        PROVE  frames'[d][g] = IF d = depth /\ g = field THEN p.val[1] ELSE frames[d][g]
    <3>1. d \in 1 .. FDT_MAX_DEPTH
      BY <1>1
    <3>2. CASE field = "none"
      BY <2>1, <3>2
    <3>3. CASE field # "none"
      <4>1. PICK fr \in Frame : fr = frames[depth]
        BY <1>1, <2>3
      <4>2. frames' = [frames EXCEPT ![depth] = [fr EXCEPT ![field] = p.val[1]]]
        BY <2>1, <2>2, <3>3, <4>1
      <4>3. [fr EXCEPT ![field] = p.val[1]][g] = IF g = field THEN p.val[1] ELSE fr[g]
        BY <2>4, <3>3 DEF Frame
      <4> QED  BY <1>1, <2>3, <3>1, <4>1, <4>2, <4>3
    <3> QED  BY <3>2, <3>3
  <2>6. ASSUME WellFormed(blob) PROVE AddressCellsKept' /\ SizeCellsKept'
    <3>1. AddressCellsKept /\ SizeCellsKept
      BY <1>1, <2>6 DEF SeenInv
    <3>2. ASSUME NEW d \in 1 .. depth
          PROVE  frames'[d]["child_address_cells"] =
                   IF cursor \in OwnProps(blob, Enclosing(blob, cursor, d - 1), "#address-cells")
                     THEN blob[cursor].val[1] ELSE frames[d]["child_address_cells"]
      <4>1. cursor \in OwnProps(blob, Enclosing(blob, cursor, d - 1), "#address-cells")
              <=> d = depth /\ p.key = "#address-cells"
        BY <1>1, <1>2, OwnHere
      <4> QED  BY <1>2, <2>4, <2>5, <4>1
    <3>3. ASSUME NEW d \in 1 .. depth
          PROVE  frames'[d]["child_size_cells"] =
                   IF cursor \in OwnProps(blob, Enclosing(blob, cursor, d - 1), "#size-cells")
                     THEN blob[cursor].val[1] ELSE frames[d]["child_size_cells"]
      <4>1. cursor \in OwnProps(blob, Enclosing(blob, cursor, d - 1), "#size-cells")
              <=> d = depth /\ p.key = "#size-cells"
        BY <1>1, <1>2, OwnHere
      <4> QED  BY <1>2, <2>4, <2>5, <4>1
    <3>4. AddressCellsKept'
      BY <1>1, <2>1, <2>6, <3>1, <3>2, CellsOn DEF AddressCellsKept
    <3>5. SizeCellsKept'
      BY <1>1, <2>1, <2>6, <3>1, <3>3, CellsOn DEF SizeCellsKept
    <3> QED  BY <3>4, <3>5
  <2> QED  BY <1>1, <2>1, <2>6, SeenOn
<1> QED  BY <1>3, <1>4

LEMMA SeenNop == ASSUME TreeInv, SeenInv, walk_nop PROVE SeenInv'
<1>1. /\ pc = "walk" /\ cursor \in 1 .. Len(blob) /\ blob[cursor].t = "nop"
      /\ cursor' = cursor + 1 /\ UNCHANGED <<blob, call, pc, depth, path, frames, found, node>>
  BY DEF walk_nop, Reads, TreeInv, BlobOK, IsBlob, InStep
<1>2. \A e, key : cursor \notin OwnProps(blob, e, key)
  BY <1>1 DEF OwnProps
<1>3. ASSUME WellFormed(blob) PROVE AddressCellsKept' /\ SizeCellsKept'
  <2>1. AddressCellsKept /\ SizeCellsKept
    BY <1>1, <1>3 DEF SeenInv
  <2>2. AddressCellsKept'
    BY <1>1, <1>2, <1>3, <2>1, CellsOn DEF AddressCellsKept
  <2>3. SizeCellsKept'
    BY <1>1, <1>2, <1>3, <2>1, CellsOn DEF SizeCellsKept
  <2> QED  BY <2>2, <2>3
<1> QED  BY <1>1, <1>3, SeenOn

(***************************************************************************)
(* FDT_END, and the end of a blob that was cut short: every node is behind *)
(* the walk.                                                               *)
(***************************************************************************)
LEMMA SeenStop == ASSUME TreeInv, SeenInv, walk_stop \/ walk_off_end PROVE SeenInv'
<1>1. /\ pc = "walk" /\ Fails /\ cursor \in 1 .. Len(blob) + 1 /\ Len(blob) \in Nat
      /\ cursor > Len(blob) \/ (blob[cursor].t \in {"stop", "bad"} /\ cursor \in 1 .. Len(blob))
  <2>1. pc = "walk" /\ Fails
    BY DEF walk_stop, walk_off_end, Reads
  <2>2. cursor \in 1 .. Len(blob) + 1 /\ Len(blob) \in Nat
    BY <2>1 DEF TreeInv, BlobOK, IsBlob, InStep
  <2>3. cursor > Len(blob) \/ (cursor <= Len(blob) /\ blob[cursor].t \in {"stop", "bad"})
    BY DEF walk_stop, walk_off_end, Reads
  <2>4. cursor <= Len(blob) => cursor \in 1 .. Len(blob)
    BY <2>2
  <2> QED  BY <2>1, <2>2, <2>3, <2>4
<1>2. ASSUME WellFormed(blob), NEW k \in Nodes(blob) PROVE ~Wanted(blob, k)
  <2>1. k \in 1 .. Len(blob) /\ blob[k].t = "begin"
    BY DEF Nodes
  <2>2. cursor > Len(blob) \/ (cursor = Len(blob) /\ blob[cursor].t = "stop")
    BY <1>1, <1>2 DEF WellFormed
  <2>3. k # cursor \/ cursor > Len(blob)
    BY <2>1, <2>2
  <2>4. k < cursor
    BY <1>1, <2>1, <2>2, <2>3
  <2> QED  BY <1>1, <1>2, <2>4 DEF SeenInv, NoneYet
<1> QED  BY <1>1, <1>2, SeenFails

LEMMA SeenRestart ==
  ASSUME TreeInv, SeenInv, NEW c, c.op \in {"path", "compatible"}, fdt_walk_init(c)
  PROVE  SeenInv'
<1>1. /\ call' = c /\ found' = FALSE /\ pc' = "walk" /\ cursor' = 1 /\ depth' = 0 /\ blob' = blob
  BY DEF fdt_walk_init
<1>2. NoneYet'
  <2>1. \A k \in Nodes(blob) : ~(k < 1)
    BY DEF Nodes
  <2> QED  BY <1>1, <2>1 DEF NoneYet
<1>3. AddressCellsKept' /\ SizeCellsKept'
  BY <1>1 DEF AddressCellsKept, SizeCellsKept, CellsKept
<1>4. LookupRight'
  BY <1>1 DEF LookupRight
<1> QED  BY <1>1, <1>2, <1>3, <1>4 DEF SeenInv

LEMMA SeenQuiet ==
  ASSUME SeenInv, UNCHANGED vars
  PROVE  SeenInv'
<1>1. UNCHANGED <<blob, call, pc, cursor, depth, path, frames, found, node>>
  BY DEF vars
<1>2. \A k : Wanted(blob, k)' <=> Wanted(blob, k)
  BY <1>1, WantedKept
<1>3. LookupRight'
  <2>1. {j \in Nodes(blob) : Wanted(blob, j)'} = {j \in Nodes(blob) : Wanted(blob, j)}
    BY <1>2
  <2> QED  BY <1>1, <2>1 DEF SeenInv, LookupRight
<1>4. NoneYet => NoneYet'
  BY <1>1, <1>2 DEF NoneYet
<1>5. (AddressCellsKept => AddressCellsKept') /\ (SizeCellsKept => SizeCellsKept')
  BY <1>1 DEF AddressCellsKept, SizeCellsKept, CellsKept
<1> QED  BY <1>1, <1>3, <1>4, <1>5 DEF SeenInv

LEMMA SeenInit == Init => SeenInv
<1> SUFFICES ASSUME Init PROVE SeenInv
  OBVIOUS
<1>1. pc = "done" /\ found = FALSE /\ call.op = "none"
  BY DEF Init, NoCallYet
<1>2. {j \in Nodes(blob) : Wanted(blob, j)} = {}
  BY <1>1 DEF Wanted
<1> QED  BY <1>1, <1>2 DEF SeenInv, LookupRight

LEMMA SeenStep == HeaderInv /\ TreeInv /\ SeenInv /\ [Next]_allVars => SeenInv'
<1> SUFFICES ASSUME HeaderInv, TreeInv, SeenInv, [Next]_allVars PROVE SeenInv'
  OBVIOUS
<1>1. CASE walk_begin
  BY <1>1, SeenBegin
<1>2. CASE walk_end
  BY <1>2, SeenEnd
<1>3. CASE walk_prop
  BY <1>3, SeenProp
<1>4. CASE walk_nop
  BY <1>4, SeenNop
<1>5. CASE walk_stop \/ walk_off_end
  BY <1>5, SeenStop
<1>6. ASSUME NEW o \in {"path", "compatible"}, NEW a, Lookup(o, a) PROVE SeenInv'
  <2>1. CASE dtb_ready
    <3>1. PICK c : c = [op |-> o, arg |-> a] /\ c.op = o
      <4>1. PICK c : c = [op |-> o, arg |-> a]
        OBVIOUS
      <4>2. c.op = o
        BY <4>1
      <4> QED  BY <4>1, <4>2
    <3>2. fdt_walk_init(c)
      BY <1>6, <2>1, <3>1 DEF Lookup
    <3> QED  BY <3>1, <3>2, SeenRestart
  <2>2. CASE ~dtb_ready
    <3>1. found = FALSE
      BY <2>2 DEF HeaderInv, WalksWhenReady, SeenInv
    <3> QED  BY <1>6, <2>2, <3>1, SeenQuiet DEF Lookup, vars
  <2> QED  BY <2>1, <2>2
<1>7. CASE UNCHANGED allVars \/ Over \/ dtb_init \/ get_reg
  BY <1>7, SeenQuiet DEF allVars, Over, dtb_init, get_reg
<1>8. CASE uart_find_port \/ get_stdout_path \/ resolve_alias
  BY <1>6, <1>8 DEF uart_find_port, get_stdout_path, resolve_alias, StartSearch
<1>9. CASE test_stdout_node \/ find_compatible
  BY <1>6, <1>9, SeenQuiet DEF test_stdout_node, find_compatible, StartSearch
<1> QED  BY <1>1, <1>2, <1>3, <1>4, <1>5, <1>7, <1>8, <1>9 DEF Next, Step, Walk

(***************************************************************************)
(* fdt_find_node_by_path and fdt_find_compatible on every well-formed      *)
(* blob, cut short or not: the node found is the first of the tree that    *)
(* was asked for, with its parent's cell counts, and a lookup that fails   *)
(* on a tree within the limits fails because there is no such node.        *)
(***************************************************************************)
THEOREM LookupFindsNode == Spec => []LookupRight
<1>1. Init => HeaderInv /\ TreeInv /\ SeenInv
  BY HeaderInit, TreeInit, SeenInit
<1>2. HeaderInv /\ TreeInv /\ SeenInv /\ [Next]_allVars => HeaderInv' /\ TreeInv' /\ SeenInv'
  BY HeaderStep, TreeStep, SeenStep
<1>3. SeenInv => LookupRight
  BY DEF SeenInv
<1> QED  BY <1>1, <1>2, <1>3, PTL DEF Spec

-----------------------------------------------------------------------------
(***************************************************************************)
(* fdt_get_reg.  Reading up to two cells is a recursive function of which  *)
(* the equation is shown first, as for the scan.                           *)
(***************************************************************************)
IsReading(s, from, n, f) ==
  f = [k \in 0 .. n |-> IF k = 0 THEN 0 ELSE f[k - 1] * CellBase + s[from + k]]

NumberOf(s) == IF Len(s) = 0 THEN 0 ELSE IF Len(s) = 1 THEN s[1] ELSE s[1] * CellBase + s[2]

LEMMA ReadingExists ==
  ASSUME NEW s, NEW from \in Nat, NEW n \in 0 .. 2, \A k \in 1 .. n : s[from + k] \in Nat
  PROVE  \E f : IsReading(s, from, n, f)
<1>1. PICK x, y : x = s[from + 1] /\ y = x * CellBase + s[from + 2]
  OBVIOUS
<1>2. n > 0 => x \in Nat
  BY <1>1
<1>3. PICK g : g = [k \in 0 .. n |-> IF k = 0 THEN 0 ELSE IF k = 1 THEN x ELSE y]
  OBVIOUS
<1>4. ASSUME NEW k \in 0 .. n
      PROVE  g[k] = IF k = 0 THEN 0 ELSE g[k - 1] * CellBase + s[from + k]
  <2>1. CASE k = 0
    BY <1>3, <2>1
  <2>2. CASE k = 1
    <3>1. g[k] = x /\ g[k - 1] = 0 /\ s[from + k] = x /\ x \in Nat
      BY <1>1, <1>2, <1>3, <2>2
    <3>2. 0 * CellBase + x = x
      BY <3>1, FdtAssumption
    <3> QED  BY <2>2, <3>1, <3>2
  <2>3. CASE k = 2
    <3>1. g[k] = y /\ g[k - 1] = x /\ s[from + k] = s[from + 2]
      BY <1>3, <2>3
    <3> QED  BY <1>1, <2>3, <3>1
  <2> QED  BY <2>1, <2>2, <2>3
<1>5. g = [k \in 0 .. n |-> IF k = 0 THEN 0 ELSE g[k - 1] * CellBase + s[from + k]]
  <2>1. DOMAIN g = 0 .. n /\ g = [k \in 0 .. n |-> g[k]]
    BY <1>3
  <2> QED  BY <1>4, <2>1
<1> QED  BY <1>5 DEF IsReading

LEMMA ReadCellsRight ==
  ASSUME NEW s \in Seq(Nat), NEW from \in Nat, NEW n \in 0 .. 2, from + n <= Len(s)
  PROVE  ReadCells(s, from, n) = NumberOf(SubSeq(s, from + 1, from + n))
<1>1. \A k \in 1 .. n : s[from + k] \in Nat /\ from + k \in 1 .. Len(s)
  OBVIOUS
<1>2. PICK f : f = CHOOSE g : IsReading(s, from, n, g)
  OBVIOUS
<1>3. IsReading(s, from, n, f)
  BY <1>1, <1>2, ReadingExists
<1>4. ReadCells(s, from, n) = f[n]
  BY <1>2 DEF ReadCells, IsReading
<1>5. \A k \in 0 .. n : f[k] = IF k = 0 THEN 0 ELSE f[k - 1] * CellBase + s[from + k]
  BY <1>3 DEF IsReading
<1>6. PICK t : t = SubSeq(s, from + 1, from + n)
  OBVIOUS
<1>7. Len(t) = n /\ \A k \in 1 .. n : t[k] = s[from + k]
  BY <1>1, <1>6
<1>8. CASE n = 0
  BY <1>4, <1>5, <1>6, <1>7, <1>8 DEF NumberOf
<1>9. CASE n = 1
  <2>1. PICK x \in Nat : x = s[from + 1]
    BY <1>1, <1>9
  <2>2. f[0] = 0 /\ f[1] = f[0] * CellBase + x
    BY <1>5, <1>9, <2>1
  <2>3. 0 * CellBase + x = x
    BY FdtAssumption
  <2>4. f[n] = x /\ t[1] = x
    BY <1>7, <1>9, <2>1, <2>2, <2>3
  <2> QED  BY <1>4, <1>6, <1>7, <1>9, <2>4 DEF NumberOf
<1>10. CASE n = 2
  <2>1. PICK x \in Nat : x = s[from + 1]
    BY <1>1, <1>10
  <2>2. f[0] = 0 /\ f[1] = f[0] * CellBase + x /\ f[2] = f[1] * CellBase + s[from + 2]
    BY <1>5, <1>10, <2>1
  <2>3. 0 * CellBase + x = x
    BY FdtAssumption
  <2>4. f[n] = x * CellBase + s[from + 2] /\ t[1] = x /\ t[2] = s[from + 2]
    BY <1>7, <1>10, <2>1, <2>2, <2>3
  <2> QED  BY <1>4, <1>6, <1>7, <1>10, <2>4 DEF NumberOf
<1> QED  BY <1>8, <1>9, <1>10

LEMMA WholeCells ==
  ASSUME NEW v \in Seq(0 .. CellBase - 1)
  PROVE  v \in Seq(Nat)
<1>1. PICK S \in SUBSET Nat : S = 0 .. CellBase - 1
  BY FdtAssumption
<1>2. v \in Seq(S)
  BY <1>1
<1>3. Len(v) \in Nat /\ v \in [1 .. Len(v) -> S]
  BY <1>2
<1>4. v \in [1 .. Len(v) -> Nat]
  BY <1>3
<1> QED  BY <1>3, <1>4

LEMMA TrueCellsNat ==
  ASSUME BlobOK, WellFormed(blob), NEW j \in Nodes(blob), NEW key, CellField(key) # "none",
         NEW default \in Nat
  PROVE  TrueCells(blob, j, key, default) \in Nat
<1>1. PICK S : S = OwnProps(blob, Owner(blob, j), key)
  OBVIOUS
<1>2. CASE Depth(blob, j) = 0 \/ S = {}
  BY <1>1, <1>2 DEF TrueCells
<1>3. CASE Depth(blob, j) # 0 /\ S # {}
  <2>1. S \in SUBSET Nat
    BY <1>1 DEF OwnProps, BlobOK, IsBlob
  <2>2. PICK m : m = MinOf(S) /\ m \in S
    BY <1>3, <2>1, MinOfExists
  <2>3. m \in 1 .. Len(blob) /\ blob[m].t = "prop" /\ blob[m].key = key
    BY <1>1, <2>2 DEF OwnProps
  <2>4. fdt_prop_get_u32(blob[m]) # <<>>
    BY <2>3 DEF WellFormed
  <2>5. blob[m].whole /\ Len(blob[m].val) = 1
    BY <2>4 DEF fdt_prop_get_u32
  <2>6. PICK v : v = blob[m].val /\ v \in Seq(Nat) /\ Len(v) = 1
    <3>1. blob[m].val \in Seq(0 .. CellBase - 1)
      <4>1. blob[m].key \in CellKeys
        BY <2>3 DEF CellField, CellKeys
      <4>2. ValueTyped(blob[m])
        BY <2>3 DEF BlobOK
      <4> QED  BY <2>5, <4>1, <4>2 DEF ValueTyped
    <3> QED  BY <2>5, <3>1, WholeCells
  <2>7. v[1] \in Nat
    BY <2>6
  <2> QED  BY <1>1, <1>3, <2>2, <2>6, <2>7 DEF TrueCells
<1> QED  BY <1>2, <1>3

(***************************************************************************)
(* Entry of a reg property that stands between cells q and r.              *)
(***************************************************************************)
CutReg(b, S, ac, sc, q, r) ==
  IF /\ S # {} /\ ac \in 0 .. 2 /\ sc \in 0 .. 2 /\ ac + sc > 0
     /\ b[MinOf(S)].whole /\ r <= Len(b[MinOf(S)].val)
    THEN [ok |-> TRUE,
          addr |-> NumberOf(SubSeq(b[MinOf(S)].val, q + 0 + 1, q + 0 + ac)),
          size |-> NumberOf(SubSeq(b[MinOf(S)].val, q + ac + 1, q + ac + sc))]
    ELSE NoReg

LEMMA RegOfNode ==
  ASSUME BlobOK, WellFormed(blob), NEW n, NEW j \in Nodes(blob), n.struct_offset = j,
         n.parent_address_cells = TrueCells(blob, j, "#address-cells", FDT_DEFAULT_ADDRESS_CELLS),
         n.parent_size_cells = TrueCells(blob, j, "#size-cells", FDT_DEFAULT_SIZE_CELLS),
         NEW k \in 0 .. 2
  PROVE  fdt_get_reg(blob, n, k) = TrueReg(blob, j, k)
<1>1. PICK S : S = OwnProps(blob, j, "reg")
  OBVIOUS
<1>2. PICK ac, sc \in Nat :
        /\ ac = TrueCells(blob, j, "#address-cells", FDT_DEFAULT_ADDRESS_CELLS)
        /\ sc = TrueCells(blob, j, "#size-cells", FDT_DEFAULT_SIZE_CELLS)
  <2>1. CellField("#address-cells") # "none" /\ CellField("#size-cells") # "none"
    BY DEF CellField
  <2>2. FDT_DEFAULT_ADDRESS_CELLS \in Nat /\ FDT_DEFAULT_SIZE_CELLS \in Nat
    BY DEF FDT_DEFAULT_ADDRESS_CELLS, FDT_DEFAULT_SIZE_CELLS
  <2> QED  BY <2>1, <2>2, TrueCellsNat
<1>3. PICK p : p = fdt_get_property(blob, n, "reg") /\ p = First(blob, S)
  BY <1>1, PropertyRight DEF BlobOK
<1>4. PICK q, r \in Nat : q = k * (ac + sc) /\ r = (k + 1) * (ac + sc) /\ r = q + ac + sc
  <2>1. CASE k = 0
    BY <2>1
  <2>2. CASE k = 1
    BY <2>2
  <2>3. CASE k = 2
    BY <2>3
  <2> QED  BY <2>1, <2>2, <2>3
<1>5. fdt_get_reg(blob, n, k) =
        IF p = NoProp \/ ac > 2 \/ sc > 2 \/ ac + sc = 0 THEN NoReg
        ELSE IF ~p.whole \/ r > Len(p.val) THEN NoReg
        ELSE [ok |-> TRUE, addr |-> ReadCells(p.val, q, ac), size |-> ReadCells(p.val, q + ac, sc)]
  BY <1>2, <1>3, <1>4 DEF fdt_get_reg
<1>6. TrueReg(blob, j, k) = CutReg(blob, S, ac, sc, q, r)
  <2>1. TrueReg(blob, j, k) = CutReg(blob, S, ac, sc, k * (ac + sc), (k + 1) * (ac + sc))
    BY <1>1, <1>2 DEF TrueReg, CutReg, NumberOf, FDT_DEFAULT_ADDRESS_CELLS, FDT_DEFAULT_SIZE_CELLS
  <2> QED  BY <1>4, <2>1, Zenon
<1>7. q \in Nat /\ r \in Nat /\ ac \in Nat /\ sc \in Nat /\ r = q + ac + sc
  BY <1>4
<1>8. CASE S = {}
  <2>1. p = NoProp
    BY <1>3, <1>8 DEF First
  <2> QED  BY <1>5, <1>6, <1>8, <2>1 DEF CutReg
<1>9. CASE S # {} /\ (ac > 2 \/ sc > 2 \/ ac + sc = 0)
  <2>1. ~(ac \in 0 .. 2 /\ sc \in 0 .. 2 /\ ac + sc > 0)
    BY <1>2, <1>9
  <2> QED  BY <1>5, <1>6, <1>9, <2>1 DEF CutReg
<1>10. CASE S # {} /\ ~(ac > 2 \/ sc > 2 \/ ac + sc = 0)
  <2>1. ac \in 0 .. 2 /\ sc \in 0 .. 2 /\ ac + sc > 0
    BY <1>2, <1>10
  <2>2. PICK m : m = MinOf(S) /\ m \in 1 .. Len(blob) /\ blob[m].t = "prop" /\ p = blob[m]
                   /\ p.key = "reg"
    <3>1. S \in SUBSET Nat
      BY <1>1 DEF OwnProps, BlobOK, IsBlob
    <3>2. MinOf(S) \in S
      BY <1>10, <3>1, MinOfExists
    <3> QED  BY <1>1, <1>3, <1>10, <3>2 DEF OwnProps, First
  <2>3. p # NoProp
    BY <2>2 DEF NoProp
  <2>4. CASE ~p.whole
    BY <1>5, <1>6, <1>10, <2>2, <2>3, <2>4 DEF CutReg
  <2>5. CASE p.whole
    <3>1. PICK v : v = p.val /\ v \in Seq(Nat)
      <4>1. p.val \in Seq(0 .. CellBase - 1)
        <5>1. p.key \in CellKeys
          BY <2>2 DEF CellKeys
        <5>2. ValueTyped(p)
          BY <2>2 DEF BlobOK
        <5> QED  BY <2>5, <5>1, <5>2 DEF ValueTyped
      <4> QED  BY <4>1, WholeCells
    <3>2. Len(v) \in Nat
      BY <3>1
    <3>3. CASE r > Len(v)
      <4>1. ~(r <= Len(v))
        BY <1>7, <3>2, <3>3
      <4> QED  BY <1>5, <1>6, <1>10, <2>2, <2>3, <2>5, <3>1, <3>3, <4>1 DEF CutReg
    <3>4. CASE ~(r > Len(v))
      <4>1. r <= Len(v) /\ q + ac + sc <= Len(v) /\ q + ac <= Len(v) /\ q + ac \in Nat
        BY <1>7, <3>2, <3>4
      <4>2. ReadCells(v, q, ac) = NumberOf(SubSeq(v, q + 1, q + ac))
        BY <2>1, <3>1, <4>1, ReadCellsRight
      <4>3. ReadCells(v, q + ac, sc) = NumberOf(SubSeq(v, q + ac + 1, q + ac + sc))
        BY <2>1, <3>1, <4>1, ReadCellsRight
      <4>4. q + 0 + 1 = q + 1 /\ q + 0 + ac = q + ac
        BY <1>7
      <4> QED  BY <1>5, <1>6, <1>10, <2>1, <2>2, <2>3, <2>5, <3>1, <3>4, <4>1, <4>2, <4>3, <4>4 DEF CutReg
    <3> QED  BY <3>3, <3>4
  <2> QED  BY <2>4, <2>5
<1> QED  BY <1>8, <1>9, <1>10

(***************************************************************************)
(* What a lookup that found a node leaves behind.                          *)
(***************************************************************************)
LEMMA FoundNode ==
  ASSUME TreeInv, SeenInv, found, WellFormed(blob)
  PROVE  /\ node.struct_offset \in Nodes(blob)
         /\ node.struct_offset = MinOf({j \in Nodes(blob) : Wanted(blob, j)})
         /\ Wanted(blob, node.struct_offset)
         /\ node.parent_address_cells =
              TrueCells(blob, node.struct_offset, "#address-cells", FDT_DEFAULT_ADDRESS_CELLS)
         /\ node.parent_size_cells =
              TrueCells(blob, node.struct_offset, "#size-cells", FDT_DEFAULT_SIZE_CELLS)
<1>1. PICK W : W = {j \in Nodes(blob) : Wanted(blob, j)}
  OBVIOUS
<1>2. /\ W # {} /\ node.struct_offset = MinOf(W)
      /\ node.parent_address_cells =
           TrueCells(blob, MinOf(W), "#address-cells", FDT_DEFAULT_ADDRESS_CELLS)
      /\ node.parent_size_cells =
           TrueCells(blob, MinOf(W), "#size-cells", FDT_DEFAULT_SIZE_CELLS)
  BY <1>1 DEF SeenInv, LookupRight
<1>3. W \in SUBSET Nat
  BY <1>1 DEF Nodes, TreeInv, BlobOK, IsBlob
<1>4. MinOf(W) \in W
  BY <1>2, <1>3, MinOfExists
<1> QED  BY <1>1, <1>2, <1>4

(***************************************************************************)
(* fdt_get_reg on the node of any successful lookup in a well-formed blob: *)
(* the entry of its reg property that the parent's cell counts cut out,    *)
(* and none past the last whole one.                                       *)
(***************************************************************************)
THEOREM RegOfFoundNode == Spec => []RegRight
<1>1. Init => HeaderInv /\ TreeInv /\ SeenInv
  BY HeaderInit, TreeInit, SeenInit
<1>2. HeaderInv /\ TreeInv /\ SeenInv /\ [Next]_allVars => HeaderInv' /\ TreeInv' /\ SeenInv'
  BY HeaderStep, TreeStep, SeenStep
<1>3. ASSUME TreeInv, SeenInv PROVE RegRight
  <2>1. SUFFICES ASSUME found, WellFormed(blob), NEW k \in 0 .. 2
                 PROVE  fdt_get_reg(blob, node, k) = TrueReg(blob, node.struct_offset, k)
    BY DEF RegRight
  <2>2. BlobOK
    BY <1>3 DEF TreeInv
  <2> QED  BY <1>3, <2>1, <2>2, FoundNode, RegOfNode
<1> QED  BY <1>1, <1>2, <1>3, PTL DEF Spec

-----------------------------------------------------------------------------
(***************************************************************************)
(* uart_find_port.  What the answer of a lookup says of the tree, when the *)
(* tree is within the limits of the walk.                                  *)
(***************************************************************************)
GoodTree(b) == WellFormed(b) /\ InLimits(b)

LEMMA PathAnswer ==
  ASSUME TreeInv, SeenInv, GoodTree(blob), pc = "done", NEW s, call = [op |-> "path", arg |-> s]
  PROVE  /\ found => node.struct_offset \in Nodes(blob) /\ Named(blob, s) = {node.struct_offset}
         /\ ~found => Named(blob, s) = {}
<1>1. PICK W : W = {j \in Nodes(blob) : PathText(TruePath(blob, j)) = s}
  OBVIOUS
<1>2. call.op = "path" /\ call.arg = s
  OBVIOUS
<1>3. W = {j \in Nodes(blob) : Wanted(blob, j)}
  BY <1>1, <1>2 DEF Wanted
<1>4. ASSUME found
      PROVE  node.struct_offset \in Nodes(blob) /\ Named(blob, s) = {node.struct_offset}
  <2>1. /\ node.struct_offset \in Nodes(blob) /\ node.struct_offset = MinOf(W)
        /\ Wanted(blob, node.struct_offset)
    BY <1>3, <1>4, FoundNode DEF GoodTree
  <2>2. W # {}
    BY <1>3, <2>1
  <2> QED  BY <1>1, <2>1, <2>2 DEF Named
<1>5. ASSUME ~found PROVE Named(blob, s) = {}
  <2>1. W = {}
    BY <1>3, <1>5 DEF SeenInv, LookupRight, GoodTree
  <2> QED  BY <1>1, <2>1 DEF Named
<1> QED  BY <1>4, <1>5

LEMMA CompatibleAnswer ==
  ASSUME TreeInv, SeenInv, GoodTree(blob), pc = "done", NEW c,
         call = [op |-> "compatible", arg |-> c]
  PROVE  /\ found => /\ UartNodes(blob, {c}) # {} /\ node.struct_offset \in UartNodes(blob, {c})
                     /\ node.struct_offset = MinOf(UartNodes(blob, {c}))
         /\ ~found => UartNodes(blob, {c}) = {}
<1>1. PICK W : W = UartNodes(blob, {c})
  OBVIOUS
<1>2. call.op = "compatible" /\ call.arg = c
  OBVIOUS
<1>3. W = {j \in Nodes(blob) : Wanted(blob, j)}
  BY <1>1, <1>2 DEF Wanted, UartNodes
<1>4. ASSUME found PROVE node.struct_offset = MinOf(W) /\ node.struct_offset \in W
  <2>1. /\ node.struct_offset \in Nodes(blob) /\ node.struct_offset = MinOf(W)
        /\ Wanted(blob, node.struct_offset)
    BY <1>3, <1>4, FoundNode DEF GoodTree
  <2> QED  BY <1>3, <2>1
<1>5. ASSUME ~found PROVE W = {}
  BY <1>3, <1>5 DEF SeenInv, LookupRight, GoodTree
<1> QED  BY <1>1, <1>4, <1>5

(***************************************************************************)
(* A property of the node a path names.                                    *)
(***************************************************************************)
LEMMA StringOfNode ==
  ASSUME BlobOK, WellFormed(blob), NEW n, n.struct_offset \in Nodes(blob), NEW s, NEW key,
         Named(blob, s) = {n.struct_offset}
  PROVE  /\ Has(blob, s, key) <=> fdt_get_property(blob, n, key) # NoProp
         /\ StringAt(blob, s, key) =
              IF fdt_prop_is_string(fdt_get_property(blob, n, key))
                THEN fdt_get_property(blob, n, key).val ELSE <<>>
         /\ fdt_get_property(blob, n, key) # NoProp =>
              IsSequence(fdt_get_property(blob, n, key).val)
<1>1. PICK P : P = OwnProps(blob, n.struct_offset, key)
  OBVIOUS
<1>2. PICK p : p = fdt_get_property(blob, n, key) /\ p = First(blob, P)
  BY <1>1, PropertyRight DEF BlobOK
<1>3. UNION {OwnProps(blob, j, key) : j \in Named(blob, s)} = P
  BY <1>1
<1>4. Has(blob, s, key) <=> P # {}
  BY <1>1 DEF Has
<1>5. CASE P = {}
  <2>1. p = NoProp /\ StringAt(blob, s, key) = <<>>
    BY <1>2, <1>3, <1>5 DEF First, StringAt
  <2> QED  BY <1>2, <1>4, <1>5, <2>1 DEF fdt_prop_is_string
<1>6. CASE P # {}
  <2>1. P \in SUBSET Nat
    BY <1>1 DEF OwnProps, BlobOK, IsBlob
  <2>2. MinOf(P) \in P
    BY <1>6, <2>1, MinOfExists
  <2>3. p = blob[MinOf(P)] /\ p.t = "prop" /\ MinOf(P) \in 1 .. Len(blob)
    BY <1>1, <1>2, <1>6, <2>2 DEF First, OwnProps
  <2>4. p # NoProp
    BY <2>3 DEF NoProp
  <2>5. IsSequence(p.val)
    BY <2>3 DEF BlobOK, ValueTyped
  <2>6. StringAt(blob, s, key) = IF p.str THEN p.val ELSE <<>>
    BY <1>3, <1>6, <2>3 DEF StringAt
  <2>7. StringAt(blob, s, key) = IF fdt_prop_is_string(p) THEN p.val ELSE <<>>
    BY <2>4, <2>6 DEF fdt_prop_is_string
  <2> QED  BY <1>2, <1>4, <1>6, <2>4, <2>5, <2>7
<1> QED  BY <1>5, <1>6

LEMMA NothingNamed ==
  ASSUME NEW b, NEW s, Named(b, s) = {}, NEW key
  PROVE  ~Has(b, s, key) /\ StringAt(b, s, key) = <<>>
BY DEF Has, StringAt

(***************************************************************************)
(* Every path begins with a slash.                                         *)
(***************************************************************************)
LEMMA PathsBeginWithSlash ==
  ASSUME NEW b, IsBlob(b), WellFormed(b), NEW s, s = <<>> \/ s[1] # "/"
  PROVE  Named(b, s) = {}
<1>1. ASSUME NEW j \in Nodes(b) PROVE PathText(TruePath(b, j)) # s
  <2>1. PICK D \in Nat : D = Depth(b, j)
    BY NodeDepth
  <2>2. PICK p : p = TruePath(b, j)
    OBVIOUS
  <2>3. p = [d \in 1 .. D |-> IF d = D THEN b[j].name ELSE b[Enclosing(b, j, d)].name]
    BY <2>1, <2>2 DEF TruePath
  <2>4. CASE p = <<>>
    <3>1. PathText(p) = <<"/">>
      BY <2>4 DEF PathText
    <3>2. <<"/">> # <<>> /\ <<"/">>[1] = "/"
      OBVIOUS
    <3> QED  BY <2>2, <3>1, <3>2
  <2>5. CASE p # <<>>
    <3>1. D # 0
      BY <2>3, <2>5
    <3>2. Len(p) = D
      BY <2>3
    <3>3. PICK t : t = PathText(p) /\ t = [i \in 1 .. 2 * D |-> IF i % 2 = 1 THEN "/" ELSE p[i \div 2]]
      BY <2>5, <3>2 DEF PathText
    <3>4. 1 \in 1 .. 2 * D /\ 1 % 2 = 1
      BY <3>1
    <3>5. t[1] = "/"
      BY <3>3, <3>4
    <3>6. ASSUME t = <<>> PROVE FALSE
      <4>1. DOMAIN t = 1 .. 2 * D
        BY <3>3
      <4>2. DOMAIN t = {}
        BY <3>6
      <4> QED  BY <3>4, <4>1, <4>2
    <3> QED  BY <2>2, <3>3, <3>5, <3>6
  <2> QED  BY <2>4, <2>5
<1>2. {j \in Nodes(b) : PathText(TruePath(b, j)) = s} = {}
  BY <1>1
<1> QED  BY <1>2 DEF Named

(***************************************************************************)
(* The text before the options.                                            *)
(***************************************************************************)
LEMMA CutAtColon ==
  ASSUME NEW s, IsSequence(s)
  PROVE  SubSeq(s, 1, MinOf({k \in 1 .. Len(s) + 1 : k > Len(s) \/ s[k] = ":"}) - 1) = UpToColon(s)
<1>1. PICK L \in Nat : L = Len(s)
  BY DEF IsSequence
<1>2. PICK E : E = {k \in 1 .. L + 1 : k > L \/ s[k] = ":"}
  OBVIOUS
<1>3. PICK C : C = {k \in 1 .. L : s[k] = ":"}
  OBVIOUS
<1>4. E \in SUBSET Int
  BY <1>1, <1>2
<1>5. CASE C = {}
  <2>1. L + 1 \in E /\ \A y \in E : L + 1 <= y
    BY <1>1, <1>2, <1>3, <1>5
  <2>2. MinOf(E) = L + 1
    BY <1>4, <2>1, MinOfIs
  <2>3. PICK S : s \in [1 .. L -> S]
    <3>1. s = [k \in 1 .. L |-> s[k]]
      BY <1>1 DEF IsSequence
    <3>2. s \in [1 .. L -> {s[k] : k \in 1 .. L}]
      BY <3>1
    <3> QED  BY <3>2
  <2>4. SubSeq(s, 1, L) = s
    <3>1. s \in Seq(S) /\ Len(s) = L
      BY <1>1, <2>3
    <3> QED  BY <3>1
  <2>5. MinOf(E) - 1 = L
    BY <2>2
  <2> QED  BY <1>1, <1>2, <1>3, <1>5, <2>4, <2>5 DEF UpToColon
<1>6. CASE C # {}
  <2>1. C \in SUBSET Nat
    BY <1>1, <1>3
  <2>2. PICK m : m = MinOf(C) /\ m \in C /\ \A y \in C : m <= y
    BY <1>6, <2>1, MinOfExists
  <2>3. m \in E
    BY <1>1, <1>2, <1>3, <2>2
  <2>4. ASSUME NEW y \in E PROVE m <= y
    <3>1. m \in 1 .. L /\ y \in 1 .. L + 1
      BY <1>2, <1>3, <2>2
    <3>2. CASE y > L
      BY <1>1, <3>1, <3>2
    <3>3. CASE ~(y > L)
      <4>1. y \in C
        BY <1>1, <1>2, <1>3, <3>1, <3>3
      <4> QED  BY <2>2, <4>1
    <3> QED  BY <3>2, <3>3
  <2>5. MinOf(E) = m
    BY <1>4, <2>3, <2>4, MinOfIs
  <2>6. UpToColon(s) = SubSeq(s, 1, MinOf(C) - 1)
    BY <1>1, <1>3, <1>6 DEF UpToColon, MinOf
  <2> QED  BY <1>1, <1>2, <2>2, <2>5, <2>6
<1> QED  BY <1>5, <1>6

LEMMA CutNothing == Fitting(UpToColon(<<>>)) = <<>> /\ IsSequence(<<>>)
<1>1. UpToColon(<<>>) = <<>>
  BY DEF UpToColon
<1>2. IsSequence(<<>>)
  BY DEF IsSequence
<1> QED  BY <1>1, <1>2 DEF Fitting

LEMMA StdoutIs ==
  ASSUME NEW b, NEW key, NEW w, IsSequence(w),
         key = IF Has(b, <<"/", "chosen">>, "stdout-path") THEN "stdout-path" ELSE "linux,stdout-path",
         w = StringAt(b, <<"/", "chosen">>, key)
  PROVE  StdoutText(b) = Fitting(UpToColon(w))
<1>1. StdoutText(b) =
        Fitting(SubSeq(w, 1, MinOf({k \in 1 .. Len(w) + 1 : k > Len(w) \/ w[k] = ":"}) - 1))
  BY DEF StdoutText
<1> QED  BY <1>1, CutAtColon

LEMMA StdoutRight ==
  ASSUME TreeInv, SeenInv, GoodTree(blob), pc = "done",
         call = [op |-> "path", arg |-> <<"/", "chosen">>],
         NEW main, main = fdt_get_property(blob, node, "stdout-path"),
         NEW prop, prop = IF main # NoProp THEN main
                          ELSE fdt_get_property(blob, node, "linux,stdout-path")
  PROVE  StdoutText(blob) =
           IF ~found \/ ~fdt_prop_is_string(prop) \/ ~fdt_copy_string(UpToColon(prop.val))
             THEN <<>> ELSE UpToColon(prop.val)
<1>1. PICK s : s = <<"/", "chosen">>
  OBVIOUS
<1>2. PICK key : key = IF Has(blob, s, "stdout-path") THEN "stdout-path" ELSE "linux,stdout-path"
  OBVIOUS
<1>3. CASE ~found
  <2>1. Named(blob, s) = {}
    BY <1>1, <1>3, PathAnswer
  <2>2. StringAt(blob, s, key) = <<>>
    BY <2>1, NothingNamed
  <2>3. StdoutText(blob) = Fitting(UpToColon(<<>>))
    BY <1>1, <1>2, <2>2, CutNothing, StdoutIs
  <2> QED  BY <1>3, <2>3, CutNothing
<1>4. CASE found
  <2>1. node.struct_offset \in Nodes(blob) /\ Named(blob, s) = {node.struct_offset}
    BY <1>1, <1>4, PathAnswer
  <2>2. BlobOK /\ WellFormed(blob)
    BY DEF TreeInv, GoodTree
  <2>3. Has(blob, s, "stdout-path") <=> main # NoProp
    BY <2>1, <2>2, StringOfNode
  <2>4. prop = fdt_get_property(blob, node, key)
    BY <1>2, <2>3
  <2>5. /\ StringAt(blob, s, key) = IF fdt_prop_is_string(prop) THEN prop.val ELSE <<>>
        /\ prop # NoProp => IsSequence(prop.val)
    BY <2>1, <2>2, <2>4, StringOfNode
  <2>6. CASE ~fdt_prop_is_string(prop)
    <3>1. StdoutText(blob) = Fitting(UpToColon(<<>>))
      BY <1>1, <1>2, <2>5, <2>6, CutNothing, StdoutIs
    <3> QED  BY <2>6, <3>1, CutNothing
  <2>7. CASE fdt_prop_is_string(prop)
    <3>1. PICK w : w = prop.val /\ IsSequence(w)
      BY <2>5, <2>7 DEF fdt_prop_is_string
    <3>2. StdoutText(blob) = Fitting(UpToColon(w))
      BY <1>1, <1>2, <2>5, <2>7, <3>1, StdoutIs
    <3> QED  BY <1>4, <2>7, <3>1, <3>2 DEF Fitting, fdt_copy_string
  <2> QED  BY <2>6, <2>7
<1> QED  BY <1>3, <1>4

(***************************************************************************)
(* fdt_resolve_alias: the path looked up next names what Chosen names.     *)
(***************************************************************************)
LEMMA AliasRight ==
  ASSUME TreeInv, SeenInv, GoodTree(blob), pc = "done",
         call = [op |-> "path", arg |-> <<"/", "aliases">>],
         text = StdoutText(blob), text = <<>> \/ text[1] # "/",
         NEW prop, prop = IF found /\ Len(text) = 1 THEN fdt_get_property(blob, node, text[1])
                          ELSE NoProp,
         NEW name, name = IF fdt_prop_is_string(prop) /\ fdt_copy_string(prop.val)
                            THEN prop.val ELSE text
  PROVE  Named(blob, name) = Named(blob, Chosen(blob))
<1>1. PICK s, key : s = <<"/", "aliases">> /\ key = text[1]
  OBVIOUS
<1>2. BlobOK /\ IsBlob(blob) /\ WellFormed(blob)
  BY DEF TreeInv, BlobOK, GoodTree
<1>3. Named(blob, text) = {} /\ Named(blob, <<>>) = {}
  BY <1>2, PathsBeginWithSlash
<1>4. CASE Len(text) # 1
  <2>1. prop = NoProp /\ name = text
    BY <1>4 DEF fdt_prop_is_string
  <2>2. Chosen(blob) = text
    BY <1>4 DEF Chosen
  <2> QED  BY <2>1, <2>2
<1>5. CASE Len(text) = 1
  <2>1. text # <<>>
    BY <1>5
  <2>2. PICK w : w = StringAt(blob, s, key)
    OBVIOUS
  <2>3. Chosen(blob) = Fitting(w)
    BY <1>1, <1>5, <2>1, <2>2 DEF Chosen
  <2>4. CASE ~found
    <3>1. Named(blob, s) = {}
      BY <1>1, <2>4, PathAnswer
    <3>2. w = <<>>
      BY <2>2, <3>1, NothingNamed
    <3>3. Chosen(blob) = <<>>
      BY <2>3, <3>2 DEF Fitting
    <3>4. name = text
      BY <2>4 DEF fdt_prop_is_string
    <3> QED  BY <1>3, <3>3, <3>4
  <2>5. CASE found
    <3>1. node.struct_offset \in Nodes(blob) /\ Named(blob, s) = {node.struct_offset}
      BY <1>1, <2>5, PathAnswer
    <3>2. prop = fdt_get_property(blob, node, key)
      BY <1>1, <1>5, <2>5
    <3>3. w = IF fdt_prop_is_string(prop) THEN prop.val ELSE <<>>
      BY <1>2, <2>2, <3>1, <3>2, StringOfNode
    <3>4. CASE fdt_prop_is_string(prop) /\ fdt_copy_string(prop.val)
      BY <2>3, <3>3, <3>4 DEF Fitting, fdt_copy_string
    <3>5. CASE ~(fdt_prop_is_string(prop) /\ fdt_copy_string(prop.val))
      <4>1. Chosen(blob) = <<>>
        BY <2>3, <3>3, <3>5 DEF Fitting, fdt_copy_string
      <4> QED  BY <1>3, <3>5, <4>1
    <3> QED  BY <3>4, <3>5
  <2> QED  BY <2>4, <2>5
<1> QED  BY <1>4, <1>5

(***************************************************************************)
(* fdt_get_u32.                                                            *)
(***************************************************************************)
LEMMA U32Right ==
  ASSUME IsBlob(blob), WellFormed(blob), node.struct_offset \in Nodes(blob), NEW key, NEW default
  PROVE  fdt_get_u32(key, default) = U32At(blob, node.struct_offset, key, default)
<1>1. PICK P : P = OwnProps(blob, node.struct_offset, key)
  OBVIOUS
<1>2. PICK p : p = fdt_get_property(blob, node, key) /\ p = First(blob, P)
  BY <1>1, PropertyRight
<1>3. CASE P = {}
  <2>1. p = NoProp
    BY <1>2, <1>3 DEF First
  <2> QED  BY <1>1, <1>2, <1>3, <2>1 DEF fdt_get_u32, U32At
<1>4. CASE P # {}
  <2>1. P \in SUBSET Nat
    BY <1>1 DEF OwnProps, IsBlob
  <2>2. MinOf(P) \in P
    BY <1>4, <2>1, MinOfExists
  <2>3. p = blob[MinOf(P)] /\ p.t = "prop"
    BY <1>1, <1>2, <1>4, <2>2 DEF First, OwnProps
  <2>4. p # NoProp
    BY <2>3 DEF NoProp
  <2>5. fdt_get_u32(key, default) =
          IF fdt_prop_get_u32(p) = <<>> THEN default ELSE fdt_prop_get_u32(p)[1]
    BY <1>2, <2>4 DEF fdt_get_u32
  <2>6. U32At(blob, node.struct_offset, key, default) =
          IF ~p.whole \/ Len(p.val) # 1 THEN default ELSE p.val[1]
    BY <1>1, <1>4, <2>3 DEF U32At
  <2>7. CASE p.whole /\ Len(p.val) = 1
    <3>1. fdt_prop_get_u32(p) = p.val
      BY <2>7 DEF fdt_prop_get_u32
    <3>2. ASSUME p.val = <<>> PROVE FALSE
      BY <2>7, <3>2
    <3> QED  BY <2>5, <2>6, <2>7, <3>1, <3>2
  <2>8. CASE ~(p.whole /\ Len(p.val) = 1)
    <3>1. fdt_prop_get_u32(p) = <<>>
      BY <2>8 DEF fdt_prop_get_u32
    <3> QED  BY <2>5, <2>6, <2>8, <3>1
  <2> QED  BY <2>7, <2>8
<1> QED  BY <1>3, <1>4

LEMMA RegSizeNat ==
  ASSUME BlobOK, WellFormed(blob), NEW j \in Nodes(blob), TrueReg(blob, j, 0).ok
  PROVE  TrueReg(blob, j, 0).size \in Nat
<1>1. PICK S : S = OwnProps(blob, j, "reg")
  OBVIOUS
<1>2. PICK ac, sc \in Nat :
        /\ ac = TrueCells(blob, j, "#address-cells", FDT_DEFAULT_ADDRESS_CELLS)
        /\ sc = TrueCells(blob, j, "#size-cells", FDT_DEFAULT_SIZE_CELLS)
  <2>1. CellField("#address-cells") # "none" /\ CellField("#size-cells") # "none"
    BY DEF CellField
  <2>2. FDT_DEFAULT_ADDRESS_CELLS \in Nat /\ FDT_DEFAULT_SIZE_CELLS \in Nat
    BY DEF FDT_DEFAULT_ADDRESS_CELLS, FDT_DEFAULT_SIZE_CELLS
  <2> QED  BY <2>1, <2>2, TrueCellsNat
<1>3. PICK q, r : q = 0 * (ac + sc) /\ r = (0 + 1) * (ac + sc)
  OBVIOUS
<1>4. TrueReg(blob, j, 0) = CutReg(blob, S, ac, sc, q, r)
  <2>1. TrueReg(blob, j, 0) = CutReg(blob, S, ac, sc, 0 * (ac + sc), (0 + 1) * (ac + sc))
    BY <1>1, <1>2 DEF TrueReg, CutReg, NumberOf, FDT_DEFAULT_ADDRESS_CELLS, FDT_DEFAULT_SIZE_CELLS
  <2> QED  BY <1>3, <2>1, Zenon
<1>5. /\ S # {} /\ ac \in 0 .. 2 /\ sc \in 0 .. 2
      /\ blob[MinOf(S)].whole /\ r <= Len(blob[MinOf(S)].val)
      /\ TrueReg(blob, j, 0).size = NumberOf(SubSeq(blob[MinOf(S)].val, q + ac + 1, q + ac + sc))
  BY <1>4 DEF CutReg, NoReg
<1>6. q = 0 /\ r = ac + sc
  BY <1>2, <1>3
<1>7. PICK m : m = MinOf(S) /\ m \in 1 .. Len(blob) /\ blob[m].t = "prop" /\ blob[m].key = "reg"
  <2>1. S \in SUBSET Nat
    BY <1>1 DEF OwnProps, BlobOK, IsBlob
  <2>2. MinOf(S) \in S
    BY <1>5, <2>1, MinOfExists
  <2> QED  BY <1>1, <2>2 DEF OwnProps
<1>8. PICK v : v = blob[m].val /\ v \in Seq(Nat)
  <2>1. blob[m].val \in Seq(0 .. CellBase - 1)
    BY <1>5, <1>7 DEF BlobOK, ValueTyped, CellKeys
  <2> QED  BY <2>1, WholeCells
<1>9. PICK t : t = SubSeq(v, ac + 1, ac + sc)
  OBVIOUS
<1>10. ac + sc <= Len(v)
  BY <1>5, <1>6, <1>7, <1>8
<1>11. Len(t) = sc /\ \A k \in 1 .. sc : t[k] \in Nat
  <2>1. v \in Seq(Nat) /\ ac \in Nat /\ sc \in Nat /\ Len(v) \in Nat
    BY <1>2, <1>8
  <2>2. \A k \in 1 .. sc : v[ac + k] \in Nat /\ ac + k \in 1 .. Len(v)
    BY <1>10, <2>1
  <2>3. Len(t) = sc /\ \A k \in 1 .. sc : t[k] = v[ac + k]
    BY <1>9, <1>10, <2>1, <2>2
  <2> QED  BY <2>2, <2>3
<1>12. NumberOf(t) \in Nat
  <2>1. CASE sc = 0
    BY <1>11, <2>1 DEF NumberOf
  <2>2. CASE sc = 1
    BY <1>11, <2>2 DEF NumberOf
  <2>3. CASE sc = 2
    <3>1. PICK x, y \in Nat : x = t[1] /\ y = t[2]
      BY <1>11, <2>3
    <3>2. PICK C \in Nat : C = CellBase
      BY FdtAssumption
    <3>3. x * C + y \in Nat
      OBVIOUS
    <3> QED  BY <1>11, <2>3, <3>1, <3>2, <3>3 DEF NumberOf
  <2> QED  BY <1>5, <2>1, <2>2, <2>3
<1>13. q + ac + 1 = ac + 1 /\ q + ac + sc = ac + sc
  BY <1>2, <1>6
<1> QED  BY <1>5, <1>7, <1>8, <1>9, <1>12, <1>13

-----------------------------------------------------------------------------
(***************************************************************************)
(* What uart_find_port knows at each of its lookups, on a tree within the  *)
(* limits.                                                                 *)
(***************************************************************************)
Asking == {"stdout", "alias", "path", "search"}

AtStdout == at = "stdout" => call = [op |-> "path", arg |-> <<"/", "chosen">>]

AtAlias ==
  at = "alias" => /\ call = [op |-> "path", arg |-> <<"/", "aliases">>]
                  /\ text = StdoutText(blob) /\ (text = <<>> \/ text[1] # "/")

AtPath ==
  at = "path" => /\ call = [op |-> "path", arg |-> text]
                 /\ Named(blob, text) = Named(blob, Chosen(blob))

NotChosen(b) == Named(b, Chosen(b)) \cap UartNodes(b, AllNames) = {}

NoneBefore(b, i) == \A k \in 1 .. i - 1 : UartNodes(b, {uart_compatibles[k]}) = {}

AtSearch ==
  at = "search" => /\ idx \in 1 .. Len(uart_compatibles)
                   /\ call = [op |-> "compatible", arg |-> uart_compatibles[idx]]
                   /\ NotChosen(blob) /\ NoneBefore(blob, idx)

AtReg == at \in {"reg", "found"} => found /\ Best(blob) = {node.struct_offset}

PortOf(b, j, p) ==
  LET r == TrueReg(b, j, 0)
  IN  /\ r.ok /\ r.size > 0 /\ p.base = r.addr /\ p.size = r.size
      /\ p.reg_shift = U32At(b, j, "reg-shift", 0)
      /\ p.reg_io_width = U32At(b, j, "reg-io-width", 1)
      /\ p.reg_io_width \in {1, 4}

Unusable(b, j) == \/ ~TrueReg(b, j, 0).ok \/ TrueReg(b, j, 0).size = 0
                  \/ U32At(b, j, "reg-io-width", 1) \notin {1, 4}

AtFound == at = "found" => PortOf(blob, node.struct_offset, port)

AtFailed == at = "failed" => \A j \in Best(blob) : Unusable(blob, j)

PortInv ==
  /\ pc = "walk" => at \in Asking
  /\ dtb_ready /\ GoodTree(blob) =>
       AtStdout /\ AtAlias /\ AtPath /\ AtSearch /\ AtReg /\ AtFound /\ AtFailed

LEMMA PortKept ==
  ASSUME PortInv, UNCHANGED <<blob, call, dtbVars>>, pc' = "walk" => pc = "walk",
         at \in Asking \/ UNCHANGED <<found, node>>
  PROVE  PortInv'
<1>1. UNCHANGED <<blob, call, dtb_ready, at, idx, text, port>>
  BY DEF dtbVars
<1>2. at \in {"reg", "found"} => UNCHANGED <<found, node>>
  BY DEF Asking
<1>3. (pc = "walk" => at \in Asking)'
  BY <1>1 DEF PortInv
<1>4. ASSUME (dtb_ready /\ GoodTree(blob))'
      PROVE  (AtStdout /\ AtAlias /\ AtPath /\ AtSearch /\ AtReg /\ AtFound /\ AtFailed)'
  <2>1. AtStdout /\ AtAlias /\ AtPath /\ AtSearch /\ AtReg /\ AtFound /\ AtFailed
    BY <1>1, <1>4 DEF PortInv
  <2>2. (AtStdout /\ AtAlias /\ AtPath)'
    BY <1>1, <2>1 DEF AtStdout, AtAlias, AtPath
  <2>3. AtSearch'
    BY <1>1, <2>1 DEF AtSearch
  <2>4. (AtReg /\ AtFound /\ AtFailed)'
    BY <1>1, <1>2, <2>1 DEF AtReg, AtFound, AtFailed
  <2> QED  BY <2>2, <2>3, <2>4
<1> QED  BY <1>3, <1>4 DEF PortInv

(***************************************************************************)
(* A step that starts a lookup, or would without a tree.                   *)
(***************************************************************************)
LEMMA Asked ==
  ASSUME NEW o, NEW a, Lookup(o, a)
  PROVE  blob' = blob /\ (dtb_ready => call' = [op |-> o, arg |-> a])
BY DEF Lookup, fdt_walk_init

LEMMA PortAsks ==
  ASSUME at' \in Asking, dtb_ready' = dtb_ready, blob' = blob,
         dtb_ready /\ GoodTree(blob) => (AtStdout' /\ AtAlias' /\ AtPath' /\ AtSearch')
  PROVE  PortInv'
<1>1. at' \notin {"reg", "found", "failed"}
  BY DEF Asking
<1> QED  BY <1>1 DEF PortInv, AtReg, AtFound, AtFailed

LEMMA SearchStarts ==
  ASSUME StartSearch, dtb_ready' = dtb_ready,
         dtb_ready /\ GoodTree(blob) => NotChosen(blob)
  PROVE  PortInv'
<1>1. /\ Lookup("compatible", uart_compatibles[1]) /\ at' = "search" /\ idx' = 1 /\ blob' = blob
      /\ dtb_ready => call' = [op |-> "compatible", arg |-> uart_compatibles[1]]
  BY Asked DEF StartSearch
<1>2. 1 \in 1 .. Len(uart_compatibles)
  BY DtbAssumption
<1>3. NoneBefore(blob, 1)
  BY DEF NoneBefore
<1>4. ASSUME dtb_ready, GoodTree(blob) PROVE AtSearch'
  BY <1>1, <1>2, <1>3, <1>4 DEF AtSearch
<1>5. AtStdout' /\ AtAlias' /\ AtPath'
  BY <1>1 DEF AtStdout, AtAlias, AtPath
<1> QED  BY <1>1, <1>4, <1>5, PortAsks DEF Asking

LEMMA PortStdout ==
  ASSUME TreeInv, SeenInv, PortInv, get_stdout_path
  PROVE  PortInv'
<1>1. at = "stdout" /\ pc = "done" /\ UNCHANGED <<header, dtb_ready, port>>
  BY DEF get_stdout_path, At
<1>2. PICK main : main = fdt_get_property(blob, node, "stdout-path")
  OBVIOUS
<1>3. PICK prop : prop = IF main # NoProp THEN main
                         ELSE fdt_get_property(blob, node, "linux,stdout-path")
  OBVIOUS
<1>4. PICK name : name = UpToColon(prop.val)
  OBVIOUS
<1>5. ASSUME dtb_ready, GoodTree(blob)
      PROVE  StdoutText(blob) = IF ~found \/ ~fdt_prop_is_string(prop) \/ ~fdt_copy_string(name)
                                  THEN <<>> ELSE name
  <2>1. call = [op |-> "path", arg |-> <<"/", "chosen">>]
    BY <1>1, <1>5 DEF PortInv, AtStdout
  <2> QED  BY <1>1, <1>2, <1>3, <1>4, <1>5, <2>1, StdoutRight
<1>6. CASE ~found \/ ~fdt_prop_is_string(prop) \/ ~fdt_copy_string(name)
  <2>1. StartSearch
    BY <1>2, <1>3, <1>4, <1>6 DEF get_stdout_path
  <2>2. ASSUME dtb_ready, GoodTree(blob) PROVE NotChosen(blob)
    <3>1. StdoutText(blob) = <<>>
      BY <1>5, <1>6, <2>2
    <3>2. Chosen(blob) = <<>>
      BY <3>1 DEF Chosen
    <3>3. Named(blob, <<>>) = {}
      BY <2>2, PathsBeginWithSlash DEF GoodTree, TreeInv, BlobOK
    <3> QED  BY <3>2, <3>3 DEF NotChosen
  <2> QED  BY <1>1, <2>1, <2>2, SearchStarts
<1>7. CASE ~(~found \/ ~fdt_prop_is_string(prop) \/ ~fdt_copy_string(name))
  <2>1. text' = name
    BY <1>2, <1>3, <1>4, <1>7 DEF get_stdout_path
  <2>2. ASSUME dtb_ready, GoodTree(blob) PROVE StdoutText(blob) = name
    BY <1>5, <1>7, <2>2
  <2>3. CASE name # <<>> /\ name[1] = "/"
    <3>1. Lookup("path", name) /\ at' = "path"
      BY <1>2, <1>3, <1>4, <1>7, <2>3 DEF get_stdout_path
    <3>2. blob' = blob /\ (dtb_ready => call' = [op |-> "path", arg |-> name])
      BY <3>1, Asked
    <3>3. ASSUME dtb_ready, GoodTree(blob) PROVE AtPath'
      <4>1. Chosen(blob) = name
        BY <2>2, <2>3, <3>3 DEF Chosen
      <4> QED  BY <2>1, <3>2, <3>3, <4>1 DEF AtPath
    <3>4. AtStdout' /\ AtAlias' /\ AtSearch'
      BY <3>1 DEF AtStdout, AtAlias, AtSearch
    <3> QED  BY <1>1, <3>1, <3>2, <3>3, <3>4, PortAsks DEF Asking
  <2>4. CASE ~(name # <<>> /\ name[1] = "/")
    <3>1. Lookup("path", <<"/", "aliases">>) /\ at' = "alias"
      BY <1>2, <1>3, <1>4, <1>7, <2>4 DEF get_stdout_path
    <3>2. blob' = blob /\ (dtb_ready => call' = [op |-> "path", arg |-> <<"/", "aliases">>])
      BY <3>1, Asked
    <3>3. ASSUME dtb_ready, GoodTree(blob) PROVE AtAlias'
      BY <2>1, <2>2, <2>4, <3>2, <3>3 DEF AtAlias
    <3>4. AtStdout' /\ AtPath' /\ AtSearch'
      BY <3>1 DEF AtStdout, AtPath, AtSearch
    <3> QED  BY <1>1, <3>1, <3>2, <3>3, <3>4, PortAsks DEF Asking
  <2> QED  BY <2>3, <2>4
<1> QED  BY <1>6, <1>7

LEMMA PortAlias ==
  ASSUME TreeInv, SeenInv, PortInv, resolve_alias
  PROVE  PortInv'
<1>1. at = "alias" /\ pc = "done" /\ UNCHANGED <<header, dtb_ready, idx, port>>
  BY DEF resolve_alias, At
<1>2. PICK prop : prop = IF found /\ Len(text) = 1 THEN fdt_get_property(blob, node, text[1])
                         ELSE NoProp
  OBVIOUS
<1>3. PICK name : name = IF fdt_prop_is_string(prop) /\ fdt_copy_string(prop.val)
                           THEN prop.val ELSE text
  OBVIOUS
<1>4. text' = name /\ Lookup("path", name) /\ at' = "path"
  BY <1>2, <1>3 DEF resolve_alias
<1>5. blob' = blob /\ (dtb_ready => call' = [op |-> "path", arg |-> name])
  BY <1>4, Asked
<1>6. ASSUME dtb_ready, GoodTree(blob) PROVE AtPath'
  <2>1. /\ call = [op |-> "path", arg |-> <<"/", "aliases">>]
        /\ text = StdoutText(blob) /\ (text = <<>> \/ text[1] # "/")
    BY <1>1, <1>6 DEF PortInv, AtAlias
  <2>2. Named(blob, name) = Named(blob, Chosen(blob))
    BY <1>1, <1>2, <1>3, <1>6, <2>1, AliasRight
  <2> QED  BY <1>4, <1>5, <1>6, <2>2 DEF AtPath
<1>7. AtStdout' /\ AtAlias' /\ AtSearch'
  BY <1>4 DEF AtStdout, AtAlias, AtSearch
<1> QED  BY <1>1, <1>4, <1>5, <1>6, <1>7, PortAsks DEF Asking

(***************************************************************************)
(* A step that goes on to read the registers of the node found.            *)
(***************************************************************************)
LEMMA PortChosen ==
  ASSUME at' = "reg", UNCHANGED vars, dtb_ready' = dtb_ready, pc = "done", found,
         dtb_ready /\ GoodTree(blob) => Best(blob) = {node.struct_offset}
  PROVE  PortInv'
<1>1. UNCHANGED <<blob, pc, found, node>>
  BY DEF vars
<1>2. AtStdout' /\ AtAlias' /\ AtPath' /\ AtSearch' /\ AtFound' /\ AtFailed'
  BY DEF AtStdout, AtAlias, AtPath, AtSearch, AtFound, AtFailed
<1>3. ASSUME dtb_ready, GoodTree(blob) PROVE AtReg'
  BY <1>1, <1>3 DEF AtReg
<1> QED  BY <1>1, <1>2, <1>3 DEF PortInv

LEMMA PortTest ==
  ASSUME TreeInv, SeenInv, PortInv, test_stdout_node
  PROVE  PortInv'
<1>1. at = "path" /\ pc = "done" /\ UNCHANGED <<header, dtb_ready, text, port>>
  BY DEF test_stdout_node, At
<1>2. PICK Known : Known = \E k \in 1 .. Len(uart_compatibles) :
                             fdt_node_has_compatible(blob, node, uart_compatibles[k])
  OBVIOUS
<1>3. ASSUME dtb_ready, GoodTree(blob)
      PROVE  /\ found => /\ node.struct_offset \in Nodes(blob)
                         /\ Named(blob, Chosen(blob)) = {node.struct_offset}
             /\ ~found => Named(blob, Chosen(blob)) = {}
  <2>1. /\ call = [op |-> "path", arg |-> text]
        /\ Named(blob, text) = Named(blob, Chosen(blob))
    BY <1>1, <1>3 DEF PortInv, AtPath
  <2> QED  BY <1>1, <1>3, <2>1, PathAnswer
<1>4. ASSUME dtb_ready, GoodTree(blob), found
      PROVE  Known <=> node.struct_offset \in UartNodes(blob, AllNames)
  <2>1. node.struct_offset \in Nodes(blob)
    BY <1>3, <1>4
  <2>2. ASSUME NEW c
        PROVE  fdt_node_has_compatible(blob, node, c) <=> Compatible(blob, node.struct_offset, c)
    BY <1>4, <2>1, CompatibleRight DEF GoodTree, TreeInv
  <2> QED  BY <1>2, <2>1, <2>2 DEF UartNodes, AllNames
<1>5. CASE found /\ Known
  <2>1. at' = "reg" /\ UNCHANGED vars
    BY <1>2, <1>5 DEF test_stdout_node
  <2>2. ASSUME dtb_ready, GoodTree(blob) PROVE Best(blob) = {node.struct_offset}
    BY <1>3, <1>4, <1>5, <2>2 DEF Best
  <2> QED  BY <1>1, <1>5, <2>1, <2>2, PortChosen
<1>6. CASE ~(found /\ Known)
  <2>1. StartSearch
    BY <1>2, <1>6 DEF test_stdout_node
  <2>2. ASSUME dtb_ready, GoodTree(blob) PROVE NotChosen(blob)
    BY <1>3, <1>4, <1>6, <2>2 DEF NotChosen
  <2> QED  BY <1>1, <2>1, <2>2, SearchStarts
<1> QED  BY <1>5, <1>6

LEMMA PortSearch ==
  ASSUME TreeInv, SeenInv, PortInv, find_compatible
  PROVE  PortInv'
<1>1. at = "search" /\ pc = "done" /\ UNCHANGED <<header, dtb_ready, text, port>>
  BY DEF find_compatible, At
<1>2. PICK N \in Nat : N = Len(uart_compatibles)
  BY DtbAssumption
<1>3. ASSUME dtb_ready, GoodTree(blob)
      PROVE  /\ idx \in 1 .. N /\ NotChosen(blob) /\ NoneBefore(blob, idx)
             /\ call = [op |-> "compatible", arg |-> uart_compatibles[idx]]
             /\ found => /\ UartNodes(blob, {uart_compatibles[idx]}) # {}
                         /\ node.struct_offset = MinOf(UartNodes(blob, {uart_compatibles[idx]}))
             /\ ~found => UartNodes(blob, {uart_compatibles[idx]}) = {}
  <2>1. /\ idx \in 1 .. N /\ NotChosen(blob) /\ NoneBefore(blob, idx)
        /\ call = [op |-> "compatible", arg |-> uart_compatibles[idx]]
    BY <1>1, <1>2, <1>3 DEF PortInv, AtSearch
  <2> QED  BY <1>1, <1>3, <2>1, CompatibleAnswer
<1>4. CASE found
  <2>1. at' = "reg" /\ UNCHANGED vars
    BY <1>4 DEF find_compatible
  <2>2. ASSUME dtb_ready, GoodTree(blob) PROVE Best(blob) = {node.struct_offset}
    <3>1. PICK K : K = {k \in 1 .. Len(uart_compatibles) : UartNodes(blob, {uart_compatibles[k]}) # {}}
      OBVIOUS
    <3>2. idx \in K /\ K \in SUBSET Int
      BY <1>2, <1>3, <1>4, <2>2, <3>1
    <3>3. ASSUME NEW y \in K PROVE idx <= y
      <4>1. y \in 1 .. N /\ idx \in 1 .. N /\ UartNodes(blob, {uart_compatibles[y]}) # {}
        BY <1>2, <1>3, <2>2, <3>1
      <4>2. y \notin 1 .. idx - 1
        BY <1>3, <2>2, <4>1 DEF NoneBefore
      <4> QED  BY <4>1, <4>2
    <3>4. MinOf(K) = idx
      BY <3>2, <3>3, MinOfIs
    <3>5. Best(blob) = {MinOf(UartNodes(blob, {uart_compatibles[MinOf(K)]}))}
      BY <1>3, <2>2, <3>1, <3>2 DEF Best, NotChosen
    <3> QED  BY <1>3, <1>4, <2>2, <3>4, <3>5
  <2> QED  BY <1>1, <1>4, <2>1, <2>2, PortChosen
<1>5. CASE ~found /\ idx < Len(uart_compatibles)
  <2>1. idx' = idx + 1 /\ at' = "search" /\ Lookup("compatible", uart_compatibles[idx + 1])
    BY <1>1, <1>5 DEF find_compatible
  <2>2. blob' = blob
        /\ (dtb_ready => call' = [op |-> "compatible", arg |-> uart_compatibles[idx + 1]])
    BY <2>1, Asked
  <2>3. ASSUME dtb_ready, GoodTree(blob) PROVE AtSearch'
    <3>1. idx \in 1 .. N /\ idx < N
      BY <1>2, <1>3, <1>5, <2>3
    <3>2. idx + 1 \in 1 .. Len(uart_compatibles)
      BY <1>2, <3>1
    <3>3. NoneBefore(blob, idx + 1)
      <4>1. ASSUME NEW k \in 1 .. (idx + 1) - 1 PROVE k = idx \/ k \in 1 .. idx - 1
        BY <3>1
      <4> QED  BY <1>3, <1>5, <2>3, <4>1 DEF NoneBefore
    <3> QED  BY <1>3, <2>1, <2>2, <2>3, <3>2, <3>3 DEF AtSearch
  <2>4. AtStdout' /\ AtAlias' /\ AtPath'
    BY <2>1 DEF AtStdout, AtAlias, AtPath
  <2> QED  BY <1>1, <2>1, <2>2, <2>3, <2>4, PortAsks DEF Asking
<1>6. CASE ~found /\ ~(idx < Len(uart_compatibles))
  <2>1. at' = "failed" /\ UNCHANGED vars
    BY <1>6 DEF find_compatible
  <2>2. blob' = blob /\ pc' = pc
    BY <2>1 DEF vars
  <2>3. ASSUME dtb_ready, GoodTree(blob) PROVE AtFailed'
    <3>1. idx \in 1 .. N /\ idx = N
      BY <1>2, <1>3, <1>6, <2>3
    <3>2. ASSUME NEW k \in 1 .. Len(uart_compatibles)
          PROVE  UartNodes(blob, {uart_compatibles[k]}) = {}
      <4>1. k = idx \/ k \in 1 .. idx - 1
        BY <1>2, <3>1
      <4> QED  BY <1>3, <1>6, <2>3, <4>1 DEF NoneBefore
    <3>3. Best(blob) = {}
      BY <1>3, <2>3, <3>2 DEF Best, NotChosen
    <3> QED  BY <2>2, <3>3 DEF AtFailed
  <2>4. AtStdout' /\ AtAlias' /\ AtPath' /\ AtSearch' /\ AtReg' /\ AtFound'
    BY <2>1 DEF AtStdout, AtAlias, AtPath, AtSearch, AtReg, AtFound
  <2> QED  BY <1>1, <2>2, <2>3, <2>4 DEF PortInv
<1> QED  BY <1>4, <1>5, <1>6

LEMMA PortRead ==
  ASSUME TreeInv, SeenInv, PortInv, get_reg
  PROVE  PortInv'
<1>1. at = "reg" /\ pc = "done" /\ UNCHANGED <<blob, pc, found, node, dtb_ready>>
  BY DEF get_reg, At, vars
<1>2. PICK reg, width : reg = fdt_get_reg(blob, node, 0) /\ width = fdt_get_u32("reg-io-width", 1)
  OBVIOUS
<1>3. at' \in {"found", "failed"}
  BY DEF get_reg
<1>4. AtStdout' /\ AtAlias' /\ AtPath' /\ AtSearch'
  BY <1>3 DEF AtStdout, AtAlias, AtPath, AtSearch
<1>5. ASSUME dtb_ready, GoodTree(blob) PROVE AtReg' /\ AtFound' /\ AtFailed'
  <2>1. PICK j : j = node.struct_offset
    OBVIOUS
  <2>2. found /\ Best(blob) = {j}
    BY <1>1, <1>5, <2>1 DEF PortInv, AtReg
  <2>3. /\ j \in Nodes(blob)
        /\ node.parent_address_cells =
             TrueCells(blob, j, "#address-cells", FDT_DEFAULT_ADDRESS_CELLS)
        /\ node.parent_size_cells = TrueCells(blob, j, "#size-cells", FDT_DEFAULT_SIZE_CELLS)
    BY <1>5, <2>1, <2>2, FoundNode DEF GoodTree
  <2>4. BlobOK /\ IsBlob(blob) /\ WellFormed(blob)
    BY <1>5 DEF GoodTree, TreeInv, BlobOK
  <2>5. reg = TrueReg(blob, j, 0)
    <3>1. 0 \in 0 .. 2
      OBVIOUS
    <3> QED  BY <1>2, <2>1, <2>3, <2>4, <3>1, RegOfNode
  <2>6. /\ width = U32At(blob, j, "reg-io-width", 1)
        /\ fdt_get_u32("reg-shift", 0) = U32At(blob, j, "reg-shift", 0)
    BY <1>2, <2>1, <2>3, <2>4, U32Right
  <2>7. AtReg'
    BY <1>1, <2>1, <2>2 DEF AtReg
  <2>8. CASE ~reg.ok \/ reg.size = 0
    <3>1. at' = "failed"
      BY <1>2, <2>8 DEF get_reg
    <3>2. Unusable(blob, j)
      BY <2>5, <2>8 DEF Unusable
    <3> QED  BY <1>1, <2>2, <2>7, <3>1, <3>2 DEF AtFound, AtFailed
  <2>9. CASE ~(~reg.ok \/ reg.size = 0)
    <3>1. /\ port' = [base |-> reg.addr, size |-> reg.size,
                      reg_shift |-> fdt_get_u32("reg-shift", 0), reg_io_width |-> width]
          /\ at' = IF width \in {1, 4} THEN "found" ELSE "failed"
      BY <1>2, <2>9 DEF get_reg
    <3>2. reg.size > 0
      <4>1. reg.size \in Nat
        BY <2>3, <2>4, <2>5, <2>9, RegSizeNat
      <4> QED  BY <2>9, <4>1
    <3>3. CASE width \in {1, 4}
      <4>1. PortOf(blob, j, port')
        BY <2>5, <2>6, <2>9, <3>1, <3>2, <3>3 DEF PortOf
      <4> QED  BY <1>1, <2>1, <2>7, <3>1, <3>3, <4>1 DEF AtFound, AtFailed
    <3>4. CASE width \notin {1, 4}
      <4>1. Unusable(blob, j)
        BY <2>6, <3>4 DEF Unusable
      <4> QED  BY <1>1, <2>2, <2>7, <3>1, <3>4, <4>1 DEF AtFound, AtFailed
    <3> QED  BY <3>3, <3>4
  <2> QED  BY <2>8, <2>9
<1> QED  BY <1>1, <1>4, <1>5 DEF PortInv

LEMMA PortInit == Init => PortInv
<1> SUFFICES ASSUME Init PROVE PortInv
  OBVIOUS
<1>1. pc = "done" /\ dtb_ready = FALSE
  BY DEF Init, NoCallYet
<1> QED  BY <1>1 DEF PortInv

LEMMA PortStep == HeaderInv /\ TreeInv /\ SeenInv /\ PortInv /\ [Next]_allVars => PortInv'
<1> SUFFICES ASSUME HeaderInv, TreeInv, SeenInv, PortInv, [Next]_allVars PROVE PortInv'
  OBVIOUS
<1>1. CASE Walk /\ UNCHANGED dtbVars
  <2>1. pc = "walk" /\ UNCHANGED <<blob, call>>
    BY <1>1 DEF Walk, walk_begin, walk_end, walk_prop, walk_nop, walk_stop, walk_off_end, Reads, Fails
  <2>2. at \in Asking
    BY <2>1 DEF PortInv
  <2> QED  BY <1>1, <2>1, <2>2, PortKept DEF dtbVars
<1>2. CASE dtb_init
  <2>1. at' = "start" /\ pc' = "done"
    BY <1>2 DEF dtb_init, At, vars
  <2> QED  BY <2>1 DEF PortInv, AtStdout, AtAlias, AtPath, AtSearch, AtReg, AtFound, AtFailed
<1>3. CASE uart_find_port
  <2>1. Lookup("path", <<"/", "chosen">>) /\ at' = "stdout" /\ dtb_ready' = dtb_ready
    BY <1>3 DEF uart_find_port
  <2>2. blob' = blob /\ (dtb_ready => call' = [op |-> "path", arg |-> <<"/", "chosen">>])
    BY <2>1, Asked
  <2>3. dtb_ready => AtStdout'
    BY <2>2 DEF AtStdout
  <2>4. AtAlias' /\ AtPath' /\ AtSearch'
    BY <2>1 DEF AtAlias, AtPath, AtSearch
  <2> QED  BY <2>1, <2>2, <2>3, <2>4, PortAsks DEF Asking
<1>4. CASE get_stdout_path
  BY <1>4, PortStdout
<1>5. CASE resolve_alias
  BY <1>5, PortAlias
<1>6. CASE test_stdout_node
  BY <1>6, PortTest
<1>7. CASE find_compatible
  BY <1>7, PortSearch
<1>8. CASE get_reg
  BY <1>8, PortRead
<1>9. CASE Over \/ UNCHANGED allVars
  BY <1>9, PortKept DEF Over, allVars, vars, dtbVars
<1> QED  BY <1>1, <1>2, <1>3, <1>4, <1>5, <1>6, <1>7, <1>8, <1>9 DEF Next, Step

(***************************************************************************)
(* uart_find_port on every well-formed tree within the limits of the walk: *)
(* it uses the chosen console if the driver knows it, else the first node  *)
(* of the first name any node is compatible with, reads that node's        *)
(* registers by that node's parent's cell counts, and fails only when      *)
(* there is no such node or its registers cannot be used.                  *)
(***************************************************************************)
THEOREM PortIsRight == Spec => []PortRight
<1>1. Init => HeaderInv /\ TreeInv /\ SeenInv /\ PortInv
  BY HeaderInit, TreeInit, SeenInit, PortInit
<1>2. HeaderInv /\ TreeInv /\ SeenInv /\ PortInv /\ [Next]_allVars
        => HeaderInv' /\ TreeInv' /\ SeenInv' /\ PortInv'
  BY HeaderStep, TreeStep, SeenStep, PortStep
<1>3. ASSUME HeaderInv, PortInv PROVE PortRight
  <2>1. at \in {"reg", "found"} => dtb_ready
    BY <1>3 DEF HeaderInv, WalksWhenReady
  <2>2. ASSUME dtb_ready, WellFormed(blob), InLimits(blob) PROVE AtReg /\ AtFound /\ AtFailed
    BY <1>3, <2>2 DEF PortInv, GoodTree
  <2> QED  BY <2>1, <2>2 DEF PortRight, AtReg, AtFound, AtFailed, PortOf, Unusable
<1> QED  BY <1>1, <1>2, <1>3, PTL DEF Spec
=============================================================================
