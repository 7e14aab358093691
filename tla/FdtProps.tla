------------------------------ MODULE FdtProps ------------------------------
(***************************************************************************)
(* The lookups of fdt.c against the tree the tokens stand for, defined     *)
(* from the nesting of the tokens, with no walk, no limits and no frames.  *)
(***************************************************************************)
EXTENDS Fdt

CountBefore(b, j, kind) == Cardinality({k \in 1 .. j - 1 : b[k].t = kind})

Depth(b, j) == CountBefore(b, j, "begin") - CountBefore(b, j, "end")

Nodes(b) == {j \in 1 .. Len(b) : b[j].t = "begin"}

MaxOf(S) == CHOOSE x \in S : \A y \in S : y <= x
MinOf(S) == CHOOSE x \in S : \A y \in S : x <= y

(***************************************************************************)
(* The node in which token j stands at depth d of the tree.                *)
(***************************************************************************)
Enclosing(b, j, d) == MaxOf({k \in Nodes(b) : k < j /\ Depth(b, k) = d})

Owner(b, j) == Enclosing(b, j, Depth(b, j) - 1)

TruePath(b, j) ==
  [d \in 1 .. Depth(b, j) |-> IF d = Depth(b, j) THEN b[j].name
                              ELSE b[Enclosing(b, j, d)].name]

OwnProps(b, n, key) ==
  {j \in 1 .. Len(b) : b[j].t = "prop" /\ b[j].key = key
                       /\ Depth(b, j) > 0 /\ Owner(b, j) = n}

TrueCells(b, j, key, default) ==
  IF Depth(b, j) = 0 THEN default
  ELSE LET S == OwnProps(b, Owner(b, j), key)
       IN  IF S = {} THEN default ELSE b[MinOf(S)].val[1]

(***************************************************************************)
(* A blob as a device tree compiler writes it, possibly cut short: one     *)
(* root, properties before subnodes and none twice, cell counts of four    *)
(* bytes.                                                                  *)
(***************************************************************************)
WellFormed(b) ==
  /\ \A j \in 1 .. Len(b) :
       /\ \/ b[j].t \in {"begin", "end", "prop", "nop"} /\ (Depth(b, j) > 0 \/ j = 1)
          \/ b[j].t = "stop" /\ Depth(b, j) = 0 /\ j = Len(b)
       /\ b[j].t = "prop" =>
            /\ j > 1
            /\ \A k \in Nodes(b) : Owner(b, j) < k => j < k
            /\ OwnProps(b, Owner(b, j), b[j].key) = {j}
            /\ CellField(b[j].key) # "none" => fdt_prop_get_u32(b[j]) # <<>>
  /\ b # <<>> => b[1].t = "begin"

InLimits(b) == \A j \in Nodes(b) : /\ Depth(b, j) < FDT_MAX_DEPTH
                                   /\ PathFits(TruePath(b, j))

(***************************************************************************)
(* The strings of a string list: one without its terminator is none.       *)
(***************************************************************************)
StringsOf(p) == {p.val[k] : k \in 1 .. (IF p.str THEN Len(p.val) ELSE Len(p.val) - 1)}

Compatible(b, j, c) ==
  LET S == OwnProps(b, j, "compatible")
  IN  S # {} /\ c \in StringsOf(b[MinOf(S)])

Wanted(b, j) ==
  \/ call.op = "path" /\ PathText(TruePath(b, j)) = call.arg
  \/ call.op = "compatible" /\ Compatible(b, j, call.arg)

(***************************************************************************)
(* Entry k of the reg property of node j, cut into entries by the parent's *)
(* cell counts; none past the last whole entry.                            *)
(***************************************************************************)
TrueReg(b, j, k) ==
  LET S   == OwnProps(b, j, "reg")
      ac  == TrueCells(b, j, "#address-cells", 2)
      sc  == TrueCells(b, j, "#size-cells", 1)
      reg == b[MinOf(S)]
      Number(s) == IF Len(s) = 0 THEN 0 ELSE IF Len(s) = 1 THEN s[1]
                   ELSE s[1] * CellBase + s[2]
      Cut(from, n) == SubSeq(reg.val, k * (ac + sc) + from + 1, k * (ac + sc) + from + n)
  IN  IF /\ S # {} /\ ac \in 0 .. 2 /\ sc \in 0 .. 2 /\ ac + sc > 0
         /\ reg.whole /\ (k + 1) * (ac + sc) <= Len(reg.val)
        THEN [ok |-> TRUE, addr |-> Number(Cut(0, ac)), size |-> Number(Cut(ac, sc))]
        ELSE NoReg

(***************************************************************************)
(* A lookup answers with the first node of the tree it was asked for, and  *)
(* with the cell counts of that node's parent; on a tree within the limits *)
(* of the walk it fails only when there is no such node.                   *)
(***************************************************************************)
LookupRight ==
  pc = "done" /\ WellFormed(blob) =>
    LET W == {j \in Nodes(blob) : Wanted(blob, j)}
    IN  /\ found =>
             /\ W # {} /\ node.struct_offset = MinOf(W)
             /\ node.parent_address_cells =
                  TrueCells(blob, MinOf(W), "#address-cells", FDT_DEFAULT_ADDRESS_CELLS)
             /\ node.parent_size_cells =
                  TrueCells(blob, MinOf(W), "#size-cells", FDT_DEFAULT_SIZE_CELLS)
        /\ ~found /\ InLimits(blob) => W = {}

(***************************************************************************)
(* While it reads any blob, broken ones included, the walk stays in step   *)
(* with the nesting of the tokens: its depth is the number of open nodes,  *)
(* its path is that of the innermost one, and it stays within the arrays   *)
(* of struct fdt_walk_state.                                               *)
(***************************************************************************)
WalkInStep ==
  /\ depth \in 0 .. FDT_MAX_DEPTH /\ PathFits(path)
  /\ pc = "walk" =>
       /\ depth = Depth(blob, cursor)
       /\ depth > 0 => path = TruePath(blob, Owner(blob, cursor))

(***************************************************************************)
(* fdt_get_reg on a node the lookup returned gives entry index of its reg  *)
(* property, cut into entries by the parent's cell counts, and refuses an  *)
(* index past the last whole entry.                                        *)
(***************************************************************************)
RegRight ==
  found /\ WellFormed(blob) =>
    \A k \in 0 .. 2 : fdt_get_reg(blob, node, k) = TrueReg(blob, node.struct_offset, k)
=============================================================================
