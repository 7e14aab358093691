-------------------------------- MODULE Fdt ---------------------------------
(***************************************************************************)
(* dev/fdt.c: looking up nodes and properties in a flattened device tree.  *)
(* Module Dtb composes the lookups into whole calls and has the Init and   *)
(* Next of both.                                                           *)
(*                                                                         *)
(* The structure block is a sequence of tokens; an offset is an index.     *)
(* A token is a record with a field t:                                     *)
(*   "begin"  FDT_BEGIN_NODE, with the node's name                         *)
(*   "end"    FDT_END_NODE                                                 *)
(*   "prop"   FDT_PROP, with key, val (a sequence: 32-bit cells, the       *)
(*            strings of a string list, or the pieces of a path), whole    *)
(*            (its length is a multiple of four bytes) and str (its last   *)
(*            byte is a zero byte)                                         *)
(*   "nop"    FDT_NOP                                                      *)
(*   "stop"   FDT_END                                                      *)
(*   "bad"    anything the bounds checks or the switch refuse: a name      *)
(*            without terminator, a value longer than the block, a name    *)
(*            offset outside the strings, an unknown token                 *)
(***************************************************************************)
EXTENDS Integers, Sequences, FiniteSets

CONSTANTS
  NameLen,        \* length of each node name in characters
  FDT_MAX_DEPTH,  \* 32
  FDT_MAX_PATH,   \* 256
  CellBase        \* values of one cell (2^32)

FDT_DEFAULT_ADDRESS_CELLS == 2
FDT_DEFAULT_SIZE_CELLS    == 1

ASSUME FdtAssumption ==
  FDT_MAX_DEPTH \in Nat \ {0} /\ FDT_MAX_PATH \in Nat \ {0, 1} /\ CellBase \in Nat \ {0}

VARIABLES
  blob,           \* the structure block, never written
  call,           \* the last lookup: [op |-> "path", arg |-> the pieces of a path]
                  \* or [op |-> "compatible", arg |-> a string]
  pc,             \* "walk" or "done"
  cursor, depth,  \* struct fdt_walk_state: index of the next token, open nodes
  path, frames,   \* names below the root; frames[d] for the d-th open node
  found, node     \* the lookup's answer

vars == <<blob, call, pc, cursor, depth, path, frames, found, node>>

NoNode == [struct_offset |-> 0, parent_address_cells |-> 0, parent_size_cells |-> 0]

-----------------------------------------------------------------------------
(***************************************************************************)
(* Properties of a node.                                                   *)
(***************************************************************************)
NoProp == [t |-> "none"]

(***************************************************************************)
(* The scan of fdt_get_property: from[j][d] is its result when it reads    *)
(* token j with d nodes open below the one it looks at.                    *)
(***************************************************************************)
fdt_get_property(b, n, name) ==
  LET Max == Len(b)
      from[j \in 1 .. Max + 1] ==
        [d \in 0 .. Max |->
          IF j > Max THEN NoProp
          ELSE CASE b[j].t = "begin" -> from[j + 1][d + 1]
                 [] b[j].t = "end"   -> IF d = 0 THEN NoProp ELSE from[j + 1][d - 1]
                 [] b[j].t = "prop"  -> IF d = 0 /\ b[j].key = name THEN b[j]
                                        ELSE from[j + 1][d]
                 [] b[j].t = "nop"   -> from[j + 1][d]
                 [] OTHER            -> NoProp]
  IN  from[n.struct_offset + 1][0]

fdt_prop_get_u32(p) ==                       \* <<>> when the length is not four bytes
  IF p.whole /\ Len(p.val) = 1 THEN p.val ELSE <<>>

(***************************************************************************)
(* The entries before the last end in a zero byte; an entry that runs on   *)
(* to the end of the value or past it ends the loop.                       *)
(***************************************************************************)
fdt_node_has_compatible(b, n, c) ==
  LET p == fdt_get_property(b, n, "compatible")
  IN  p # NoProp /\ \E j \in 1 .. Len(p.val) : p.val[j] = c /\ (j < Len(p.val) \/ p.str)

(***************************************************************************)
(* n cells of s after the first from, as one number.                       *)
(***************************************************************************)
ReadCells(s, from, n) ==
  LET v[k \in 0 .. n] == IF k = 0 THEN 0 ELSE v[k - 1] * CellBase + s[from + k]
  IN  v[n]

NoReg == [ok |-> FALSE]

fdt_get_reg_index_in_cells(b, n, index) ==       \* mutation: index counts cells
  LET p  == fdt_get_property(b, n, "reg")
      ac == n.parent_address_cells
      sc == n.parent_size_cells
  IN  IF p = NoProp \/ ac > 2 \/ sc > 2 \/ ac + sc = 0 THEN NoReg
      ELSE IF ~p.whole \/ index + ac + sc > Len(p.val) THEN NoReg
      ELSE [ok |-> TRUE, addr |-> ReadCells(p.val, index, ac),
                         size |-> ReadCells(p.val, index + ac, sc)]

fdt_get_reg(b, n, index) ==
  LET p  == fdt_get_property(b, n, "reg")
      ac == n.parent_address_cells
      sc == n.parent_size_cells
      entry_cells == ac + sc
      cells == index * entry_cells
  IN  IF p = NoProp \/ ac > 2 \/ sc > 2 \/ entry_cells = 0 THEN NoReg
      ELSE IF ~p.whole \/ (index + 1) * entry_cells > Len(p.val) THEN NoReg
      ELSE [ok |-> TRUE, addr |-> ReadCells(p.val, cells, ac),
                         size |-> ReadCells(p.val, cells + ac, sc)]

-----------------------------------------------------------------------------
(***************************************************************************)
(* The walk.  One action per token that fdt_walk_next_node reads; when it  *)
(* returns a node, the loop of fdt_find_node_by_path or of                 *)
(* fdt_find_compatible tests it and ends or calls it again.                *)
(***************************************************************************)

(***************************************************************************)
(* Characters of a path: "/" for the root, and a "/" before every name.    *)
(***************************************************************************)
PathChars(p) ==
  LET c[k \in 0 .. Len(p)] == IF k = 0 THEN 0 ELSE c[k - 1] + 1 + NameLen[p[k]]
  IN  IF p = <<>> THEN 1 ELSE c[Len(p)]

PathFits(p) == PathChars(p) < FDT_MAX_PATH       \* the terminating zero has its place too

(***************************************************************************)
(* The text of a path, in pieces: "/a/bbb" is <<"/", "a", "/", "bbb">>.    *)
(***************************************************************************)
PathText(p) ==
  IF p = <<>> THEN <<"/">>
  ELSE [i \in 1 .. 2 * Len(p) |-> IF i % 2 = 1 THEN "/" ELSE p[i \div 2]]

Reads(kind) ==
  /\ pc = "walk" /\ cursor <= Len(blob)
  /\ blob[cursor].t = kind

Fails ==
  /\ pc' = "done" /\ found' = FALSE
  /\ UNCHANGED <<blob, call, cursor, depth, path, frames, node>>

Matches(n, p) ==
  IF call.op = "path" THEN PathText(p) = call.arg
  ELSE fdt_node_has_compatible(blob, n, call.arg)

DefaultFrame(len) == [path_len |-> len,
                      child_address_cells |-> FDT_DEFAULT_ADDRESS_CELLS,
                      child_size_cells    |-> FDT_DEFAULT_SIZE_CELLS]

NewFrame_inherit(len) ==                     \* mutation: cells inherited from the parent
  IF depth = 0 THEN DefaultFrame(len) ELSE [frames[depth] EXCEPT !.path_len = len]

NewFrame(len) == DefaultFrame(len)

TooDeep_late == depth > FDT_MAX_DEPTH        \* mutation: off by one

TooDeep == depth >= FDT_MAX_DEPTH

walk_begin ==
  /\ Reads("begin")
  /\ LET parent  == IF depth = 0 THEN DefaultFrame(0) ELSE frames[depth]
         newPath == IF depth = 0 THEN <<>> ELSE Append(path, blob[cursor].name)
         n == [struct_offset        |-> cursor,
               parent_address_cells |-> parent.child_address_cells,
               parent_size_cells    |-> parent.child_size_cells]
     IN  IF TooDeep \/ (depth > 0 /\ ~PathFits(newPath)) THEN Fails
         ELSE /\ path' = newPath
              /\ frames' = [frames EXCEPT ![depth + 1] = NewFrame(Len(path))]
              /\ depth' = depth + 1
              /\ cursor' = cursor + 1
              /\ IF Matches(n, newPath)
                   THEN pc' = "done" /\ found' = TRUE /\ node' = n
                   ELSE UNCHANGED <<pc, found, node>>
              /\ UNCHANGED <<blob, call>>

walk_end ==
  /\ Reads("end")
  /\ IF depth = 0 THEN Fails
     ELSE /\ path' = SubSeq(path, 1, frames[depth].path_len)
          /\ depth' = depth - 1
          /\ cursor' = cursor + 1
          /\ UNCHANGED <<blob, call, pc, frames, found, node>>

CellField(key) ==
  CASE key = "#address-cells" -> "child_address_cells"
    [] key = "#size-cells"    -> "child_size_cells"
    [] OTHER                  -> "none"

walk_prop ==
  /\ Reads("prop")
  /\ LET p     == blob[cursor]
         field == CellField(p.key)
     IN  IF depth = 0 \/ (field # "none" /\ fdt_prop_get_u32(p) = <<>>) THEN Fails
         ELSE /\ frames' = IF field = "none" THEN frames
                           ELSE [frames EXCEPT ![depth][field] = fdt_prop_get_u32(p)[1]]
              /\ cursor' = cursor + 1
              /\ UNCHANGED <<blob, call, pc, depth, path, found, node>>

walk_nop ==
  /\ Reads("nop")
  /\ cursor' = cursor + 1
  /\ UNCHANGED <<blob, call, pc, depth, path, frames, found, node>>

walk_stop == (Reads("stop") \/ Reads("bad")) /\ Fails

walk_off_end == pc = "walk" /\ cursor > Len(blob) /\ Fails

Walk == walk_begin \/ walk_end \/ walk_prop \/ walk_nop \/ walk_stop \/ walk_off_end

-----------------------------------------------------------------------------
(***************************************************************************)
(* fdt_walk_init, at the head of each lookup.                              *)
(***************************************************************************)
ZeroFrames ==
  [d \in 1 .. FDT_MAX_DEPTH |->
     [path_len |-> 0, child_address_cells |-> 0, child_size_cells |-> 0]]

fdt_walk_init_continues(c) ==               \* mutation: walk state not cleared
  /\ call' = c /\ found' = FALSE /\ pc' = "walk"
  /\ UNCHANGED <<blob, cursor, depth, path, frames, node>>

fdt_walk_init(c) ==
  /\ call' = c /\ found' = FALSE /\ pc' = "walk"
  /\ cursor' = 1 /\ depth' = 0 /\ path' = <<>> /\ frames' = ZeroFrames
  /\ UNCHANGED <<blob, node>>

NoCallYet ==
  /\ call = [op |-> "none"] /\ pc = "done"
  /\ cursor = 1 /\ depth = 0 /\ path = <<>> /\ frames = ZeroFrames
  /\ found = FALSE /\ node = NoNode
=============================================================================
