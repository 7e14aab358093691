--------------------------- MODULE FdtBytesProof ----------------------------
(***************************************************************************)
(* Proofs about the bytes the structure-block loops of dev/fdt.c read, for *)
(* a block of any length at any address and any MaxLen and FDT_MAX_DEPTH.  *)
(***************************************************************************)
EXTENDS FdtBytes, TLAPS

-----------------------------------------------------------------------------
TypeOK ==
  /\ fn \in {"walk", "scan"}
  /\ start \in Nat /\ end \in Nat /\ start <= end
  /\ pc \in Kinds \cup {"payload", "name", "token", "value", "entries"}
  /\ cursor \in Nat /\ depth \in Nat /\ value \in Nat /\ last \in {0, 1}
  /\ from \in Nat /\ upto \in Nat

(***************************************************************************)
(* The blocks StaysInBlock speaks of.                                      *)
(***************************************************************************)
Held == (fn = "walk" \/ WholeWords) /\ last = 0

(***************************************************************************)
(* The value that a scan found lies in the block.                          *)
(***************************************************************************)
ValueInside ==
  /\ pc # "entries" /\ pc # "ret" => last = 0
  /\ Held => value <= end

(***************************************************************************)
(* fdt_get_property steps by whole words from a whole word.                *)
(***************************************************************************)
ScanAligned == fn = "scan" /\ WholeWords /\ pc \notin {"entries", "ret"} => cursor % 4 = 0

(***************************************************************************)
(* At the head of the loop the cursor may be past the end, by the padding  *)
(* of the last name or value; in the cases of the switch it may not be, and*)
(* there the subtraction end - cursor does not wrap.                       *)
(***************************************************************************)
CursorInside ==
  Held /\ pc \in {"name", "begin", "end", "prop", "value", "nop"} => cursor <= end

IInv ==
  /\ TypeOK
  /\ start <= cursor
  /\ ScanAligned
  /\ CursorInside
  /\ ValueInside
  /\ StaysInBlock

-----------------------------------------------------------------------------
(***************************************************************************)
(* fdt_align4 rounds up to the next whole word.                            *)
(***************************************************************************)
LEMMA Align4 ==
  ASSUME NEW p \in Nat
  PROVE  /\ fdt_align4(p) \in Nat
         /\ p <= fdt_align4(p) /\ fdt_align4(p) <= p + 3
         /\ fdt_align4(p) % 4 = 0
BY DEF fdt_align4

(***************************************************************************)
(* Every call starts inside its block.                                     *)
(***************************************************************************)
LEMMA InitOK == Init => IInv
<1> SUFFICES ASSUME Init PROVE IInv
  OBVIOUS
<1>1. TypeOK /\ start <= cursor
  <2>1. CASE fn = "walk"  BY <2>1, FdtBytesAssumption DEF Init, TypeOK, Kinds
  <2>2. CASE fn = "scan"  BY <2>2, FdtBytesAssumption DEF Init, TypeOK, Kinds
  <2> QED  BY <2>1, <2>2 DEF Init
<1>2. ScanAligned
  BY <1>1 DEF Init, ScanAligned, WholeWords, TypeOK
<1>3. CursorInside /\ ValueInside /\ StaysInBlock
  BY <1>1 DEF Init, CursorInside, ValueInside, StaysInBlock, TypeOK
<1> QED  BY <1>1, <1>2, <1>3 DEF IInv

(***************************************************************************)
(* A return changes nothing but pc.                                        *)
(***************************************************************************)
LEMMA LeaveOK ==
  ASSUME IInv, Leave
  PROVE  IInv'
BY DEF IInv, Leave, block, TypeOK, Kinds, ScanAligned, CursorInside, ValueInside, StaysInBlock, Held, WholeWords

(***************************************************************************)
(* A name ends before the end of the block, so its bytes are inside; the   *)
(* padding after it may not be.                                            *)
(***************************************************************************)
LEMMA StepOverNameOK ==
  ASSUME IInv, NEW newDepth \in Nat, NEW tests \in BOOLEAN,
         pc \in {"name", "begin"}, StepOverName(newDepth, tests)
  PROVE  IInv'
<1>1. PICK len \in 0 .. MaxLen :
         /\ len < Left(cursor)
         /\ Reads(cursor, len + 1)
         /\ cursor' = fdt_align4(cursor + len + 1)
         /\ pc' \in {"ret", "token"}
         /\ depth' = newDepth
         /\ UNCHANGED block
  BY DEF StepOverName
<1>2. len \in Nat /\ cursor + len + 1 \in Nat
  BY FdtBytesAssumption DEF IInv, TypeOK
<1>3. /\ cursor' \in Nat /\ cursor + len + 1 <= cursor' /\ cursor' % 4 = 0
  BY <1>1, <1>2, Align4
<1>4. TypeOK' /\ start' <= cursor' /\ ScanAligned' /\ CursorInside' /\ ValueInside'
  BY <1>1, <1>2, <1>3
  DEF IInv, TypeOK, Kinds, Reads, block, ScanAligned, CursorInside, ValueInside, WholeWords, Held
<1>5. StaysInBlock'
  BY <1>1, <1>2 DEF IInv, TypeOK, Reads, block, CursorInside, StaysInBlock, WholeWords, Held, Left
<1> QED  BY <1>4, <1>5 DEF IInv

(***************************************************************************)
(* Every step of the two loops keeps the invariant.                        *)
(***************************************************************************)
LEMMA StepOK == IInv /\ [Next]_vars => IInv'
<1> SUFFICES ASSUME IInv, [Next]_vars PROVE IInv'
  OBVIOUS
<1>1. CASE read_token
  <2>1. CASE cursor >= end \/ ~TokenInside(cursor)
    BY <1>1, <2>1, LeaveOK DEF read_token
  <2>2. CASE ~(cursor >= end \/ ~TokenInside(cursor))
    <3>1. /\ pc = "token" /\ Reads(cursor, 4) /\ cursor' = cursor + 4 /\ pc' \in Kinds
          /\ UNCHANGED <<block, depth>>
      BY <1>1, <2>2 DEF read_token
    <3>2. Held => cursor + 4 <= end
      BY <1>1, <2>2 DEF read_token, IInv, TypeOK, Held, TokenInside, Left, ScanAligned, WholeWords
    <3> QED
      BY <3>1, <3>2
      DEF IInv, TypeOK, Kinds, Reads, block, ScanAligned, CursorInside, ValueInside, StaysInBlock, Held, WholeWords
  <2> QED  BY <2>1, <2>2
<1>2. CASE fdt_node_payload
  <2>1. CASE cursor + 4 > end
    BY <1>2, <2>1, LeaveOK DEF fdt_node_payload
  <2>2. CASE ~(cursor + 4 > end)
    BY <1>2, <2>2
    DEF fdt_node_payload, block, IInv, TypeOK, Kinds, Reads, ScanAligned, CursorInside, ValueInside, StaysInBlock,
        Held, WholeWords
  <2> QED  BY <2>1, <2>2
<1>3. CASE payload_name
  BY <1>3, StepOverNameOK DEF payload_name, IInv, TypeOK
<1>4. CASE begin_node
  <2>1. CASE fn = "walk" /\ depth >= FDT_MAX_DEPTH
    BY <1>4, <2>1, LeaveOK DEF begin_node
  <2>2. CASE ~(fn = "walk" /\ depth >= FDT_MAX_DEPTH)
    <3>1. StepOverName(depth + 1, fn = "walk") /\ pc = "begin" /\ depth + 1 \in Nat
      BY <1>4, <2>2 DEF begin_node, IInv, TypeOK
    <3> QED  BY <3>1, StepOverNameOK
  <2> QED  BY <2>1, <2>2
<1>5. CASE Unterminated
  BY <1>5, LeaveOK DEF Unterminated
<1>6. CASE end_node
  <2>1. CASE depth = 0
    BY <1>6, <2>1, LeaveOK DEF end_node
  <2>2. CASE depth # 0
    BY <1>6, <2>2
    DEF end_node, block, IInv, TypeOK, ScanAligned, CursorInside, ValueInside, StaysInBlock, Held, WholeWords
  <2> QED  BY <2>1, <2>2
<1>7. CASE nop
  BY <1>7 DEF nop, block, IInv, TypeOK, ScanAligned, CursorInside, ValueInside, StaysInBlock, Held, WholeWords
<1>8. CASE prop_words
  <2>1. CASE Left(cursor) < 8
    BY <1>8, <2>1, LeaveOK DEF prop_words
  <2>2. CASE ~(Left(cursor) < 8)
    BY <1>8, <2>2
    DEF prop_words, block, IInv, TypeOK, Kinds, Reads, ScanAligned, CursorInside, ValueInside, StaysInBlock,
        Held, WholeWords, Left
  <2> QED  BY <2>1, <2>2
<1>9. CASE prop_value
  <2>1. PICK len \in 0 .. MaxLen, valid \in BOOLEAN, wanted \in BOOLEAN :
          IF Left(cursor) < len \/ ~valid \/ (fn = "walk" /\ depth = 0) THEN Leave
          ELSE /\ Reads(cursor, len)
               /\ IF fn = "scan" /\ depth = 0 /\ wanted
                    THEN /\ pc' \in {"ret", "entries"} /\ UNCHANGED cursor
                         /\ value' = cursor + len /\ last' \in {0, 1}
                    ELSE /\ pc' = "token" /\ cursor' = fdt_align4(cursor + len)
                         /\ UNCHANGED <<value, last>>
               /\ UNCHANGED <<fn, start, end, depth>>
    BY <1>9 DEF prop_value
  <2>2. CASE Left(cursor) < len \/ ~valid \/ (fn = "walk" /\ depth = 0)
    BY <2>1, <2>2, LeaveOK
  <2>3. CASE ~(Left(cursor) < len \/ ~valid \/ (fn = "walk" /\ depth = 0))
    <3>1. Reads(cursor, len) /\ UNCHANGED <<fn, start, end, depth>>
      BY <2>1, <2>3
    <3>2. len \in Nat /\ cursor + len \in Nat /\ last = 0 /\ pc = "value"
      BY <1>9, FdtBytesAssumption DEF IInv, TypeOK, ValueInside, prop_value
    <3>3. fn = "walk" \/ WholeWords => cursor + len <= end
      BY <2>3, <3>2 DEF IInv, TypeOK, CursorInside, Held, Left
    <3>4. CASE pc' = "token" /\ cursor' = fdt_align4(cursor + len) /\ UNCHANGED <<value, last>>
      <4>1. cursor' \in Nat /\ cursor + len <= cursor' /\ cursor' % 4 = 0
        BY <3>2, <3>4, Align4
      <4>2. TypeOK' /\ start' <= cursor' /\ ScanAligned' /\ CursorInside' /\ ValueInside'
        BY <3>1, <3>2, <3>4, <4>1
        DEF IInv, TypeOK, Kinds, Reads, ScanAligned, CursorInside, ValueInside, WholeWords, Held
      <4>3. StaysInBlock'
        BY <3>1, <3>2, <3>3 DEF IInv, TypeOK, Reads, StaysInBlock, WholeWords
      <4> QED  BY <4>2, <4>3 DEF IInv
    <3>5. CASE /\ pc' \in {"ret", "entries"} /\ UNCHANGED cursor
               /\ value' = cursor + len /\ last' \in {0, 1}
      <4>1. TypeOK' /\ start' <= cursor' /\ ScanAligned' /\ CursorInside' /\ ValueInside'
        BY <3>1, <3>2, <3>3, <3>5
        DEF IInv, TypeOK, Kinds, Reads, ScanAligned, CursorInside, ValueInside, WholeWords, Held
      <4>2. StaysInBlock'
        BY <3>1, <3>2, <3>3 DEF IInv, TypeOK, Reads, StaysInBlock, WholeWords
      <4> QED  BY <4>1, <4>2 DEF IInv
    <3> QED  BY <2>1, <2>3, <3>4, <3>5
  <2> QED  BY <2>2, <2>3
<1>10. CASE has_compatible_entry
  <2>1. CASE cursor >= value
    BY <1>10, <2>1, LeaveOK DEF has_compatible_entry
  <2>2. CASE ~(cursor >= value)
    <3>1. PICK len \in 0 .. MaxLen :
            /\ last = 0 => cursor + len < value
            /\ Reads(cursor, len + 1)
            /\ \/ pc' = "ret" /\ UNCHANGED cursor
               \/ pc' = "entries" /\ cursor' = cursor + len + 1
            /\ UNCHANGED <<block, depth>>
      BY <1>10, <2>2 DEF has_compatible_entry
    <3>2. len \in Nat /\ pc = "entries"
      BY <1>10, FdtBytesAssumption DEF has_compatible_entry
    <3>3. TypeOK' /\ start' <= cursor' /\ ScanAligned' /\ CursorInside' /\ ValueInside'
      BY <3>1, <3>2
      DEF block, IInv, TypeOK, Kinds, Reads, ScanAligned, CursorInside, ValueInside, WholeWords, Held
    <3>4. StaysInBlock'
      BY <3>1, <3>2 DEF block, IInv, TypeOK, Reads, ValueInside, StaysInBlock, WholeWords, Held
    <3> QED  BY <3>3, <3>4 DEF IInv
  <2> QED  BY <2>1, <2>2
<1>11. CASE Over \/ UNCHANGED vars
  BY <1>11
  DEF Over, vars, IInv, TypeOK, Kinds, ScanAligned, CursorInside, ValueInside, StaysInBlock, Held, WholeWords
<1> QED
  BY <1>1, <1>2, <1>3, <1>4, <1>5, <1>6, <1>7, <1>8, <1>9, <1>10, <1>11 DEF Next, Step

(***************************************************************************)
(* The loop of fdt_walk_next_node reads only bytes of the structure block, *)
(* whatever the block holds and wherever it lies; fdt_get_property does so *)
(* when the block is made of whole, aligned words, and in such a block so  *)
(* does fdt_node_has_compatible if the value it reads ends in a zero byte. *)
(***************************************************************************)
THEOREM ReadsStayInBlock == Spec => []StaysInBlock
<1>1. IInv => StaysInBlock
  BY DEF IInv
<1> QED  BY <1>1, InitOK, StepOK, PTL DEF Spec
=============================================================================
