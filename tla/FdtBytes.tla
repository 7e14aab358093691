------------------------------ MODULE FdtBytes ------------------------------
(***************************************************************************)
(* dev/fdt.c below the tokens: the two loops that run through the          *)
(* structure block, fdt_walk_next_node ("walk") and fdt_get_property       *)
(* ("scan"), and the loop of fdt_node_has_compatible over the value that a *)
(* scan found, with the addresses they read.  What the bytes say is left   *)
(* open: each step chooses the token, the length of a name or of a value.  *)
(* Module Fdt has the meaning of the tokens.                               *)
(*                                                                         *)
(*   pc = "payload", "name"   fdt_node_payload, before the scan's loop     *)
(*        "token"    the head of the loop                                  *)
(*        "begin", "end", "prop", "value", "nop"   the cases of the switch *)
(*        "entries"  the loop of fdt_node_has_compatible                   *)
(*        "ret"      the loop was left                                     *)
(***************************************************************************)
EXTENDS Integers

CONSTANTS
  MaxEnd,         \* bound: the largest address of an end of the block
  FDT_MAX_DEPTH,  \* 32
  MaxLen,         \* the largest length a value can claim (2^32 - 1)
  Word64          \* values of a size_t (2^64)

ASSUME FdtBytesAssumption ==
  /\ MaxEnd \in Nat /\ FDT_MAX_DEPTH \in Nat \ {0} /\ MaxLen \in Nat
  /\ Word64 \in Nat /\ Word64 > MaxEnd + MaxLen + 16

VARIABLES
  fn,             \* "walk" or "scan"
  start, end,     \* struct_block and struct_block_end
  pc, cursor, depth,
  value, last,    \* the value found: where it ends, and its last byte (1 for any but 0)
  from, upto      \* history: the last bytes read are from .. upto - 1

vars == <<fn, start, end, pc, cursor, depth, value, last, from, upto>>

fdt_align4(p) == ((p + 3) \div 4) * 4

(***************************************************************************)
(* (size_t)(end - p): huge when p is past the end.                         *)
(***************************************************************************)
Left(p) == IF p <= end THEN end - p ELSE Word64 + end - p

Reads(a, k) == from' = a /\ upto' = a + k

block == <<fn, start, end, value, last>>

Leave == pc' = "ret" /\ UNCHANGED <<block, cursor, depth, from, upto>>

-----------------------------------------------------------------------------
Kinds == {"begin", "end", "prop", "nop", "ret"}

TokenInside_any(p) == TRUE                  \* mutation: the test dropped

(***************************************************************************)
(* Only fdt_walk_next_node tests that the whole token is in the block.     *)
(***************************************************************************)
TokenInside(p) == fn = "walk" => Left(p) >= 4

read_token_stays ==                         \* mutation: cursor moved by the cases only
  /\ pc = "token"
  /\ IF cursor >= end \/ ~TokenInside(cursor) THEN Leave
     ELSE Reads(cursor, 4) /\ pc' \in Kinds /\ UNCHANGED <<block, cursor, depth>>

read_token ==
  /\ pc = "token"
  /\ IF cursor >= end \/ ~TokenInside(cursor) THEN Leave
     ELSE /\ Reads(cursor, 4)
          /\ cursor' = cursor + 4
          /\ pc' \in Kinds
          /\ UNCHANGED <<block, depth>>

(***************************************************************************)
(* fdt_bounded_strlen and the step over the name.  The terminator is       *)
(* len bytes ahead, or there is none before the limit.  fdt_walk_next_node *)
(* and fdt_node_payload test the aligned cursor, fdt_get_property leaves   *)
(* that to its loop.                                                       *)
(***************************************************************************)
StepOverName(newDepth, tests) ==
  \E len \in 0 .. MaxLen :
    /\ len < Left(cursor)
    /\ Reads(cursor, len + 1)
    /\ cursor' = fdt_align4(cursor + len + 1)
    /\ pc' = IF tests /\ cursor' > end THEN "ret" ELSE "token"
    /\ depth' = newDepth
    /\ UNCHANGED block

(***************************************************************************)
(* fdt_node_payload, of a node that fdt_walk_next_node returned or of any  *)
(* other offset.                                                           *)
(***************************************************************************)
fdt_node_payload ==
  /\ pc = "payload"
  /\ IF cursor + 4 > end THEN Leave
     ELSE /\ Reads(cursor, 4)
          /\ cursor' = cursor + 4
          /\ pc' \in {"name", "ret"}
          /\ UNCHANGED <<block, depth>>

payload_name == pc = "name" /\ StepOverName(depth, TRUE)

Unterminated == pc \in {"name", "begin"} /\ Leave

begin_node ==
  /\ pc = "begin"
  /\ IF fn = "walk" /\ depth >= FDT_MAX_DEPTH THEN Leave
     ELSE StepOverName(depth + 1, fn = "walk")

end_node ==
  /\ pc = "end"
  /\ IF depth = 0 THEN Leave
     ELSE depth' = depth - 1 /\ pc' = "token" /\ UNCHANGED <<block, cursor, from, upto>>

nop == pc = "nop" /\ pc' = "token" /\ UNCHANGED <<block, cursor, depth, from, upto>>

(***************************************************************************)
(* The two words of a property, then its value; valid stands for           *)
(* fdt_prop_name_valid, wanted for the comparison of the name.  A value is *)
(* counted as read: the caller reads it.  If the caller is                 *)
(* fdt_node_has_compatible, it reads the strings of the value found.       *)
(***************************************************************************)
prop_words ==
  /\ pc = "prop"
  /\ IF Left(cursor) < 8 THEN Leave
     ELSE /\ Reads(cursor, 8) /\ cursor' = cursor + 8
          /\ pc' = "value"
          /\ UNCHANGED <<block, depth>>

prop_value ==
  /\ pc = "value"
  /\ \E len \in 0 .. MaxLen, valid, wanted \in BOOLEAN :
       IF Left(cursor) < len \/ ~valid \/ (fn = "walk" /\ depth = 0) THEN Leave
       ELSE /\ Reads(cursor, len)
            /\ IF fn = "scan" /\ depth = 0 /\ wanted
                 THEN /\ pc' \in {"ret", "entries"} /\ UNCHANGED cursor
                      /\ value' = cursor + len /\ last' \in {0, 1}
                 ELSE /\ pc' = "token" /\ cursor' = fdt_align4(cursor + len)
                      /\ UNCHANGED <<value, last>>
            /\ UNCHANGED <<fn, start, end, depth>>

(***************************************************************************)
(* strlen of the entry at the cursor, whose zero byte is in the value if   *)
(* the value ends in one, and anywhere otherwise; then the test of the     *)
(* offset, the comparison, and the step to the next entry.                 *)
(***************************************************************************)
has_compatible_entry ==
  /\ pc = "entries"
  /\ IF cursor >= value THEN Leave
     ELSE \E len \in 0 .. MaxLen, matches \in BOOLEAN :
            /\ last = 0 => cursor + len < value
            /\ Reads(cursor, len + 1)
            /\ IF cursor + len >= value \/ matches THEN pc' = "ret" /\ UNCHANGED cursor
               ELSE pc' = "entries" /\ cursor' = cursor + len + 1
            /\ UNCHANGED <<block, depth>>

-----------------------------------------------------------------------------
Init ==
  /\ fn \in {"walk", "scan"}
  /\ start \in 0 .. MaxEnd /\ end \in start .. MaxEnd
  /\ cursor \in IF fn = "walk" THEN {start} ELSE start .. end
  /\ fn = "scan" => (cursor - start) % 4 = 0
  /\ pc = IF fn = "walk" THEN "token" ELSE "payload"
  /\ depth = 0 /\ value = start /\ last = 0 /\ from = start /\ upto = start

Step ==
  \/ read_token \/ fdt_node_payload \/ payload_name \/ begin_node \/ Unterminated
  \/ end_node \/ nop \/ prop_words \/ prop_value \/ has_compatible_entry

Over == pc = "ret" /\ UNCHANGED vars

Next == Step \/ Over

Spec == Init /\ [][Next]_vars

FairSpec == Spec /\ WF_vars(Step)

-----------------------------------------------------------------------------
(***************************************************************************)
(* The block as the device tree format lays it out: whole words, aligned.  *)
(***************************************************************************)
WholeWords == start % 4 = 0 /\ end % 4 = 0

(***************************************************************************)
(* The loop of fdt_walk_next_node reads only bytes of the structure block, *)
(* wherever the block lies and whatever it says: no name, length or token  *)
(* at its end leads the cursor past it.  Two loops are held to this only   *)
(* where they can keep it: fdt_get_property does not test that a whole     *)
(* token is left, which matters in a block that ends inside a word, and    *)
(* the strlen of fdt_node_has_compatible leaves a value without a zero     *)
(* byte at its end.                                                        *)
(***************************************************************************)
StaysInBlock ==
  (fn = "walk" \/ WholeWords) /\ last = 0 => start <= from /\ upto <= end

(***************************************************************************)
(* All three loops end: the cursor moves on with every token, past nested  *)
(* nodes and over every NOP, and with every entry.                         *)
(***************************************************************************)
LoopsEnd == (fn = "walk" \/ WholeWords) ~> (pc = "ret")
=============================================================================
