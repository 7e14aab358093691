------------------------------ MODULE DtbProps ------------------------------
(***************************************************************************)
(* What uart_find_port finds, against the tree the tokens stand for.       *)
(***************************************************************************)
EXTENDS FdtProps, Dtb

(***************************************************************************)
(* The node of the tree that path s names, the first if there are two.     *)
(***************************************************************************)
Named(b, s) ==
  LET N == {j \in Nodes(b) : PathText(TruePath(b, j)) = s}
  IN  IF N = {} THEN {} ELSE {MinOf(N)}

(***************************************************************************)
(* The value of a property of the node path s names, <<>> if there is none *)
(* or it is not a string.                                                  *)
(***************************************************************************)
StringAt(b, s, key) ==
  LET P == UNION {OwnProps(b, j, key) : j \in Named(b, s)}
  IN  IF P = {} \/ ~b[MinOf(P)].str THEN <<>> ELSE b[MinOf(P)].val

Fitting(s) == IF Chars(s) + 1 <= UART_PATH_MAX THEN s ELSE <<>>

Has(b, s, key) == \E j \in Named(b, s) : OwnProps(b, j, key) # {}

(***************************************************************************)
(* The console the firmware chose: the part of stdout-path before the      *)
(* options, nothing when the caller's buffer is too small for it.          *)
(***************************************************************************)
StdoutText(b) ==
  LET key   == IF Has(b, <<"/", "chosen">>, "stdout-path") THEN "stdout-path"
               ELSE "linux,stdout-path"
      whole == StringAt(b, <<"/", "chosen">>, key)
  IN  Fitting(SubSeq(whole, 1, MinOf({k \in 1 .. Len(whole) + 1 :
                                       k > Len(whole) \/ whole[k] = ":"}) - 1))

(***************************************************************************)
(* Its path: that text, or the path an alias of that name stands for.      *)
(***************************************************************************)
Chosen(b) ==
  IF Len(StdoutText(b)) = 1 /\ StdoutText(b)[1] # "/"
    THEN Fitting(StringAt(b, <<"/", "aliases">>, StdoutText(b)[1])) ELSE StdoutText(b)

UartNodes(b, names) == {j \in Nodes(b) : \E c \in names : Compatible(b, j, c)}

AllNames == {uart_compatibles[k] : k \in 1 .. Len(uart_compatibles)}

(***************************************************************************)
(* The node to use: the chosen console if the driver knows it, otherwise   *)
(* the first node of the first name that any node is compatible with.      *)
(***************************************************************************)
Best(b) ==
  IF Named(b, Chosen(b)) \cap UartNodes(b, AllNames) # {} THEN Named(b, Chosen(b))
  ELSE LET K == {k \in 1 .. Len(uart_compatibles) : UartNodes(b, {uart_compatibles[k]}) # {}}
       IN  IF K = {} THEN {} ELSE {MinOf(UartNodes(b, {uart_compatibles[MinOf(K)]}))}

U32At(b, j, key, default) ==
  LET P == OwnProps(b, j, key)
  IN  IF P = {} \/ ~b[MinOf(P)].whole \/ Len(b[MinOf(P)].val) # 1 THEN default
      ELSE b[MinOf(P)].val[1]

(***************************************************************************)
(* After all its lookups uart_find_port has chosen the right node and read *)
(* that node's registers, by that node's parent's cell counts: the five    *)
(* walks do not disturb each other.  On a tree within the limits of the    *)
(* walk it fails only when there is no node, or the node has no usable     *)
(* registers.                                                              *)
(***************************************************************************)
PortRight ==
  at \in {"reg", "found", "failed"} /\ WellFormed(blob) /\ InLimits(blob) =>
    /\ at \in {"reg", "found"} => Best(blob) = {node.struct_offset}
    /\ at = "found" =>
         LET j == node.struct_offset
             r == TrueReg(blob, j, 0)
         IN  /\ r.ok /\ r.size > 0 /\ port.base = r.addr /\ port.size = r.size
             /\ port.reg_shift = U32At(blob, j, "reg-shift", 0)
             /\ port.reg_io_width = U32At(blob, j, "reg-io-width", 1)
             /\ port.reg_io_width \in {1, 4}
    /\ at = "failed" /\ dtb_ready =>
         \A j \in Best(blob) : \/ ~TrueReg(blob, j, 0).ok \/ TrueReg(blob, j, 0).size = 0
                              \/ U32At(blob, j, "reg-io-width", 1) \notin {1, 4}

(***************************************************************************)
(* A walk only ever reads a blob whose two blocks lie inside it, whatever  *)
(* the header's 32-bit fields say, and nothing is found without a tree.    *)
(***************************************************************************)
ReadsInside ==
  pc = "walk" \/ at = "found" =>
    /\ header.resp = "blob" /\ header.magic
    /\ header.off_struct + header.size_struct <= header.total
    /\ header.off_strings + header.size_strings <= header.total
=============================================================================
