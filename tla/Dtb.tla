-------------------------------- MODULE Dtb ---------------------------------
(***************************************************************************)
(* dev/dtb.c: the kernel's one device tree, and the longest conversation   *)
(* with it, uart_find_port of platform/generic/uart.c: five lookups in a   *)
(* row, each a walk of module Fdt over the same tree.                      *)
(*                                                                         *)
(*   at = "init"     dtb_init has not run                                  *)
(*        "start"    it has; uart_find_port is called                      *)
(*        "stdout"   dtb_get_stdout_path looks for /chosen                 *)
(*        "alias"    dtb_resolve_alias looks for /aliases                  *)
(*        "path"     dtb_find_node_by_path looks for the node they named   *)
(*        "search"   dtb_find_compatible looks for uart_compatibles[idx]   *)
(*        "reg"      a node was found; its registers are read              *)
(*        "found", "failed"   uart_find_port returned                      *)
(*                                                                         *)
(* A text is a sequence of pieces, "/" and ":" being pieces of their own.  *)
(* The header's fields are those of the blob; resp says what Limine gave.  *)
(***************************************************************************)
EXTENDS Fdt

CONSTANTS
  Inputs,             \* [blob, header], header: [resp, magic, total, off_struct,
                      \*  size_struct, off_strings, size_strings]
  Word,               \* values of a header field (2^32)
  uart_compatibles,   \* a sequence of names
  UART_PATH_MAX       \* 256

(***************************************************************************)
(* Values are sequences, and those the kernel reads as cells hold cells    *)
(* when their length is a multiple of four bytes.                          *)
(***************************************************************************)
CellKeys == {"#address-cells", "#size-cells", "reg"}

IsSequence(s) == Len(s) \in Nat /\ s = [k \in 1 .. Len(s) |-> s[k]]

ValueTyped(p) ==
  /\ IsSequence(p.val)
  /\ p.whole /\ p.key \in CellKeys => p.val \in Seq(0 .. CellBase - 1)

ASSUME DtbAssumption ==
  /\ Word \in Nat \ {0} /\ UART_PATH_MAX \in Nat
  /\ Len(uart_compatibles) \in Nat \ {0}
  /\ \A i \in Inputs :
       /\ Len(i.blob) \in Nat /\ DOMAIN i.blob = 1 .. Len(i.blob)
       /\ \A j \in 1 .. Len(i.blob) : i.blob[j].t = "prop" => ValueTyped(i.blob[j])
  /\ \A i \in Inputs : \A f \in {"total", "off_struct", "size_struct", "off_strings",
                                 "size_strings"} : i.header[f] \in 0 .. Word - 1

VARIABLES
  header,             \* the blob's header, never written
  dtb_ready,
  at, idx,            \* where uart_find_port is; index of the name it looks for
  text,               \* the path it looks up: path, or resolved
  port

dtbVars == <<header, dtb_ready, at, idx, text, port>>
allVars == <<vars, dtbVars>>

NoPort == [base |-> 0, size |-> 0, reg_shift |-> 0, reg_io_width |-> 0]

-----------------------------------------------------------------------------
(***************************************************************************)
(* Texts.                                                                  *)
(***************************************************************************)
Chars(s) ==
  LET c[k \in 0 .. Len(s)] == IF k = 0 THEN 0 ELSE c[k - 1] + NameLen[s[k]]
  IN  c[Len(s)]

fdt_copy_string(s) == Chars(s) + 1 <= UART_PATH_MAX      \* the string fits

UpToColon(s) ==
  LET colons == {k \in 1 .. Len(s) : s[k] = ":"}
  IN  IF colons = {} THEN s ELSE SubSeq(s, 1, (CHOOSE k \in colons : \A j \in colons : k <= j) - 1)

fdt_prop_is_string(p) == p # NoProp /\ p.val # <<>> /\ p.str

-----------------------------------------------------------------------------
(***************************************************************************)
(* dtb_init.                                                               *)
(***************************************************************************)
fdt_range_valid_wraps(total, offset, size) ==     \* mutation: a sum of 32 bits
  (offset + size) % Word <= total

fdt_range_valid(total, offset, size) == offset <= total /\ size <= total - offset

fdt_init(h) ==
  /\ h.magic
  /\ fdt_range_valid(h.total, h.off_struct, h.size_struct)
  /\ fdt_range_valid(h.total, h.off_strings, h.size_strings)

(***************************************************************************)
(* A lookup: a walk from the start, or false at once without a tree.       *)
(***************************************************************************)
Lookup(o, a) ==
  IF dtb_ready THEN fdt_walk_init([op |-> o, arg |-> a])
  ELSE found' = FALSE /\ UNCHANGED <<blob, call, pc, cursor, depth, path, frames, node>>

At(a) == at = a /\ pc = "done"

dtb_init ==
  /\ At("init")
  /\ dtb_ready' = (header.resp = "blob" /\ fdt_init(header))
  /\ at' = "start"
  /\ UNCHANGED <<vars, header, idx, text, port>>

uart_find_port ==
  /\ At("start")
  /\ Lookup("path", <<"/", "chosen">>) /\ at' = "stdout"
  /\ UNCHANGED <<header, dtb_ready, idx, text, port>>

StartSearch == Lookup("compatible", uart_compatibles[1]) /\ at' = "search" /\ idx' = 1

(***************************************************************************)
(* fdt_get_stdout_path once /chosen was looked for, and the branch of      *)
(* uart_find_port on its answer.                                           *)
(***************************************************************************)
get_stdout_path ==
  /\ At("stdout")
  /\ LET main == fdt_get_property(blob, node, "stdout-path")
         prop == IF main # NoProp THEN main
                 ELSE fdt_get_property(blob, node, "linux,stdout-path")
         name == UpToColon(prop.val)
     IN  IF ~found \/ ~fdt_prop_is_string(prop) \/ ~fdt_copy_string(name)
           THEN StartSearch /\ UNCHANGED text
         ELSE /\ text' = name
              /\ UNCHANGED idx
              /\ IF name # <<>> /\ name[1] = "/"
                   THEN Lookup("path", name) /\ at' = "path"
                   ELSE Lookup("path", <<"/", "aliases">>) /\ at' = "alias"
  /\ UNCHANGED <<header, dtb_ready, port>>

(***************************************************************************)
(* fdt_resolve_alias; when it fails, the unresolved text is looked up.     *)
(***************************************************************************)
resolve_alias ==
  /\ At("alias")
  /\ LET prop == IF found /\ Len(text) = 1 THEN fdt_get_property(blob, node, text[1])
                 ELSE NoProp
         name == IF fdt_prop_is_string(prop) /\ fdt_copy_string(prop.val)
                   THEN prop.val ELSE text
     IN  text' = name /\ Lookup("path", name) /\ at' = "path"
  /\ UNCHANGED <<header, dtb_ready, idx, port>>

test_stdout_node ==
  /\ At("path")
  /\ IF found /\ \E k \in 1 .. Len(uart_compatibles) :
                   fdt_node_has_compatible(blob, node, uart_compatibles[k])
       THEN at' = "reg" /\ UNCHANGED <<vars, idx>>
       ELSE StartSearch
  /\ UNCHANGED <<header, dtb_ready, text, port>>

find_compatible ==
  /\ At("search")
  /\ IF found THEN at' = "reg" /\ UNCHANGED <<vars, idx>>
     ELSE IF idx < Len(uart_compatibles)
       THEN /\ idx' = idx + 1 /\ at' = at
            /\ Lookup("compatible", uart_compatibles[idx + 1])
     ELSE at' = "failed" /\ UNCHANGED <<vars, idx>>
  /\ UNCHANGED <<header, dtb_ready, text, port>>

fdt_get_u32(name, default) ==
  LET p == fdt_get_property(blob, node, name)
  IN  IF p = NoProp \/ fdt_prop_get_u32(p) = <<>> THEN default ELSE fdt_prop_get_u32(p)[1]

get_reg ==
  /\ At("reg")
  /\ LET reg   == fdt_get_reg(blob, node, 0)
         width == fdt_get_u32("reg-io-width", 1)
     IN  IF ~reg.ok THEN at' = "failed" /\ UNCHANGED port
         ELSE IF reg.size = 0
           THEN at' = "failed" /\ port' = [port EXCEPT !.base = reg.addr]
         ELSE /\ port' = [base |-> reg.addr, size |-> reg.size,
                          reg_shift |-> fdt_get_u32("reg-shift", 0),
                          reg_io_width |-> width]
              /\ at' = IF width \in {1, 4} THEN "found" ELSE "failed"
  /\ UNCHANGED <<vars, header, dtb_ready, idx, text>>

-----------------------------------------------------------------------------
Init ==
  /\ \E i \in Inputs : blob = i.blob /\ header = i.header
  /\ NoCallYet
  /\ dtb_ready = FALSE /\ at = "init" /\ idx = 0 /\ text = <<>> /\ port = NoPort

Step ==
  \/ Walk /\ UNCHANGED dtbVars
  \/ dtb_init \/ uart_find_port \/ get_stdout_path \/ resolve_alias
  \/ test_stdout_node \/ find_compatible \/ get_reg

Over == at \in {"found", "failed"} /\ UNCHANGED allVars

Next == Step \/ Over

Spec == Init /\ [][Next]_allVars
=============================================================================
