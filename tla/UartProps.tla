----------------------------- MODULE UartProps ------------------------------
(***************************************************************************)
(* What the serial driver promises.                                        *)
(***************************************************************************)
EXTENDS Uart

Usable(node) == node.regOk /\ node.size # 0 /\ node.reg_io_width \in {1, 4}

(***************************************************************************)
(* Once uart_init has settled, uart0 is the port of one usable UART of the *)
(* device tree in full (the console's own when stdout-path names a usable  *)
(* one) or the default port in full, never a mixture that uart_find_port   *)
(* left half written before it gave up.                                    *)
(***************************************************************************)
PortConsistent ==
  pc # "off" =>
    LET N == {n \in 1 .. Len(tree.nodes) : HasCompatible(tree, n) /\ Usable(tree.nodes[n])}
    IN  IF tree.stdout \in N THEN uart0 = PortOf(tree.nodes[tree.stdout])
        ELSE uart0 \in {DefaultPort} \cup {PortOf(tree.nodes[n]) : n \in N}

(***************************************************************************)
(* Whenever uart_putc, uart_getc or the drain loop touches the port, it is *)
(* mapped and uart_init has left it configured: interrupts off, divisor 2, *)
(* eight data bits with the divisor latch closed again.                    *)
(***************************************************************************)
Configured ==
  pc \in {"putc", "drain", "getc"} =>
    /\ mapped
    /\ ier = 0 /\ dll = 2 /\ dlm = 0 /\ lcr = 3

(***************************************************************************)
(* While no spin loop of uart_putc has run out, what the port has sent     *)
(* since it was made ready and what it still holds is exactly what was     *)
(* given to uart_putc, in order: nothing of the firmware's, of uart_init's *)
(* register writes, and nothing lost in a full queue.                      *)
(***************************************************************************)
OrderedOutput == uart_ready /\ ~timedOut => wire \o tx = asked

(***************************************************************************)
(* Unless the device itself overran, every byte that arrives after         *)
(* uart_init is returned by uart_getc once, in order: none invented, none  *)
(* swallowed by the drain loop.                                            *)
(***************************************************************************)
InputInOrder == uart_ready /\ ~InInit /\ ~overrun => arrived = got \o rx

(***************************************************************************)
(* uart_puts returns, even to a port that never sends: the spin loop of    *)
(* uart_putc is bounded.                                                   *)
(***************************************************************************)
PutsReturns == pc = "putc" ~> pc # "putc"

(***************************************************************************)
(* uart_init returns if the sender pauses: its drain loop, which has no    *)
(* bound, then finds the receiver empty, whatever the firmware had left in *)
(* it and however many bytes came before.                                  *)
(***************************************************************************)
InitReturns ==
  <>[][\A b \in Bytes : ~DeviceReceives(b)]_vars => (pc = "setup" ~> pc = "idle")
=============================================================================
