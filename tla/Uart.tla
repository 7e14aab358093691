-------------------------------- MODULE Uart --------------------------------
(***************************************************************************)
(* platform/generic/uart.c: the serial port driver, and the 16550 it       *)
(* drives.  Driver and device run side by side: the device sends and       *)
(* receives between any two register accesses of the driver.               *)
(*                                                                         *)
(*   pc = "off"     uart_init has not been called                          *)
(*        "setup"   uart_init is writing the configuration registers       *)
(*        "banner"  uart_ready is set; uart_init logs that it is done      *)
(*        "drain"   the last loop of uart_init                             *)
(*        "idle"    no driver call is running                              *)
(*        "putc"    the loop of uart_puts, in it the loop of uart_putc     *)
(*        "getc"    the loop of uart_getc                                  *)
(*        "halt"    kmain is in hlt(): uart_init failed                    *)
(***************************************************************************)
EXTENDS Integers, Sequences

CONSTANTS
  Compatibles,   \* uart_compatibles, a sequence of names
  Trees,         \* device trees: nodes (a sequence, in the order of the walk)
                 \* and stdout (index of the node stdout-path names, 0 if none)
  DefaultPort,   \* UART_DEFAULT_BASE, UART_DEFAULT_SIZE, shift 0, width 1
  Strings,       \* the strings callers print
  Bytes,         \* the bytes that arrive
  SPIN_LIMIT,    \* spins of uart_putc before it writes anyway (1000000)
  FifoDepth,     \* bytes the device can hold in either direction
  MaxBytes       \* bound: bytes printed, and bytes that arrive, in a behaviour

ASSUME UartAssumption ==
  /\ SPIN_LIMIT \in Nat /\ FifoDepth \in Nat \ {0} /\ MaxBytes \in Nat
  /\ Strings \subseteq Seq(0 .. 255) /\ Bytes \subseteq 0 .. 255
  /\ Len(Compatibles) \in Nat
  /\ \A t \in Trees : Len(t.nodes) \in Nat /\ t.stdout \in 0 .. Len(t.nodes)

VARIABLES
  uart0, uart_ready,                 \* the driver's globals
  pc, cont, i, str, spins,           \* the running call: cont is where it returns to
  tree, mapped,                      \* the device tree; uart0 is in the page tables
  ier, dll, dlm, lcr, tx, rx,        \* the device's registers and queues
  wire, asked, timedOut,             \* history: bytes sent since uart_ready, bytes
                                     \* given to uart_putc, a spin loop gave up
  arrived, got, overrun              \* history: bytes received since uart_init
                                     \* ended, bytes uart_getc returned, rx was full

portVars == <<uart0, uart_ready, tree, mapped>>
callVars == <<pc, cont, i, str, spins>>
regVars  == <<ier, dll, dlm, lcr>>
outVars  == <<tx, wire, asked, timedOut>>
inVars   == <<rx, arrived, got, overrun>>
vars     == <<portVars, callVars, regVars, outVars, inVars>>

-----------------------------------------------------------------------------
(***************************************************************************)
(* The device.  Offsets 0 and 1 are the divisor latch while DLAB is set in *)
(* the line control register.                                              *)
(***************************************************************************)
UART_THR == 0
UART_DLL == 0
UART_IER == 1
UART_DLM == 1
UART_FCR == 2
UART_LCR == 3
UART_LCR_DLAB == 128

Dlab     == lcr >= UART_LCR_DLAB
RX_READY == rx # <<>>
TX_EMPTY == tx = <<>>

(***************************************************************************)
(* A register write and what the device makes of it: with DLAB clear,      *)
(* offset 0 queues a byte to send (lost when the queue is full); the value *)
(* 7 in FCR enables and empties both queues.                               *)
(***************************************************************************)
uart_write_reg(reg, val) ==
  /\ dll' = IF reg = UART_DLL /\ Dlab THEN val ELSE dll
  /\ dlm' = IF reg = UART_DLM /\ Dlab THEN val ELSE dlm
  /\ ier' = IF reg = UART_IER /\ ~Dlab THEN val ELSE ier
  /\ lcr' = IF reg = UART_LCR THEN val ELSE lcr
  /\ tx'  = IF reg = UART_THR /\ ~Dlab /\ Len(tx) < FifoDepth THEN Append(tx, val)
            ELSE IF reg = UART_FCR THEN <<>> ELSE tx
  /\ rx'  = IF reg = UART_FCR THEN <<>> ELSE rx

DeviceSends ==
  /\ tx # <<>>
  /\ tx' = Tail(tx)
  /\ wire' = IF uart_ready THEN Append(wire, Head(tx)) ELSE wire
  /\ UNCHANGED <<portVars, callVars, regVars, asked, timedOut, inVars>>

(***************************************************************************)
(* A byte arrives; the device drops it when its queue is full.  What       *)
(* arrives before uart_init has drained the queue is not recorded.         *)
(***************************************************************************)
InInit == pc \in {"off", "setup", "banner", "drain"} \/ cont = "drain"

DeviceReceives(b) ==
  /\ Len(arrived) < MaxBytes
  /\ rx' = IF Len(rx) < FifoDepth THEN Append(rx, b) ELSE rx
  /\ arrived' = IF InInit THEN arrived ELSE Append(arrived, b)
  /\ overrun' = (overrun \/ (~InInit /\ Len(rx) >= FifoDepth))
  /\ UNCHANGED <<portVars, callVars, regVars, outVars, got>>

-----------------------------------------------------------------------------
(***************************************************************************)
(* uart_init.                                                              *)
(***************************************************************************)
HasCompatible(t, n) == \E c \in 1 .. Len(Compatibles) : Compatibles[c] \in t.nodes[n].compat

(***************************************************************************)
(* The node uart_find_port settles on, 0 if none: the stdout node if it is *)
(* a known UART, otherwise the first node of the first name that has one.  *)
(***************************************************************************)
FindNode(t) ==
  LET With(c) == {n \in 1 .. Len(t.nodes) : Compatibles[c] \in t.nodes[n].compat}
      names   == {c \in 1 .. Len(Compatibles) : With(c) # {}}
      First(S) == CHOOSE x \in S : \A y \in S : x <= y
  IN  IF t.stdout # 0 /\ HasCompatible(t, t.stdout) THEN t.stdout
      ELSE IF names = {} THEN 0
      ELSE First(With(First(names)))

PortOf(node) == [base |-> node.base, size |-> node.size,
                 reg_shift |-> node.reg_shift, reg_io_width |-> node.reg_io_width]

(***************************************************************************)
(* uart_find_port: what uart0 is afterwards, and whether it succeeded.  A  *)
(* zero-sized reg leaves the base written, an unsupported reg-io-width     *)
(* leaves all of it written.                                               *)
(***************************************************************************)
uart_find_port(t) ==
  LET n == FindNode(t)
      p == PortOf(t.nodes[n])
  IN  IF n = 0 \/ ~t.nodes[n].regOk THEN [port |-> uart0, ok |-> FALSE]
      ELSE IF p.size = 0 THEN [port |-> [uart0 EXCEPT !.base = p.base], ok |-> FALSE]
      ELSE [port |-> p, ok |-> p.reg_io_width \in {1, 4}]

Fallback_partial(port) ==                  \* mutation: base and size only
  [port EXCEPT !.base = DefaultPort.base, !.size = DefaultPort.size]

Fallback(port) == DefaultPort

(***************************************************************************)
(* uart_init up to paging_map_mmio, whose outcome is ok; on failure kmain  *)
(* halts.                                                                  *)
(***************************************************************************)
uart_init(ok) ==
  /\ pc = "off"
  /\ LET r == uart_find_port(tree)
     IN  uart0' = IF r.ok THEN r.port ELSE Fallback(r.port)
  /\ uart_ready' = FALSE /\ mapped' = ok
  /\ pc' = IF ok THEN "setup" ELSE "halt"
  /\ i' = 1
  /\ UNCHANGED <<tree, cont, str, spins, regVars, outVars, inVars>>

SetupWrites_swapped ==                     \* mutation: DLAB cleared too early
  <<<<UART_IER, 0>>, <<UART_LCR, UART_LCR_DLAB>>, <<UART_DLL, 2>>,
    <<UART_LCR, 3>>, <<UART_DLM, 0>>, <<UART_FCR, 7>>>>

SetupWrites ==
  <<<<UART_IER, 0>>, <<UART_LCR, UART_LCR_DLAB>>, <<UART_DLL, 2>>,
    <<UART_DLM, 0>>, <<UART_LCR, 3>>, <<UART_FCR, 7>>>>

setup_write ==
  /\ pc = "setup" /\ i <= Len(SetupWrites)
  /\ uart_write_reg(SetupWrites[i][1], SetupWrites[i][2])
  /\ i' = i + 1
  /\ UNCHANGED <<portVars, pc, cont, str, spins, wire, asked, timedOut,
                 arrived, got, overrun>>

setup_done ==
  /\ pc = "setup" /\ i > Len(SetupWrites)
  /\ uart_ready' = TRUE
  /\ pc' = "banner"
  /\ UNCHANGED <<uart0, tree, mapped, cont, i, str, spins, regVars, outVars, inVars>>

(***************************************************************************)
(* A string on its way to the port, through klog and printk_putc or        *)
(* through uart_puts: byte by byte into uart_putc, which returns at once   *)
(* (printk_putc: asks the firmware instead) until the port is ready.       *)
(***************************************************************************)
Emit(s, back) ==
  IF uart_ready
  THEN /\ Len(asked) + Len(s) <= MaxBytes
       /\ pc' = "putc" /\ cont' = back /\ str' = s /\ spins' = 0
       /\ UNCHANGED <<portVars, i, regVars, outVars, inVars>>
  ELSE UNCHANGED vars

init_banner == pc = "banner" /\ \E s \in Strings : Emit(s, "drain")

drain_read_peeks ==                        \* mutation: LSR polled, RBR not read
  pc = "drain" /\ RX_READY /\ UNCHANGED vars

drain_read ==
  /\ pc = "drain" /\ RX_READY
  /\ rx' = Tail(rx)
  /\ UNCHANGED <<portVars, callVars, regVars, outVars, arrived, got, overrun>>

drain_done ==
  /\ pc = "drain" /\ ~RX_READY
  /\ pc' = "idle" /\ cont' = "idle"
  /\ UNCHANGED <<portVars, i, str, spins, regVars, outVars, inVars>>

-----------------------------------------------------------------------------
(***************************************************************************)
(* uart_puts and uart_putc: wait for an empty transmitter, at most         *)
(* SPIN_LIMIT times, and write in any case.                                *)
(***************************************************************************)
uart_puts(s) == pc \in {"off", "idle"} /\ Emit(s, pc)

putc_spin ==
  /\ pc = "putc" /\ str # <<>>
  /\ spins < SPIN_LIMIT /\ ~TX_EMPTY
  /\ spins' = spins + 1
  /\ UNCHANGED <<portVars, pc, cont, i, str, regVars, outVars, inVars>>

MayWrite_never_waits == TRUE               \* mutation: LSR not polled

MayWrite_waits_forever == TX_EMPTY         \* mutation: no bound on the spins

MayWrite == spins >= SPIN_LIMIT \/ TX_EMPTY

putc_write ==
  /\ pc = "putc" /\ str # <<>> /\ MayWrite
  /\ uart_write_reg(UART_THR, Head(str))
  /\ asked' = Append(asked, Head(str))
  /\ timedOut' = (timedOut \/ spins >= SPIN_LIMIT)
  /\ str' = Tail(str) /\ spins' = 0
  /\ UNCHANGED <<portVars, pc, cont, i, wire, arrived, got, overrun>>

puts_done ==
  /\ pc = "putc" /\ str = <<>>
  /\ pc' = cont
  /\ UNCHANGED <<portVars, cont, i, str, spins, regVars, outVars, inVars>>

(***************************************************************************)
(* uart_getc: getc_read waits for a byte, without a bound.                 *)
(***************************************************************************)
uart_getc ==
  /\ pc = "idle" /\ uart_ready
  /\ pc' = "getc"
  /\ UNCHANGED <<portVars, cont, i, str, spins, regVars, outVars, inVars>>

ByteReady_not_polled == TRUE               \* mutation: RBR read without RX_READY

ByteReady == RX_READY

getc_read ==
  /\ pc = "getc" /\ ByteReady
  /\ got' = Append(got, IF rx = <<>> THEN 0 ELSE Head(rx))
  /\ rx' = IF rx = <<>> THEN rx ELSE Tail(rx)
  /\ pc' = "idle"
  /\ UNCHANGED <<portVars, cont, i, str, spins, regVars, outVars, arrived, overrun>>

-----------------------------------------------------------------------------
(***************************************************************************)
(* The firmware used the port before: its queues and registers hold        *)
(* whatever it left there, except that it left DLAB clear.  uart_init      *)
(* counts on that: its first write would go to the divisor latch otherwise.*)
(***************************************************************************)
Init ==
  /\ tree \in Trees /\ mapped = FALSE
  /\ uart0 = [base |-> 0, size |-> 0, reg_shift |-> 0, reg_io_width |-> 0]
  /\ uart_ready = FALSE
  /\ pc = "off" /\ cont = "idle" /\ i = 1 /\ str = <<>> /\ spins = 0
  /\ ier \in {0, 1} /\ dll = 1 /\ dlm = 1 /\ lcr = 3
  /\ \E b \in Bytes : tx \in {<<>>, <<b>>} /\ rx \in {<<>>, <<b>>}
  /\ wire = <<>> /\ asked = <<>> /\ timedOut = FALSE
  /\ arrived = <<>> /\ got = <<>> /\ overrun = FALSE

Driver ==
  \/ \E ok \in BOOLEAN : uart_init(ok)
  \/ setup_write \/ setup_done \/ init_banner \/ drain_read \/ drain_done
  \/ putc_spin \/ putc_write \/ puts_done
  \/ getc_read

Callers == (\E s \in Strings : uart_puts(s)) \/ uart_getc

Device == DeviceSends \/ \E b \in Bytes : DeviceReceives(b)

Next == Driver \/ Callers \/ Device

Spec == Init /\ [][Next]_vars

(***************************************************************************)
(* The driver's loops keep running; the device need never send, and no     *)
(* byte need ever arrive.                                                  *)
(***************************************************************************)
FairSpec == Spec /\ WF_vars(Driver)
=============================================================================
