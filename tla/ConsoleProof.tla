----------------------------- MODULE ConsoleProof ----------------------------
(***************************************************************************)
(* Proofs about the way of the kernel's text to the serial port.  First    *)
(* the serial driver beside its device, for every device tree, every       *)
(* SPIN_LIMIT and queue length, and everything that is printed or arrives; *)
(* then printk, for every format with the text its caller means, every     *)
(* argument, width and time.                                               *)
(***************************************************************************)
EXTENDS UartProps, PrintkProps, SequenceTheorems, WellFoundedInduction, TLAPS

-----------------------------------------------------------------------------
Byte == 0 .. 255

TypeOK ==
  /\ uart_ready \in BOOLEAN /\ mapped \in BOOLEAN /\ tree \in Trees
  /\ pc \in {"off", "setup", "banner", "drain", "idle", "putc", "getc", "halt"}
  /\ cont \in {"idle", "drain"}
  /\ i \in Nat /\ spins \in Nat /\ str \in Seq(Byte)
  /\ tx \in Seq(Byte) /\ rx \in Seq(Byte)
  /\ wire \in Seq(Byte) /\ asked \in Seq(Byte) /\ timedOut \in BOOLEAN
  /\ arrived \in Seq(Byte) /\ got \in Seq(Byte) /\ overrun \in BOOLEAN

(***************************************************************************)
(* The port is ready from the end of the register writes on, and only then *)
(* does uart_putc run.  The string of uart_init's own message is followed  *)
(* by the drain loop, any other by the return to the caller.               *)
(***************************************************************************)
PhaseOK ==
  /\ uart_ready <=> pc \in {"banner", "drain", "idle", "putc", "getc"}
  /\ pc \notin {"drain", "putc"} => cont = "idle"
  /\ pc = "drain" => cont = "drain"

(***************************************************************************)
(* The registers while uart_init writes them, and from then on.            *)
(***************************************************************************)
RegistersOK ==
  /\ pc = "off" => lcr = 3
  /\ pc = "setup" =>
       /\ mapped
       /\ i \in 1 .. 7
       /\ lcr = IF i \in 3 .. 5 THEN 128 ELSE 3
       /\ i > 1 => ier = 0
       /\ i > 3 => dll = 2
       /\ i > 4 => dlm = 0
       /\ i > 6 => tx = <<>>
  /\ uart_ready => mapped /\ ier = 0 /\ dll = 2 /\ dlm = 0 /\ lcr = 3

(***************************************************************************)
(* Nothing is recorded as sent, or as asked for, before the port is ready; *)
(* nothing as arrived or returned before uart_init is over.                *)
(***************************************************************************)
HistoryOK ==
  /\ ~uart_ready => wire = <<>> /\ asked = <<>>
  /\ uart_ready /\ InInit => arrived = <<>> /\ got = <<>> /\ overrun = FALSE
  /\ pc \in {"off", "setup"} => arrived = <<>> /\ got = <<>> /\ overrun = FALSE

IInv ==
  /\ TypeOK /\ PhaseOK /\ RegistersOK /\ HistoryOK
  /\ PortConsistent /\ OrderedOutput /\ InputInOrder

-----------------------------------------------------------------------------
(***************************************************************************)
(* Queues: moving a byte from the head of one to the end of the other      *)
(* leaves their concatenation.                                             *)
(***************************************************************************)
LEMMA MoveHead ==
  ASSUME NEW w \in Seq(Byte), NEW t \in Seq(Byte), t # <<>>
  PROVE  /\ Head(t) \in Byte /\ Tail(t) \in Seq(Byte)
         /\ Append(w, Head(t)) \in Seq(Byte)
         /\ Append(w, Head(t)) \o Tail(t) = w \o t
<1>1. Head(t) \in Byte /\ Tail(t) \in Seq(Byte) /\ Append(w, Head(t)) \in Seq(Byte)
  BY HeadTailProperties
<1>2. Append(w, Head(t)) \o Tail(t) \in Seq(Byte) /\ w \o t \in Seq(Byte)
  BY <1>1, ConcatProperties
<1>3. Len(t) \in Nat \ {0}
  BY EmptySeq
<1>4. Len(Append(w, Head(t)) \o Tail(t)) = Len(w \o t)
  BY <1>1, <1>3
<1>5. \A j \in 1 .. Len(w \o t) : (Append(w, Head(t)) \o Tail(t))[j] = (w \o t)[j]
  BY <1>1, <1>3
<1> QED  BY <1>1, <1>2, <1>4, <1>5, SeqEqual

(***************************************************************************)
(* A byte that joins the second of two queues joins their concatenation.   *)
(***************************************************************************)
LEMMA JoinEnd ==
  ASSUME NEW w \in Seq(Byte), NEW t \in Seq(Byte), NEW b \in Byte
  PROVE  /\ Append(t, b) \in Seq(Byte)
         /\ w \o Append(t, b) = Append(w \o t, b)
         /\ w \o <<>> = w
<1>1. /\ Append(t, b) \in Seq(Byte) /\ w \o t \in Seq(Byte)
      /\ Append(w \o t, b) \in Seq(Byte) /\ w \o Append(t, b) \in Seq(Byte)
  OBVIOUS
<1>2. Len(w \o Append(t, b)) = Len(Append(w \o t, b))
  BY <1>1
<1>3. \A j \in 1 .. Len(w \o Append(t, b)) : (w \o Append(t, b))[j] = Append(w \o t, b)[j]
  BY <1>1
<1>4. w \o Append(t, b) = Append(w \o t, b)
  BY <1>1, <1>2, <1>3, SeqEqual
<1> QED  BY <1>1, <1>4, ConcatEmptySeq

-----------------------------------------------------------------------------
(***************************************************************************)
(* A set of natural numbers that is not empty has a least element.         *)
(***************************************************************************)
LEMMA LeastOf ==
  ASSUME NEW S \in SUBSET Nat, S # {}
  PROVE  \E x \in S : \A y \in S : x <= y
<1> DEFINE Less == {ss \in Nat \X Nat : ss[1] < ss[2]}
<1>1. IsWellFoundedOn(Less, Nat)
  BY NatLessThanWellFounded DEF OpToRel
<1>2. PICK x \in S : \A y \in S : ~(<<y, x>> \in Less)
  <2> HIDE DEF Less
  <2> QED  BY <1>1, WFMin
<1>3. x \in Nat /\ \A y \in S : y \in Nat /\ ~(y < x)
  BY <1>2
<1> QED  BY <1>3

LEMMA Least ==
  ASSUME NEW S \in SUBSET Nat, S # {}
  PROVE  (CHOOSE x \in S : \A y \in S : x <= y) \in S
BY LeastOf

(***************************************************************************)
(* uart_find_port settles on a node with a known name, and on the console  *)
(* if that has one.                                                        *)
(***************************************************************************)
LEMMA FindNodeFacts ==
  ASSUME NEW t \in Trees
  PROVE  /\ FindNode(t) # 0 => FindNode(t) \in 1 .. Len(t.nodes) /\ HasCompatible(t, FindNode(t))
         /\ t.stdout \in 1 .. Len(t.nodes) /\ HasCompatible(t, t.stdout) => FindNode(t) = t.stdout
<1> DEFINE With(c) == {n \in 1 .. Len(t.nodes) : Compatibles[c] \in t.nodes[n].compat}
           names == {c \in 1 .. Len(Compatibles) : With(c) # {}}
           First(S) == CHOOSE x \in S : \A y \in S : x <= y
<1>1. /\ Len(t.nodes) \in Nat /\ t.stdout \in 0 .. Len(t.nodes) /\ Len(Compatibles) \in Nat
  BY UartAssumption
<1>2. FindNode(t) = IF t.stdout # 0 /\ HasCompatible(t, t.stdout) THEN t.stdout
                    ELSE IF names = {} THEN 0
                    ELSE First(With(First(names)))
  BY DEF FindNode
<1>3. ASSUME names # {}
      PROVE  /\ First(With(First(names))) \in 1 .. Len(t.nodes)
             /\ HasCompatible(t, First(With(First(names))))
  <2>1. First(names) \in names
    <3>1. names \in SUBSET Nat
      BY <1>1
    <3> HIDE DEF names
    <3> QED  BY <1>3, <3>1, Least
  <2>2. PICK c \in 1 .. Len(Compatibles) : c = First(names) /\ With(c) # {}
    BY <2>1
  <2>3. First(With(c)) \in With(c)
    <3>1. With(c) \in SUBSET Nat
      BY <1>1
    <3> HIDE DEF With
    <3> QED  BY <2>2, <3>1, Least
  <2> HIDE DEF names, First
  <2>4. First(With(c)) \in 1 .. Len(t.nodes) /\ Compatibles[c] \in t.nodes[First(With(c))].compat
    BY <2>3
  <2> HIDE DEF With
  <2> QED  BY <2>2, <2>4 DEF HasCompatible
<1> HIDE DEF names, With, First
<1> QED  BY <1>1, <1>2, <1>3

(***************************************************************************)
(* uart_init leaves a port that is all the device tree's or all default.   *)
(***************************************************************************)
LEMMA PortChosen ==
  ASSUME NEW ok \in BOOLEAN, TypeOK, uart_init(ok)
  PROVE  PortConsistent'
<1> DEFINE n == FindNode(tree)
           p == PortOf(tree.nodes[n])
           r == uart_find_port(tree)
           N == {m \in 1 .. Len(tree.nodes) : HasCompatible(tree, m) /\ Usable(tree.nodes[m])}
<1>1. tree' = tree /\ uart0' = IF r.ok THEN r.port ELSE DefaultPort
  BY DEF uart_init, Fallback
<1>2. /\ n # 0 => n \in 1 .. Len(tree.nodes) /\ HasCompatible(tree, n)
      /\ tree.stdout \in 1 .. Len(tree.nodes) /\ HasCompatible(tree, tree.stdout) => n = tree.stdout
  BY FindNodeFacts DEF TypeOK
<1>3. p.size = tree.nodes[n].size /\ p.reg_io_width = tree.nodes[n].reg_io_width
  BY DEF PortOf
<1>4. r = IF n = 0 \/ ~tree.nodes[n].regOk THEN [port |-> uart0, ok |-> FALSE]
          ELSE IF p.size = 0 THEN [port |-> [uart0 EXCEPT !.base = p.base], ok |-> FALSE]
          ELSE [port |-> p, ok |-> p.reg_io_width \in {1, 4}]
  BY DEF uart_find_port
<1> HIDE DEF n, p, r
<1>5. r.ok <=> n # 0 /\ tree.nodes[n].regOk /\ p.size # 0 /\ p.reg_io_width \in {1, 4}
  <2>1. CASE n = 0 \/ ~tree.nodes[n].regOk
    BY <1>4, <2>1
  <2>2. CASE ~(n = 0 \/ ~tree.nodes[n].regOk) /\ p.size = 0
    BY <1>4, <2>2
  <2>3. CASE ~(n = 0 \/ ~tree.nodes[n].regOk) /\ p.size # 0
    BY <1>4, <2>3
  <2> QED  BY <2>1, <2>2, <2>3
<1>6. r.ok => r.port = p
  <2>1. CASE n = 0 \/ ~tree.nodes[n].regOk \/ p.size = 0
    BY <1>5, <2>1
  <2>2. CASE ~(n = 0 \/ ~tree.nodes[n].regOk \/ p.size = 0)
    BY <1>4, <2>2
  <2> QED  BY <2>1, <2>2
<1>7. r.ok => n \in N
  BY <1>2, <1>3, <1>5 DEF Usable
<1>8. tree.stdout \in N => n = tree.stdout /\ r.ok
  <2> SUFFICES ASSUME tree.stdout \in N PROVE n = tree.stdout /\ r.ok
    OBVIOUS
  <2>1. n = tree.stdout /\ Usable(tree.nodes[n]) /\ n \in 1 .. Len(tree.nodes)
    BY <1>2
  <2>2. n # 0
    BY <2>1, UartAssumption DEF TypeOK
  <2> QED  BY <1>3, <1>5, <2>1, <2>2 DEF Usable
<1>9. IF tree.stdout \in N THEN uart0' = PortOf(tree.nodes[tree.stdout])
      ELSE uart0' \in {DefaultPort} \cup {PortOf(tree.nodes[m]) : m \in N}
  <2>1. CASE tree.stdout \in N
    BY <1>1, <1>6, <1>8, <2>1 DEF p
  <2>2. CASE tree.stdout \notin N /\ r.ok
    BY <1>1, <1>6, <1>7, <2>2 DEF p
  <2>3. CASE tree.stdout \notin N /\ ~r.ok
    BY <1>1, <2>3
  <2> QED  BY <2>1, <2>2, <2>3
<1> QED  BY <1>1, <1>9 DEF PortConsistent, HasCompatible, Usable

-----------------------------------------------------------------------------
(***************************************************************************)
(* Only uart_init chooses the port.                                        *)
(***************************************************************************)
LEMMA SamePort ==
  ASSUME PortConsistent, UNCHANGED <<uart0, tree>>, pc = "off" => pc' = "off"
  PROVE  PortConsistent'
BY DEF PortConsistent, HasCompatible, Usable, PortOf

(***************************************************************************)
(* The state the firmware leaves satisfies the invariant.                  *)
(***************************************************************************)
LEMMA InitOK == Init => IInv
<1> SUFFICES ASSUME Init PROVE IInv
  OBVIOUS
<1>1. PICK b \in Bytes : tx \in {<<>>, <<b>>} /\ rx \in {<<>>, <<b>>}
  BY DEF Init
<1>2. b \in Byte /\ <<b>> \in Seq(Byte) /\ <<>> \in Seq(Byte)
  BY UartAssumption DEF Byte
<1>3. TypeOK
  BY <1>1, <1>2 DEF Init, TypeOK
<1>4. PhaseOK /\ RegistersOK /\ HistoryOK
  BY DEF Init, PhaseOK, RegistersOK, HistoryOK
<1>5. PortConsistent /\ OrderedOutput /\ InputInOrder
  BY DEF Init, PortConsistent, OrderedOutput, InputInOrder
<1> QED  BY <1>3, <1>4, <1>5 DEF IInv

(***************************************************************************)
(* uart_init up to the mapping of the port.                                *)
(***************************************************************************)
LEMMA UartInitOK == ASSUME IInv, NEW ok \in BOOLEAN, uart_init(ok) PROVE IInv'
<1>1. /\ pc = "off" /\ uart_ready' = FALSE /\ mapped' = ok /\ i' = 1
      /\ pc' = IF ok THEN "setup" ELSE "halt"
      /\ UNCHANGED <<tree, cont, str, spins, regVars, outVars, inVars>>
  BY DEF uart_init
<1>2. TypeOK' /\ PhaseOK' /\ RegistersOK'
  <2>1. TypeOK'
    BY <1>1 DEF IInv, TypeOK, outVars, inVars
  <2>2. PhaseOK'
    BY <1>1 DEF IInv, PhaseOK
  <2>3. CASE ok
    BY <1>1, <2>1, <2>2, <2>3 DEF IInv, RegistersOK, regVars
  <2>4. CASE ~ok
    BY <1>1, <2>1, <2>2, <2>4 DEF RegistersOK
  <2> QED  BY <2>1, <2>2, <2>3, <2>4
<1>3. HistoryOK' /\ OrderedOutput' /\ InputInOrder'
  BY <1>1 DEF IInv, HistoryOK, PhaseOK, OrderedOutput, InputInOrder, outVars, inVars
<1>4. PortConsistent'
  BY PortChosen DEF IInv
<1> QED  BY <1>2, <1>3, <1>4 DEF IInv

(***************************************************************************)
(* The six register writes: the divisor goes to the latch, and none of     *)
(* them is taken for a byte to send.                                       *)
(***************************************************************************)
LEMMA SetupWriteOK == ASSUME IInv, setup_write PROVE IInv'
<1>0. pc = "setup" /\ i <= 6 /\ i \in 1 .. 7
  <2>1. Len(SetupWrites) = 6
    BY DEF SetupWrites
  <2> QED  BY <2>1 DEF setup_write, IInv, RegistersOK
<1>1. /\ pc = "setup" /\ i \in 1 .. 6 /\ i' = i + 1
      /\ uart_write_reg(SetupWrites[i][1], SetupWrites[i][2])
      /\ UNCHANGED <<portVars, pc, cont, str, spins, wire, asked, timedOut, arrived, got, overrun>>
  BY <1>0 DEF setup_write
<1>2. ~uart_ready /\ mapped /\ lcr = (IF i \in 3 .. 5 THEN 128 ELSE 3)
  BY <1>1 DEF IInv, PhaseOK, RegistersOK
<1>3. /\ lcr' = IF i + 1 \in 3 .. 5 THEN 128 ELSE 3
      /\ i + 1 > 1 => ier' = 0
      /\ i + 1 > 3 => dll' = 2
      /\ i + 1 > 4 => dlm' = 0
      /\ i + 1 > 6 => tx' = <<>>
      /\ tx' \in {tx, <<>>} /\ rx' \in {rx, <<>>}
  <2> USE DEF SetupWrites, uart_write_reg, Dlab, UART_THR, UART_DLL, UART_IER, UART_DLM, UART_FCR,
              UART_LCR, UART_LCR_DLAB
  <2>1. CASE i = 1  BY <1>1, <1>2, <2>1 DEF IInv, RegistersOK
  <2>2. CASE i = 2  BY <1>1, <1>2, <2>2 DEF IInv, RegistersOK
  <2>3. CASE i = 3  BY <1>1, <1>2, <2>3 DEF IInv, RegistersOK
  <2>4. CASE i = 4  BY <1>1, <1>2, <2>4 DEF IInv, RegistersOK
  <2>5. CASE i = 5  BY <1>1, <1>2, <2>5 DEF IInv, RegistersOK
  <2>6. CASE i = 6  BY <1>1, <1>2, <2>6 DEF IInv, RegistersOK
  <2> QED  BY SMTT(30), <1>1, <2>1, <2>2, <2>3, <2>4, <2>5, <2>6
<1>4. TypeOK'
  <2>1. i' \in Nat /\ tx' \in Seq(Byte) /\ rx' \in Seq(Byte)
    <3>1. i' \in Nat /\ tx \in Seq(Byte) /\ rx \in Seq(Byte) /\ <<>> \in Seq(Byte)
      BY <1>1, EmptySeq DEF IInv, TypeOK
    <3> QED  BY <1>3, <3>1
  <2> QED  BY <1>1, <2>1 DEF IInv, TypeOK, portVars
<1>5. PhaseOK' /\ RegistersOK'
  BY <1>1, <1>2, <1>3 DEF IInv, PhaseOK, RegistersOK, portVars
<1>6. HistoryOK' /\ OrderedOutput' /\ InputInOrder'
  BY <1>1, <1>2 DEF IInv, HistoryOK, OrderedOutput, InputInOrder, InInit, portVars
<1>7. PortConsistent'
  BY <1>1, SamePort DEF IInv, portVars
<1> QED  BY <1>4, <1>5, <1>6, <1>7 DEF IInv

(***************************************************************************)
(* The port is made ready with an empty transmit queue.                    *)
(***************************************************************************)
LEMMA SetupDoneOK == ASSUME IInv, setup_done PROVE IInv'
<1>0. pc = "setup" /\ i > 6 /\ i \in 1 .. 7
  <2>1. Len(SetupWrites) = 6
    BY DEF SetupWrites
  <2> QED  BY <2>1 DEF setup_done, IInv, RegistersOK
<1>1. /\ pc = "setup" /\ i = 7 /\ uart_ready' = TRUE /\ pc' = "banner"
      /\ UNCHANGED <<uart0, tree, mapped, cont, i, str, spins, regVars, outVars, inVars>>
  BY <1>0 DEF setup_done
<1>2. TypeOK' /\ PhaseOK' /\ RegistersOK' /\ HistoryOK'
  BY <1>1
  DEF IInv, TypeOK, PhaseOK, RegistersOK, HistoryOK, InInit, regVars, outVars, inVars
<1>3. wire = <<>> /\ asked = <<>> /\ tx = <<>>
  BY <1>1 DEF IInv, PhaseOK, RegistersOK, HistoryOK
<1>4. OrderedOutput'
  <2>1. <<>> \o <<>> = <<>>
    BY JoinEnd, ConcatEmptySeq, EmptySeq
  <2> QED  BY <1>1, <1>3, <2>1 DEF OrderedOutput, outVars
<1>5. InputInOrder'
  BY <1>1 DEF InputInOrder, InInit
<1>6. PortConsistent'
  BY <1>1, SamePort DEF IInv
<1> QED  BY <1>2, <1>4, <1>5, <1>6 DEF IInv

(***************************************************************************)
(* Steps that only move the running call on.                               *)
(***************************************************************************)
LEMMA CallStepOK ==
  ASSUME IInv, UNCHANGED <<portVars, i, regVars, outVars, inVars>>,
         pc \in {"banner", "drain", "idle", "putc", "getc"},
         pc' \in {"drain", "idle", "putc", "getc"},
         str' \in Seq(Byte), spins' \in Nat, cont' \in {"idle", "drain"},
         pc' \notin {"drain", "putc"} => cont' = "idle",
         pc' = "drain" => cont' = "drain",
         InInit' => InInit,
         InInit /\ ~InInit' => rx = <<>>
  PROVE  IInv'
<1>1. uart_ready
  BY DEF IInv, PhaseOK
<1>2. TypeOK' /\ PhaseOK' /\ RegistersOK'
  BY <1>1 DEF IInv, TypeOK, PhaseOK, RegistersOK, portVars, regVars, outVars, inVars
<1>3. HistoryOK' /\ OrderedOutput'
  BY <1>1 DEF IInv, HistoryOK, OrderedOutput, portVars, outVars, inVars
<1>4. InputInOrder'
  <2>1. CASE InInit
    <3>1. <<>> \o <<>> = <<>>
      BY ConcatEmptySeq, EmptySeq
    <3> QED  BY <1>1, <2>1, <3>1 DEF IInv, HistoryOK, InputInOrder, inVars
  <2>2. CASE ~InInit
    BY <1>1, <2>2 DEF IInv, InputInOrder, inVars, portVars
  <2> QED  BY <2>1, <2>2
<1>5. PortConsistent'
  BY SamePort DEF IInv, portVars
<1> QED  BY <1>2, <1>3, <1>4, <1>5 DEF IInv

(***************************************************************************)
(* A string is begun: nothing while the port is not ready.                 *)
(***************************************************************************)
LEMMA EmitOK ==
  ASSUME IInv, NEW s \in Strings, NEW back \in {"idle", "drain", "off"}, Emit(s, back),
         \/ pc = "banner" /\ back = "drain"
         \/ pc \in {"off", "idle"} /\ back = pc
  PROVE  IInv' \/ UNCHANGED vars
<1>1. CASE ~uart_ready
  BY <1>1 DEF Emit
<1>2. CASE uart_ready
  <2>1. /\ pc' = "putc" /\ cont' = back /\ str' = s /\ spins' = 0
        /\ UNCHANGED <<portVars, i, regVars, outVars, inVars>>
    BY <1>2 DEF Emit
  <2>2. pc \in {"banner", "idle"} /\ s \in Seq(Byte)
    BY <1>2, UartAssumption DEF IInv, PhaseOK, Byte
  <2>3. cont = "idle"
    BY <2>2 DEF IInv, PhaseOK
  <2>4. InInit' <=> InInit
    BY <2>1, <2>2, <2>3 DEF InInit
  <2>5. cont' \in {"idle", "drain"}
    BY <2>1, <2>2
  <2> QED  BY <2>1, <2>2, <2>4, <2>5, CallStepOK
<1> QED  BY <1>1, <1>2

(***************************************************************************)
(* The drain loop's end finds the receiver empty, so what arrives from now *)
(* on is all there is to return.                                           *)
(***************************************************************************)
LEMMA DrainOK == ASSUME IInv, drain_read \/ drain_done PROVE IInv'
<1>1. CASE drain_done
  <2>1. /\ pc = "drain" /\ rx = <<>> /\ pc' = "idle" /\ cont' = "idle"
        /\ UNCHANGED <<portVars, i, str, spins, regVars, outVars, inVars>>
    BY <1>1 DEF drain_done, RX_READY
  <2>2. InInit /\ ~InInit'
    BY <2>1 DEF InInit
  <2>3. str' \in Seq(Byte) /\ spins' \in Nat
    BY <2>1 DEF IInv, TypeOK
  <2> QED  BY <2>1, <2>2, <2>3, CallStepOK
<1>2. CASE drain_read
  <2>1. /\ pc = "drain" /\ rx # <<>> /\ rx' = Tail(rx)
        /\ UNCHANGED <<portVars, callVars, regVars, outVars, arrived, got, overrun>>
    BY <1>2 DEF drain_read, RX_READY
  <2>2. rx' \in Seq(Byte)
    BY <2>1, MoveHead DEF IInv, TypeOK
  <2>3. TypeOK' /\ PhaseOK' /\ RegistersOK' /\ HistoryOK' /\ OrderedOutput' /\ InputInOrder'
    BY <2>1, <2>2
    DEF IInv, TypeOK, PhaseOK, RegistersOK, HistoryOK, OrderedOutput, InputInOrder, InInit,
        portVars, callVars, regVars, outVars
  <2>4. PortConsistent'
    BY <2>1, SamePort DEF IInv, portVars, callVars
  <2> QED  BY <2>3, <2>4 DEF IInv
<1> QED  BY <1>1, <1>2

(***************************************************************************)
(* The spin loop, the end of a string, the start of uart_getc.             *)
(***************************************************************************)
LEMMA UartCallOK == ASSUME IInv, putc_spin \/ puts_done \/ uart_getc PROVE IInv'
<1>1. CASE putc_spin
  <2>1. /\ pc = "putc" /\ pc' = pc /\ cont' = cont /\ str' = str /\ spins' = spins + 1
        /\ UNCHANGED <<portVars, i, regVars, outVars, inVars>>
    BY <1>1 DEF putc_spin
  <2>2. str' \in Seq(Byte) /\ spins' \in Nat /\ cont' \in {"idle", "drain"}
    BY <2>1 DEF IInv, TypeOK
  <2>3. InInit' <=> InInit
    BY <2>1 DEF InInit
  <2> QED  BY <2>1, <2>2, <2>3, CallStepOK
<1>2. CASE puts_done
  <2>1. /\ pc = "putc" /\ pc' = cont
        /\ UNCHANGED <<portVars, cont, i, str, spins, regVars, outVars, inVars>>
    BY <1>2 DEF puts_done
  <2>2. str' \in Seq(Byte) /\ spins' \in Nat /\ cont' = cont /\ cont' \in {"idle", "drain"}
    BY <2>1 DEF IInv, TypeOK
  <2>3. InInit' <=> InInit
    BY <2>1, <2>2 DEF InInit
  <2> QED  BY <2>1, <2>2, <2>3, CallStepOK
<1>3. CASE uart_getc
  <2>1. /\ pc = "idle" /\ pc' = "getc"
        /\ UNCHANGED <<portVars, cont, i, str, spins, regVars, outVars, inVars>>
    BY <1>3 DEF uart_getc
  <2>2. str' \in Seq(Byte) /\ spins' \in Nat /\ cont' = "idle" /\ cont = "idle"
    BY <2>1 DEF IInv, TypeOK, PhaseOK
  <2>3. InInit' <=> InInit
    BY <2>1, <2>2 DEF InInit
  <2> QED  BY <2>1, <2>2, <2>3, CallStepOK
<1> QED  BY <1>1, <1>2, <1>3

(***************************************************************************)
(* A byte is written to the transmitter: to an empty one, unless the spin  *)
(* loop has run out.                                                       *)
(***************************************************************************)
LEMMA PutcWriteOK == ASSUME IInv, putc_write PROVE IInv'
<1>1. /\ pc = "putc" /\ str # <<>> /\ MayWrite
      /\ uart_write_reg(UART_THR, Head(str))
      /\ asked' = Append(asked, Head(str))
      /\ timedOut' = (timedOut \/ spins >= SPIN_LIMIT)
      /\ str' = Tail(str) /\ spins' = 0
      /\ UNCHANGED <<portVars, pc, cont, i, wire, arrived, got, overrun>>
  BY DEF putc_write
<1>2. uart_ready /\ ier = 0 /\ dll = 2 /\ dlm = 0 /\ lcr = 3 /\ mapped
  BY <1>1 DEF IInv, PhaseOK, RegistersOK
<1>3. /\ UNCHANGED <<ier, dll, dlm, lcr, rx>>
      /\ tx' = IF Len(tx) < FifoDepth THEN Append(tx, Head(str)) ELSE tx
  BY <1>1, <1>2 DEF uart_write_reg, Dlab, UART_THR, UART_DLL, UART_IER, UART_DLM, UART_FCR,
                    UART_LCR, UART_LCR_DLAB
<1>4. Head(str) \in Byte /\ Tail(str) \in Seq(Byte)
  BY <1>1, MoveHead DEF IInv, TypeOK
<1>5. asked' \in Seq(Byte) /\ tx' \in Seq(Byte)
  BY <1>1, <1>3, <1>4, JoinEnd DEF IInv, TypeOK
<1>6. TypeOK'
  <2>1. timedOut' \in BOOLEAN
    BY <1>1
  <2> QED  BY <1>1, <1>3, <1>4, <1>5, <2>1 DEF IInv, TypeOK, portVars
<1>7. PhaseOK' /\ RegistersOK' /\ HistoryOK' /\ InputInOrder'
  BY <1>1, <1>2, <1>3
  DEF IInv, PhaseOK, RegistersOK, HistoryOK, InputInOrder, InInit, portVars
<1>8. OrderedOutput'
  <2> SUFFICES ASSUME ~timedOut' PROVE wire' \o tx' = asked'
    BY DEF OrderedOutput
  <2>1. ~timedOut /\ tx = <<>>
    BY <1>1 DEF MayWrite, TX_EMPTY
  <2>2. wire \o tx = asked
    BY <1>2, <2>1 DEF IInv, OrderedOutput
  <2>3. Len(tx) < FifoDepth
    BY <2>1, UartAssumption
  <2>4. wire' = wire /\ tx' = Append(tx, Head(str)) /\ asked' = Append(asked, Head(str))
    BY <1>1, <1>3, <2>3
  <2>5. wire \in Seq(Byte) /\ tx \in Seq(Byte)
    BY DEF IInv, TypeOK
  <2>6. wire \o Append(tx, Head(str)) = Append(wire \o tx, Head(str))
    BY SMTT(30), <1>4, <2>5, JoinEnd
  <2> QED  BY <2>2, <2>4, <2>6
<1>9. PortConsistent'
  BY <1>1, SamePort DEF IInv, portVars
<1> QED  BY <1>6, <1>7, <1>8, <1>9 DEF IInv

(***************************************************************************)
(* uart_getc takes the byte at the head of the receive queue.              *)
(***************************************************************************)
LEMMA GetcReadOK == ASSUME IInv, getc_read PROVE IInv'
<1>1. /\ pc = "getc" /\ rx # <<>>
      /\ got' = Append(got, Head(rx)) /\ rx' = Tail(rx) /\ pc' = "idle"
      /\ UNCHANGED <<portVars, cont, i, str, spins, regVars, outVars, arrived, overrun>>
  BY DEF getc_read, ByteReady, RX_READY
<1>2. /\ rx' \in Seq(Byte) /\ got' \in Seq(Byte) /\ got' \o rx' = got \o rx
  BY <1>1, MoveHead DEF IInv, TypeOK
<1>3. cont = "idle" /\ ~InInit /\ ~InInit' /\ uart_ready
  BY <1>1 DEF IInv, PhaseOK, InInit
<1>4. TypeOK' /\ PhaseOK' /\ RegistersOK'
  BY <1>1, <1>2 DEF IInv, TypeOK, PhaseOK, RegistersOK, portVars, regVars, outVars
<1>5. HistoryOK' /\ OrderedOutput' /\ InputInOrder'
  BY <1>1, <1>2, <1>3 DEF IInv, HistoryOK, OrderedOutput, InputInOrder, portVars, outVars
<1>6. PortConsistent'
  BY <1>1, SamePort DEF IInv, portVars
<1> QED  BY <1>4, <1>5, <1>6 DEF IInv

(***************************************************************************)
(* The device sends the byte at the head of its queue.                     *)
(***************************************************************************)
LEMMA DeviceSendsOK == ASSUME IInv, DeviceSends PROVE IInv'
<1>1. /\ tx # <<>> /\ tx' = Tail(tx)
      /\ wire' = IF uart_ready THEN Append(wire, Head(tx)) ELSE wire
      /\ UNCHANGED <<portVars, callVars, regVars, asked, timedOut, inVars>>
  BY DEF DeviceSends
<1>2. /\ Tail(tx) \in Seq(Byte) /\ Append(wire, Head(tx)) \in Seq(Byte)
      /\ Append(wire, Head(tx)) \o Tail(tx) = wire \o tx
  BY <1>1, MoveHead DEF IInv, TypeOK
<1>3. TypeOK' /\ PhaseOK' /\ RegistersOK'
  BY <1>1, <1>2
  DEF IInv, TypeOK, PhaseOK, RegistersOK, portVars, callVars, regVars, inVars
<1>4. HistoryOK' /\ OrderedOutput' /\ InputInOrder'
  BY <1>1, <1>2
  DEF IInv, HistoryOK, OrderedOutput, InputInOrder, InInit, portVars, callVars, inVars
<1>5. PortConsistent'
  BY <1>1, SamePort DEF IInv, portVars, callVars
<1> QED  BY <1>3, <1>4, <1>5 DEF IInv

(***************************************************************************)
(* A byte arrives, into the queue or into nothing.                         *)
(***************************************************************************)
LEMMA DeviceReceivesOK == ASSUME IInv, NEW b \in Bytes, DeviceReceives(b) PROVE IInv'
<1>1. /\ rx' = IF Len(rx) < FifoDepth THEN Append(rx, b) ELSE rx
      /\ arrived' = IF InInit THEN arrived ELSE Append(arrived, b)
      /\ overrun' = (overrun \/ (~InInit /\ Len(rx) >= FifoDepth))
      /\ UNCHANGED <<portVars, callVars, regVars, outVars, got>>
  BY DEF DeviceReceives
<1>2. /\ b \in Byte
      /\ Append(rx, b) \in Seq(Byte) /\ Append(arrived, b) \in Seq(Byte)
      /\ got \o Append(rx, b) = Append(got \o rx, b)
  <2>1. b \in Byte
    BY UartAssumption DEF Byte
  <2> QED  BY SMTT(30), <2>1, JoinEnd DEF IInv, TypeOK
<1>3. overrun' \in BOOLEAN /\ (InInit' <=> InInit) /\ Len(rx) \in Nat /\ FifoDepth \in Nat
  BY <1>1, UartAssumption DEF InInit, callVars, IInv, TypeOK
<1>4. TypeOK' /\ PhaseOK' /\ RegistersOK'
  BY <1>1, <1>2, <1>3
  DEF IInv, TypeOK, PhaseOK, RegistersOK, portVars, callVars, regVars, outVars
<1>5. HistoryOK' /\ OrderedOutput'
  BY <1>1, <1>3
  DEF IInv, HistoryOK, OrderedOutput, portVars, callVars, outVars, InInit
<1>6. InputInOrder'
  <2> SUFFICES ASSUME uart_ready', ~InInit', ~overrun' PROVE arrived' = got' \o rx'
    BY DEF InputInOrder
  <2>1. uart_ready /\ ~InInit /\ got' = got
    BY <1>1, <1>3 DEF portVars
  <2>2. ~overrun /\ ~(Len(rx) >= FifoDepth)
    BY <1>1, <2>1
  <2>3. Len(rx) < FifoDepth
    BY <1>3, <2>2
  <2>4. arrived = got \o rx
    BY <2>1, <2>2 DEF IInv, InputInOrder
  <2> QED  BY <1>1, <1>2, <2>1, <2>4, <2>3
<1>7. PortConsistent'
  BY <1>1, SamePort DEF IInv, portVars, callVars
<1> QED  BY <1>4, <1>5, <1>6, <1>7 DEF IInv

-----------------------------------------------------------------------------
(***************************************************************************)
(* A step that changes no variable keeps the invariant.                    *)
(***************************************************************************)
LEMMA Stutter == IInv /\ UNCHANGED vars => IInv'
<1> SUFFICES ASSUME IInv, UNCHANGED vars PROVE IInv'
  OBVIOUS
<1> USE DEF vars, portVars, callVars, regVars, outVars, inVars
<1>1. TypeOK' /\ PhaseOK' /\ RegistersOK'
  BY DEF IInv, TypeOK, PhaseOK, RegistersOK
<1>2. HistoryOK' /\ OrderedOutput' /\ InputInOrder'
  BY DEF IInv, HistoryOK, OrderedOutput, InputInOrder, InInit
<1>3. PortConsistent'
  BY SamePort DEF IInv
<1> QED  BY <1>1, <1>2, <1>3 DEF IInv

(***************************************************************************)
(* The invariant holds throughout, whatever the device does between two    *)
(* register accesses.                                                      *)
(***************************************************************************)
LEMMA Inductive == Spec => []IInv
<1>1. IInv /\ [Next]_vars => IInv'
  <2> SUFFICES ASSUME IInv, [Next]_vars PROVE IInv'
    OBVIOUS
  <2>1. CASE Driver
    <3>1. CASE \E ok \in BOOLEAN : uart_init(ok)
      BY <3>1, UartInitOK
    <3>2. CASE init_banner
      BY <3>2, EmitOK, Stutter DEF init_banner
    <3> QED
      BY <2>1, <3>1, <3>2, SetupWriteOK, SetupDoneOK, DrainOK, UartCallOK, PutcWriteOK, GetcReadOK
      DEF Driver
  <2>2. CASE Callers
    <3>1. CASE \E s \in Strings : uart_puts(s)
      BY <3>1, EmitOK, Stutter DEF uart_puts
    <3> QED  BY <2>2, <3>1, UartCallOK DEF Callers
  <2>3. CASE Device
    BY <2>3, DeviceSendsOK, DeviceReceivesOK DEF Device
  <2>4. CASE UNCHANGED vars
    BY <2>4, Stutter
  <2> QED  BY <2>1, <2>2, <2>3, <2>4 DEF Next
<1> QED  BY <1>1, InitOK, PTL DEF Spec

(***************************************************************************)
(* uart0 is the port of one usable UART of the device tree, or the default *)
(* port, in full: nothing uart_find_port wrote before it gave up survives. *)
(***************************************************************************)
THEOREM PortNeverMixed == Spec => []PortConsistent
<1>1. IInv => PortConsistent
  BY DEF IInv
<1> QED  BY <1>1, Inductive, PTL

(***************************************************************************)
(* uart_putc, uart_getc and the drain loop only ever touch a port that is  *)
(* mapped and set up.                                                      *)
(***************************************************************************)
THEOREM PortConfigured == Spec => []Configured
<1>1. IInv => Configured
  BY DEF IInv, PhaseOK, RegistersOK, Configured
<1> QED  BY <1>1, Inductive, PTL

(***************************************************************************)
(* While no spin loop has run out, the wire carries the bytes given to     *)
(* uart_putc, all of them, in order and nothing else.                      *)
(***************************************************************************)
THEOREM OutputInOrder == Spec => []OrderedOutput
<1>1. IInv => OrderedOutput
  BY DEF IInv
<1> QED  BY <1>1, Inductive, PTL

(***************************************************************************)
(* While the device has not overrun, uart_getc returns the bytes that      *)
(* arrived after uart_init, each once and in order.                        *)
(***************************************************************************)
THEOREM InputNotLost == Spec => []InputInOrder
<1>1. IInv => InputInOrder
  BY DEF IInv
<1> QED  BY <1>1, Inductive, PTL

-----------------------------------------------------------------------------
(***************************************************************************)
(* printk.                                                                 *)
(***************************************************************************)

(***************************************************************************)
(* A value built up in n steps, F[k] being what step k does: the values    *)
(* after every number of steps exist.                                      *)
(***************************************************************************)
Steps(X, x0, F, n, f) ==
  /\ f \in [0 .. n -> X]
  /\ f[0] = x0
  /\ \A k \in 1 .. n : f[k] = F[k][f[k - 1]]

LEMMA StepsExist ==
  ASSUME NEW n \in Nat, NEW X, NEW x0 \in X, NEW F \in [1 .. n -> [X -> X]]
  PROVE  \E f : Steps(X, x0, F, n, f)
<1> DEFINE T == {m \in 0 .. n : ~\E f : Steps(X, x0, F, m, f)}
<1>1. SUFFICES ASSUME T # {} PROVE FALSE
  <2>1. n \in 0 .. n
    OBVIOUS
  <2> QED  BY <2>1
<1>2. PICK m \in T : \A y \in T : m <= y
  <2>1. T \in SUBSET Nat
    OBVIOUS
  <2> HIDE DEF T
  <2> QED  BY <1>1, <2>1, LeastOf
<1>3. CASE m = 0
  <2>1. PICK f : f = [k \in 0 .. 0 |-> x0]
    OBVIOUS
  <2>2. Steps(X, x0, F, 0, f)
    BY <2>1 DEF Steps
  <2> QED  BY <1>2, <1>3, <2>2
<1>4. CASE m # 0
  <2>1. m - 1 \in 0 .. n /\ m - 1 \notin T /\ m \in 1 .. n /\ m - 1 \in Nat
    BY <1>2, <1>4
  <2>2. PICK f : Steps(X, x0, F, m - 1, f)
    BY <2>1
  <2>3. PICK g : g = [k \in 0 .. m |-> IF k = m THEN F[m][f[m - 1]] ELSE f[k]]
    OBVIOUS
  <2>4. F[m][f[m - 1]] \in X
    BY <2>1, <2>2 DEF Steps
  <2>5. g \in [0 .. m -> X] /\ g[0] = x0
    BY <1>4, <2>1, <2>2, <2>3, <2>4 DEF Steps
  <2>6. ASSUME NEW k \in 1 .. m PROVE g[k] = F[k][g[k - 1]]
    <3>1. CASE k = m
      BY <2>1, <2>3, <3>1
    <3>2. CASE k # m
      <4>1. k \in 1 .. m - 1 /\ k - 1 \in 0 .. m /\ k - 1 # m /\ k \in 0 .. m
        BY <2>1, <3>2
      <4>2. f[k] = F[k][f[k - 1]]
        BY <4>1, <2>2 DEF Steps
      <4> QED  BY <4>1, <4>2, <3>2, <2>3
    <3> QED  BY <3>1, <3>2
  <2>7. Steps(X, x0, F, m, g)
    BY <2>5, <2>6 DEF Steps
  <2> QED  BY <1>2, <2>7
<1> QED  BY <1>3, <1>4

(***************************************************************************)
(* Digit strings.                                                          *)
(***************************************************************************)
DigitTable(uppercase) == IF uppercase THEN UpperDigits ELSE LowerDigits

LEMMA FcnIsSeq ==
  ASSUME NEW S, NEW n \in Nat, NEW f \in [1 .. n -> S]
  PROVE  f \in Seq(S) /\ Len(f) = n
OBVIOUS

LEMMA Tables ==
  /\ LowerDigits \in Seq(Char) /\ Len(LowerDigits) = 16
  /\ UpperDigits \in Seq(Char) /\ Len(UpperDigits) = 16
  /\ \A u \in BOOLEAN : DigitTable(u) \in [1 .. 16 -> Char]
  /\ \A d \in 1 .. 16 : LowerDigits[d] \in Char /\ UpperDigits[d] \in Char
<1>1. Len(LowerDigits) = 16 /\ DOMAIN LowerDigits = 1 .. 16
  BY DEF LowerDigits
<1>2. Len(UpperDigits) = 16 /\ DOMAIN UpperDigits = 1 .. 16
  BY DEF UpperDigits
<1>3. \A d \in 1 .. 16 : LowerDigits[d] \in Char /\ UpperDigits[d] \in Char
  BY PrintkAssumption DEF PrintkAssumption
<1>4. LowerDigits = [d \in 1 .. 16 |-> LowerDigits[d]]
  BY DEF LowerDigits
<1>5. UpperDigits = [d \in 1 .. 16 |-> UpperDigits[d]]
  BY DEF UpperDigits
<1>6. LowerDigits \in [1 .. 16 -> Char] /\ UpperDigits \in [1 .. 16 -> Char]
  BY <1>3, <1>4, <1>5
<1>7. LowerDigits \in Seq(Char) /\ UpperDigits \in Seq(Char)
  BY <1>6, FcnIsSeq
<1> QED  BY <1>1, <1>2, <1>3, <1>6, <1>7 DEF DigitTable

DigitsBody(base, uppercase, f, v) ==
  IF v < base THEN <<DigitTable(uppercase)[v + 1]>>
  ELSE Append(f[v \div base], DigitTable(uppercase)[(v % base) + 1])

DigitsFrom(value, base, uppercase, f) ==
  f = [v \in 0 .. value |-> DigitsBody(base, uppercase, f, v)]

DigitsFcn(value, base, uppercase) == CHOOSE f : DigitsFrom(value, base, uppercase, f)

LEMMA DigitsIs ==
  ASSUME NEW value, NEW base, NEW uppercase
  PROVE  Digits(value, base, uppercase) = DigitsFcn(value, base, uppercase)[value]
BY DEF Digits, DigitsFcn, DigitsFrom, DigitsBody, DigitTable

(***************************************************************************)
(* The recursion of Digits is over smaller numbers, so its function exists.*)
(***************************************************************************)
LEMMA DigitsAt ==
  ASSUME NEW n, NEW base, NEW uppercase, NEW f, DigitsFrom(n, base, uppercase, f),
         NEW v \in 0 .. n
  PROVE  f[v] = DigitsBody(base, uppercase, f, v)
<1>1. PICK h : h = [w \in 0 .. n |-> DigitsBody(base, uppercase, f, w)]
  OBVIOUS
<1>2. f = h
  BY <1>1 DEF DigitsFrom
<1> QED  BY <1>1, <1>2

LEMMA Divided ==
  ASSUME NEW x \in Nat, NEW d \in Nat \ {0}
  PROVE  \E q, r \in Nat : q = x \div d /\ r = x % d /\ x = d * q + r /\ r < d
<1>1. PICK q \in Nat, r \in Nat : q = x \div d /\ r = x % d
  OBVIOUS
<1>2. r < d
  BY <1>1
<1>3. x = d * q + r
  BY <1>1
<1> QED  BY <1>1, <1>2, <1>3

LEMMA Quotient ==
  ASSUME NEW base \in {10, 16}, NEW v \in Nat, v >= base
  PROVE  v \div base \in 1 .. v - 1 /\ v % base \in 0 .. base - 1 /\ v = (v \div base) * base + (v % base)
<1>1. PICK q \in Nat, r \in Nat : q = v \div base /\ r = v % base /\ v = base * q + r /\ r < base
  BY Divided
<1>2. q \in 1 .. v - 1
  <2>1. CASE base = 10
    <3>1. v = 10 * q + r /\ r < 10 /\ v >= 10
      BY <1>1, <2>1
    <3> QED  BY <3>1
  <2>2. CASE base = 16
    <3>1. v = 16 * q + r /\ r < 16 /\ v >= 16
      BY <1>1, <2>2
    <3> QED  BY <3>1
  <2> QED  BY <2>1, <2>2
<1>3. base * q = q * base /\ r \in 0 .. base - 1
  <2>1. r \in 0 .. base - 1
    BY <1>1
  <2>2. 10 * q = q * 10 /\ 16 * q = q * 16
    OBVIOUS
  <2> QED  BY <2>1, <2>2
<1>4. v = q * base + r
  BY <1>1, <1>3
<1>5. v \div base = q /\ v % base = r
  BY <1>1
<1> QED  BY <1>2, <1>3, <1>4, <1>5

LEMMA DigitsExtend ==
  ASSUME NEW base \in {10, 16}, NEW uppercase \in BOOLEAN, NEW n \in Nat, NEW f,
         DigitsFrom(n, base, uppercase, f)
  PROVE  \E g : DigitsFrom(n + 1, base, uppercase, g)
<1>1. PICK g : g = [v \in 0 .. n + 1 |-> DigitsBody(base, uppercase, f, v)]
  OBVIOUS
<1>2. ASSUME NEW v \in 0 .. n PROVE g[v] = f[v]
  BY <1>1, DigitsAt
<1>3. ASSUME NEW v \in 0 .. n + 1
      PROVE  DigitsBody(base, uppercase, g, v) = DigitsBody(base, uppercase, f, v)
  <2>1. CASE v < base
    BY <2>1 DEF DigitsBody
  <2>2. CASE ~(v < base)
    <3>1. v \div base \in 1 .. v - 1
      BY <2>2, Quotient
    <3>2. v \div base \in 0 .. n
      BY <3>1
    <3> QED  BY <1>2, <3>2 DEF DigitsBody
  <2> QED  BY <2>1, <2>2
<1>4. DigitsFrom(n + 1, base, uppercase, g)
  BY <1>1, <1>3 DEF DigitsFrom
<1> QED  BY <1>4

LEMMA DigitsDef ==
  ASSUME NEW base \in {10, 16}, NEW uppercase \in BOOLEAN, NEW n \in Nat
  PROVE  DigitsFrom(n, base, uppercase, DigitsFcn(n, base, uppercase))
<1> DEFINE T == {m \in Nat : ~\E f : DigitsFrom(m, base, uppercase, f)}
<1>1. T = {}
  <2>1. SUFFICES ASSUME T # {} PROVE FALSE
    OBVIOUS
  <2>2. PICK m \in T : \A y \in T : m <= y
    <3>1. T \in SUBSET Nat
      OBVIOUS
    <3> HIDE DEF T
    <3> QED  BY <2>1, <3>1, LeastOf
  <2>3. CASE m = 0
    <3>1. PICK f : f = [v \in 0 .. 0 |-> DigitsBody(base, uppercase, <<>>, v)]
      OBVIOUS
    <3>2. \A v \in 0 .. 0 : DigitsBody(base, uppercase, f, v) = DigitsBody(base, uppercase, <<>>, v)
      BY DEF DigitsBody
    <3>3. DigitsFrom(0, base, uppercase, f)
      BY <3>1, <3>2 DEF DigitsFrom
    <3> QED  BY <2>2, <2>3, <3>3
  <2>4. CASE m # 0
    <3>1. m - 1 \in Nat /\ m - 1 \notin T /\ (m - 1) + 1 = m
      BY <2>2, <2>4
    <3>2. PICK f : DigitsFrom(m - 1, base, uppercase, f)
      BY <3>1
    <3>3. \E g : DigitsFrom((m - 1) + 1, base, uppercase, g)
      BY <3>1, <3>2, DigitsExtend
    <3> QED  BY <2>2, <3>1, <3>3
  <2> QED  BY <2>3, <2>4
<1>2. \E f : DigitsFrom(n, base, uppercase, f)
  BY <1>1
<1> QED  BY <1>2 DEF DigitsFcn

LEMMA DigitsAgree ==
  ASSUME NEW base \in {10, 16}, NEW uppercase \in BOOLEAN, NEW n \in Nat, NEW m \in Nat, n <= m,
         NEW f, DigitsFrom(n, base, uppercase, f), NEW g, DigitsFrom(m, base, uppercase, g)
  PROVE  \A v \in 0 .. n : f[v] = g[v]
<1> DEFINE T == {v \in 0 .. n : f[v] # g[v]}
<1>1. SUFFICES ASSUME T # {} PROVE FALSE
  OBVIOUS
<1>2. PICK v \in T : \A y \in T : v <= y
  <2>1. T \in SUBSET Nat
    OBVIOUS
  <2> HIDE DEF T
  <2> QED  BY <1>1, <2>1, LeastOf
<1>3. f[v] = DigitsBody(base, uppercase, f, v) /\ g[v] = DigitsBody(base, uppercase, g, v)
  <2>1. v \in 0 .. n /\ v \in 0 .. m
    BY <1>2
  <2> QED  BY <2>1, DigitsAt
<1>4. CASE v < base
  BY <1>2, <1>3, <1>4 DEF DigitsBody
<1>5. CASE ~(v < base)
  <2>1. v \div base \in 1 .. v - 1
    BY <1>2, <1>5, Quotient
  <2>2. v \div base \in 0 .. n /\ v \div base \notin T
    BY <1>2, <2>1
  <2>3. f[v \div base] = g[v \div base]
    BY <2>2
  <2> QED  BY <1>2, <1>3, <1>5, <2>3 DEF DigitsBody
<1> QED  BY <1>2, <1>4, <1>5

(***************************************************************************)
(* What the loop of emit_unsigned leaves in its buffer, digit by digit.    *)
(***************************************************************************)
LEMMA DigitsStep ==
  ASSUME NEW base \in {10, 16}, NEW uppercase \in BOOLEAN, NEW v \in Nat
  PROVE  /\ v < base => Digits(v, base, uppercase) = <<DigitTable(uppercase)[v + 1]>>
         /\ v >= base => Digits(v, base, uppercase) =
                           Append(Digits(v \div base, base, uppercase),
                                  DigitTable(uppercase)[(v % base) + 1])
<1>1. PICK f : f = DigitsFcn(v, base, uppercase) /\ DigitsFrom(v, base, uppercase, f)
  BY DigitsDef
<1>2. f[v] = DigitsBody(base, uppercase, f, v) /\ Digits(v, base, uppercase) = f[v]
  <2>1. v \in 0 .. v
    OBVIOUS
  <2> QED  BY <1>1, <2>1, DigitsIs, DigitsAt
<1>3. CASE v < base
  BY <1>2, <1>3 DEF DigitsBody
<1>4. CASE v >= base
  <2>1. v \div base \in 1 .. v - 1 /\ v \div base \in Nat
    BY <1>4, Quotient
  <2>2. PICK w \in Nat : w = v \div base /\ w <= v
    BY <2>1
  <2>3. PICK g : g = DigitsFcn(w, base, uppercase) /\ DigitsFrom(w, base, uppercase, g)
    BY DigitsDef
  <2>4. g[w] = f[w]
    BY <1>1, <2>2, <2>3, DigitsAgree
  <2>5. Digits(w, base, uppercase) = g[w]
    BY <2>3, DigitsIs
  <2>6. ~(v < base)
    BY <1>4
  <2> QED  BY <1>2, <2>2, <2>4, <2>5, <2>6 DEF DigitsBody
<1> QED  BY <1>3, <1>4

LEMMA DigitsTyped ==
  ASSUME NEW base \in {10, 16}, NEW uppercase \in BOOLEAN, NEW n \in Nat
  PROVE  Digits(n, base, uppercase) \in Seq(Char) /\ Len(Digits(n, base, uppercase)) >= 1
<1> DEFINE OK(v) == Digits(v, base, uppercase) \in Seq(Char) /\ Len(Digits(v, base, uppercase)) >= 1
<1> DEFINE T == {v \in Nat : ~OK(v)}
<1>1. SUFFICES ASSUME T # {} PROVE FALSE
  OBVIOUS
<1>2. PICK v \in T : \A y \in T : v <= y
  <2>1. T \in SUBSET Nat
    OBVIOUS
  <2> HIDE DEF T
  <2> QED  BY <1>1, <2>1, LeastOf
<1>3. CASE v < base
  <2>1. v + 1 \in 1 .. 16
    BY <1>2, <1>3
  <2>2. PICK c \in Char : c = DigitTable(uppercase)[v + 1]
    BY <2>1, Tables
  <2>3. Digits(v, base, uppercase) = <<c>>
    BY <1>2, <1>3, <2>2, DigitsStep
  <2>4. <<c>> \in Seq(Char) /\ Len(<<c>>) >= 1
    BY <2>2
  <2> QED  BY <1>2, <2>3, <2>4
<1>4. CASE v >= base
  <2>1. v \div base \in 1 .. v - 1 /\ v % base \in 0 .. base - 1
    BY <1>2, <1>4, Quotient
  <2>2. v \div base \in Nat /\ v \div base \notin T /\ (v % base) + 1 \in 1 .. 16
    BY SMTT(30), <1>2, <2>1
  <2>3. OK(v \div base)
    BY <2>2
  <2>4. PICK s, c : s = Digits(v \div base, base, uppercase) /\ c = DigitTable(uppercase)[(v % base) + 1]
    OBVIOUS
  <2>5. c \in Char
    BY <2>2, <2>4, Tables
  <2>6. Digits(v, base, uppercase) = Append(s, c)
    BY <1>2, <1>4, <2>4, DigitsStep
  <2>7. s \in Seq(Char) /\ Len(s) >= 1
    BY <2>3, <2>4
  <2>8. Append(s, c) \in Seq(Char) /\ Len(Append(s, c)) >= 1
    BY <2>5, <2>7
  <2> QED  BY <1>2, <2>6, <2>8
<1> QED  BY <1>2, <1>3, <1>4
(***************************************************************************)
(* The value of a digit, and of a digit string.                            *)
(***************************************************************************)
LEMMA DigitsDiffer ==
  \A d, e \in 0 .. 15 :
    /\ LowerDigits[d + 1] = LowerDigits[e + 1] => d = e
    /\ UpperDigits[d + 1] = UpperDigits[e + 1] => d = e
    /\ LowerDigits[d + 1] = UpperDigits[e + 1] => d = e
<1>1. \A d, e \in 0 .. 15 : LowerDigits[d + 1] = LowerDigits[e + 1] => d = e
  BY DEF LowerDigits
<1>2. \A d, e \in 0 .. 15 : UpperDigits[d + 1] = UpperDigits[e + 1] => d = e
  BY DEF UpperDigits
<1>3. \A d, e \in 0 .. 15 : LowerDigits[d + 1] = UpperDigits[e + 1] => d = e
  BY DEF LowerDigits, UpperDigits
<1> QED  BY <1>1, <1>2, <1>3

LEMMA DigitValueIs ==
  ASSUME NEW d \in 0 .. 15, NEW u \in BOOLEAN
  PROVE  DigitValue(DigitTable(u)[d + 1]) = d
<1>1. PICK c : c = DigitTable(u)[d + 1]
  OBVIOUS
<1>2. c \in {LowerDigits[d + 1], UpperDigits[d + 1]}
  BY <1>1 DEF DigitTable
<1>3. ASSUME NEW e \in 0 .. 15, c \in {LowerDigits[e + 1], UpperDigits[e + 1]} PROVE e = d
  BY <1>2, <1>3, DigitsDiffer
<1>4. DigitValue(c) = d
  BY <1>2, <1>3 DEF DigitValue
<1> QED  BY <1>1, <1>4

IsDigits(t) == t \in Seq(Char) /\ \A k \in 1 .. Len(t) : DigitValue(t[k]) \in Nat

ReadFrom(t, base, f) ==
  f = [k \in 0 .. Len(t) |-> IF k = 0 THEN 0 ELSE f[k - 1] * base + DigitValue(t[k])]

ReadFcn(t, base) == CHOOSE f : ReadFrom(t, base, f)

LEMMA ReadBackIs ==
  ASSUME NEW t, NEW base
  PROVE  ReadBack(t, base) = ReadFcn(t, base)[Len(t)]
BY DEF ReadBack, ReadFcn, ReadFrom

LEMMA ReadAt ==
  ASSUME NEW t, NEW base, NEW f, ReadFrom(t, base, f), NEW k \in 0 .. Len(t)
  PROVE  f[k] = IF k = 0 THEN 0 ELSE f[k - 1] * base + DigitValue(t[k])
<1>1. PICK h : h = [m \in 0 .. Len(t) |-> IF m = 0 THEN 0 ELSE f[m - 1] * base + DigitValue(t[m])]
  OBVIOUS
<1>2. f = h
  BY <1>1 DEF ReadFrom
<1> QED  BY <1>1, <1>2

LEMMA ReadDef ==
  ASSUME NEW t, IsDigits(t), NEW base \in Nat
  PROVE  /\ ReadFrom(t, base, ReadFcn(t, base))
         /\ ReadFcn(t, base) \in [0 .. Len(t) -> Nat]
<1>1. PICK n \in Nat : n = Len(t)
  BY DEF IsDigits
<1>2. PICK F : F = [k \in 1 .. n |-> [x \in Nat |-> x * base + DigitValue(t[k])]]
  OBVIOUS
<1>3. F \in [1 .. n -> [Nat -> Nat]]
  <2>1. ASSUME NEW k \in 1 .. n, NEW x \in Nat PROVE x * base + DigitValue(t[k]) \in Nat
    BY <1>1 DEF IsDigits
  <2> QED  BY <1>2, <2>1
<1>4. PICK f : Steps(Nat, 0, F, n, f)
  BY <1>3, StepsExist
<1>5. ASSUME NEW k \in 0 .. n
      PROVE  f[k] = IF k = 0 THEN 0 ELSE f[k - 1] * base + DigitValue(t[k])
  <2>1. CASE k = 0
    BY <1>4, <2>1 DEF Steps
  <2>2. CASE k # 0
    <3>1. k \in 1 .. n /\ k - 1 \in 0 .. n
      BY <2>2
    <3>2. f[k] = F[k][f[k - 1]] /\ f[k - 1] \in Nat
      BY <1>4, <3>1 DEF Steps
    <3> QED  BY <1>2, <2>2, <3>1, <3>2
  <2> QED  BY <2>1, <2>2
<1>6. ReadFrom(t, base, f)
  <2>1. f \in [0 .. n -> Nat]
    BY <1>4 DEF Steps
  <2> QED  BY <1>1, <1>5, <2>1 DEF ReadFrom
<1>7. PICK g : g = ReadFcn(t, base) /\ ReadFrom(t, base, g)
  BY <1>6 DEF ReadFcn
<1> DEFINE T == {k \in 0 .. n : g[k] # f[k]}
<1>8. T = {}
  <2>1. SUFFICES ASSUME T # {} PROVE FALSE
    OBVIOUS
  <2>2. PICK k \in T : \A y \in T : k <= y
    <3>1. T \in SUBSET Nat
      OBVIOUS
    <3> HIDE DEF T
    <3> QED  BY <2>1, <3>1, LeastOf
  <2>3. g[k] = IF k = 0 THEN 0 ELSE g[k - 1] * base + DigitValue(t[k])
    BY <1>1, <1>7, <2>2, ReadAt
  <2>4. k # 0 => k - 1 \in 0 .. n /\ k - 1 \notin T
    BY <2>2
  <2>5. k # 0 => g[k - 1] = f[k - 1]
    BY <2>4
  <2> QED  BY <1>5, <2>2, <2>3, <2>5
<1>9. g = f
  <2>1. g = [k \in 0 .. n |-> g[k]]
    BY <1>1, <1>7 DEF ReadFrom
  <2>2. f = [k \in 0 .. n |-> f[k]]
    BY <1>4 DEF Steps
  <2> QED  BY <1>8, <2>1, <2>2
<1> QED  BY <1>1, <1>4, <1>7, <1>9 DEF Steps
LEMMA ReadAppend ==
  ASSUME NEW s, IsDigits(s), NEW c \in Char, DigitValue(c) \in Nat, NEW base \in Nat
  PROVE  /\ IsDigits(Append(s, c))
         /\ ReadBack(s, base) \in Nat
         /\ ReadBack(Append(s, c), base) = ReadBack(s, base) * base + DigitValue(c)
<1>0. s \in Seq(Char) /\ Len(s) \in Nat
  BY DEF IsDigits
<1>1. PICK n, t : n = Len(s) /\ t = Append(s, c)
  OBVIOUS
<1>2. /\ n \in Nat /\ t \in Seq(Char) /\ Len(t) = n + 1 /\ t[n + 1] = c
      /\ \A k \in 1 .. n : t[k] = s[k]
  BY <1>0, <1>1
<1>3. IsDigits(t)
  <2>1. ASSUME NEW k \in 1 .. n + 1 PROVE DigitValue(t[k]) \in Nat
    <3>1. CASE k = n + 1
      BY <1>2, <3>1
    <3>2. CASE k # n + 1
      <4>1. k \in 1 .. n
        BY <1>2, <3>2
      <4> QED  BY <1>1, <1>2, <4>1 DEF IsDigits
    <3> QED  BY <3>1, <3>2
  <2> QED  BY <1>2, <2>1 DEF IsDigits
<1>4. PICK f : f = ReadFcn(s, base) /\ ReadFrom(s, base, f) /\ f \in [0 .. n -> Nat]
  BY <1>1, ReadDef
<1>5. PICK g : g = ReadFcn(t, base) /\ ReadFrom(t, base, g) /\ g \in [0 .. n + 1 -> Nat]
  BY <1>2, <1>3, ReadDef
<1> DEFINE T == {k \in 0 .. n : g[k] # f[k]}
<1>6. T = {}
  <2>1. SUFFICES ASSUME T # {} PROVE FALSE
    OBVIOUS
  <2>2. PICK k \in T : \A y \in T : k <= y
    <3>1. T \in SUBSET Nat
      OBVIOUS
    <3> HIDE DEF T
    <3> QED  BY <2>1, <3>1, LeastOf
  <2>3. k \in 0 .. Len(s) /\ k \in 0 .. Len(t)
    BY <1>1, <1>2, <2>2
  <2>4. /\ g[k] = IF k = 0 THEN 0 ELSE g[k - 1] * base + DigitValue(t[k])
        /\ f[k] = IF k = 0 THEN 0 ELSE f[k - 1] * base + DigitValue(s[k])
    <3>1. ReadFrom(t, base, g) /\ ReadFrom(s, base, f)
      BY <1>4, <1>5
    <3>2. g[k] = IF k = 0 THEN 0 ELSE g[k - 1] * base + DigitValue(t[k])
      BY ONLY <2>3, <3>1, ReadAt
    <3>3. f[k] = IF k = 0 THEN 0 ELSE f[k - 1] * base + DigitValue(s[k])
      BY ONLY <2>3, <3>1, ReadAt
    <3> QED  BY <3>2, <3>3
  <2>5. k # 0 => k - 1 \in 0 .. n /\ k - 1 \notin T /\ k \in 1 .. n
    BY <1>2, <2>2
  <2>6. k # 0 => g[k - 1] = f[k - 1] /\ t[k] = s[k]
    BY <1>2, <2>5
  <2> QED  BY <2>2, <2>4, <2>6
<1>7. g[n] = f[n] /\ f[n] \in Nat
  BY <1>2, <1>4, <1>6
<1>8. g[n + 1] = g[n] * base + DigitValue(c)
  <2>1. n + 1 \in 0 .. Len(t) /\ n + 1 # 0 /\ (n + 1) - 1 = n
    BY <1>2
  <2>2. ReadFrom(t, base, g)
    BY <1>5
  <2>3. g[n + 1] = IF n + 1 = 0 THEN 0 ELSE g[(n + 1) - 1] * base + DigitValue(t[n + 1])
    BY ONLY <2>1, <2>2, ReadAt
  <2> QED  BY <1>2, <2>1, <2>3
<1>9. ReadBack(s, base) = f[n] /\ ReadBack(t, base) = g[n + 1]
  BY <1>1, <1>2, <1>4, <1>5, ReadBackIs
<1> QED  BY <1>1, <1>3, <1>7, <1>8, <1>9

LEMMA ReadEmpty ==
  ASSUME NEW base \in Nat
  PROVE  IsDigits(<<>>) /\ ReadBack(<<>>, base) = 0
<1>1. PICK s : s = <<>> /\ s \in Seq(Char) /\ Len(s) = 0
  BY EmptySeq
<1>2. IsDigits(s)
  BY <1>1 DEF IsDigits
<1>3. ReadFrom(s, base, ReadFcn(s, base)) /\ 0 \in 0 .. Len(s)
  BY <1>1, <1>2, ReadDef
<1>4. ReadFcn(s, base)[0] = 0
  BY <1>3, ReadAt
<1> QED  BY <1>1, <1>2, <1>4, ReadBackIs

LEMMA ReadOne ==
  ASSUME NEW c \in Char, DigitValue(c) \in Nat, NEW base \in Nat
  PROVE  IsDigits(<<c>>) /\ ReadBack(<<c>>, base) = DigitValue(c)
<1>1. PICK s : s = <<>> /\ IsDigits(s) /\ ReadBack(s, base) = 0
  BY ReadEmpty
<1>2. Append(s, c) = <<c>>
  BY <1>1
<1>3. IsDigits(Append(s, c)) /\ ReadBack(Append(s, c), base) = 0 * base + DigitValue(c)
  BY <1>1, ReadAppend
<1> QED  BY <1>2, <1>3

(***************************************************************************)
(* The digits of v are digits of the base, as many as v needs, and read    *)
(* back as v.                                                              *)
(***************************************************************************)
DigitsRight(v, base, uppercase) ==
  LET t == Digits(v, base, uppercase)
  IN  /\ IsDigits(t) /\ Len(t) >= 1
      /\ \A k \in 1 .. Len(t) : \E d \in 1 .. base : t[k] = DigitTable(uppercase)[d]
      /\ ReadBack(t, base) = v
      /\ v >= 1 => t[1] # "0"
      /\ Len(t) > 1 => v >= 1

LEMMA DigitsAreRight ==
  ASSUME NEW base \in {10, 16}, NEW uppercase \in BOOLEAN, NEW n \in Nat
  PROVE  DigitsRight(n, base, uppercase)
<1> DEFINE T == {v \in Nat : ~DigitsRight(v, base, uppercase)}
<1>1. SUFFICES ASSUME T # {} PROVE FALSE
  OBVIOUS
<1>2. PICK v \in T : \A y \in T : v <= y
  <2>1. T \in SUBSET Nat
    OBVIOUS
  <2> HIDE DEF T
  <2> QED  BY <1>1, <2>1, LeastOf
<1>3. v \in Nat /\ ~DigitsRight(v, base, uppercase)
  BY <1>2
<1>4. CASE v < base
  <2>1. v + 1 \in 1 .. base /\ v \in 0 .. 15 /\ v + 1 \in 1 .. 16
    BY <1>3, <1>4
  <2>2. PICK c \in Char : c = DigitTable(uppercase)[v + 1]
    BY <2>1, Tables
  <2>3. PICK t : t = Digits(v, base, uppercase) /\ t = <<c>>
    BY <1>3, <1>4, <2>2, DigitsStep
  <2>4. DigitValue(c) = v
    BY <2>1, <2>2, DigitValueIs
  <2>5. IsDigits(t) /\ ReadBack(t, base) = v
    BY <1>3, <2>3, <2>4, ReadOne
  <2>6. Len(t) = 1 /\ t[1] = c
    BY <2>3
  <2>7. v >= 1 => c # "0"
    <3>1. DigitTable(uppercase)[0 + 1] = "0"
      BY DEF DigitTable, LowerDigits, UpperDigits
    <3>2. DigitValue("0") = 0
      BY <3>1, DigitValueIs
    <3> QED  BY <2>4, <3>2
  <2>8. \A k \in 1 .. Len(t) : t[k] = DigitTable(uppercase)[v + 1]
    BY <2>2, <2>6
  <2> QED  BY <1>3, <2>1, <2>3, <2>5, <2>6, <2>7, <2>8 DEF DigitsRight
<1>5. CASE v >= base
  <2>1. PICK q \in Nat, r \in Nat : /\ q = v \div base /\ r = v % base /\ v = q * base + r
                                   /\ q >= 1 /\ q < v /\ r \in 0 .. base - 1
    BY <1>3, <1>5, Quotient
  <2>2. DigitsRight(q, base, uppercase)
    BY <1>2, <2>1
  <2>3. r \in 0 .. 15 /\ r + 1 \in 1 .. 16 /\ r + 1 \in 1 .. base
    BY <2>1
  <2>4. PICK c \in Char : c = DigitTable(uppercase)[r + 1]
    BY <2>3, Tables
  <2>5. DigitValue(c) = r
    BY <2>3, <2>4, DigitValueIs
  <2>6. PICK s, t : /\ s = Digits(q, base, uppercase) /\ t = Digits(v, base, uppercase)
                    /\ t = Append(s, c)
    <3>1. Digits(v, base, uppercase) = Append(Digits(v \div base, base, uppercase),
                                              DigitTable(uppercase)[(v % base) + 1])
      BY <1>3, <1>5, DigitsStep
    <3> QED  BY <2>1, <2>4, <3>1
  <2>7. /\ IsDigits(s) /\ Len(s) >= 1 /\ ReadBack(s, base) = q /\ s[1] # "0"
        /\ \A k \in 1 .. Len(s) : \E d \in 1 .. base : s[k] = DigitTable(uppercase)[d]
    BY <2>1, <2>2, <2>6 DEF DigitsRight
  <2>8. IsDigits(t) /\ ReadBack(t, base) = v
    <3>1. base \in Nat /\ DigitValue(c) \in Nat
      BY <2>1, <2>5
    <3>2. IsDigits(t) /\ ReadBack(t, base) = ReadBack(s, base) * base + DigitValue(c)
      BY <2>6, <2>7, <3>1, ReadAppend
    <3> QED  BY <2>1, <2>5, <2>7, <3>2
  <2>9. PICK m \in Nat : m = Len(s) /\ m >= 1
    BY <2>7 DEF IsDigits
  <2>10. Len(t) = m + 1 /\ t[m + 1] = c /\ \A k \in 1 .. m : t[k] = s[k]
    BY <2>6, <2>7, <2>9 DEF IsDigits
  <2>11. ASSUME NEW k \in 1 .. Len(t)
         PROVE  \E d \in 1 .. base : t[k] = DigitTable(uppercase)[d]
    <3>1. CASE k = m + 1
      BY <2>3, <2>4, <2>10, <3>1
    <3>2. CASE k # m + 1
      <4>1. k \in 1 .. m
        BY <2>9, <2>10, <3>2
      <4> QED  BY <2>7, <2>9, <2>10, <4>1
    <3> QED  BY <3>1, <3>2
  <2>12. t[1] # "0" /\ Len(t) >= 1 /\ v >= 1
    BY <1>3, <2>1, <2>7, <2>9, <2>10
  <2> QED  BY <1>3, <2>6, <2>8, <2>11, <2>12 DEF DigitsRight
<1> QED  BY <1>3, <1>4, <1>5

(***************************************************************************)
(* Padding, and the text of a number.                                      *)
(***************************************************************************)
IsPadded(t, s, w, c) ==
  /\ t \in Seq(Char)
  /\ Len(t) = IF Len(s) < w THEN w ELSE Len(s)
  /\ \A k \in 1 .. Len(t) - Len(s) : t[k] = c
  /\ \A k \in 1 .. Len(s) : t[Len(t) - Len(s) + k] = s[k]

LEMMA PaddedIs ==
  ASSUME NEW s \in Seq(Char), NEW w \in Nat, NEW c \in Char
  PROVE  IsPadded(Padded(s, w, c), s, w, c)
<1>0. Len(s) \in Nat
  BY LenProperties
<1>1. PICK m : m = IF Len(s) < w THEN w - Len(s) ELSE 0
  OBVIOUS
<1>2. PICK a : a = [k \in 1 .. m |-> c]
  OBVIOUS
<1>3. m \in Nat /\ a \in [1 .. m -> Char]
  BY <1>0, <1>1, <1>2
<1>4. a \in Seq(Char) /\ Len(a) = m
  BY <1>3, FcnIsSeq
<1>5. PICK t : t = Padded(s, w, c) /\ t = a \o s
  BY <1>1, <1>2 DEF Padded
<1>6. t \in Seq(Char) /\ Len(t) = m + Len(s) /\ Len(s) \in Nat
  BY ONLY <1>0, <1>4, <1>5, s \in Seq(Char), ConcatProperties
<1>7. \A k \in 1 .. m : t[k] = c
  BY <1>2, <1>3, <1>4, <1>5, <1>6, ConcatProperties
<1>8. ASSUME NEW k \in 1 .. Len(s) PROVE t[m + k] = s[k]
  <2>1. m + k \in 1 .. Len(a) + Len(s) /\ m + k > Len(a) /\ (m + k) - Len(a) = k
    BY <1>3, <1>4, <1>6
  <2> QED  BY SMTT(30), <1>4, <1>5, <2>1, ConcatProperties
<1>9. Len(t) - Len(s) = m /\ Len(t) = IF Len(s) < w THEN w ELSE Len(s)
  BY <1>0, <1>1, <1>3, <1>6
<1>10. IsPadded(t, s, w, c)
  BY <1>6, <1>7, <1>8, <1>9 DEF IsPadded
<1> QED  BY <1>5, <1>10

Pads == {"0", " "}

LEMMA PadsAreChars == Pads \subseteq Char
<1>1. LowerDigits[1] = "0" /\ 1 \in 1 .. 16
  BY DEF LowerDigits
<1>2. "0" \in Char
  BY <1>1, Tables
<1>3. " " \in Char
  BY PrintkAssumption DEF PrintkAssumption
<1> QED  BY <1>2, <1>3 DEF Pads

LEMMA NumberText ==
  ASSUME NEW v \in Nat, NEW base \in {10, 16}, NEW uppercase \in BOOLEAN, NEW w \in Nat,
         NEW pad \in Pads
  PROVE  /\ emit_unsigned(v, base, uppercase, w, pad) \in Seq(Char)
         /\ IsNumber(emit_unsigned(v, base, uppercase, w, pad), v, base, uppercase, w, pad)
<1>1. PICK s, t : s = Digits(v, base, uppercase) /\ t = Padded(s, w, pad)
  OBVIOUS
<1>2. /\ IsDigits(s) /\ Len(s) >= 1
      /\ \A k \in 1 .. Len(s) : \E d \in 1 .. base : s[k] = DigitTable(uppercase)[d]
      /\ ReadBack(s, base) = v
      /\ v >= 1 => s[1] # "0"
      /\ Len(s) > 1 => v >= 1
  <2>1. DigitsRight(v, base, uppercase)
    BY DigitsAreRight
  <2> QED  BY SMTT(30), <1>1, <2>1 DEF DigitsRight
<1>3. s \in Seq(Char) /\ pad \in Char
  BY <1>2, PadsAreChars DEF IsDigits
<1>4. /\ t \in Seq(Char)
      /\ Len(t) = IF Len(s) < w THEN w ELSE Len(s)
      /\ \A k \in 1 .. Len(t) - Len(s) : t[k] = pad
      /\ \A k \in 1 .. Len(s) : t[Len(t) - Len(s) + k] = s[k]
  <2>1. t = Padded(s, w, pad)
    BY <1>1
  <2>2. IsPadded(t, s, w, pad)
    BY <1>3, <2>1, PaddedIs
  <2> QED  BY <2>2 DEF IsPadded
<1>5. PICK n \in Nat, m \in Nat : n = Len(s) /\ m = Len(t) - Len(s) /\ Len(t) = m + n /\ n >= 1
  <2>1. Len(s) \in Nat /\ Len(t) \in Nat
    BY <1>3, <1>4
  <2>2. Len(t) - Len(s) \in Nat /\ Len(t) = (Len(t) - Len(s)) + Len(s)
    BY <1>4, <2>1
  <2> QED  BY Zenon, <1>2, <2>1, <2>2
<1>6. \A k \in 1 .. n : t[m + k] = s[k]
  BY <1>4, <1>5
<1>7. SubSeq(t, m + 1, m + n) = s
  <2>1. PICK u : u = SubSeq(t, m + 1, m + n)
    OBVIOUS
  <2>2. u \in Seq(Char) /\ Len(u) = n /\ \A k \in 1 .. n : u[k] = t[m + k]
    BY <1>4, <1>5, <2>1
  <2>3. \A k \in 1 .. n : u[k] = s[k]
    BY <1>6, <2>2
  <2> QED  BY <1>3, <1>5, <2>1, <2>2, <2>3, SeqEqual
<1>8. \A k \in m + 1 .. m + n : \E d \in 1 .. base : t[k] = DigitTable(uppercase)[d]
  <2>1. SUFFICES ASSUME NEW k \in m + 1 .. m + n
                 PROVE  \E d \in 1 .. base : t[k] = DigitTable(uppercase)[d]
    OBVIOUS
  <2>2. k - m \in 1 .. n /\ m + (k - m) = k
    OBVIOUS
  <2>3. t[k] = s[k - m]
    BY <1>6, <2>2
  <2> QED  BY <1>2, <1>5, <2>2, <2>3
<1>9. n > 1 => t[m + 1] # "0"
  BY <1>2, <1>5, <1>6
<1>10. IsNumber(t, v, base, uppercase, w, pad)
  <2>1. n \in 1 .. Len(t) /\ Len(t) - n = m /\ Len(t) - n + 1 = m + 1 /\ Len(t) = m + n
    BY <1>5
  <2>2. /\ Len(t) = IF n < w THEN w ELSE n
        /\ \A j \in 1 .. Len(t) - n : t[j] = pad
    BY <1>4, <1>5
  <2>3. \A j \in Len(t) - n + 1 .. Len(t) :
          \E d \in 1 .. base : t[j] = (IF uppercase THEN UpperDigits ELSE LowerDigits)[d]
    BY <1>8, <2>1 DEF DigitTable
  <2>4. ReadBack(SubSeq(t, Len(t) - n + 1, Len(t)), base) = v
    BY <1>2, <1>7, <2>1
  <2>5. n > 1 => t[Len(t) - n + 1] # "0"
    BY <1>9, <2>1
  <2> QED  BY <2>1, <2>2, <2>3, <2>4, <2>5 DEF IsNumber
<1>11. emit_unsigned(v, base, uppercase, w, pad) = t
  BY <1>1 DEF emit_unsigned
<1> QED  BY <1>4, <1>10, <1>11

(***************************************************************************)
(* The width in a format: reading it with the loop, or as the part's own   *)
(* digits, gives the same number.                                          *)
(***************************************************************************)
LEMMA ValueOfDigit ==
  ASSUME NEW c \in DigitChars
  PROVE  ValueOf(c) \in Nat /\ c \in Char
<1>1. \E d \in 1 .. 16 : LowerDigits[d] = c
  <2>1. \A d \in 0 .. 9 : d + 1 \in 1 .. 16
    OBVIOUS
  <2>2. \E d \in 0 .. 9 : LowerDigits[d + 1] = c
    BY DEF DigitChars, LowerDigits
  <2> QED  BY <2>1, <2>2
<1>2. PICK d \in 1 .. 16 : d = (CHOOSE e \in 1 .. 16 : LowerDigits[e] = c) /\ LowerDigits[d] = c
  BY <1>1
<1>3. LowerDigits[d] \in Char
  BY Tables
<1>4. ValueOf(c) = d - 1 /\ LowerDigits[d] = c
  BY <1>2 DEF ValueOf
<1>5. d - 1 \in Nat
  OBVIOUS
<1> QED  BY ONLY <1>3, <1>4, <1>5

LEMMA NextWidthTyped ==
  ASSUME NEW w \in Nat, NEW c \in DigitChars
  PROVE  NextWidth(w, c) \in Nat
<1>1. ValueOf(c) \in Nat
  BY ValueOfDigit
<1>2. PICK y \in Nat, d \in Nat \ {0} : y = w * 10 + ValueOf(c) /\ d = Span["none"]
  <2>1. Span["none"] \in Nat \ {0}
    BY PrintkAssumption DEF PrintkAssumption
  <2> QED  BY <1>1, <2>1
<1>3. y % d \in Nat
  OBVIOUS
<1> QED  BY <1>2, <1>3 DEF NextWidth

WidthFrom(t, f) == f = [k \in 0 .. Len(t) |-> IF k = 0 THEN 0 ELSE NextWidth(f[k - 1], t[k])]

WidthFcn(t) == CHOOSE f : WidthFrom(t, f)

LEMMA WidthOfIs == ASSUME NEW t PROVE WidthOf(t) = WidthFcn(t)[Len(t)]
BY DEF WidthOf, WidthFcn, WidthFrom

LEMMA WidthAt ==
  ASSUME NEW t, NEW f, WidthFrom(t, f), NEW k \in 0 .. Len(t)
  PROVE  f[k] = IF k = 0 THEN 0 ELSE NextWidth(f[k - 1], t[k])
<1>1. PICK h : h = [m \in 0 .. Len(t) |-> IF m = 0 THEN 0 ELSE NextWidth(f[m - 1], t[m])]
  OBVIOUS
<1>2. f = h
  BY <1>1 DEF WidthFrom
<1> QED  BY <1>1, <1>2

LEMMA WidthDef ==
  ASSUME NEW t \in Seq(DigitChars)
  PROVE  WidthFrom(t, WidthFcn(t)) /\ WidthFcn(t) \in [0 .. Len(t) -> Nat]
<1>1. PICK n \in Nat : n = Len(t)
  OBVIOUS
<1>2. PICK F : F = [k \in 1 .. n |-> [x \in Nat |-> NextWidth(x, t[k])]]
  OBVIOUS
<1>3. F \in [1 .. n -> [Nat -> Nat]]
  <2>1. ASSUME NEW k \in 1 .. n, NEW x \in Nat PROVE NextWidth(x, t[k]) \in Nat
    <3>1. t[k] \in DigitChars
      BY <1>1
    <3> QED  BY <3>1, NextWidthTyped
  <2> QED  BY <1>2, <2>1
<1>4. PICK f : Steps(Nat, 0, F, n, f)
  BY <1>3, StepsExist
<1>5. ASSUME NEW k \in 0 .. n
      PROVE  f[k] = IF k = 0 THEN 0 ELSE NextWidth(f[k - 1], t[k])
  <2>1. CASE k = 0
    BY <1>4, <2>1 DEF Steps
  <2>2. CASE k # 0
    <3>1. k \in 1 .. n /\ k - 1 \in 0 .. n
      BY <2>2
    <3>2. f[k] = F[k][f[k - 1]] /\ f[k - 1] \in Nat
      BY <1>4, <3>1 DEF Steps
    <3> QED  BY <1>2, <2>2, <3>1, <3>2
  <2> QED  BY <2>1, <2>2
<1>6. WidthFrom(t, f)
  <2>1. f \in [0 .. n -> Nat]
    BY <1>4 DEF Steps
  <2> QED  BY <1>1, <1>5, <2>1 DEF WidthFrom
<1>7. PICK g : g = WidthFcn(t) /\ WidthFrom(t, g)
  BY <1>6 DEF WidthFcn
<1> DEFINE T == {k \in 0 .. n : g[k] # f[k]}
<1>8. T = {}
  <2>1. SUFFICES ASSUME T # {} PROVE FALSE
    OBVIOUS
  <2>2. PICK k \in T : \A y \in T : k <= y
    <3>1. T \in SUBSET Nat
      OBVIOUS
    <3> HIDE DEF T
    <3> QED  BY <2>1, <3>1, LeastOf
  <2>3. g[k] = IF k = 0 THEN 0 ELSE NextWidth(g[k - 1], t[k])
    BY <1>1, <1>7, <2>2, WidthAt
  <2>4. k # 0 => k - 1 \in 0 .. n /\ k - 1 \notin T
    BY <2>2
  <2>5. k # 0 => g[k - 1] = f[k - 1]
    BY <2>4
  <2> QED  BY <1>5, <2>2, <2>3, <2>5
<1>9. g = f
  <2>1. g = [k \in 0 .. n |-> g[k]]
    BY <1>1, <1>7 DEF WidthFrom
  <2>2. f = [k \in 0 .. n |-> f[k]]
    BY <1>4 DEF Steps
  <2> QED  BY <1>8, <2>1, <2>2
<1> QED  BY <1>1, <1>4, <1>7, <1>9 DEF Steps

ParseFrom(j, e, f) == f = [k \in j .. e |-> IF k = j THEN 0 ELSE NextWidth(f[k - 1], At(k - 1))]

LEMMA ParseWidthFcn ==
  ASSUME NEW j
  PROVE  ParseWidth(j) = [width |-> (CHOOSE f : ParseFrom(j, WidthEnd(j), f))[WidthEnd(j)],
                          pos   |-> WidthEnd(j)]
BY DEF ParseWidth, ParseFrom

LEMMA ParseAt ==
  ASSUME NEW j, NEW e, NEW f, ParseFrom(j, e, f), NEW k \in j .. e
  PROVE  f[k] = IF k = j THEN 0 ELSE NextWidth(f[k - 1], At(k - 1))
<1>1. PICK h : h = [m \in j .. e |-> IF m = j THEN 0 ELSE NextWidth(f[m - 1], At(m - 1))]
  OBVIOUS
<1>2. f = h
  BY <1>1 DEF ParseFrom
<1> QED  BY <1>1, <1>2

(***************************************************************************)
(* The digits of a width stand at j, and something else after them.        *)
(***************************************************************************)
LEMMA WidthEndIs ==
  ASSUME NEW j \in Nat, NEW t \in Seq(DigitChars), Len(fmt) \in Nat,
         j + Len(t) <= Len(fmt) + 1, \A k \in 1 .. Len(t) : At(j + k - 1) = t[k],
         At(j + Len(t)) \notin DigitChars
  PROVE  WidthEnd(j) = j + Len(t)
<1>1. PICK n \in Nat, L \in Nat : n = Len(t) /\ L = Len(fmt)
  OBVIOUS
<1>2. ASSUME NEW m \in j .. (j + n) - 1 PROVE At(m) \in DigitChars
  <2>1. PICK k : k = (m - j) + 1
    OBVIOUS
  <2>2. k \in 1 .. n /\ j + k - 1 = m
    BY <2>1
  <2>3. t[k] \in DigitChars
    BY <1>1, <2>2
  <2> QED  BY <1>1, <2>2, <2>3
<1>3. j + n \in j .. L + 1 /\ At(j + n) \notin DigitChars
  BY <1>1
<1>4. ASSUME NEW e \in j .. L + 1, At(e) \notin DigitChars,
             \A m \in j .. e - 1 : At(m) \in DigitChars
      PROVE  e = j + n
  <2>1. ~(e < j + n)
    <3>1. e < j + n => e \in j .. (j + n) - 1
      OBVIOUS
    <3> QED  BY <1>2, <1>4, <3>1
  <2>2. ~(j + n < e)
    <3>1. j + n < e => j + n \in j .. e - 1
      OBVIOUS
    <3> QED  BY <1>3, <1>4, <3>1
  <2> QED  BY <2>1, <2>2
<1> DEFINE P(k) == At(k) \notin DigitChars /\ \A m \in j .. k - 1 : At(m) \in DigitChars
<1>5. P(j + n) /\ \A e \in j .. L + 1 : P(e) => e = j + n
  BY <1>2, <1>3, <1>4
<1>6. (CHOOSE k \in j .. L + 1 : P(k)) = j + n
  <2> HIDE DEF P
  <2> QED  BY <1>3, <1>5
<1> QED  BY <1>1, <1>6 DEF WidthEnd

LEMMA ParseWidthIs ==
  ASSUME NEW j \in Nat, NEW t \in Seq(DigitChars), Len(fmt) \in Nat,
         j + Len(t) <= Len(fmt) + 1, \A k \in 1 .. Len(t) : At(j + k - 1) = t[k],
         At(j + Len(t)) \notin DigitChars
  PROVE  ParseWidth(j) = [width |-> WidthOf(t), pos |-> j + Len(t)]
<1>1. PICK n \in Nat, e \in Nat : n = Len(t) /\ e = j + n
  OBVIOUS
<1>2. WidthEnd(j) = e
  BY <1>1, WidthEndIs
<1>3. PICK g : g = WidthFcn(t) /\ WidthFrom(t, g) /\ g \in [0 .. n -> Nat]
  BY <1>1, WidthDef
<1>4. \E f : ParseFrom(j, e, f)
  <2>1. PICK f : f = [k \in j .. e |-> g[k - j]]
    OBVIOUS
  <2>2. ASSUME NEW k \in j .. e
        PROVE  f[k] = IF k = j THEN 0 ELSE NextWidth(f[k - 1], At(k - 1))
    <3>1. k - j \in 0 .. Len(t) /\ f[k] = g[k - j]
      BY <1>1, <2>1
    <3>2. g[k - j] = IF k - j = 0 THEN 0 ELSE NextWidth(g[(k - j) - 1], t[k - j])
      BY ONLY <1>3, <3>1, WidthAt
    <3>3. CASE k = j
      BY <3>1, <3>2, <3>3
    <3>4. CASE k # j
      <4>1. k - 1 \in j .. e /\ k - j \in 1 .. Len(t) /\ (k - 1) - j = (k - j) - 1
        BY <1>1, <3>4
      <4>2. f[k - 1] = g[(k - j) - 1]
        BY <2>1, <4>1
      <4>3. At(j + (k - j) - 1) = t[k - j] /\ j + (k - j) - 1 = k - 1
        BY <4>1
      <4> QED  BY <3>1, <3>2, <3>4, <4>2, <4>3
    <3> QED  BY <3>3, <3>4
  <2>3. ParseFrom(j, e, f)
    BY <2>1, <2>2 DEF ParseFrom
  <2> QED  BY <2>3
<1>5. PICK f : f = (CHOOSE h : ParseFrom(j, e, h)) /\ ParseFrom(j, e, f)
  BY <1>4
<1> DEFINE T == {k \in 0 .. n : f[j + k] # g[k]}
<1>6. T = {}
  <2>1. SUFFICES ASSUME T # {} PROVE FALSE
    OBVIOUS
  <2>2. PICK k \in T : \A y \in T : k <= y
    <3>1. T \in SUBSET Nat
      OBVIOUS
    <3> HIDE DEF T
    <3> QED  BY <2>1, <3>1, LeastOf
  <2>3. k \in 0 .. n /\ j + k \in j .. e /\ k \in 0 .. Len(t)
    BY <1>1, <2>2
  <2>4. f[j + k] = IF j + k = j THEN 0 ELSE NextWidth(f[(j + k) - 1], At((j + k) - 1))
    BY ONLY <1>5, <2>3, ParseAt
  <2>5. g[k] = IF k = 0 THEN 0 ELSE NextWidth(g[k - 1], t[k])
    BY ONLY <1>3, <2>3, WidthAt
  <2>6. CASE k = 0
    BY <2>2, <2>3, <2>4, <2>5, <2>6
  <2>7. CASE k # 0
    <3>1. k - 1 \in 0 .. n /\ k - 1 \notin T /\ k \in 1 .. Len(t) /\ (j + k) - 1 = j + (k - 1)
          /\ j + k # j
      <4>1. k - 1 \in 0 .. n /\ k \in 1 .. Len(t) /\ (j + k) - 1 = j + (k - 1) /\ j + k # j
        BY <1>1, <2>3, <2>7
      <4>2. k - 1 \in T => k <= k - 1
        <5> HIDE DEF T
        <5> QED  BY <2>2
      <4>3. ~(k <= k - 1)
        BY <2>3
      <4> QED  BY <4>1, <4>2, <4>3
    <3>2. f[j + (k - 1)] = g[k - 1]
      BY <3>1
    <3>3. At(j + k - 1) = t[k]
      BY <3>1
    <3> QED  BY <2>2, <2>4, <2>5, <2>7, <3>1, <3>2, <3>3
  <2> QED  BY <2>6, <2>7
<1>7. f[e] = g[n]
  <2>1. n \in 0 .. n /\ n \notin T
    BY <1>6
  <2> QED  BY <1>1, <2>1
<1>8. WidthOf(t) = g[n]
  BY <1>1, <1>3, WidthOfIs
<1> QED  BY <1>1, <1>2, <1>5, <1>7, <1>8, ParseWidthFcn

(***************************************************************************)
(* Lines 218 to 250 read a conversion as it was spelled.                   *)
(***************************************************************************)
Letters == Char \ (DigitChars \cup {"h", "l", "z", "t"})

LEMMA Modifiers ==
  /\ DOMAIN Modifier = {"none", "hh", "h", "l", "ll", "z", "t"}
  /\ Len(Modifier["none"]) = 0
  /\ \A m \in {"h", "l", "z", "t"} : Len(Modifier[m]) = 1 /\ Modifier[m][1] = m
  /\ Len(Modifier["hh"]) = 2 /\ Modifier["hh"][1] = "h" /\ Modifier["hh"][2] = "h"
  /\ Len(Modifier["ll"]) = 2 /\ Modifier["ll"][1] = "l" /\ Modifier["ll"][2] = "l"
BY DEF Modifier

LEMMA ModifierNoDigit == {"h", "l", "z", "t"} \cap DigitChars = {} /\ NUL \notin Char
BY PrintkAssumption DEF DigitChars, PrintkAssumption

LEMMA LengthIs ==
  ASSUME NEW length \in DOMAIN Modifier, NEW c \in Letters, NEW x
  PROVE  /\ length = "none" => c \notin {"h", "l", "z", "t"}
         /\ Len(Modifier[length]) \in 0 .. 2
         /\ Len(Modifier[length]) = 0 <=> length = "none"
BY Modifiers DEF Letters

LEMMA ParseSpecIs ==
  ASSUME fmt \in Seq(Char), NEW t, NEW p, NEW q, PartTyped(fmt, t, p), p.kind = "conversion",
         q.at <= Len(fmt) + 1, Spelled(fmt, p, q)
  PROVE  /\ ParseSpec(p.at + 1) = [pad |-> PadOf(p), width |-> WidthOf(p.digits),
                                   length |-> p.length, pos |-> q.at - 1]
         /\ p.at + 1 <= Len(fmt) /\ q.at \in Nat /\ q.at > p.at + 1 /\ At(q.at - 1) = p.letter
<1>1. PICK L, a, n, m, c, len : /\ L = Len(fmt) /\ a = p.at /\ n = Len(p.digits) /\ len = p.length
                                /\ m = Len(Modifier[len]) /\ c = p.letter
  OBVIOUS
<1>2. /\ L \in Nat /\ a \in 1 .. L + 1 /\ p.zero \in BOOLEAN /\ p.digits \in Seq(DigitChars)
      /\ n \in Nat /\ len \in DOMAIN Modifier /\ c \in Letters
  <2>1. /\ a \in 1 .. L + 1 /\ p.zero \in BOOLEAN /\ p.digits \in Seq(DigitChars)
        /\ len \in DOMAIN Modifier /\ c \in Letters
    BY <1>1 DEF PartTyped, Letters
  <2> QED  BY <1>1, <2>1
<1>3. m \in 0 .. 2 /\ (m = 0 <=> len = "none")
  BY <1>1, <1>2, LengthIs
<1>4. PICK z : z = IF p.zero THEN 1 ELSE 0
  OBVIOUS
<1>5. z \in 0 .. 1 /\ a \in Nat
  BY <1>2, <1>4
<1>6. PICK l : l = a + z + n
  OBVIOUS
<1>7. /\ l \in Nat /\ l >= a + z /\ a >= 1
      /\ fmt[a] = "%" /\ (p.zero => fmt[a + 1] = "0")
      /\ \A k \in 1 .. n : fmt[a + z + k] = p.digits[k]
      /\ ~p.zero /\ n > 0 => p.digits[1] # "0"
      /\ \A k \in 1 .. m : fmt[l + k] = Modifier[len][k]
      /\ q.at = l + m + 2 /\ fmt[q.at - 1] = c
  <2>1. l \in Nat /\ l >= a + z /\ a >= 1
    BY <1>2, <1>5, <1>6
  <2>2. /\ fmt[a] = "%" /\ (p.zero => fmt[a + 1] = "0")
        /\ \A k \in 1 .. n : fmt[a + z + k] = p.digits[k]
        /\ ~p.zero /\ n > 0 => p.digits[1] # "0"
        /\ \A k \in 1 .. m : fmt[l + k] = Modifier[len][k]
        /\ q.at = l + m + 2 /\ fmt[q.at - 1] = c
    BY <1>1, <1>4, <1>6 DEF Spelled
  <2> QED  BY <2>1, <2>2
<1>8. l + m + 1 <= L /\ q.at - 1 = l + m + 1
  <2>1. q.at = l + m + 2 /\ l \in Nat /\ m \in Nat /\ L \in Nat
    BY <1>2, <1>3, <1>7
  <2> QED  BY <1>1, <2>1
<1>9. ASSUME NEW k \in 1 .. L PROVE At(k) = fmt[k]
  BY <1>1 DEF At
<1>10. At(l + m + 1) = c
  BY <1>3, <1>7, <1>8, <1>9
<1>11. ASSUME NEW k \in 1 .. m PROVE At(l + k) = Modifier[len][k]
  <2>1. l + k \in 1 .. L
    BY <1>2, <1>3, <1>7, <1>8
  <2> QED  BY <1>7, <1>9, <2>1
<1>12. At(l + 1) \notin DigitChars
  <2>1. CASE m = 0
    BY <1>2, <1>7, <1>10, <2>1 DEF Letters
  <2>2. CASE m # 0
    <3>1. 1 \in 1 .. m /\ len # "none"
      BY <1>3, <2>2
    <3>2. At(l + 1) = Modifier[len][1]
      BY <1>11, <3>1
    <3>3. Modifier[len][1] \in {"h", "l", "z", "t"}
      BY <1>2, <3>1, Modifiers
    <3> QED  BY <3>2, <3>3, ModifierNoDigit
  <2> QED  BY <2>1, <2>2
<1>13. At(a + 1) = "0" <=> p.zero
  <2>1. CASE p.zero
    <3>1. a + 1 \in 1 .. L
      BY <1>2, <1>3, <1>4, <1>6, <1>7, <1>8, <2>1
    <3> QED  BY <1>7, <1>9, <2>1, <3>1
  <2>2. CASE ~p.zero
    <3>1. z = 0 /\ a + z = a
      BY <1>4, <1>5, <2>2
    <3>2. CASE n > 0
      <4>1. 1 \in 1 .. n /\ a + 1 \in 1 .. L /\ a + z + 1 = a + 1
        BY <1>2, <1>3, <1>5, <1>6, <1>7, <1>8, <3>1, <3>2
      <4>2. At(a + 1) = p.digits[1]
        BY <1>7, <1>9, <4>1
      <4> QED  BY <1>7, <2>2, <3>2, <4>2
    <3>3. CASE n = 0
      <4>1. l = a
        BY <1>5, <1>6, <3>1, <3>3
      <4>2. "0" \in DigitChars
        BY DEF DigitChars
      <4> QED  BY <1>12, <2>2, <4>1, <4>2
    <3> QED  BY <1>2, <3>2, <3>3
  <2> QED  BY <2>1, <2>2
<1>14. PICK j \in Nat : j = a + 1 + z /\ j + n = l + 1
  BY <1>2, <1>5, <1>6
<1>15. ParseWidth(j) = [width |-> WidthOf(p.digits), pos |-> l + 1]
  <2>1. Len(fmt) \in Nat /\ j + Len(p.digits) <= Len(fmt) + 1
    BY SMTT(30), <1>1, <1>2, <1>3, <1>7, <1>8, <1>14
  <2>2. ASSUME NEW k \in 1 .. Len(p.digits) PROVE At(j + k - 1) = p.digits[k]
    <3>1. k \in 1 .. n
      BY <1>1
    <3>2. j + k - 1 = a + z + k
      BY <1>2, <1>5, <1>14, <3>1
    <3>3. a + z + k \in 1 .. L
      BY <1>2, <1>3, <1>5, <1>6, <1>8, <3>1
    <3> QED  BY <1>7, <1>9, <3>1, <3>2, <3>3
  <2>3. At(j + Len(p.digits)) \notin DigitChars
    BY <1>1, <1>12, <1>14
  <2> QED  BY <1>1, <1>2, <1>14, <2>1, <2>2, <2>3, ParseWidthIs
<1>16. PICK w : w = ParseWidth(IF At(a + 1) = "0" THEN a + 1 + 1 ELSE a + 1)
                /\ w.pos = l + 1 /\ w.width = WidthOf(p.digits)
  <2>1. (IF At(a + 1) = "0" THEN a + 1 + 1 ELSE a + 1) = j
    BY <1>4, <1>5, <1>13, <1>14
  <2> QED  BY <1>15, <2>1
<1> DEFINE k == l + 1
           twice == At(k) \in {"h", "l"} /\ At(k + 1) = At(k)
           found == CASE twice -> IF At(k) = "h" THEN "hh" ELSE "ll"
                      [] ~twice /\ At(k) \in {"h", "l", "z", "t"} -> At(k)
                      [] OTHER -> "none"
<1>17. found = len /\ (IF twice THEN 2 ELSE IF found = "none" THEN 0 ELSE 1) = m
  <2>1. c \notin {"h", "l", "z", "t"}
    BY <1>2 DEF Letters
  <2>2. CASE len = "none"
    <3>1. m = 0 /\ At(k) = c
      BY <1>3, <1>7, <1>10, <2>2
    <3> QED  BY <2>1, <2>2, <3>1
  <2>3. CASE len \in {"h", "l", "z", "t"}
    <3>1. m = 1 /\ Modifier[len][1] = len
      BY <1>1, <2>3, Modifiers
    <3>2. At(l + 1) = len
      BY <1>11, <3>1
    <3>3. (l + 1) + 1 = l + m + 1
      BY <1>7, <3>1
    <3> QED  BY <1>10, <2>1, <2>3, <3>1, <3>2, <3>3
  <2>4. CASE len = "hh"
    <3>1. m = 2 /\ Modifier[len][1] = "h" /\ Modifier[len][2] = "h"
      BY <1>1, <2>4, Modifiers
    <3>2. At(l + 1) = "h" /\ At(l + 2) = "h" /\ (l + 1) + 1 = l + 2
      BY <1>7, <1>11, <3>1
    <3> QED  BY <2>4, <3>1, <3>2
  <2>5. CASE len = "ll"
    <3>1. m = 2 /\ Modifier[len][1] = "l" /\ Modifier[len][2] = "l"
      BY <1>1, <2>5, Modifiers
    <3>2. At(l + 1) = "l" /\ At(l + 2) = "l" /\ (l + 1) + 1 = l + 2
      BY <1>7, <1>11, <3>1
    <3> QED  BY <2>5, <3>1, <3>2
  <2> QED  BY <1>2, <2>2, <2>3, <2>4, <2>5, Modifiers
<1>18. ParseSpec(a + 1) = [pad |-> PadOf(p), width |-> WidthOf(p.digits), length |-> len,
                           pos |-> k + m]
  <2>1. ParseSpec(a + 1) = [pad |-> IF At(a + 1) = "0" THEN "0" ELSE " ", width |-> w.width,
                            length |-> found,
                            pos |-> k + (IF twice THEN 2 ELSE IF found = "none" THEN 0 ELSE 1)]
    BY <1>16 DEF ParseSpec
  <2>2. (IF At(a + 1) = "0" THEN "0" ELSE " ") = PadOf(p)
    BY <1>13 DEF PadOf
  <2> HIDE DEF found, twice, k
  <2> QED  BY <1>16, <1>17, <2>1, <2>2
<1>19. (l + 1) + m = q.at - 1 /\ a + 1 <= L /\ q.at \in Nat /\ q.at > a + 1
  <2>1. l >= a /\ l \in Nat /\ m \in Nat /\ a \in Nat /\ L \in Nat
    BY <1>2, <1>3, <1>5, <1>6
  <2>2. q.at = l + m + 2
    BY <1>7
  <2> QED  BY <1>8, <2>1, <2>2
<1> QED  BY <1>1, <1>8, <1>10, <1>18, <1>19

-----------------------------------------------------------------------------
(***************************************************************************)
(* The prefix of a line is the time with three digits after the point.     *)
(***************************************************************************)
CharSeqs == Seq(Char)

LEMMA Tuples ==
  ASSUME NEW S
  PROVE  /\ <<>> \in Seq(S) /\ Len(<<>>) = 0
         /\ \A a \in S : <<a>> \in Seq(S) /\ Len(<<a>>) = 1 /\ <<a>>[1] = a
         /\ \A a, b \in S : <<a, b>> \in Seq(S) /\ Len(<<a, b>>) = 2
                            /\ <<a, b>>[1] = a /\ <<a, b>>[2] = b
         /\ \A a, b, c \in S : <<a, b, c>> \in Seq(S) /\ Len(<<a, b, c>>) = 3
                               /\ <<a, b, c>>[1] = a /\ <<a, b, c>>[2] = b /\ <<a, b, c>>[3] = c
<1>1. <<>> \in Seq(S) /\ Len(<<>>) = 0
  BY EmptySeq
<1>2. ASSUME NEW a \in S PROVE <<a>> \in Seq(S) /\ Len(<<a>>) = 1 /\ <<a>>[1] = a
  OBVIOUS
<1>3. ASSUME NEW a \in S, NEW b \in S
      PROVE  <<a, b>> \in Seq(S) /\ Len(<<a, b>>) = 2 /\ <<a, b>>[1] = a /\ <<a, b>>[2] = b
  OBVIOUS
<1>4. ASSUME NEW a \in S, NEW b \in S, NEW c \in S
      PROVE  /\ <<a, b, c>> \in Seq(S) /\ Len(<<a, b, c>>) = 3
             /\ <<a, b, c>>[1] = a /\ <<a, b, c>>[2] = b /\ <<a, b, c>>[3] = c
  OBVIOUS
<1> QED  BY <1>1, <1>2, <1>3, <1>4

LEMMA NamedChars ==
  /\ "\n" \in Char /\ "\r" \in Char /\ "%" \in Char /\ "-" \in Char /\ "x" \in Char
  /\ "[" \in Char /\ "." \in Char /\ "]" \in Char /\ " " \in Char
  /\ "(" \in Char /\ "n" \in Char /\ "u" \in Char /\ "l" \in Char /\ ")" \in Char
<1>1. {"%", "-", "x", "(", ")", "n", "u", "l", "[", "]", ".", " ", "\r", "\n"} \subseteq Char
  BY PrintkAssumption DEF PrintkAssumption
<1> QED  BY Zenon, <1>1

LEMMA SixTuple ==
  ASSUME NEW S, NEW a \in S, NEW b \in S, NEW c \in S, NEW d \in S, NEW e \in S, NEW g \in S
  PROVE  /\ <<a, b, c, d, e, g>> \in Seq(S) /\ Len(<<a, b, c, d, e, g>>) = 6
         /\ <<a, b, c, d, e, g>>[1] = a /\ <<a, b, c, d, e, g>>[2] = b
         /\ <<a, b, c, d, e, g>>[3] = c /\ <<a, b, c, d, e, g>>[4] = d
         /\ <<a, b, c, d, e, g>>[5] = e /\ <<a, b, c, d, e, g>>[6] = g
OBVIOUS

LEMMA Literals ==
  /\ <<>> \in CharSeqs /\ Len(<<>>) = 0
  /\ <<"[">> \in CharSeqs /\ <<".">> \in CharSeqs /\ <<"]", " ">> \in CharSeqs
  /\ <<"\r", "\n">> \in CharSeqs /\ Len(<<"\r", "\n">>) = 2 /\ <<"\r", "\n">>[2] = "\n"
  /\ <<"%">> \in CharSeqs /\ <<"-">> \in CharSeqs
  /\ <<"(", "n", "u", "l", "l", ")">> \in CharSeqs
<1>1. <<>> \in CharSeqs /\ Len(<<>>) = 0
  BY Tuples DEF CharSeqs
<1>2. <<"[">> \in CharSeqs /\ <<".">> \in CharSeqs /\ <<"%">> \in CharSeqs /\ <<"-">> \in CharSeqs
  BY Zenon, NamedChars, Tuples DEF CharSeqs
<1>3. /\ <<"]", " ">> \in CharSeqs
      /\ <<"\r", "\n">> \in CharSeqs /\ Len(<<"\r", "\n">>) = 2 /\ <<"\r", "\n">>[2] = "\n"
  BY Zenon, NamedChars, Tuples DEF CharSeqs
<1>4. <<"(", "n", "u", "l", "l", ")">> \in CharSeqs
  BY ZenonT(60), NamedChars, SixTuple DEF CharSeqs
<1> QED  BY <1>1, <1>2, <1>3, <1>4

MakeSix(a, b, c, d, e, g) == (<<a>> \o <<b, c, d>>) \o <<e, g>> = <<a, b, c, d, e, g>>

LEMMA JoinSix ==
  ASSUME NEW a \in Char, NEW b \in Char, NEW c \in Char, NEW d \in Char, NEW e \in Char, NEW g \in Char
  PROVE  MakeSix(a, b, c, d, e, g)
<1>1. PICK x, y, z : x = <<a>> /\ y = <<b, c, d>> /\ z = <<e, g>>
  OBVIOUS
<1>2. x \in Seq(Char) /\ Len(x) = 1 /\ x[1] = a
  BY <1>1, Tuples
<1>3. y \in Seq(Char) /\ Len(y) = 3 /\ y[1] = b /\ y[2] = c /\ y[3] = d
  BY <1>1, Tuples
<1>4. z \in Seq(Char) /\ Len(z) = 2 /\ z[1] = e /\ z[2] = g
  BY <1>1, Tuples
<1>5. PICK s : s = x \o y
  OBVIOUS
<1>6. s \in Seq(Char) /\ Len(s) = 4 /\ s[1] = a /\ s[2] = b /\ s[3] = c /\ s[4] = d
  <2>1. /\ s \in Seq(Char) /\ Len(s) = Len(x) + Len(y)
        /\ \A k \in 1 .. Len(x) + Len(y) : s[k] = IF k <= Len(x) THEN x[k] ELSE y[k - Len(x)]
    BY <1>2, <1>3, <1>5, ConcatProperties
  <2>2. \A k \in 1 .. 4 : s[k] = IF k <= 1 THEN x[k] ELSE y[k - 1]
    BY <1>2, <1>3, <2>1
  <2> QED  BY <1>2, <1>3, <2>1, <2>2
<1>7. PICK t : t = s \o z
  OBVIOUS
<1>8. /\ t \in Seq(Char) /\ Len(t) = 6 /\ t[1] = a /\ t[2] = b /\ t[3] = c /\ t[4] = d
      /\ t[5] = e /\ t[6] = g
  <2>1. /\ t \in Seq(Char) /\ Len(t) = Len(s) + Len(z)
        /\ \A k \in 1 .. Len(s) + Len(z) : t[k] = IF k <= Len(s) THEN s[k] ELSE z[k - Len(s)]
    BY <1>4, <1>6, <1>7, ConcatProperties
  <2>2. \A k \in 1 .. 6 : t[k] = IF k <= 4 THEN s[k] ELSE z[k - 4]
    BY <1>4, <1>6, <2>1
  <2> QED  BY <1>4, <1>6, <2>1, <2>2
<1>9. PICK r : r = <<a, b, c, d, e, g>>
  OBVIOUS
<1>10. /\ r \in Seq(Char) /\ Len(r) = 6 /\ r[1] = a /\ r[2] = b /\ r[3] = c /\ r[4] = d
       /\ r[5] = e /\ r[6] = g
  BY <1>9, SixTuple
<1>11. ASSUME NEW k \in 1 .. 6 PROVE t[k] = r[k]
  <2>1. k = 1 \/ k = 2 \/ k = 3 \/ k = 4 \/ k = 5 \/ k = 6
    OBVIOUS
  <2> QED  BY <1>8, <1>10, <2>1
<1>12. t = r
  BY <1>8, <1>10, <1>11, SeqEqual
<1> QED  BY <1>1, <1>5, <1>7, <1>9, <1>12 DEF MakeSix

LEMMA AppendOne ==
  ASSUME NEW S, NEW x \in Seq(S), NEW b \in S
  PROVE  /\ Append(x, b) \in Seq(S) /\ Len(Append(x, b)) = Len(x) + 1
         /\ \A k \in 1 .. Len(x) : Append(x, b)[k] = x[k]
         /\ Append(x, b)[Len(x) + 1] = b
OBVIOUS

LEMMA AppendTwo ==
  ASSUME NEW S, NEW a \in S, NEW b \in S, NEW c \in S
  PROVE  /\ Append(<<a>>, b) \in Seq(S) /\ Len(Append(<<a>>, b)) = 2
         /\ Append(<<a>>, b)[1] = a /\ Append(<<a>>, b)[2] = b
         /\ Append(Append(<<a>>, b), c) \in Seq(S) /\ Len(Append(Append(<<a>>, b), c)) = 3
         /\ Append(Append(<<a>>, b), c)[1] = a /\ Append(Append(<<a>>, b), c)[2] = b
         /\ Append(Append(<<a>>, b), c)[3] = c
<1>1. PICK x : x = <<a>>
  OBVIOUS
<1>2. x \in Seq(S) /\ Len(x) = 1 /\ x[1] = a
  BY <1>1, Tuples
<1>3. PICK y : y = Append(x, b)
  OBVIOUS
<1>4. y \in Seq(S) /\ Len(y) = 2 /\ y[1] = a /\ y[2] = b
  <2>1. /\ y \in Seq(S) /\ Len(y) = Len(x) + 1 /\ y[Len(x) + 1] = b
        /\ \A k \in 1 .. Len(x) : y[k] = x[k]
    <3>1. /\ Append(x, b) \in Seq(S) /\ Len(Append(x, b)) = Len(x) + 1
          /\ Append(x, b)[Len(x) + 1] = b /\ \A k \in 1 .. Len(x) : Append(x, b)[k] = x[k]
      <4>1. x \in Seq(S)
        BY <1>2
      <4> QED  BY ONLY <4>1, b \in S, AppendOne
    <3> QED  BY Zenon, <1>3, <3>1
  <2> QED  BY <1>2, <2>1
<1>5. PICK z : z = Append(y, c)
  OBVIOUS
<1>6. z \in Seq(S) /\ Len(z) = 3 /\ z[1] = a /\ z[2] = b /\ z[3] = c
  <2>1. /\ z \in Seq(S) /\ Len(z) = Len(y) + 1 /\ z[Len(y) + 1] = c
        /\ \A k \in 1 .. Len(y) : z[k] = y[k]
    <3>1. /\ Append(y, c) \in Seq(S) /\ Len(Append(y, c)) = Len(y) + 1
          /\ Append(y, c)[Len(y) + 1] = c /\ \A k \in 1 .. Len(y) : Append(y, c)[k] = y[k]
      <4>1. y \in Seq(S)
        BY <1>4
      <4> QED  BY ONLY <4>1, c \in S, AppendOne
    <3> QED  BY Zenon, <1>5, <3>1
  <2> QED  BY <1>4, <2>1
<1> QED  BY <1>1, <1>3, <1>4, <1>5, <1>6

(***************************************************************************)
(* A number below 1000 has at most three digits.                           *)
(***************************************************************************)
Decimal(v) == Digits(v, 10, FALSE)

LEMMA DecimalStep ==
  ASSUME NEW v \in Nat
  PROVE  /\ v < 10 => Decimal(v) = <<LowerDigits[v + 1]>>
         /\ v >= 10 => Decimal(v) = Append(Decimal(v \div 10), LowerDigits[(v % 10) + 1])
<1>1. DigitTable(FALSE) = LowerDigits
  BY DEF DigitTable
<1>2. PICK u \in BOOLEAN : u = FALSE
  OBVIOUS
<1>3. /\ v < 10 => Digits(v, 10, u) = <<DigitTable(u)[v + 1]>>
      /\ v >= 10 => Digits(v, 10, u) = Append(Digits(v \div 10, 10, u), DigitTable(u)[(v % 10) + 1])
  BY DigitsStep
<1> QED  BY <1>1, <1>2, <1>3 DEF Decimal

ThreeFrom(m, s) ==
  LET a == LowerDigits[((m \div 100) % 10) + 1]
      b == LowerDigits[((m \div 10) % 10) + 1]
      c == LowerDigits[(m % 10) + 1]
  IN  /\ s \in Seq(Char) /\ Len(s) \in 1 .. 3 /\ s[Len(s)] = c
      /\ IF Len(s) >= 2 THEN s[Len(s) - 1] = b ELSE b = "0"
      /\ IF Len(s) = 3 THEN s[1] = a ELSE a = "0"

LEMMA AtMostThree ==
  ASSUME NEW m \in 0 .. 999
  PROVE  ThreeFrom(m, Decimal(m))
<1>1. PICK s : s = Decimal(m)
  OBVIOUS
<1>2. PICK a, b, c : /\ a = ((m \div 100) % 10) + 1 /\ b = ((m \div 10) % 10) + 1
                     /\ c = (m % 10) + 1
  OBVIOUS
<1>3. a \in 1 .. 16 /\ b \in 1 .. 16 /\ c \in 1 .. 16 /\ m \in Nat
  BY <1>2
<1>4. LowerDigits[a] \in Char /\ LowerDigits[b] \in Char /\ LowerDigits[c] \in Char
  BY ZenonT(60), <1>3, Tables
<1>5. LowerDigits[1] = "0"
  BY DEF LowerDigits
<1>6. PICK x, y, z : x = LowerDigits[a] /\ y = LowerDigits[b] /\ z = LowerDigits[c]
  OBVIOUS
<1>7. SUFFICES /\ s \in Seq(Char) /\ Len(s) \in 1 .. 3 /\ s[Len(s)] = z
               /\ IF Len(s) >= 2 THEN s[Len(s) - 1] = y ELSE y = "0"
               /\ IF Len(s) = 3 THEN s[1] = x ELSE x = "0"
  BY <1>1, <1>2, <1>6 DEF ThreeFrom
<1>8. x \in Char /\ y \in Char /\ z \in Char
  BY <1>4, <1>6
<1>9. CASE m < 10
  <2>1. a = 1 /\ b = 1 /\ c = m + 1
    BY <1>2, <1>9
  <2>2. s = <<z>>
    BY <1>1, <1>3, <1>6, <1>9, <2>1, DecimalStep
  <2>3. s \in Seq(Char) /\ Len(s) = 1 /\ s[1] = z
    BY <1>8, <2>2, Tuples
  <2> QED  BY <1>5, <1>6, <2>1, <2>3
<1>10. CASE m >= 10 /\ m < 100
  <2>1. a = 1 /\ m \div 10 \in Nat /\ m \div 10 < 10 /\ b = (m \div 10) + 1
    BY <1>2, <1>10
  <2>2. Decimal(m \div 10) = <<y>>
    BY <1>6, <2>1, DecimalStep
  <2>3. s = Append(<<y>>, z)
    BY ZenonT(60), <1>1, <1>2, <1>3, <1>6, <1>10, <2>2, DecimalStep
  <2>4. s \in Seq(Char) /\ Len(s) = 2 /\ s[1] = y /\ s[2] = z
    BY <1>8, <2>3, AppendTwo
  <2> QED  BY <1>5, <1>6, <2>1, <2>4
<1>11. CASE m >= 100
  <2>1. PICK n \in Nat : n = m \div 10
    OBVIOUS
  <2>2. n >= 10 /\ n \div 10 \in Nat /\ n \div 10 < 10 /\ b = (n % 10) + 1 /\ a = (n \div 10) + 1
    <3>1. n >= 10 /\ n < 100 /\ b = (n % 10) + 1
      BY <1>2, <1>11, <2>1
    <3>2. n \div 10 = m \div 100
      BY <1>11, <2>1
    <3>3. n \div 10 \in Nat /\ n \div 10 < 10
      BY <3>1
    <3>4. (n \div 10) % 10 = n \div 10
      BY <3>3
    <3> QED  BY <1>2, <3>1, <3>2, <3>3, <3>4
  <2>3. Decimal(n \div 10) = <<x>>
    BY <1>6, <2>2, DecimalStep
  <2>4. Decimal(n) = Append(<<x>>, y)
    BY ZenonT(60), <1>6, <2>2, <2>3, DecimalStep
  <2>5. s = Append(Append(<<x>>, y), z)
    <3>0. m \in Nat /\ m >= 10
      BY <1>3, <1>11
    <3>1. Decimal(m) = Append(Decimal(m \div 10), LowerDigits[(m % 10) + 1])
      BY ONLY ZenonT(60), <3>0, DecimalStep
    <3> QED  BY ZenonT(60), <1>1, <1>2, <1>6, <2>1, <2>4, <3>1
  <2>6. s \in Seq(Char) /\ Len(s) = 3 /\ s[1] = x /\ s[2] = y /\ s[3] = z
    BY <1>8, <2>5, AppendTwo
  <2> QED  BY <2>6
<1> QED  BY <1>9, <1>10, <1>11

LEMMA ThreeDigits ==
  ASSUME NEW m \in 0 .. 999
  PROVE  Padded(Decimal(m), 3, "0") =
           <<LowerDigits[((m \div 100) % 10) + 1], LowerDigits[((m \div 10) % 10) + 1],
             LowerDigits[(m % 10) + 1]>>
<1>1. PICK s, x, y, z : /\ s = Decimal(m) /\ x = LowerDigits[((m \div 100) % 10) + 1]
                        /\ y = LowerDigits[((m \div 10) % 10) + 1] /\ z = LowerDigits[(m % 10) + 1]
  OBVIOUS
<1>2. /\ s \in Seq(Char) /\ Len(s) \in 1 .. 3 /\ s[Len(s)] = z
      /\ IF Len(s) >= 2 THEN s[Len(s) - 1] = y ELSE y = "0"
      /\ IF Len(s) = 3 THEN s[1] = x ELSE x = "0"
  BY ZenonT(60), <1>1, AtMostThree DEF ThreeFrom
<1>3. x \in Char /\ y \in Char /\ z \in Char
  <2>1. /\ ((m \div 100) % 10) + 1 \in 1 .. 16 /\ ((m \div 10) % 10) + 1 \in 1 .. 16
        /\ (m % 10) + 1 \in 1 .. 16
    OBVIOUS
  <2> QED  BY ZenonT(60), <1>1, <2>1, Tables
<1>4. PICK t : t = Padded(s, 3, "0")
  OBVIOUS
<1>5. "0" \in Char
  BY ZenonT(60), PadsAreChars DEF Pads
<1>6. IsPadded(t, s, 3, "0")
  BY <1>2, <1>4, <1>5, PaddedIs
<1>7. /\ t \in Seq(Char) /\ Len(t) = 3
      /\ \A k \in 1 .. Len(t) - Len(s) : t[k] = "0"
      /\ \A k \in 1 .. Len(s) : t[Len(t) - Len(s) + k] = s[k]
  BY <1>2, <1>6 DEF IsPadded
<1>8. t[1] = x /\ t[2] = y /\ t[3] = z
  <2>1. CASE Len(s) = 1
    <3>1. 1 \in 1 .. Len(t) - Len(s) /\ 2 \in 1 .. Len(t) - Len(s) /\ 1 \in 1 .. Len(s)
          /\ Len(t) - Len(s) + 1 = 3
      BY <1>7, <2>1
    <3> QED  BY <1>2, <1>7, <2>1, <3>1
  <2>2. CASE Len(s) = 2
    <3>1. 1 \in 1 .. Len(t) - Len(s) /\ 1 \in 1 .. Len(s) /\ 2 \in 1 .. Len(s)
          /\ Len(t) - Len(s) + 1 = 2 /\ Len(t) - Len(s) + 2 = 3
      BY <1>7, <2>2
    <3> QED  BY <1>2, <1>7, <2>2, <3>1
  <2>3. CASE Len(s) = 3
    <3>1. 1 \in 1 .. Len(s) /\ 2 \in 1 .. Len(s) /\ 3 \in 1 .. Len(s)
          /\ Len(t) - Len(s) + 1 = 1 /\ Len(t) - Len(s) + 2 = 2 /\ Len(t) - Len(s) + 3 = 3
      BY <1>7, <2>3
    <3> QED  BY <1>2, <1>7, <2>3, <3>1
  <2> QED  BY <1>2, <2>1, <2>2, <2>3
<1>9. PICK r : r = <<x, y, z>>
  BY ZenonT(60)
<1>10. r \in Seq(Char) /\ Len(r) = 3 /\ r[1] = x /\ r[2] = y /\ r[3] = z
  BY <1>3, <1>9, Tuples
<1>11. ASSUME NEW k \in 1 .. 3 PROVE t[k] = r[k]
  <2>1. k = 1 \/ k = 2 \/ k = 3
    OBVIOUS
  <2> QED  BY <1>8, <1>10, <2>1
<1>12. t = r
  BY <1>7, <1>10, <1>11, SeqEqual
<1> QED  BY <1>1, <1>4, <1>9, <1>12

LogPrefix(t) ==
  <<"[">> \o Decimal(t \div 1000)
  \o <<".", LowerDigits[(((t % 1000) \div 100) % 10) + 1],
       LowerDigits[(((t % 1000) \div 10) % 10) + 1], LowerDigits[((t % 1000) % 10) + 1], "]", " ">>

LEMMA DecimalTyped == ASSUME NEW v \in Nat PROVE Decimal(v) \in CharSeqs
<1>1. PICK u \in BOOLEAN : u = FALSE
  OBVIOUS
<1>2. Digits(v, 10, u) \in Seq(Char)
  BY DigitsTyped
<1> QED  BY <1>1, <1>2 DEF Decimal, CharSeqs

LEMMA Concat ==
  /\ \A s, t \in CharSeqs : s \o t \in CharSeqs
  /\ \A s, t, u \in CharSeqs : (s \o t) \o u = s \o (t \o u)
<1>1. ASSUME NEW s \in Seq(Char), NEW t \in Seq(Char) PROVE s \o t \in Seq(Char)
  BY ConcatProperties
<1>2. ASSUME NEW s \in Seq(Char), NEW t \in Seq(Char), NEW u \in Seq(Char)
      PROVE  (s \o t) \o u = s \o (t \o u)
  BY SMTT(30), ConcatAssociative
<1> QED  BY Zenon, <1>1, <1>2 DEF CharSeqs

LEMMA JoinChars ==
  ASSUME NEW a \in Char, NEW b \in Char, NEW c \in Char
  PROVE  (<<".">> \o <<a, b, c>>) \o <<"]", " ">> = <<".", a, b, c, "]", " ">>
<1>1. "." \in Char /\ "]" \in Char /\ " " \in Char
  BY Zenon, NamedChars
<1>2. MakeSix(".", a, b, c, "]", " ")
  BY Zenon, <1>1, JoinSix
<1> QED  BY Zenon, <1>2 DEF MakeSix

LEMMA PrefixIsStamp ==
  ASSUME NEW t \in Nat
  PROVE  LogPrefix(t) = Stamp(t) /\ Stamp(t) \in CharSeqs
<1> DEFINE m == t % 1000
           d == Decimal(t \div 1000)
           s == Padded(Decimal(m), 3, "0")
           a == LowerDigits[((m \div 100) % 10) + 1]
           b == LowerDigits[((m \div 10) % 10) + 1]
           c == LowerDigits[(m % 10) + 1]
           h == <<"[">>
           y == <<".">>
           e == <<"]", " ">>
<1>1. Stamp(t) = (((h \o d) \o y) \o s) \o e
  BY Zenon DEF Stamp, Decimal
<1>2. LogPrefix(t) = (h \o d) \o <<".", a, b, c, "]", " ">>
  BY Zenon DEF LogPrefix
<1>3. m \in 0 .. 999 /\ t \div 1000 \in Nat
  <2>1. \A x \in Nat : x % 1000 \in 0 .. 999
    OBVIOUS
  <2>2. \A x \in Nat : x \div 1000 \in Nat
    OBVIOUS
  <2> QED  BY <2>1, <2>2
<1>4. s = <<a, b, c>>
  <2> HIDE DEF m
  <2> QED  BY ZenonT(60), <1>3, ThreeDigits
<1>5. a \in Char /\ b \in Char /\ c \in Char
  <2> HIDE DEF m
  <2>1. /\ ((m \div 100) % 10) + 1 \in 1 .. 16 /\ ((m \div 10) % 10) + 1 \in 1 .. 16
        /\ (m % 10) + 1 \in 1 .. 16
    BY <1>3
  <2> QED  BY <2>1, Tables
<1>6. h \in CharSeqs /\ y \in CharSeqs /\ e \in CharSeqs
  BY Zenon, Literals
<1>7. d \in CharSeqs
  BY <1>3, DecimalTyped
<1>8. (y \o <<a, b, c>>) \o e = <<".", a, b, c, "]", " ">>
  <2> HIDE DEF a, b, c
  <2> QED  BY Zenon, <1>5, JoinChars
<1> HIDE DEF m, d, s, a, b, c, h, y, e
<1>9. s \in CharSeqs
  BY <1>4, <1>5, Tuples DEF CharSeqs
<1>10. h \o d \in CharSeqs /\ y \o s \in CharSeqs
  BY Zenon, <1>6, <1>7, <1>9, Concat
<1>11. ((h \o d) \o y) \o s = (h \o d) \o (y \o s)
  BY ZenonT(60), <1>6, <1>9, <1>10, Concat
<1>12. ((h \o d) \o (y \o s)) \o e = (h \o d) \o ((y \o s) \o e)
  BY ZenonT(60), <1>6, <1>10, Concat
<1>13. ((h \o d) \o (y \o s)) \o e \in CharSeqs
  BY Zenon, <1>6, <1>10, Concat
<1>14. (h \o d) \o ((y \o s) \o e) = (h \o d) \o <<".", a, b, c, "]", " ">>
  BY Zenon, <1>4, <1>8
<1> QED  BY Zenon, <1>1, <1>2, <1>11, <1>12, <1>13, <1>14

(***************************************************************************)
(* What emit_char does: the prefix if one is due, then the character.      *)
(***************************************************************************)
StType == [prefix_enabled : BOOLEAN, at_line_start : BOOLEAN, written : Nat, out : CharSeqs,
           stamps : Seq(Nat)]

Due(s) == s.prefix_enabled /\ s.at_line_start

Shows(s, c) == (IF Due(s) THEN Stamp(now) ELSE <<>>)
               \o (IF c = "\n" THEN <<"\r", "\n">> ELSE <<c>>)

Emitted(s, c, r) ==
  /\ r \in StType
  /\ r.out = s.out \o Shows(s, c) /\ r.written = s.written + Len(Shows(s, c))
  /\ r.prefix_enabled = s.prefix_enabled
  /\ r.at_line_start <=> c = "\n"
  /\ r.stamps = IF Due(s) THEN Append(s.stamps, Len(s.out) + 1) ELSE s.stamps

LEMMA LogPrefixDone ==
  ASSUME NEW s \in StType, now \in Nat, Due(s)
  PROVE  emit_log_prefix(s) = [s EXCEPT !.out = @ \o Stamp(now), !.written = @ + Len(Stamp(now)),
                                 !.at_line_start = FALSE, !.stamps = Append(@, Len(s.out) + 1)]
<1>1. LogPrefix(now) = Stamp(now)
  BY PrefixIsStamp
<1>2. emit_log_prefix(s) = [s EXCEPT !.out = @ \o LogPrefix(now), !.written = @ + Len(LogPrefix(now)),
                              !.at_line_start = FALSE, !.stamps = Append(@, Len(s.out) + 1)]
  BY DEF emit_log_prefix, Due, LogPrefix, Decimal
<1> QED  BY <1>1, <1>2

RawEmitted(s, c, b, r) ==
  /\ b \in CharSeqs /\ r \in StType
  /\ r.out = s.out \o b /\ r.written = s.written + Len(b)
  /\ r.prefix_enabled = s.prefix_enabled /\ r.stamps = s.stamps
  /\ r.at_line_start = IF c = "\n" THEN TRUE ELSE s.at_line_start

LEMMA RawChar ==
  ASSUME NEW s \in StType, NEW c \in Char, NEW b, b = IF c = "\n" THEN <<"\r", "\n">> ELSE <<c>>
  PROVE  RawEmitted(s, c, b, emit_raw_char(s, c))
<1>1. s.out \in Seq(Char) /\ s.written \in Nat /\ s.stamps \in Seq(Nat)
      /\ s.at_line_start \in BOOLEAN /\ s.prefix_enabled \in BOOLEAN
  BY DEF StType, CharSeqs
<1>2. PICK o, r : o = s.out \o b /\ r = emit_raw_char(s, c)
  OBVIOUS
<1>3. CASE c = "\n"
  <2>1. b = <<"\r", "\n">>
    BY <1>3
  <2>2. b \in CharSeqs /\ Len(b) = 2
    BY Zenon, <2>1, Literals
  <2>3. o \in CharSeqs
    BY <1>1, <1>2, <2>2, ConcatProperties DEF CharSeqs
  <2>4. r = [s EXCEPT !.out = o, !.written = s.written + 2, !.at_line_start = TRUE]
    BY <1>2, <1>3, <2>1 DEF emit_raw_char
  <2>5. /\ r \in StType /\ r.out = o /\ r.written = s.written + 2 /\ r.at_line_start = TRUE
        /\ r.prefix_enabled = s.prefix_enabled /\ r.stamps = s.stamps
    <3>1. s.written + 2 \in Nat
      BY <1>1
    <3> QED  BY ONLY <2>3, <2>4, <3>1, s \in StType DEF StType
  <2> QED  BY <1>2, <1>3, <2>2, <2>5 DEF RawEmitted
<1>4. CASE c # "\n"
  <2>1. b = <<c>>
    BY <1>4
  <2>2. b \in CharSeqs /\ Len(b) = 1
    BY <2>1, Tuples DEF CharSeqs
  <2>3. o = Append(s.out, c)
    BY <1>1, <1>2, <2>1, AppendIsConcat
  <2>4. o \in CharSeqs
    BY <1>1, <1>2, <2>2, ConcatProperties DEF CharSeqs
  <2>5. r = [s EXCEPT !.out = o, !.written = s.written + 1]
    BY <1>2, <1>4, <2>3 DEF emit_raw_char
  <2>6. /\ r \in StType /\ r.out = o /\ r.written = s.written + 1
        /\ r.at_line_start = s.at_line_start
        /\ r.prefix_enabled = s.prefix_enabled /\ r.stamps = s.stamps
    <3>1. s.written + 1 \in Nat
      BY <1>1
    <3> QED  BY ONLY <2>4, <2>5, <3>1, s \in StType DEF StType
  <2> QED  BY <1>2, <1>4, <2>2, <2>6 DEF RawEmitted
<1> QED  BY <1>3, <1>4

LEMMA EmitChar ==
  ASSUME NEW s \in StType, NEW c \in Char, now \in Nat
  PROVE  Emitted(s, c, emit_char(s, c))
<1>1. s.out \in Seq(Char) /\ s.written \in Nat /\ s.stamps \in Seq(Nat)
      /\ s.at_line_start \in BOOLEAN /\ s.prefix_enabled \in BOOLEAN
  BY DEF StType, CharSeqs
<1>2. PICK pre : pre = IF Due(s) THEN Stamp(now) ELSE <<>>
  OBVIOUS
<1>3. pre \in Seq(Char) /\ Len(pre) \in Nat
  <2>1. Stamp(now) \in Seq(Char) /\ <<>> \in Seq(Char)
    BY PrefixIsStamp, Tuples DEF CharSeqs
  <2>2. pre \in Seq(Char)
    BY <1>2, <2>1
  <2> QED  BY <2>2, LenProperties
<1>4. PICK q : q = emit_log_prefix(s)
  OBVIOUS
<1>5. /\ q \in StType /\ q.out = s.out \o pre /\ q.written = s.written + Len(pre)
      /\ q.prefix_enabled = s.prefix_enabled
      /\ q.stamps = IF Due(s) THEN Append(s.stamps, Len(s.out) + 1) ELSE s.stamps
  <2>1. CASE Due(s)
    <3>1. pre = Stamp(now)
      BY <1>2, <2>1
    <3>2. s.out \o pre \in Seq(Char)
      BY <1>1, <1>3, ConcatProperties
    <3>3. Append(s.stamps, Len(s.out) + 1) \in Seq(Nat)
      BY <1>1
    <3>4. q = [s EXCEPT !.out = @ \o pre, !.written = @ + Len(pre),
                 !.at_line_start = FALSE, !.stamps = Append(@, Len(s.out) + 1)]
      BY <1>4, <2>1, <3>1, LogPrefixDone
    <3>5. PICK o, z : o = s.out \o pre /\ z = Append(s.stamps, Len(s.out) + 1)
      OBVIOUS
    <3>6. q = [s EXCEPT !.out = o, !.written = s.written + Len(pre), !.at_line_start = FALSE,
                 !.stamps = z]
      BY <3>4, <3>5
    <3>7. o \in CharSeqs /\ z \in Seq(Nat) /\ s.written + Len(pre) \in Nat
      BY <1>1, <1>3, <3>2, <3>3, <3>5 DEF CharSeqs
    <3>8. /\ q \in StType /\ q.out = o /\ q.written = s.written + Len(pre)
          /\ q.prefix_enabled = s.prefix_enabled /\ q.stamps = z
      BY ONLY <3>6, <3>7, s \in StType DEF StType
    <3> QED  BY <2>1, <3>5, <3>8
  <2>2. CASE ~Due(s)
    <3>1. q = s
      BY <1>4, <2>2 DEF emit_log_prefix, Due
    <3>2. pre = <<>> /\ s.out \o pre = s.out /\ Len(pre) = 0
      BY <1>1, <1>2, <2>2, ConcatEmptySeq
    <3> QED  BY <1>1, <2>2, <3>1, <3>2
  <2> QED  BY <2>1, <2>2
<1>6. PICK b, r : b = (IF c = "\n" THEN <<"\r", "\n">> ELSE <<c>>) /\ r = emit_raw_char(q, c)
  OBVIOUS
<1>7. /\ b \in Seq(Char) /\ r \in StType /\ r.out = q.out \o b /\ r.written = q.written + Len(b)
      /\ r.prefix_enabled = q.prefix_enabled /\ r.stamps = q.stamps
      /\ r.at_line_start = IF c = "\n" THEN TRUE ELSE q.at_line_start
  <2>1. RawEmitted(q, c, b, r)
    BY Zenon, <1>5, <1>6, RawChar
  <2> QED  BY <2>1 DEF CharSeqs, RawEmitted
<1>8. PICK w : w = emit_char(s, c) /\ w = IF c # "\n" THEN [r EXCEPT !.at_line_start = FALSE] ELSE r
  BY <1>4, <1>6 DEF emit_char
<1>9. /\ w \in StType /\ w.out = r.out /\ w.written = r.written /\ w.stamps = r.stamps
      /\ w.prefix_enabled = r.prefix_enabled /\ (w.at_line_start <=> c = "\n")
  BY <1>7, <1>8 DEF StType
<1>10. Shows(s, c) = pre \o b
  BY <1>2, <1>6 DEF Shows
<1>11. (s.out \o pre) \o b = s.out \o (pre \o b) /\ Len(pre \o b) = Len(pre) + Len(b)
       /\ Len(b) \in Nat
  <2>1. (s.out \o pre) \o b = s.out \o (pre \o b)
    BY Zenon, <1>1, <1>3, <1>7, Concat DEF CharSeqs
  <2>2. Len(pre \o b) = Len(pre) + Len(b)
    BY <1>3, <1>7, ConcatProperties
  <2>3. Len(b) \in Nat
    BY <1>7, LenProperties
  <2> QED  BY <2>1, <2>2, <2>3
<1>12. w.written = s.written + Len(pre \o b)
  BY <1>1, <1>3, <1>5, <1>7, <1>9, <1>11
<1> QED  BY <1>5, <1>7, <1>8, <1>9, <1>10, <1>11, <1>12 DEF Emitted

(***************************************************************************)
(* Lines of a text, character by character.                                *)
(***************************************************************************)
LinesFrom(t, clock, f) ==
  f = [k \in 0 .. Len(clock) |-> IF k = 0 THEN <<>> ELSE f[k - 1] \o Piece(t, k, Stamp(clock[k]))]

LEMMA LinesIs ==
  ASSUME NEW t, NEW clock
  PROVE  Lines(t, clock) = CHOOSE f : LinesFrom(t, clock, f)
BY DEF Lines, LinesFrom

LEMMA LinesAt ==
  ASSUME NEW t, NEW clock, NEW f, LinesFrom(t, clock, f), NEW k \in 0 .. Len(clock)
  PROVE  f[k] = IF k = 0 THEN <<>> ELSE f[k - 1] \o Piece(t, k, Stamp(clock[k]))
<1>1. PICK h : h = [m \in 0 .. Len(clock) |->
                      IF m = 0 THEN <<>> ELSE f[m - 1] \o Piece(t, m, Stamp(clock[m]))]
  OBVIOUS
<1>2. f = h
  BY <1>1 DEF LinesFrom
<1> QED  BY <1>1, <1>2

LEMMA PieceTyped ==
  ASSUME NEW t \in CharSeqs, NEW stamp \in CharSeqs, NEW k \in 1 .. Len(t)
  PROVE  Piece(t, k, stamp) \in CharSeqs
<1>1. t[k] \in Char
  BY DEF CharSeqs
<1>2. PICK a, b : /\ a = (IF k = 1 \/ t[k - 1] = "\n" THEN stamp ELSE <<>>)
                  /\ b = (IF t[k] = "\n" THEN <<"\r", "\n">> ELSE <<t[k]>>)
  OBVIOUS
<1>3. a \in CharSeqs
  BY <1>2, Literals
<1>4. <<t[k]>> \in CharSeqs
  BY <1>1, Tuples DEF CharSeqs
<1>5. b \in CharSeqs
  BY <1>2, <1>4, Literals
<1>6. a \o b \in CharSeqs
  BY <1>3, <1>5, ConcatProperties DEF CharSeqs
<1> QED  BY <1>2, <1>6 DEF Piece

AreLines(t, clock, g) ==
  /\ g \in [0 .. Len(clock) -> CharSeqs] /\ g[0] = <<>>
  /\ \A k \in 1 .. Len(clock) : g[k] = g[k - 1] \o Piece(t, k, Stamp(clock[k]))

LEMMA LinesDef ==
  ASSUME NEW t \in CharSeqs, NEW clock \in Seq(Nat), Len(clock) <= Len(t)
  PROVE  AreLines(t, clock, Lines(t, clock))
<1>1. PICK n \in Nat : n = Len(clock)
  BY LenProperties
<1>2. PICK F : F = [k \in 1 .. n |-> [x \in CharSeqs |-> x \o Piece(t, k, Stamp(clock[k]))]]
  OBVIOUS
<1>3. F \in [1 .. n -> [CharSeqs -> CharSeqs]]
  <2>1. ASSUME NEW k \in 1 .. n, NEW x \in CharSeqs PROVE x \o Piece(t, k, Stamp(clock[k])) \in CharSeqs
    <3>1. clock[k] \in Nat /\ k \in 1 .. Len(t)
      BY <1>1, LenProperties DEF CharSeqs
    <3>2. Stamp(clock[k]) \in CharSeqs
      BY <3>1, PrefixIsStamp
    <3>3. Piece(t, k, Stamp(clock[k])) \in CharSeqs
      BY <3>1, <3>2, PieceTyped
    <3> QED  BY <3>3, ConcatProperties DEF CharSeqs
  <2> QED  BY <1>2, <2>1
<1>4. PICK f : Steps(CharSeqs, <<>>, F, n, f)
  <2>1. <<>> \in CharSeqs
    BY Literals
  <2> QED  BY <1>3, <2>1, StepsExist
<1>5. ASSUME NEW k \in 0 .. n
      PROVE  f[k] = IF k = 0 THEN <<>> ELSE f[k - 1] \o Piece(t, k, Stamp(clock[k]))
  <2>1. CASE k = 0
    BY <1>4, <2>1 DEF Steps
  <2>2. CASE k # 0
    <3>1. k \in 1 .. n /\ k - 1 \in 0 .. n
      BY <2>2
    <3>2. f[k] = F[k][f[k - 1]] /\ f[k - 1] \in CharSeqs
      BY <1>4, <3>1 DEF Steps
    <3> QED  BY <1>2, <2>2, <3>1, <3>2
  <2> QED  BY <2>1, <2>2
<1>6. LinesFrom(t, clock, f)
  <2>1. f \in [0 .. n -> CharSeqs]
    BY <1>4 DEF Steps
  <2> QED  BY <1>1, <1>5, <2>1 DEF LinesFrom
<1>7. PICK g : g = Lines(t, clock) /\ LinesFrom(t, clock, g)
  <2>1. PICK g : g = (CHOOSE h : LinesFrom(t, clock, h)) /\ LinesFrom(t, clock, g)
    BY <1>6
  <2> QED  BY <2>1, LinesIs
<1> DEFINE T == {k \in 0 .. n : g[k] # f[k]}
<1>8. T = {}
  <2>1. SUFFICES ASSUME T # {} PROVE FALSE
    OBVIOUS
  <2>2. PICK k \in T : \A y \in T : k <= y
    <3>1. T \in SUBSET Nat
      OBVIOUS
    <3> HIDE DEF T
    <3> QED  BY <2>1, <3>1, LeastOf
  <2>3. k \in 0 .. n /\ k \in 0 .. Len(clock) /\ g[k] # f[k]
    BY <1>1, <2>2
  <2>4. g[k] = IF k = 0 THEN <<>> ELSE g[k - 1] \o Piece(t, k, Stamp(clock[k]))
    BY ONLY <1>7, <2>3, LinesAt
  <2>5. k # 0 => k - 1 \in 0 .. n /\ k - 1 \notin T
    <3>1. k # 0 => k - 1 \in 0 .. n /\ ~(k <= k - 1)
      BY <2>3
    <3>2. k - 1 \in T => k <= k - 1
      <4> HIDE DEF T
      <4> QED  BY <2>2
    <3> QED  BY <3>1, <3>2
  <2>6. k # 0 => g[k - 1] = f[k - 1]
    BY <2>5
  <2> QED  BY <1>5, <2>3, <2>4, <2>6
<1>9. g = f
  <2>1. g = [k \in 0 .. n |-> g[k]]
    BY <1>1, <1>7 DEF LinesFrom
  <2>2. f = [k \in 0 .. n |-> f[k]]
    BY <1>4 DEF Steps
  <2> QED  BY <1>8, <2>1, <2>2
<1>10. f \in [0 .. n -> CharSeqs] /\ f[0] = <<>>
  BY <1>4 DEF Steps
<1>11. ASSUME NEW k \in 1 .. n PROVE f[k] = f[k - 1] \o Piece(t, k, Stamp(clock[k]))
  <2>1. k \in 0 .. n /\ k # 0
    OBVIOUS
  <2> QED  BY <1>5, <2>1
<1>12. AreLines(t, clock, f)
  BY <1>1, <1>10, <1>11 DEF AreLines
<1> QED  BY Zenon, <1>7, <1>9, <1>12

(***************************************************************************)
(* One more character: what the ones before it showed stays as it is.      *)
(***************************************************************************)
LEMMA LinesGrow ==
  ASSUME NEW t \in CharSeqs, NEW clock \in Seq(Nat), NEW x \in Nat, Len(clock) < Len(t)
  PROVE  Lines(t, Append(clock, x))[Len(clock) + 1]
           = Lines(t, clock)[Len(clock)] \o Piece(t, Len(clock) + 1, Stamp(x))
<1>1. PICK n, d : n = Len(clock) /\ d = Append(clock, x) /\ n \in Nat
  BY LenProperties
<1>2. d \in Seq(Nat) /\ Len(d) = n + 1 /\ d[n + 1] = x /\ \A k \in 1 .. n : d[k] = clock[k]
  BY <1>1, AppendProperties
<1>3. PICK f, g : f = Lines(t, clock) /\ g = Lines(t, d)
  OBVIOUS
<1>4. Len(t) \in Nat
  BY LenProperties DEF CharSeqs
<1>5. AreLines(t, clock, f)
  <2>1. Len(clock) <= Len(t)
    BY <1>1, <1>4
  <2> QED  BY Zenon, <1>3, <2>1, LinesDef
<1>6. AreLines(t, d, g)
  <2>1. Len(d) <= Len(t)
    BY <1>1, <1>2, <1>4
  <2> QED  BY Zenon, <1>2, <1>3, <2>1, LinesDef
<1> DEFINE T == {k \in 0 .. n : g[k] # f[k]}
<1>7. T = {}
  <2>1. SUFFICES ASSUME T # {} PROVE FALSE
    OBVIOUS
  <2>2. PICK k \in T : \A y \in T : k <= y
    <3>1. T \in SUBSET Nat
      OBVIOUS
    <3> HIDE DEF T
    <3> QED  BY <2>1, <3>1, LeastOf
  <2>3. k \in 0 .. n /\ g[k] # f[k]
    BY <2>2
  <2>4. k # 0
    <3>1. f[0] = <<>> /\ g[0] = <<>>
      BY Zenon, <1>5, <1>6 DEF AreLines
    <3> QED  BY <2>3, <3>1
  <2>5. k \in 1 .. n /\ k \in 1 .. n + 1 /\ k - 1 \in 0 .. n /\ ~(k <= k - 1)
    BY <1>1, <2>3, <2>4
  <2>6. k - 1 \in T => k <= k - 1
    <3> HIDE DEF T
    <3> QED  BY <2>2
  <2>7. g[k - 1] = f[k - 1]
    BY <2>5, <2>6
  <2>8. f[k] = f[k - 1] \o Piece(t, k, Stamp(clock[k]))
    BY <1>1, <1>5, <2>5 DEF AreLines
  <2>9. g[k] = g[k - 1] \o Piece(t, k, Stamp(d[k]))
    BY <1>2, <1>6, <2>5 DEF AreLines
  <2>10. d[k] = clock[k]
    BY <1>2, <2>5
  <2> QED  BY ONLY <2>3, <2>7, <2>8, <2>9, <2>10
<1>8. g[n] = f[n]
  <2>1. n \in 0 .. n
    BY <1>1
  <2> QED  BY <1>7, <2>1
<1>9. g[n + 1] = g[(n + 1) - 1] \o Piece(t, n + 1, Stamp(d[n + 1])) /\ (n + 1) - 1 = n
  <2>1. n + 1 \in 1 .. n + 1 /\ (n + 1) - 1 = n
    BY <1>1
  <2>2. \A k \in 1 .. n + 1 : g[k] = g[k - 1] \o Piece(t, k, Stamp(d[k]))
    BY <1>2, <1>6 DEF AreLines
  <2> QED  BY ONLY <2>1, <2>2
<1>10. g[n + 1] = f[n] \o Piece(t, n + 1, Stamp(x))
  BY ONLY <1>2, <1>8, <1>9
<1> QED  BY ONLY <1>1, <1>3, <1>10

-----------------------------------------------------------------------------
(***************************************************************************)
(* The text of a conversion.                                               *)
(***************************************************************************)
Number(p, v, base, uppercase) == emit_unsigned(v, base, uppercase, WidthOf(p.digits), PadOf(p))

LEMMA PartTexts ==
  ASSUME NEW p
  PROVE  /\ p.letter = "%" => PartText(p) = <<"%">>
         /\ p.letter = "c" => PartText(p) = <<Head(p.rest)>>
         /\ p.letter = "s" => PartText(p) = emit_padded_string(Head(p.rest), WidthOf(p.digits), PadOf(p))
         /\ p.letter \in {"d", "i"} =>
              PartText(p) = LET v == get_signed_arg(Head(p.rest), p.length)
                            IN  IF v < 0 THEN <<"-">> \o Number(p, -v, 10, FALSE)
                                ELSE Number(p, v, 10, FALSE)
         /\ p.letter = "u" => PartText(p) = Number(p, get_unsigned_arg(Head(p.rest), p.length), 10, FALSE)
         /\ p.letter = "x" => PartText(p) = Number(p, get_unsigned_arg(Head(p.rest), p.length), 16, FALSE)
         /\ p.letter = "X" => PartText(p) = Number(p, get_unsigned_arg(Head(p.rest), p.length), 16, TRUE)
         /\ p.letter = "p" => PartText(p) = <<"0", "x">> \o emit_unsigned(Head(p.rest), 16, FALSE, PtrDigits, "0")
         /\ p.letter \notin {"%", "c", "s", "d", "i", "u", "x", "X", "p"} =>
              PartText(p) = <<"%", p.letter>>
BY DEF PartText, Number

IsConv(p) ==
  /\ p.zero \in BOOLEAN /\ p.digits \in Seq(DigitChars) /\ p.length \in DOMAIN Modifier
  /\ p.letter \in Letters
  /\ UsesArg(p.letter) => TypedArg(p)

LEMMA ConvWidth ==
  ASSUME NEW p, IsConv(p)
  PROVE  WidthOf(p.digits) \in Nat /\ PadOf(p) \in Pads /\ PadOf(p) \in Char
<1>1. PICK t : t = p.digits /\ t \in Seq(DigitChars)
  BY DEF IsConv
<1>2. WidthFcn(t) \in [0 .. Len(t) -> Nat] /\ Len(t) \in 0 .. Len(t)
  BY <1>1, WidthDef, LenProperties
<1>3. WidthOf(t) \in Nat
  BY <1>2, WidthOfIs
<1>4. PadOf(p) \in Pads
  BY DEF PadOf, Pads
<1> QED  BY <1>1, <1>3, <1>4, PadsAreChars

(***************************************************************************)
(* The number that the length modifier selects from the argument.          *)
(***************************************************************************)
LEMMA ArgValues ==
  ASSUME NEW p, IsConv(p), p.letter \in Numeric
  PROVE  LET a == Head(p.rest)
             u == a % Span[p.length]
         IN  /\ a \in Nat /\ Span[p.length] \in Nat \ {0} /\ u \in 0 .. Span[p.length] - 1
             /\ get_unsigned_arg(a, p.length) = u
             /\ get_signed_arg(a, p.length) = IF 2 * u >= Span[p.length] THEN u - Span[p.length] ELSE u
<1>1. Head(p.rest) \in Nat
  BY DEF IsConv, UsesArg, TypedArg
<1>2. p.length \in DOMAIN Span
  BY Modifiers, PrintkAssumption DEF IsConv, PrintkAssumption
<1>3. Span[p.length] \in Nat \ {0}
  BY <1>2, PrintkAssumption DEF PrintkAssumption
<1>4. \A a \in Nat, n \in Nat \ {0} : a % n \in 0 .. n - 1
  OBVIOUS
<1>5. Head(p.rest) % Span[p.length] \in 0 .. Span[p.length] - 1
  BY <1>1, <1>3, <1>4
<1> QED  BY <1>1, <1>3, <1>5 DEF get_unsigned_arg, get_signed_arg

(***************************************************************************)
(* What a numeric conversion prints, with u the selected bits.             *)
(***************************************************************************)
ShowsNumber(t, p) ==
  LET u == Head(p.rest) % Span[p.length]
      negative == p.letter \in {"d", "i"} /\ 2 * u >= Span[p.length]
      base == IF p.letter \in {"x", "X"} THEN 16 ELSE 10
  IN  IF negative
        THEN t # <<>> /\ t[1] = "-"
             /\ IsNumber(Tail(t), Span[p.length] - u, 10, FALSE, WidthOf(p.digits), PadOf(p))
        ELSE IsNumber(t, u, base, p.letter = "X", WidthOf(p.digits), PadOf(p))

LEMMA NumberPart ==
  ASSUME NEW p, IsConv(p), p.letter \in {"d", "i", "u", "x", "X"}
  PROVE  PartText(p) \in CharSeqs /\ ShowsNumber(PartText(p), p)
<1>1. PICK u, s, a, w, pad : /\ a = Head(p.rest) /\ s = Span[p.length] /\ u = a % s
                             /\ w = WidthOf(p.digits) /\ pad = PadOf(p)
  OBVIOUS
<1>2. p.letter \in Numeric
  BY DEF Numeric
<1>3. /\ a \in Nat /\ s \in Nat \ {0} /\ u \in 0 .. s - 1
      /\ get_unsigned_arg(a, p.length) = u
      /\ get_signed_arg(a, p.length) = IF 2 * u >= s THEN u - s ELSE u
  BY <1>1, <1>2, ArgValues
<1>4. w \in Nat /\ pad \in Pads
  BY <1>1, ConvWidth
<1>5. ASSUME NEW v \in Nat, NEW base \in {10, 16}, NEW uppercase \in BOOLEAN
      PROVE  /\ Number(p, v, base, uppercase) \in CharSeqs
             /\ IsNumber(Number(p, v, base, uppercase), v, base, uppercase, w, pad)
  BY Zenon, <1>1, <1>4, NumberText DEF Number, CharSeqs
<1>6. u \in Nat
  BY <1>3
<1>7. CASE p.letter \in {"d", "i"} /\ 2 * u >= s
  <2>1. PICK v \in Nat : v = s - u
    BY <1>3
  <2>2. get_signed_arg(a, p.length) < 0 /\ -get_signed_arg(a, p.length) = v
    BY <1>3, <1>7, <2>1
  <2>3. PICK t : t = Number(p, v, 10, FALSE) /\ t \in CharSeqs /\ IsNumber(t, v, 10, FALSE, w, pad)
    BY <1>5
  <2>4. PartText(p) = <<"-">> \o t
    BY <1>1, <1>7, <2>2, <2>3, PartTexts
  <2>5. <<"-">> \o t \in CharSeqs /\ <<"-">> \o t # <<>> /\ (<<"-">> \o t)[1] = "-"
        /\ Tail(<<"-">> \o t) = t
    <3>0. PICK h : h = <<"-">>
      OBVIOUS
    <3>1. h = <<"-">> /\ h \in Seq(Char) /\ Len(h) = 1 /\ h[1] = "-"
      BY Zenon, <3>0, NamedChars, Tuples
    <3>2. PICK r : r = h \o t
      OBVIOUS
    <3>3. /\ r \in Seq(Char) /\ Len(r) = 1 + Len(t) /\ Len(t) \in Nat
          /\ \A k \in 1 .. 1 + Len(t) : r[k] = IF k <= 1 THEN h[k] ELSE t[k - 1]
      BY ZenonT(60), <2>3, <3>1, <3>2, ConcatProperties, LenProperties DEF CharSeqs
    <3>4. r # <<>> /\ r[1] = "-"
      BY <3>1, <3>3
    <3>5. Tail(r) \in Seq(Char) /\ Len(Tail(r)) = Len(t) /\ \A k \in 1 .. Len(t) : Tail(r)[k] = t[k]
      <4>1. /\ Tail(r) \in Seq(Char) /\ Len(Tail(r)) = Len(r) - 1
            /\ \A k \in 1 .. Len(Tail(r)) : Tail(r)[k] = r[k + 1]
        BY <3>3, <3>4, HeadTailProperties
      <4>2. ASSUME NEW k \in 1 .. Len(t) PROVE r[k + 1] = t[k]
        <5>1. k + 1 \in 1 .. 1 + Len(t) /\ ~(k + 1 <= 1) /\ (k + 1) - 1 = k
          BY <3>3
        <5> QED  BY <3>3, <5>1
      <4> QED  BY <3>3, <4>1, <4>2
    <3>6. Tail(r) = t
      BY <2>3, <3>5, SeqEqual DEF CharSeqs
    <3> QED  BY <3>1, <3>2, <3>3, <3>4, <3>6 DEF CharSeqs
  <2> QED  BY Zenon, <1>1, <1>7, <2>1, <2>3, <2>4, <2>5 DEF ShowsNumber
<1>8. CASE ~(p.letter \in {"d", "i"} /\ 2 * u >= s)
  <2>1. PICK base, uppercase : base = (IF p.letter \in {"x", "X"} THEN 16 ELSE 10)
                               /\ uppercase = (p.letter = "X")
    OBVIOUS
  <2>2. base \in {10, 16} /\ uppercase \in BOOLEAN
    BY <2>1
  <2>3. PartText(p) = Number(p, u, base, uppercase)
    <3>1. CASE p.letter \in {"d", "i"}
      <4>1. get_signed_arg(a, p.length) = u /\ ~(u < 0)
        BY <1>3, <1>6, <1>8, <3>1
      <4>2. base = 10 /\ uppercase = FALSE
        BY <2>1, <3>1
      <4>3. PartText(p) = LET v == get_signed_arg(a, p.length)
                          IN  IF v < 0 THEN <<"-">> \o Number(p, -v, 10, FALSE)
                              ELSE Number(p, v, 10, FALSE)
        BY <1>1, <3>1, PartTexts
      <4> QED  BY <4>1, <4>2, <4>3
    <3>2. CASE p.letter = "u"
      <4>1. base = 10 /\ uppercase = FALSE
        BY <2>1, <3>2
      <4> QED  BY <1>1, <1>3, <3>2, <4>1, PartTexts
    <3>3. CASE p.letter = "x"
      <4>1. base = 16 /\ uppercase = FALSE
        BY <2>1, <3>3
      <4> QED  BY <1>1, <1>3, <3>3, <4>1, PartTexts
    <3>4. CASE p.letter = "X"
      <4>1. base = 16 /\ uppercase = TRUE
        BY <2>1, <3>4
      <4> QED  BY <1>1, <1>3, <3>4, <4>1, PartTexts
    <3> QED  BY <3>1, <3>2, <3>3, <3>4
  <2>4. PartText(p) \in CharSeqs /\ IsNumber(PartText(p), u, base, uppercase, w, pad)
    BY <1>5, <1>6, <2>2, <2>3
  <2> QED  BY <1>1, <1>8, <2>1, <2>4 DEF ShowsNumber
<1> QED  BY <1>7, <1>8

LEMMA TextTyped ==
  ASSUME NEW p, IsConv(p)
  PROVE  PartText(p) \in CharSeqs
<1>1. p.letter \in Char
  BY DEF IsConv, Letters
<1>2. CASE p.letter \in {"d", "i", "u", "x", "X"}
  BY <1>2, NumberPart
<1>3. CASE p.letter = "%"
  BY <1>3, PartTexts, Literals
<1>4. CASE p.letter = "c"
  <2>1. Head(p.rest) \in Char
    BY <1>4 DEF IsConv, UsesArg, TypedArg
  <2>2. <<Head(p.rest)>> \in CharSeqs
    BY <2>1, Tuples DEF CharSeqs
  <2> QED  BY <1>4, <2>2, PartTexts
<1>5. CASE p.letter = "s"
  <2>1. Head(p.rest) = Null \/ Head(p.rest) \in Seq(Char)
    BY <1>5 DEF IsConv, UsesArg, TypedArg
  <2>2. PICK s : s = IF Head(p.rest) = Null THEN <<"(", "n", "u", "l", "l", ")">> ELSE Head(p.rest)
    OBVIOUS
  <2>3. s \in Seq(Char)
    BY <2>1, <2>2, Literals DEF CharSeqs
  <2>4. Padded(s, WidthOf(p.digits), PadOf(p)) \in Seq(Char)
    BY <2>3, ConvWidth, PaddedIs DEF IsPadded
  <2>5. emit_padded_string(Head(p.rest), WidthOf(p.digits), PadOf(p)) \in CharSeqs
    BY <2>2, <2>4 DEF emit_padded_string, CharSeqs
  <2> QED  BY <1>5, <2>5, PartTexts
<1>6. CASE p.letter = "p"
  <2>1. Head(p.rest) \in Nat
    BY <1>6 DEF IsConv, UsesArg, TypedArg, Numeric
  <2>2. PtrDigits \in Nat /\ "0" \in Pads /\ 16 \in {10, 16} /\ FALSE \in BOOLEAN
    BY PrintkAssumption DEF PrintkAssumption, Pads
  <2>3. PICK t : t = emit_unsigned(Head(p.rest), 16, FALSE, PtrDigits, "0") /\ t \in Seq(Char)
    BY <2>1, <2>2, NumberText
  <2>4. <<"0", "x">> \in Seq(Char)
    <3>1. "0" \in Char /\ "x" \in Char
      BY Zenon, <2>2, PadsAreChars, NamedChars DEF Pads
    <3> QED  BY <3>1, Tuples
  <2>5. <<"0", "x">> \o t \in CharSeqs
    BY <2>3, <2>4, ConcatProperties DEF CharSeqs
  <2> QED  BY <1>6, <2>3, <2>5, PartTexts
<1>7. CASE p.letter \notin {"%", "c", "s", "d", "i", "u", "x", "X", "p"}
  <2>1. <<"%", p.letter>> \in CharSeqs
    BY Zenon, <1>1, NamedChars, Tuples DEF CharSeqs
  <2> QED  BY <1>7, <2>1, PartTexts
<1> QED  BY <1>2, <1>3, <1>4, <1>5, <1>6, <1>7

(***************************************************************************)
(* A number has no line end in it.                                         *)
(***************************************************************************)
LEMMA NoBreak ==
  ASSUME NEW p, IsConv(p), p.letter \in {"d", "i", "u", "x", "X"}, NEW k \in 1 .. Len(PartText(p))
  PROVE  PartText(p)[k] # "\n"
<1>1. PICK t : t = PartText(p) /\ t \in Seq(Char) /\ ShowsNumber(t, p)
  BY NumberPart DEF CharSeqs
<1>2. \A d \in 1 .. 16 : LowerDigits[d] # "\n" /\ UpperDigits[d] # "\n"
  BY SMTT(30) DEF LowerDigits, UpperDigits
<1>3. PadOf(p) # "\n"
  BY DEF PadOf
<1>4. ASSUME NEW s \in Seq(Char), NEW v, NEW base \in {10, 16}, NEW uppercase, NEW w,
             IsNumber(s, v, base, uppercase, w, PadOf(p)), NEW e \in 1 .. Len(s)
      PROVE  s[e] # "\n"
  <2>1. Len(s) \in Nat
    BY LenProperties
  <2>2. PICK n \in 1 .. Len(s) :
              /\ \A j \in 1 .. Len(s) - n : s[j] = PadOf(p)
              /\ \A j \in Len(s) - n + 1 .. Len(s) :
                   \E d \in 1 .. base : s[j] = (IF uppercase THEN UpperDigits ELSE LowerDigits)[d]
    BY <1>4 DEF IsNumber
  <2>3. e \in 1 .. Len(s) - n \/ e \in Len(s) - n + 1 .. Len(s)
    BY <2>1, <2>2
  <2>4. CASE e \in 1 .. Len(s) - n
    BY <1>3, <2>2, <2>4
  <2>5. CASE e \in Len(s) - n + 1 .. Len(s)
    <3>1. PICK d \in 1 .. base : s[e] = (IF uppercase THEN UpperDigits ELSE LowerDigits)[d]
      BY <2>2, <2>5
    <3>2. d \in 1 .. 16
      BY <3>1
    <3> QED  BY <1>2, <3>1, <3>2
  <2> QED  BY <2>3, <2>4, <2>5
<1>5. Len(t) \in Nat /\ k \in 1 .. Len(t)
  BY <1>1, LenProperties
<1>6. PICK u : u = Head(p.rest) % Span[p.length]
  OBVIOUS
<1>7. CASE p.letter \in {"d", "i"} /\ 2 * u >= Span[p.length]
  <2>1. t # <<>> /\ t[1] = "-"
        /\ IsNumber(Tail(t), Span[p.length] - u, 10, FALSE, WidthOf(p.digits), PadOf(p))
    BY <1>1, <1>6, <1>7 DEF ShowsNumber
  <2>2. /\ Tail(t) \in Seq(Char) /\ Len(Tail(t)) = Len(t) - 1
        /\ \A j \in 1 .. Len(Tail(t)) : Tail(t)[j] = t[j + 1]
    BY <1>1, <2>1, HeadTailProperties
  <2>3. CASE k = 1
    BY <1>1, <2>1, <2>3
  <2>4. CASE k # 1
    <3>1. k - 1 \in 1 .. Len(Tail(t)) /\ (k - 1) + 1 = k
      BY <1>5, <2>2, <2>4
    <3>2. Tail(t)[k - 1] # "\n"
      BY <1>4, <2>1, <2>2, <3>1
    <3> QED  BY <1>1, <2>2, <3>1, <3>2
  <2> QED  BY <2>3, <2>4
<1>8. CASE ~(p.letter \in {"d", "i"} /\ 2 * u >= Span[p.length])
  <2>1. PICK base : base = IF p.letter \in {"x", "X"} THEN 16 ELSE 10
    OBVIOUS
  <2>2. IsNumber(t, u, base, p.letter = "X", WidthOf(p.digits), PadOf(p)) /\ base \in {10, 16}
    BY <1>1, <1>6, <1>8, <2>1 DEF ShowsNumber
  <2> QED  BY <1>1, <1>4, <1>5, <2>2
<1> QED  BY <1>7, <1>8

-----------------------------------------------------------------------------
(***************************************************************************)
(* The invariant.  The running call is at part k of what its caller means, *)
(* with the first m characters of the text on the console and the rest of  *)
(* the part in text.                                                       *)
(***************************************************************************)
KindOK(f, s) ==
  \/ f = "klog" /\ s.kind = "message"
  \/ /\ f = "kprintf" /\ s.kind = "number"
     /\ Len(s.parts) = 2 /\ s.parts[1].kind = "conversion"
     /\ s.parts[1].letter \in {"d", "i", "u", "x", "X"}

(***************************************************************************)
(* CallMeans, with the arguments that the first part names.                *)
(***************************************************************************)
Meaning(f, s) == CallMeans([fmt |-> f, spec |-> s, args |-> s.parts[1].rest])

Shown(m) == IF fn = "klog" THEN Lines(spec.text, when)[m] ELSE SubSeq(spec.text, 1, m)

TextDone(m) ==
  /\ Len(when) = m /\ Output = Shown(m) /\ st.written = Len(Output)
  /\ st.at_line_start <=> (m = 0 \/ spec.text[m] = "\n")

CallAt(k, m) ==
  /\ k \in 1 .. Len(spec.parts) /\ m \in 0 .. Len(spec.text)
  /\ pos = spec.parts[k].at /\ args = spec.parts[k].rest
  /\ m + Len(text) = spec.parts[k].off
  /\ \A j \in 1 .. Len(text) : text[j] = spec.text[m + j]
  /\ TextDone(m)

CallInv ==
  fn # "none" /\ ~panicked =>
    /\ Meaning(fmt, spec) /\ KindOK(fn, spec)
    /\ \E k \in 1 .. Len(spec.parts), m \in 0 .. Len(spec.text) : CallAt(k, m)

FreshLine == st.out = <<>> \/ st.out[Len(st.out)] = "\n"

StampsOK ==
  \A j \in 1 .. Len(st.stamps) :
    /\ st.stamps[j] \in 1 .. Len(st.out)
    /\ st.stamps[j] = 1 \/ st.out[st.stamps[j] - 1] = "\n"

(***************************************************************************)
(* kpanic's empty line prints no prefix, so it may start anywhere.         *)
(***************************************************************************)
LineInv ==
  /\ StampsOK
  /\ fn = "klog" /\ st.at_line_start /\ ~(panicked /\ fmt = <<>>) => FreshLine
  /\ fn = "none" /\ script # <<>> /\ script[1].fn = "klog" /\ ~(panicked /\ script[1].fmt = <<>>)
       => FreshLine

EmptyLine == [fn |-> "klog", fmt |-> <<>>,    args |-> <<>>, spec |-> NoSpec]
Banner    == [fn |-> "klog", fmt |-> <<"-">>, args |-> <<>>, spec |-> NoSpec]

ScriptInv ==
  IF panicked
    THEN /\ script \in {<<EmptyLine, Banner>>, <<Banner>>, <<>>}
         /\ spec = NoSpec /\ text = <<>> /\ fn # "kprintf"
         /\ fn = "klog" => fmt \in {<<>>, <<"-">>}
    ELSE /\ ScriptOK(script)
         /\ fn = "kprintf" /\ script # <<>> => script[1].fn = "kprintf"

TypeInv ==
  /\ st \in StType /\ now \in Nat /\ when \in Seq(Nat) /\ start \in 0 .. Len(st.out)
  /\ text \in CharSeqs /\ fmt \in CharSeqs /\ pos \in 1 .. Len(fmt) + 1
  /\ panicked \in BOOLEAN /\ fn \in {"none", "klog", "kprintf"}
  /\ fn = "none" => text = <<>>
  /\ fn # "none" => (st.prefix_enabled <=> fn = "klog")

ResultInv ==
  Returned =>
    /\ ~panicked /\ Meaning(fmt, spec)
    /\ spec.kind = "message" =>
         /\ Len(when) = Len(spec.text)
         /\ Output = Lines(spec.text, when)[Len(when)] \o <<"\r", "\n">>
         /\ ret = Len(Output)
    /\ spec.kind = "number" => KindOK("kprintf", spec) /\ Output = spec.text

PInv == TypeInv /\ ScriptInv /\ CallInv /\ LineInv /\ ResultInv

-----------------------------------------------------------------------------
LEMMA IsSeqTyped == ASSUME NEW s, IsSeq(s) PROVE \E S : s \in Seq(S)
<1>1. PICK n \in Nat : n = Len(s)
  BY DEF IsSeq
<1>2. PICK S : S = {s[j] : j \in 1 .. n}
  OBVIOUS
<1>3. PICK g : g = [j \in 1 .. n |-> s[j]]
  OBVIOUS
<1>4. g \in [1 .. n -> S]
  BY <1>2, <1>3
<1>5. g = s
  BY <1>1, <1>3 DEF IsSeq
<1>6. s \in Seq(S)
  BY <1>1, <1>4, <1>5, FcnIsSeq
<1> QED  BY <1>6

(***************************************************************************)
(* What a call has printed grows by what is printed next.                  *)
(***************************************************************************)
LEMMA OutputGrows ==
  ASSUME NEW s \in CharSeqs, NEW x \in CharSeqs, NEW n \in 0 .. Len(s)
  PROVE  /\ SubSeq(s, n + 1, Len(s)) \in CharSeqs
         /\ SubSeq(s \o x, n + 1, Len(s \o x)) = SubSeq(s, n + 1, Len(s)) \o x
<1>1. PICK a, b : a = Len(s) /\ b = Len(x)
  OBVIOUS
<1>2. a \in Nat /\ b \in Nat /\ s \in Seq(Char) /\ x \in Seq(Char)
  BY <1>1, LenProperties DEF CharSeqs
<1>3. PICK t : t = s \o x
  OBVIOUS
<1>4. t \in Seq(Char) /\ Len(t) = a + b
      /\ \A k \in 1 .. a + b : t[k] = IF k <= a THEN s[k] ELSE x[k - a]
  BY <1>1, <1>2, <1>3, ConcatProperties
<1>5. PICK u, v : u = SubSeq(s, n + 1, a) /\ v = SubSeq(t, n + 1, a + b)
  OBVIOUS
<1>6. u \in Seq(Char) /\ Len(u) = a - n /\ \A k \in 1 .. a - n : u[k] = s[n + k]
  <2>1. \A k \in n + 1 .. a : s[k] \in Char
    BY <1>1, <1>2
  <2>2. n + 1 \in Int /\ a \in Int
    BY <1>2
  <2>3. /\ u \in Seq(Char) /\ Len(u) = (IF n + 1 <= a THEN a - (n + 1) + 1 ELSE 0)
        /\ \A k \in 1 .. a - (n + 1) + 1 : u[k] = s[(n + 1) + k - 1]
    BY <1>5, <2>1, <2>2, SubSeqProperties
  <2> QED  BY <1>1, <1>2, <2>3
<1>7. v \in Seq(Char) /\ Len(v) = (a + b) - n /\ \A k \in 1 .. (a + b) - n : v[k] = t[n + k]
  <2>1. \A k \in n + 1 .. a + b : t[k] \in Char
    BY <1>2, <1>4
  <2>2. n + 1 \in Int /\ a + b \in Int
    BY <1>2
  <2>3. /\ v \in Seq(Char) /\ Len(v) = (IF n + 1 <= a + b THEN (a + b) - (n + 1) + 1 ELSE 0)
        /\ \A k \in 1 .. (a + b) - (n + 1) + 1 : v[k] = t[(n + 1) + k - 1]
    BY <1>5, <2>1, <2>2, SubSeqProperties
  <2> QED  BY <1>1, <1>2, <2>3
<1>8. PICK w : w = u \o x
  OBVIOUS
<1>9. w \in Seq(Char) /\ Len(w) = (a - n) + b
      /\ \A k \in 1 .. (a - n) + b : w[k] = IF k <= a - n THEN u[k] ELSE x[k - (a - n)]
  BY <1>1, <1>2, <1>6, <1>8, ConcatProperties
<1>10. ASSUME NEW k \in 1 .. (a + b) - n PROVE v[k] = w[k]
  <2>1. k \in 1 .. (a - n) + b /\ n + k \in 1 .. a + b /\ (n + k <= a <=> k <= a - n)
        /\ (n + k) - a = k - (a - n)
    BY <1>1, <1>2
  <2>2. v[k] = IF k <= a - n THEN s[n + k] ELSE x[k - (a - n)]
    BY <1>4, <1>7, <2>1
  <2>3. k <= a - n => u[k] = s[n + k]
    BY <1>6, <2>1
  <2> QED  BY <1>9, <2>1, <2>2, <2>3
<1>11. v = w
  <2>1. Len(v) = Len(w) /\ \A k \in 1 .. Len(v) : v[k] = w[k]
    BY <1>1, <1>2, <1>7, <1>9, <1>10
  <2> QED  BY <1>7, <1>9, <2>1, SeqEqual
<1> QED  BY <1>1, <1>3, <1>4, <1>5, <1>6, <1>8, <1>11 DEF CharSeqs

LEMMA ShowsTyped ==
  ASSUME NEW s, NEW c \in Char, now \in Nat
  PROVE  /\ Shows(s, c) \in CharSeqs /\ Len(Shows(s, c)) \in Nat \ {0}
         /\ c = "\n" => Shows(s, c)[Len(Shows(s, c))] = "\n"
<1>1. PICK a, b : /\ a = (IF Due(s) THEN Stamp(now) ELSE <<>>)
                  /\ b = (IF c = "\n" THEN <<"\r", "\n">> ELSE <<c>>)
  OBVIOUS
<1>2. a \in Seq(Char) /\ Len(a) \in Nat
  <2>1. Stamp(now) \in Seq(Char) /\ <<>> \in Seq(Char)
    BY PrefixIsStamp, Tuples DEF CharSeqs
  <2>2. a \in Seq(Char)
    BY <1>1, <2>1
  <2> QED  BY <2>2, LenProperties
<1>3. b \in Seq(Char) /\ Len(b) \in 1 .. 2 /\ (c = "\n" => b[Len(b)] = "\n")
  <2>1. CASE c = "\n"
    <3>1. b = <<"\r", "\n">>
      BY <1>1, <2>1
    <3>2. b \in Seq(Char) /\ Len(b) = 2 /\ b[2] = "\n"
      BY Zenon, <3>1, Literals DEF CharSeqs
    <3> QED  BY <3>2
  <2>2. CASE c # "\n"
    <3>1. b = <<c>>
      BY <1>1, <2>2
    <3>2. b \in Seq(Char) /\ Len(b) = 1
      BY <3>1, Tuples
    <3> QED  BY <2>2, <3>2
  <2> QED  BY <2>1, <2>2
<1>4. PICK x : x = a \o b
  OBVIOUS
<1>5. x \in Seq(Char) /\ Len(x) = Len(a) + Len(b)
      /\ \A k \in 1 .. Len(a) + Len(b) : x[k] = IF k <= Len(a) THEN a[k] ELSE b[k - Len(a)]
  BY <1>2, <1>3, <1>4, ConcatProperties
<1>6. Len(x) \in Nat \ {0} /\ x[Len(x)] = b[Len(b)]
  <2>1. Len(a) + Len(b) \in 1 .. Len(a) + Len(b) /\ ~(Len(a) + Len(b) <= Len(a))
        /\ (Len(a) + Len(b)) - Len(a) = Len(b)
    BY SMTT(30), <1>2, <1>3
  <2> QED  BY <1>2, <1>3, <1>5, <2>1
<1>7. Shows(s, c) = x
  BY <1>1, <1>4 DEF Shows
<1> QED  BY <1>3, <1>5, <1>6, <1>7 DEF CharSeqs

(***************************************************************************)
(* One character goes out, through emit_char on the state s.               *)
(***************************************************************************)
Goes(s, c) ==
  /\ Emitted(s, c, st') /\ Shows(s, c) \in CharSeqs
  /\ StampsOK' /\ (c = "\n" => FreshLine') /\ start' \in 0 .. Len(st'.out)
  /\ Output \in CharSeqs /\ Output' = Output \o Shows(s, c)

LEMMA EmitLine ==
  ASSUME st \in StType, now \in Nat, StampsOK, start \in 0 .. Len(st.out), start' = start,
         NEW s \in StType, s.out = st.out, s.stamps = st.stamps, Due(s) => FreshLine,
         NEW c \in Char, st' = emit_char(s, c)
  PROVE  Goes(s, c)
<1>1. PICK o, x, p : o = st.out /\ x = Shows(s, c) /\ p = st'.out
  OBVIOUS
<1>2. Emitted(s, c, st')
  BY EmitChar
<1>3. /\ p = o \o x /\ (st'.at_line_start <=> c = "\n")
      /\ st'.stamps = IF Due(s) THEN Append(st.stamps, Len(o) + 1) ELSE st.stamps
  BY <1>1, <1>2 DEF Emitted
<1>4. x \in CharSeqs /\ Len(x) \in Nat \ {0} /\ (c = "\n" => x[Len(x)] = "\n")
  BY <1>1, ShowsTyped
<1>5. o \in CharSeqs /\ o \in Seq(Char) /\ Len(o) \in Nat /\ st.stamps \in Seq(Nat) /\ x \in Seq(Char)
  <2>1. o \in Seq(Char) /\ st.stamps \in Seq(Nat)
    BY <1>1 DEF StType, CharSeqs
  <2> QED  BY <1>4, <2>1, LenProperties DEF CharSeqs
<1>6. p \in Seq(Char) /\ Len(p) = Len(o) + Len(x)
      /\ \A k \in 1 .. Len(o) + Len(x) : p[k] = IF k <= Len(o) THEN o[k] ELSE x[k - Len(o)]
  BY <1>3, <1>5, ConcatProperties
<1>7. /\ SubSeq(o, start + 1, Len(o)) \in CharSeqs
      /\ SubSeq(o \o x, start + 1, Len(o \o x)) = SubSeq(o, start + 1, Len(o)) \o x
  BY <1>1, <1>4, <1>5, OutputGrows
<1>8. Output \in CharSeqs /\ Output' = Output \o x
  BY <1>1, <1>3, <1>7 DEF Output
<1>9. c = "\n" => FreshLine'
  <2>1. Len(p) \in 1 .. Len(o) + Len(x) /\ ~(Len(p) <= Len(o)) /\ Len(p) - Len(o) = Len(x)
    BY <1>4, <1>5, <1>6
  <2>2. p[Len(p)] = x[Len(x)]
    BY <1>6, <2>1
  <2> QED  BY <1>1, <1>4, <2>2 DEF FreshLine
<1>10. start' \in 0 .. Len(p)
  BY <1>1, <1>4, <1>5, <1>6
<1>11. StampsOK'
  <2>1. ASSUME NEW v \in 1 .. Len(o), v = 1 \/ o[v - 1] = "\n"
        PROVE  v \in 1 .. Len(p) /\ (v = 1 \/ p[v - 1] = "\n")
    <3>1. v \in 1 .. Len(p)
      BY <1>4, <1>5, <1>6
    <3>2. v # 1 => v - 1 \in 1 .. Len(o) + Len(x) /\ v - 1 <= Len(o)
      BY <1>4, <1>5
    <3> QED  BY <1>6, <2>1, <3>1, <3>2
  <2>2. \A j \in 1 .. Len(st.stamps) :
          st.stamps[j] \in 1 .. Len(p) /\ (st.stamps[j] = 1 \/ p[st.stamps[j] - 1] = "\n")
    BY <1>1, <2>1 DEF StampsOK
  <2>3. CASE ~Due(s)
    <3>1. st'.stamps = st.stamps
      BY <1>3, <2>3
    <3> QED  BY <1>1, <2>2, <3>1 DEF StampsOK
  <2>4. CASE Due(s)
    <3>1. PICK z, y : z = st'.stamps /\ y = st.stamps
      OBVIOUS
    <3>2. z = Append(y, Len(o) + 1) /\ y \in Seq(Nat) /\ Len(o) + 1 \in Nat
      BY <1>3, <1>5, <2>4, <3>1
    <3>3. /\ z \in Seq(Nat) /\ Len(z) = Len(y) + 1 /\ z[Len(y) + 1] = Len(o) + 1 /\ Len(y) \in Nat
          /\ \A k \in 1 .. Len(y) : z[k] = y[k]
      BY <3>2, AppendProperties, LenProperties
    <3>4. Len(o) + 1 \in 1 .. Len(p)
      BY <1>4, <1>5, <1>6
    <3>5. Len(o) + 1 = 1 \/ p[(Len(o) + 1) - 1] = "\n"
      <4>1. o = <<>> \/ o[Len(o)] = "\n"
        BY <1>1, <2>4 DEF FreshLine
      <4>2. CASE o = <<>>
        BY <4>2, Tuples
      <4>3. CASE o # <<>> /\ o[Len(o)] = "\n"
        <5>1. Len(o) \in 1 .. Len(o) + Len(x) /\ Len(o) <= Len(o) /\ (Len(o) + 1) - 1 = Len(o)
          <6>1. Len(o) # 0
            BY <1>5, <4>3, EmptySeq
          <6> QED  BY <1>4, <1>5, <6>1
        <5> QED  BY <1>6, <4>3, <5>1
      <4> QED  BY <4>1, <4>2, <4>3
    <3>6. ASSUME NEW j \in 1 .. Len(z)
          PROVE  z[j] \in 1 .. Len(p) /\ (z[j] = 1 \/ p[z[j] - 1] = "\n")
      <4>1. j = Len(y) + 1 \/ j \in 1 .. Len(y)
        BY <3>3
      <4>2. CASE j = Len(y) + 1
        <5>1. z[j] = Len(o) + 1
          BY <3>3, <4>2
        <5> QED  BY <3>4, <3>5, <5>1
      <4>3. CASE j \in 1 .. Len(y)
        <5>1. z[j] = y[j]
          BY <3>3, <4>3
        <5> QED  BY <2>2, <3>1, <4>3, <5>1
      <4> QED  BY <4>1, <4>2, <4>3
    <3> QED  BY <1>1, <3>1, <3>6 DEF StampsOK
  <2> QED  BY <2>3, <2>4
<1> QED  BY <1>1, <1>2, <1>4, <1>8, <1>9, <1>10, <1>11 DEF Goes

-----------------------------------------------------------------------------
(***************************************************************************)
(* What the caller means, taken apart.                                     *)
(***************************************************************************)
LEMMA Means ==
  ASSUME NEW f, NEW s, Meaning(f, s)
  PROVE  /\ f \in Seq(Char) /\ s.text \in Seq(Char) /\ IsSeq(s.parts) /\ Len(s.parts) > 0
         /\ s.parts[1].at = 1 /\ s.parts[1].off = 0
         /\ \A k \in 1 .. Len(s.parts) :
              PartTyped(f, s.text, s.parts[k]) /\ (s.parts[k].kind = "end" <=> k = Len(s.parts))
         /\ \A k \in 1 .. Len(s.parts) - 1 :
              /\ s.parts[k].kind = "char" => IsChar(f, s.text, s.parts[k], s.parts[k + 1])
              /\ s.parts[k].kind = "conversion" => IsConversion(f, s.text, s.parts[k], s.parts[k + 1])
         /\ s.parts[Len(s.parts)].off = Len(s.text)
         /\ \/ s.parts[Len(s.parts)].at = Len(f) + 1
            \/ s.parts[Len(s.parts)].at = Len(f) /\ f[Len(f)] = "%"
BY DEF Meaning, CallMeans

LEMMA ConvPart ==
  ASSUME NEW f, NEW t, NEW p, NEW q, PartTyped(f, t, p), p.kind = "conversion", IsConversion(f, t, p, q)
  PROVE  IsConv(p)
BY DEF PartTyped, IsConversion, IsConv, Letters

LEMMA NumberMeans ==
  ASSUME NEW f, NEW s, Meaning(f, s), KindOK("kprintf", s)
  PROVE  /\ IsConv(s.parts[1]) /\ s.parts[1].letter \in {"d", "i", "u", "x", "X"}
         /\ s.text = PartText(s.parts[1])
<1>1. PICK p, q, t : p = s.parts[1] /\ q = s.parts[2] /\ t = s.text
  OBVIOUS
<1>2. /\ Len(s.parts) = 2 /\ p.kind = "conversion" /\ p.letter \in {"d", "i", "u", "x", "X"}
  BY <1>1 DEF KindOK
<1>3. t \in Seq(Char) /\ PartTyped(f, t, p) /\ IsConversion(f, t, p, q)
      /\ p.off = 0 /\ q.off = Len(t)
  <2>1. 1 \in 1 .. Len(s.parts) /\ 1 \in 1 .. Len(s.parts) - 1 /\ 1 + 1 = 2
    BY <1>2
  <2> QED  BY <1>1, <1>2, <2>1, Means
<1>4. IsConv(p)
  BY <1>2, <1>3, ConvPart
<1>5. PICK u : u = PartText(p)
  OBVIOUS
<1>6. u \in Seq(Char) /\ Len(u) \in Nat
  BY <1>4, <1>5, TextTyped, LenProperties DEF CharSeqs
<1>7. q.off = p.off + Len(u) /\ \A k \in 1 .. Len(u) : t[p.off + k] = u[k]
  BY <1>3, <1>5 DEF IsConversion
<1>8. Len(t) = Len(u) /\ \A k \in 1 .. Len(u) : t[k] = u[k]
  BY <1>3, <1>6, <1>7
<1>9. t = u
  BY <1>3, <1>6, <1>8, SeqEqual
<1> QED  BY <1>1, <1>2, <1>4, <1>5, <1>9

(***************************************************************************)
(* The loop of vprintk_internal stands at part k.                          *)
(***************************************************************************)
AtChar(k) ==
  /\ k + 1 \in 1 .. Len(spec.parts) /\ At(pos) \in Char \ {"%"}
  /\ spec.parts[k + 1].at = pos + 1 /\ spec.parts[k + 1].rest = spec.parts[k].rest
  /\ spec.parts[k + 1].off = spec.parts[k].off + 1
  /\ spec.text[spec.parts[k].off + 1] = At(pos)

AtConversion(k) ==
  LET p == spec.parts[k]
      q == spec.parts[k + 1]
  IN  /\ k + 1 \in 1 .. Len(spec.parts) /\ At(pos) = "%" /\ ~LonePercent /\ IsConv(p)
      /\ Conv = [pad |-> PadOf(p), width |-> WidthOf(p.digits), length |-> p.length,
                 pos |-> q.at - 1]
      /\ At(q.at - 1) = p.letter /\ q.at \in 1 .. Len(fmt) + 1
      /\ q.rest = IF UsesArg(p.letter) THEN Tail(p.rest) ELSE p.rest
      /\ q.off = p.off + Len(PartText(p))
      /\ \A j \in 1 .. Len(PartText(p)) : spec.text[p.off + j] = PartText(p)[j]

AtEnd(k) == k = Len(spec.parts) /\ spec.parts[k].off = Len(spec.text) /\ (At(pos) = NUL \/ LonePercent)

LEMMA AtPart ==
  ASSUME Meaning(fmt, spec), NEW k \in 1 .. Len(spec.parts), pos = spec.parts[k].at
  PROVE  AtChar(k) \/ AtConversion(k) \/ AtEnd(k)
<1>1. PICK n, p, q, t, L : /\ n = Len(spec.parts) /\ p = spec.parts[k] /\ q = spec.parts[k + 1]
                           /\ t = spec.text /\ L = Len(fmt)
  OBVIOUS
<1>2. /\ fmt \in Seq(Char) /\ t \in Seq(Char) /\ n \in Nat /\ L \in Nat
      /\ PartTyped(fmt, t, p) /\ (p.kind = "end" <=> k = n)
  <2>1. IsSeq(spec.parts) /\ fmt \in Seq(Char) /\ t \in Seq(Char)
        /\ PartTyped(fmt, t, p) /\ (p.kind = "end" <=> k = n)
    BY <1>1, Means
  <2>2. n \in Nat
    BY <1>1, <2>1 DEF IsSeq
  <2> QED  BY <1>1, <2>1, <2>2, LenProperties
<1>3. p.at = pos /\ pos \in 1 .. L + 1 /\ p.off \in 0 .. Len(t) /\ p.kind \in {"char", "conversion", "end"}
  BY <1>1, <1>2 DEF PartTyped
<1>4. \A j \in 1 .. L : At(j) = fmt[j] /\ fmt[j] \in Char
  BY <1>1, <1>2 DEF At
<1>5. At(L + 1) = NUL /\ NUL \notin Char
  <2>1. ~(L + 1 <= L)
    BY <1>2
  <2>2. At(L + 1) = NUL
    BY <1>1, <2>1 DEF At
  <2> QED  BY <2>2, ModifierNoDigit
<1>6. ASSUME k # n
      PROVE  /\ k \in 1 .. n - 1 /\ k + 1 \in 1 .. n
             /\ PartTyped(fmt, t, q) /\ q.at \in 1 .. L + 1 /\ q.off \in 0 .. Len(t)
             /\ p.kind = "char" => IsChar(fmt, t, p, q)
             /\ p.kind = "conversion" => IsConversion(fmt, t, p, q)
  <2>1. k \in 1 .. n - 1 /\ k + 1 \in 1 .. n
    BY <1>1, <1>2, <1>6
  <2>2. PartTyped(fmt, t, q)
    BY <1>1, <2>1, Means
  <2>3. q.at \in 1 .. L + 1 /\ q.off \in 0 .. Len(t)
    BY <1>1, <2>2 DEF PartTyped
  <2> QED  BY <1>1, <2>1, <2>2, <2>3, Means
<1>7. CASE k = n
  <2>1. p.off = Len(t) /\ (p.at = L + 1 \/ (p.at = L /\ fmt[L] = "%"))
    BY <1>1, <1>7, Means
  <2>2. CASE p.at = L + 1
    BY <1>1, <1>3, <1>5, <1>7, <2>1, <2>2 DEF AtEnd
  <2>3. CASE p.at = L /\ fmt[L] = "%"
    <3>1. L \in 1 .. L
      BY <1>2, <1>3, <2>3
    <3>2. At(pos) = "%" /\ At(pos + 1) = NUL
      BY <1>3, <1>4, <1>5, <2>3, <3>1
    <3> QED  BY <1>1, <1>7, <2>1, <3>2 DEF AtEnd, LonePercent
  <2> QED  BY <2>1, <2>2, <2>3
<1>8. CASE k # n /\ p.kind = "char"
  <2>1. /\ fmt[p.at] # "%" /\ q.at = p.at + 1 /\ q.rest = p.rest /\ q.off = p.off + 1
        /\ t[q.off] = fmt[p.at]
    BY <1>6, <1>8 DEF IsChar
  <2>2. pos \in 1 .. L
    BY SMTT(30), <1>2, <1>3, <1>6, <1>8, <2>1
  <2> QED  BY <1>1, <1>3, <1>4, <1>6, <1>8, <2>1, <2>2 DEF AtChar
<1>9. CASE k # n /\ p.kind = "conversion"
  <2>1. /\ Spelled(fmt, p, q) /\ q.off = p.off + Len(PartText(p))
        /\ \A j \in 1 .. Len(PartText(p)) : t[p.off + j] = PartText(p)[j]
        /\ q.rest = IF UsesArg(p.letter) THEN Tail(p.rest) ELSE p.rest
    BY <1>6, <1>9 DEF IsConversion
  <2>2. IsConv(p)
    BY <1>2, <1>6, <1>9, ConvPart
  <2>3. q.at <= Len(fmt) + 1
    BY <1>1, <1>2, <1>6, <1>9
  <2>4. /\ ParseSpec(p.at + 1) = [pad |-> PadOf(p), width |-> WidthOf(p.digits),
                                  length |-> p.length, pos |-> q.at - 1]
        /\ p.at + 1 <= Len(fmt) /\ At(q.at - 1) = p.letter
    BY <1>2, <1>9, <2>1, <2>3, ParseSpecIs
  <2>5. fmt[p.at] = "%"
    BY <2>1 DEF Spelled
  <2>6. pos \in 1 .. L /\ pos + 1 \in 1 .. L
    BY SMTT(30), <1>1, <1>2, <1>3, <2>4
  <2>7. At(pos) = "%" /\ At(pos + 1) \in Char
    BY <1>3, <1>4, <2>5, <2>6
  <2>8. ~LonePercent
    BY <1>5, <2>7 DEF LonePercent
  <2>9. Conv = [pad |-> PadOf(p), width |-> WidthOf(p.digits), length |-> p.length, pos |-> q.at - 1]
    BY <1>3, <2>4 DEF Conv
  <2> QED  BY <1>1, <1>6, <1>9, <2>1, <2>2, <2>4, <2>7, <2>8, <2>9 DEF AtConversion
<1> QED  BY <1>2, <1>3, <1>7, <1>8, <1>9

LEMMA OnePart ==
  ASSUME NEW k
  PROVE  /\ AtChar(k) => At(pos) \notin {NUL, "%"}
         /\ AtConversion(k) => At(pos) = "%" /\ ~LonePercent
         /\ AtEnd(k) => At(pos) = NUL \/ LonePercent
         /\ LonePercent => At(pos) = "%"
         /\ NUL # "%"
<1>1. NUL \notin Char /\ NUL # "%"
  BY PrintkAssumption DEF PrintkAssumption, NUL
<1> QED  BY <1>1 DEF AtChar, AtConversion, AtEnd, LonePercent

-----------------------------------------------------------------------------
(***************************************************************************)
(* One more character of the text goes out.                                *)
(***************************************************************************)
LEMMA TextStep ==
  ASSUME TypeInv, fn # "none", Meaning(fmt, spec), KindOK(fn, spec), StampsOK,
         fn = "klog" /\ st.at_line_start => FreshLine,
         NEW m \in Nat, m < Len(spec.text), TextDone(m),
         st' = emit_char(st, spec.text[m + 1]), when' = Append(when, now), UNCHANGED call
  PROVE  /\ TextDone(m + 1)' /\ when' \in Seq(Nat)
         /\ st' \in StType /\ st'.prefix_enabled = st.prefix_enabled
         /\ StampsOK' /\ (st'.at_line_start => FreshLine') /\ start' \in 0 .. Len(st'.out)
<1>1. PICK t, c, x : t = spec.text /\ c = t[m + 1] /\ x = Shows(st, c)
  OBVIOUS
<1>2. t \in Seq(Char) /\ t \in CharSeqs /\ Len(t) \in Nat
  <2>1. t \in Seq(Char)
    BY <1>1, Means
  <2> QED  BY <2>1, LenProperties DEF CharSeqs
<1>3. m + 1 \in 1 .. Len(t) /\ m \in 0 .. Len(t)
  BY <1>1, <1>2
<1>4. c \in Char
  BY <1>1, <1>2, <1>3
<1>5. /\ st \in StType /\ now \in Nat /\ when \in Seq(Nat)
      /\ start \in 0 .. Len(st.out) /\ fn \in {"klog", "kprintf"}
      /\ (st.prefix_enabled <=> fn = "klog")
  BY DEF TypeInv
<1>6. UNCHANGED <<fn, spec, now, start>>
  BY DEF call
<1>7. Due(st) => FreshLine
  BY <1>5 DEF Due
<1>8. st' = emit_char(st, c)
  BY <1>1
<1>9. Goes(st, c)
  BY <1>4, <1>5, <1>6, <1>7, <1>8, EmitLine
<1>10. /\ st' \in StType /\ st'.prefix_enabled = st.prefix_enabled
       /\ (st'.at_line_start <=> c = "\n") /\ st'.written = st.written + Len(x)
       /\ StampsOK' /\ (c = "\n" => FreshLine') /\ start' \in 0 .. Len(st'.out)
       /\ x \in CharSeqs /\ Output \in CharSeqs /\ Output' = Output \o x
  BY <1>1, <1>9 DEF Goes, Emitted
<1>11. /\ Len(when) = m /\ Output = Shown(m) /\ st.written = Len(Output)
       /\ (st.at_line_start <=> (m = 0 \/ t[m] = "\n"))
  BY <1>1 DEF TextDone
<1>12. Output' = Shown(m + 1)'
  <2>1. CASE fn = "klog"
    <3>1. PICK a, b : a = Lines(t, when)[m] /\ b = Lines(t, Append(when, now))[m + 1]
      OBVIOUS
    <3>2. b = a \o Piece(t, m + 1, Stamp(now))
      BY <1>1, <1>2, <1>5, <1>11, <3>1, LinesGrow
    <3>3. (m + 1) - 1 = m
      OBVIOUS
    <3>4. x = Piece(t, m + 1, Stamp(now))
      <4>1. Due(st) <=> (m + 1 = 1 \/ t[(m + 1) - 1] = "\n")
        BY <1>3, <1>5, <1>11, <2>1, <3>3 DEF Due
      <4> QED  BY <1>1, <4>1 DEF Shows, Piece
    <3>5. Shown(m) = a /\ Shown(m + 1)' = b
      BY <1>1, <1>6, <2>1, <3>1 DEF Shown
    <3> QED  BY <1>10, <1>11, <3>2, <3>4, <3>5
  <2>2. CASE fn = "kprintf"
    <3>1. KindOK("kprintf", spec)
      BY <2>2
    <3>2. c # "\n"
      BY <1>1, <1>3, <3>1, NumberMeans, NoBreak
    <3>3. x = <<>> \o <<c>>
      BY <1>1, <1>5, <2>2, <3>2 DEF Shows, Due
    <3>4. x = <<c>>
      BY <1>4, <3>3, Tuples, ConcatEmptySeq
    <3>5. SubSeq(t, 1, m + 1) = SubSeq(t, 1, (m + 1) - 1) \o <<t[m + 1]>> /\ (m + 1) - 1 = m
      <4>1. 1 \in 1 .. Len(t) /\ m + 1 \in 1 .. Len(t)
        BY <1>2, <1>3
      <4> QED  BY SMTT(30), <1>2, <4>1, SubSeqRecursiveSecond
    <3>6. Shown(m) = SubSeq(t, 1, m) /\ Shown(m + 1)' = SubSeq(t, 1, m + 1)
      BY <1>1, <1>6, <2>2 DEF Shown
    <3> QED  BY <1>1, <1>10, <1>11, <3>4, <3>5, <3>6
  <2> QED  BY <1>5, <2>1, <2>2
<1>13. st'.written = Len(Output')
  <2>1. PICK o : o = Output /\ o \in Seq(Char) /\ x \in Seq(Char)
    BY <1>10 DEF CharSeqs
  <2>2. Len(o \o x) = Len(o) + Len(x)
    BY <2>1, ConcatProperties
  <2> QED  BY <1>10, <1>11, <2>1, <2>2
<1>14. st'.at_line_start <=> (m + 1 = 0 \/ spec'.text[m + 1] = "\n")
  BY <1>1, <1>6, <1>10
<1>15. when' \in Seq(Nat) /\ Len(when') = m + 1
  BY <1>5, <1>11, AppendProperties
<1>16. TextDone(m + 1)'
  BY <1>12, <1>13, <1>14, <1>15 DEF TextDone
<1> QED  BY <1>10, <1>15, <1>16

-----------------------------------------------------------------------------
(***************************************************************************)
(* The invariant holds at first, and each action keeps it.                 *)
(***************************************************************************)
LEMMA NoSpecKind == NoSpec.kind = "none"
BY DEF NoSpec

LEMMA FreshFields ==
  ASSUME NEW s \in StType, NEW b \in BOOLEAN, NEW r, r = Fresh(b, s)
  PROVE  /\ r \in StType /\ r.out = s.out /\ r.stamps = s.stamps
         /\ r.prefix_enabled = b /\ r.at_line_start = TRUE /\ r.written = 0
BY DEF Fresh, StType

LEMMA PrintkInitOK == PrintkInit => PInv
<1> SUFFICES ASSUME PrintkInit PROVE PInv
  OBVIOUS
<1>1. /\ script \in Scripts /\ panicked = FALSE
      /\ fn = "none" /\ fmt = <<>> /\ pos = 1 /\ args = <<>> /\ spec = NoSpec /\ text = <<>>
      /\ now = 0 /\ ret = 0 /\ start = 0 /\ when = <<>>
      /\ st = [prefix_enabled |-> FALSE, at_line_start |-> TRUE, written |-> 0,
               out |-> <<>>, stamps |-> <<>>]
  BY DEF PrintkInit
<1>2. <<>> \in CharSeqs /\ Len(<<>>) = 0 /\ <<>> \in Seq(Nat)
  BY Tuples DEF CharSeqs
<1>3. st \in StType /\ st.out = <<>> /\ st.stamps = <<>>
  <2>1. PICK a \in BOOLEAN, b \in BOOLEAN, z \in Nat, o \in CharSeqs, e \in Seq(Nat) :
          a = FALSE /\ b = TRUE /\ z = 0 /\ o = <<>> /\ e = <<>>
    BY Zenon, <1>2, 0 \in Nat
  <2>2. st = [prefix_enabled |-> a, at_line_start |-> b, written |-> z, out |-> o, stamps |-> e]
    BY <1>1, <2>1
  <2>3. st \in StType /\ st.out = o /\ st.stamps = e
    BY ONLY <2>2, a \in BOOLEAN, b \in BOOLEAN, z \in Nat, o \in CharSeqs, e \in Seq(Nat) DEF StType
  <2> QED  BY <2>1, <2>3
<1>4. TypeInv
  <2>1. panicked \in BOOLEAN /\ fn \in {"none", "klog", "kprintf"}
    BY Zenon, <1>1
  <2>2. now \in Nat /\ when \in Seq(Nat) /\ start \in 0 .. Len(st.out) /\ pos \in 1 .. Len(fmt) + 1
    BY <1>1, <1>2, <1>3
  <2> QED  BY <1>1, <1>2, <1>3, <2>1, <2>2 DEF TypeInv
<1>5. ScriptInv
  BY <1>1, ScriptsAssumption DEF ScriptInv, ScriptsAssumption
<1>6. LineInv
  BY <1>1, <1>2, <1>3 DEF LineInv, StampsOK, FreshLine
<1>7. CallInv /\ ResultInv
  BY <1>1, NoSpecKind DEF CallInv, ResultInv, Returned
<1> QED  BY <1>4, <1>5, <1>6, <1>7 DEF PInv

LEMMA ScriptStep ==
  ASSUME NEW s, ScriptOK(s), s # <<>>
  PROVE  /\ CallOK(Head(s)) /\ Head(s) = s[1] /\ ScriptOK(Tail(s))
         /\ Head(s).fn = "kprintf" /\ Tail(s) # <<>> => Tail(s)[1].fn = "kprintf"
<1>1. PICK S : s \in Seq(S)
  BY IsSeqTyped DEF ScriptOK
<1>2. PICK r : r = Tail(s)
  OBVIOUS
<1>3. /\ r \in Seq(S) /\ Len(r) = Len(s) - 1 /\ \A j \in 1 .. Len(r) : r[j] = s[j + 1]
      /\ Head(s) = s[1] /\ Len(s) \in Nat \ {0} /\ Len(r) \in Nat
  BY <1>1, <1>2, HeadTailProperties, LenProperties, EmptySeq
<1>4. \A j \in 1 .. Len(s) : CallOK(s[j]) /\ (j > 1 /\ s[j].fn = "klog" => s[j - 1].fn = "klog")
  BY DEF ScriptOK
<1>5. CallOK(s[1])
  BY <1>3, <1>4
<1>6. ScriptOK(r)
  <2>1. IsSeq(r)
    BY <1>3, LenProperties DEF IsSeq
  <2>2. ASSUME NEW j \in 1 .. Len(r)
        PROVE  CallOK(r[j]) /\ (j > 1 /\ r[j].fn = "klog" => r[j - 1].fn = "klog")
    <3>1. r[j] = s[j + 1] /\ j + 1 \in 1 .. Len(s) /\ (j + 1) - 1 = j /\ j + 1 > 1
      BY <1>3
    <3>2. CallOK(s[j + 1]) /\ (s[j + 1].fn = "klog" => s[j].fn = "klog")
      BY <1>4, <3>1
    <3>3. j > 1 => r[j - 1] = s[j]
      <4>1. j > 1 => j - 1 \in 1 .. Len(r) /\ (j - 1) + 1 = j
        BY <1>3
      <4> QED  BY <1>3, <4>1
    <3> QED  BY <3>1, <3>2, <3>3
  <2> QED  BY <2>1, <2>2 DEF ScriptOK
<1>7. ASSUME s[1].fn = "kprintf", r # <<>> PROVE r[1].fn = "kprintf"
  <2>1. Len(r) # 0
    BY <1>3, <1>7, EmptySeq
  <2>2. r[1] = s[2] /\ 2 \in 1 .. Len(s) /\ 2 > 1 /\ 2 - 1 = 1
    BY <1>3, <2>1
  <2>3. s[2].fn # "klog"
    BY <1>4, <1>7, <2>2
  <2>4. CallOK(s[2])
    BY <1>4, <2>2
  <2> QED  BY <2>2, <2>3, <2>4 DEF CallOK
<1> QED  BY <1>2, <1>3, <1>5, <1>6, <1>7

LEMMA CallMeaning ==
  ASSUME NEW c, CallOK(c)
  PROVE  /\ Meaning(c.fmt, c.spec) /\ KindOK(c.fn, c.spec) /\ c.args = c.spec.parts[1].rest
         /\ c.fn \in {"klog", "kprintf"} /\ c.fmt \in CharSeqs /\ c.spec.text \in CharSeqs
<1>1. CallMeans(c) /\ KindOK(c.fn, c.spec) /\ c.fn \in {"klog", "kprintf"}
  BY DEF CallOK, KindOK
<1>2. c.args = c.spec.parts[1].rest /\ c.fmt \in CharSeqs /\ c.spec.text \in CharSeqs
  BY <1>1 DEF CallMeans, CharSeqs
<1>3. Meaning(c.fmt, c.spec)
  BY <1>1, <1>2 DEF Meaning, CallMeans
<1> QED  BY <1>1, <1>2, <1>3

(***************************************************************************)
(* The log lines of kpanic.                                                *)
(***************************************************************************)
LEMMA PanicLines ==
  ASSUME NEW s \in {<<EmptyLine, Banner>>, <<Banner>>, <<>>}, s # <<>>
  PROVE  /\ Head(s) = s[1] /\ Head(s) \in {EmptyLine, Banner} /\ Tail(s) \in {<<Banner>>, <<>>}
         /\ Head(s).fn = "klog" /\ Head(s).spec = NoSpec /\ Head(s).fmt \in {<<>>, <<"-">>}
<1>1. CASE s = <<EmptyLine, Banner>>
  <2>1. Head(s) = EmptyLine /\ s[1] = EmptyLine /\ Tail(s) = <<Banner>>
    BY <1>1
  <2> QED  BY <2>1 DEF EmptyLine
<1>2. CASE s = <<Banner>>
  <2>1. Head(s) = Banner /\ s[1] = Banner /\ Tail(s) = <<>>
    BY <1>2
  <2> QED  BY <2>1 DEF Banner
<1> QED  BY <1>1, <1>2

LEMMA PanicAt ==
  ASSUME PInv, panicked, fn # "none"
  PROVE  /\ fn = "klog" /\ (At(pos) = NUL \/ (At(pos) = "-" /\ fmt # <<>>))
         /\ NUL # "%" /\ "-" \in Char
<1>1. fn = "klog" /\ fmt \in {<<>>, <<"-">>} /\ fmt \in Seq(Char) /\ pos \in 1 .. Len(fmt) + 1
  BY DEF PInv, TypeInv, ScriptInv, CharSeqs
<1>2. "-" \in Char /\ NUL # "%"
  BY NamedChars DEF NUL
<1>3. CASE fmt = <<>>
  <2>1. Len(fmt) = 0
    BY <1>3, EmptySeq
  <2> QED  BY <1>1, <1>2, <2>1 DEF At
<1>4. CASE fmt = <<"-">>
  <2>1. Len(fmt) = 1 /\ fmt[1] = "-"
    BY <1>2, <1>4, Tuples
  <2>2. fmt # <<>>
    BY <2>1, EmptySeq
  <2> QED  BY <1>1, <1>2, <2>1, <2>2 DEF At
<1> QED  BY <1>1, <1>3, <1>4

LEMMA BeginOK ==
  ASSUME PInv, Begin
  PROVE  PInv'
<1>1. PICK c, y : c = Head(script) /\ y = script[1]
  OBVIOUS
<1>2. /\ fn = "none" /\ script # <<>> /\ fn' = c.fn /\ fmt' = c.fmt /\ args' = c.args
      /\ spec' = c.spec /\ st' = Fresh(c.fn = "klog", st) /\ script' = Tail(script)
      /\ pos' = 1 /\ start' = Len(st.out) /\ when' = <<>> /\ UNCHANGED <<panicked, now, text, ret>>
  BY <1>1 DEF Begin
<1>3. /\ st \in StType /\ text = <<>> /\ panicked \in BOOLEAN /\ StampsOK
      /\ (y.fn = "klog" /\ ~(panicked /\ y.fmt = <<>>) => FreshLine)
  BY <1>1, <1>2 DEF PInv, TypeInv, LineInv
<1>4. now' \in Nat /\ when' \in Seq(Nat) /\ Len(when') = 0
  BY <1>2, Tuples DEF PInv, TypeInv
<1>5. /\ st' \in StType /\ st'.out = st.out /\ st'.stamps = st.stamps
      /\ (st'.prefix_enabled <=> c.fn = "klog") /\ st'.at_line_start = TRUE /\ st'.written = 0
  <2>1. PICK b \in BOOLEAN : b = (c.fn = "klog")
    OBVIOUS
  <2> QED  BY ZenonT(60), <1>2, <1>3, <2>1, FreshFields
<1>6. start' \in 0 .. Len(st'.out) /\ Output' = <<>>
  <2>1. Len(st.out) \in Nat
    BY <1>3, LenProperties DEF StType, CharSeqs
  <2>2. SubSeq(st.out, Len(st.out) + 1, Len(st.out)) = <<>>
    BY <2>1, SubSeqEmpty
  <2>3. start' \in 0 .. Len(st'.out)
    BY <1>2, <1>5, <2>1
  <2>4. Output' = SubSeq(st'.out, start' + 1, Len(st'.out))
    BY DEF Output
  <2> QED  BY <1>2, <1>5, <2>2, <2>3, <2>4
<1>7. StampsOK' /\ (FreshLine => FreshLine')
  BY <1>3, <1>5 DEF StampsOK, FreshLine
<1>8. ASSUME c.fn \in {"klog", "kprintf"}, c.fmt \in CharSeqs, c = y PROVE TypeInv' /\ LineInv' /\ ResultInv'
  <2>1. Len(c.fmt) \in Nat /\ <<>> \in CharSeqs
    BY <1>8, Tuples, LenProperties DEF CharSeqs
  <2>2. TypeInv'
    BY <1>2, <1>3, <1>4, <1>5, <1>6, <1>8, <2>1 DEF TypeInv
  <2>3. LineInv'
    BY <1>2, <1>3, <1>7, <1>8 DEF LineInv
  <2>4. ResultInv'
    BY <1>2, <1>8 DEF ResultInv, Returned
  <2> QED  BY <2>2, <2>3, <2>4
<1>9. CASE panicked
  <2>1. script \in {<<EmptyLine, Banner>>, <<Banner>>, <<>>}
    BY <1>9 DEF PInv, ScriptInv
  <2>2. /\ c = y /\ c.fn = "klog" /\ c.spec = NoSpec /\ c.fmt \in {<<>>, <<"-">>}
        /\ script' \in {<<Banner>>, <<>>}
    BY <1>1, <1>2, <2>1, PanicLines
  <2>3. c.fmt \in CharSeqs
    BY <2>2, Literals
  <2>4. ScriptInv'
    BY <1>2, <1>3, <1>9, <2>2 DEF ScriptInv
  <2>5. CallInv'
    BY <1>2, <1>9 DEF CallInv
  <2> QED  BY <1>8, <2>2, <2>3, <2>4, <2>5 DEF PInv
<1>10. CASE ~panicked
  <2>1. ScriptOK(script)
    BY <1>10 DEF PInv, ScriptInv
  <2>2. /\ c = y /\ CallOK(c) /\ ScriptOK(script')
        /\ (c.fn = "kprintf" /\ script' # <<>> => script'[1].fn = "kprintf")
    BY <1>1, <1>2, <2>1, ScriptStep
  <2>3. /\ Meaning(c.fmt, c.spec) /\ KindOK(c.fn, c.spec) /\ c.args = c.spec.parts[1].rest
        /\ c.fn \in {"klog", "kprintf"} /\ c.fmt \in CharSeqs /\ c.spec.text \in CharSeqs
    BY <2>2, CallMeaning
  <2>4. ScriptInv'
    BY <1>2, <1>10, <2>2 DEF ScriptInv
  <2>5. /\ 1 \in 1 .. Len(c.spec.parts) /\ 0 \in 0 .. Len(c.spec.text)
        /\ c.spec.parts[1].at = 1 /\ c.spec.parts[1].off = 0
    <3>1. /\ IsSeq(c.spec.parts) /\ Len(c.spec.parts) > 0
          /\ c.spec.parts[1].at = 1 /\ c.spec.parts[1].off = 0
      BY <2>3, Means
    <3>2. Len(c.spec.parts) \in Nat /\ Len(c.spec.text) \in Nat
      BY <2>3, <3>1, LenProperties DEF IsSeq, CharSeqs
    <3> QED  BY <3>1, <3>2
  <2>6. Shown(0)' = <<>>
    <3>1. CASE c.fn = "klog"
      <4>1. Len(when') <= Len(c.spec.text)
        BY <1>4, <2>5
      <4>2. AreLines(c.spec.text, when', Lines(c.spec.text, when'))
        BY <1>4, <2>3, <4>1, LinesDef
      <4> QED  BY <1>2, <3>1, <4>2 DEF Shown, AreLines
    <3>2. CASE c.fn # "klog"
      <4>1. SubSeq(c.spec.text, 1, 0) = <<>>
        BY SubSeqEmpty
      <4> QED  BY <1>2, <3>2, <4>1 DEF Shown
    <3> QED  BY <3>1, <3>2
  <2>7. TextDone(0)'
    BY <1>4, <1>5, <1>6, <2>6, EmptySeq DEF TextDone
  <2>8. CallAt(1, 0)'
    <3>1. Len(text') = 0
      BY <1>2, <1>3, EmptySeq
    <3> QED  BY <1>2, <2>3, <2>5, <2>7, <3>1 DEF CallAt
  <2>9. CallInv'
    BY <1>2, <2>3, <2>5, <2>8 DEF CallInv
  <2> QED  BY <1>8, <2>2, <2>3, <2>4, <2>9 DEF PInv
<1> QED  BY <1>3, <1>9, <1>10

(***************************************************************************)
(* Where the running call stands.                                          *)
(***************************************************************************)
LEMMA Running ==
  ASSUME PInv, fn # "none", ~panicked
  PROVE  /\ Meaning(fmt, spec) /\ KindOK(fn, spec) /\ TypeInv /\ StampsOK
         /\ fn = "klog" /\ st.at_line_start => FreshLine
         /\ \E k \in 1 .. Len(spec.parts), m \in 0 .. Len(spec.text) : CallAt(k, m)
BY DEF PInv, CallInv, LineInv

LEMMA PartPlace ==
  ASSUME Meaning(fmt, spec), NEW k \in 1 .. Len(spec.parts)
  PROVE  /\ spec.parts[k].at \in 1 .. Len(fmt) + 1 /\ spec.parts[k].off \in 0 .. Len(spec.text)
         /\ IsSeq(spec.parts[k].rest) /\ Len(spec.text) \in Nat /\ spec.text \in CharSeqs
<1>1. spec.text \in Seq(Char) /\ PartTyped(fmt, spec.text, spec.parts[k])
  BY Means
<1>2. Len(spec.text) \in Nat
  BY <1>1, LenProperties
<1> QED  BY <1>1, <1>2 DEF PartTyped, CharSeqs

LEMMA CallKeeps ==
  ASSUME PInv, fn # "none", ~panicked, UNCHANGED call,
         st' \in StType, st'.prefix_enabled = st.prefix_enabled, start' \in 0 .. Len(st'.out),
         text' \in CharSeqs, when' \in Seq(Nat), StampsOK', fn = "klog" /\ st'.at_line_start => FreshLine',
         NEW k \in 1 .. Len(spec.parts), NEW m \in 0 .. Len(spec.text), CallAt(k, m)'
  PROVE  PInv'
<1>1. UNCHANGED <<script, panicked, fn, fmt, spec, now, start>>
  BY DEF call
<1>2. Meaning(fmt, spec) /\ KindOK(fn, spec) /\ TypeInv /\ ScriptInv
  BY Running DEF PInv
<1>3. pos' \in 1 .. Len(fmt) + 1
  BY <1>1, <1>2, PartPlace DEF CallAt
<1>4. TypeInv'
  BY <1>1, <1>2, <1>3 DEF TypeInv
<1>5. ScriptInv'
  BY <1>1, <1>2 DEF ScriptInv
<1>6. CallInv'
  BY <1>1, <1>2 DEF CallInv
<1>7. LineInv'
  BY <1>1 DEF LineInv
<1>8. ResultInv'
  BY <1>1 DEF ResultInv, Returned
<1> QED  BY <1>4, <1>5, <1>6, <1>7, <1>8 DEF PInv

LEMMA PutCharOK ==
  ASSUME PInv, put_char
  PROVE  PInv'
<1>1. /\ fn # "none" /\ text # <<>> /\ st' = emit_char(st, Head(text)) /\ text' = Tail(text)
      /\ when' = Append(when, now)
      /\ UNCHANGED <<call, pos, args, ret>>
  BY DEF put_char
<1>2. ~panicked /\ text \in Seq(Char)
  BY <1>1 DEF PInv, TypeInv, ScriptInv, CharSeqs
<1>3. PICK k \in 1 .. Len(spec.parts), m \in 0 .. Len(spec.text) : CallAt(k, m)
  BY <1>1, <1>2, Running
<1>4. PICK n, u, v : n = Len(text) /\ u = text /\ v = text'
  OBVIOUS
<1>5. /\ n \in Nat \ {0} /\ Head(text) = u[1] /\ v \in Seq(Char) /\ Len(v) = n - 1
      /\ \A j \in 1 .. n - 1 : v[j] = u[j + 1]
  BY <1>1, <1>2, <1>4, HeadTailProperties, EmptySeq
<1>6. /\ m + n = spec.parts[k].off /\ (\A j \in 1 .. n : u[j] = spec.text[m + j])
      /\ TextDone(m) /\ pos = spec.parts[k].at /\ args = spec.parts[k].rest
  BY <1>3, <1>4 DEF CallAt
<1>7. Meaning(fmt, spec) /\ Len(spec.text) \in Nat /\ m + n <= Len(spec.text)
  <2>1. Meaning(fmt, spec)
    BY <1>1, <1>2, Running
  <2> QED  BY <1>6, <2>1, PartPlace
<1>8. m \in Nat /\ m < Len(spec.text) /\ m + 1 \in 0 .. Len(spec.text)
  BY <1>5, <1>7
<1>9. Head(text) = spec.text[m + 1]
  <2>1. 1 \in 1 .. n
    BY <1>5
  <2> QED  BY <1>5, <1>6, <2>1
<1>10. st' = emit_char(st, spec.text[m + 1]) /\ UNCHANGED call
  BY <1>1, <1>9
<1>11. /\ TextDone(m + 1)' /\ when' \in Seq(Nat)
       /\ st' \in StType /\ st'.prefix_enabled = st.prefix_enabled
       /\ StampsOK' /\ (st'.at_line_start => FreshLine') /\ start' \in 0 .. Len(st'.out)
  BY <1>1, <1>2, <1>6, <1>7, <1>8, <1>10, Running, TextStep
<1>12. CallAt(k, m + 1)'
  <2>1. (m + 1) + Len(v) = m + n
    BY <1>5
  <2>2. ASSUME NEW j \in 1 .. Len(v) PROVE v[j] = spec.text[(m + 1) + j]
    <3>1. j \in 1 .. n - 1 /\ j + 1 \in 1 .. n /\ (m + 1) + j = m + (j + 1)
      BY <1>5
    <3> QED  BY <1>5, <1>6, <3>1
  <2>3. spec' = spec
    BY <1>1 DEF call
  <2> QED  BY <1>1, <1>4, <1>6, <1>8, <1>11, <2>1, <2>2, <2>3 DEF CallAt
<1>13. text' \in CharSeqs
  BY <1>4, <1>5 DEF CharSeqs
<1> QED  BY <1>1, <1>2, <1>8, <1>11, <1>12, <1>13, CallKeeps

(***************************************************************************)
(* Between two parts, the text of the parts before is out.                 *)
(***************************************************************************)
LEMMA BetweenParts ==
  ASSUME PInv, fn # "none", ~panicked, text = <<>>
  PROVE  \E k \in 1 .. Len(spec.parts) :
           /\ CallAt(k, spec.parts[k].off)
           /\ AtChar(k) \/ AtConversion(k) \/ AtEnd(k)
<1>1. PICK k \in 1 .. Len(spec.parts), m \in 0 .. Len(spec.text) : CallAt(k, m)
  BY Running
<1>2. Len(text) = 0
  BY EmptySeq
<1>3. m = spec.parts[k].off /\ pos = spec.parts[k].at
  BY <1>1, <1>2 DEF CallAt
<1>4. AtChar(k) \/ AtConversion(k) \/ AtEnd(k)
  BY <1>3, Running, AtPart
<1> QED  BY <1>1, <1>3, <1>4

LEMMA PlainCharOK ==
  ASSUME PInv, plain_char
  PROVE  PInv'
<1>1. /\ fn # "none" /\ text = <<>> /\ At(pos) \notin {NUL, "%"}
      /\ st' = emit_char(st, At(pos)) /\ when' = Append(when, now) /\ pos' = pos + 1
      /\ UNCHANGED <<call, args, text, ret>>
  BY DEF plain_char
<1>2. UNCHANGED <<script, panicked, fn, fmt, spec, now, start>>
  BY <1>1 DEF call
<1>3. TypeInv /\ ScriptInv /\ LineInv
  BY DEF PInv
<1>4. CASE panicked
  <2>1. fn = "klog" /\ At(pos) = "-" /\ fmt # <<>> /\ "-" \in Char
    BY <1>1, <1>4, PanicAt
  <2>2. /\ st \in StType /\ now \in Nat /\ start \in 0 .. Len(st.out) /\ StampsOK
        /\ (st.at_line_start => FreshLine)
    BY <1>3, <2>1 DEF TypeInv, LineInv
  <2>3. st' = emit_char(st, "-") /\ start' = start
    BY <1>1, <1>2, <2>1
  <2>4. Due(st) => FreshLine
    BY <2>2 DEF Due
  <2>5. Goes(st, "-")
    BY <2>1, <2>2, <2>3, <2>4, EmitLine
  <2>6. /\ st' \in StType /\ st'.prefix_enabled = st.prefix_enabled /\ ~st'.at_line_start
        /\ StampsOK' /\ start' \in 0 .. Len(st'.out) /\ when' \in Seq(Nat)
    BY <1>1, <1>3, <2>5, AppendProperties DEF Goes, Emitted, TypeInv
  <2>7. pos' \in 1 .. Len(fmt) + 1
    <3>1. fmt \in Seq(Char) /\ pos \in 1 .. Len(fmt) + 1
      BY <1>3 DEF TypeInv, CharSeqs
    <3>2. Len(fmt) \in Nat
      BY <3>1, LenProperties
    <3>3. pos <= Len(fmt)
      BY <1>1 DEF At
    <3> QED  BY <1>1, <3>1, <3>2, <3>3
  <2>8. TypeInv'
    BY <1>1, <1>2, <1>3, <2>6, <2>7 DEF TypeInv
  <2>9. ScriptInv'
    BY <1>1, <1>2, <1>3 DEF ScriptInv
  <2>10. CallInv'
    BY <1>2, <1>4 DEF CallInv
  <2>11. LineInv'
    BY <1>2, <2>1, <2>6 DEF LineInv
  <2>12. ResultInv'
    BY <1>1, <1>2 DEF ResultInv, Returned
  <2> QED  BY <2>8, <2>9, <2>10, <2>11, <2>12 DEF PInv
<1>5. CASE ~panicked
  <2>1. PICK k \in 1 .. Len(spec.parts) : CallAt(k, spec.parts[k].off)
                                          /\ (AtChar(k) \/ AtConversion(k) \/ AtEnd(k))
    BY <1>1, <1>5, BetweenParts
  <2>2. AtChar(k)
    BY <1>1, <2>1, OnePart
  <2>3. PICK m, q : m = spec.parts[k].off /\ q = spec.parts[k + 1]
    OBVIOUS
  <2>4. /\ k + 1 \in 1 .. Len(spec.parts) /\ q.at = pos + 1 /\ q.rest = spec.parts[k].rest
        /\ q.off = m + 1 /\ spec.text[m + 1] = At(pos)
    BY <2>2, <2>3 DEF AtChar
  <2>5. args = spec.parts[k].rest /\ TextDone(m)
    BY <2>1, <2>3 DEF CallAt
  <2>6. m \in Nat /\ m < Len(spec.text) /\ m + 1 \in 0 .. Len(spec.text)
    <3>1. m \in 0 .. Len(spec.text) /\ m + 1 \in 0 .. Len(spec.text) /\ Len(spec.text) \in Nat
      BY <1>1, <1>5, <2>3, <2>4, Running, PartPlace
    <3> QED  BY <3>1
  <2>7. st' = emit_char(st, spec.text[m + 1]) /\ UNCHANGED call
    BY <1>1, <2>4
  <2>8. /\ TextDone(m + 1)' /\ when' \in Seq(Nat)
        /\ st' \in StType /\ st'.prefix_enabled = st.prefix_enabled
        /\ StampsOK' /\ (st'.at_line_start => FreshLine') /\ start' \in 0 .. Len(st'.out)
    BY <1>1, <1>5, <2>5, <2>6, <2>7, Running, TextStep
  <2>9. CallAt(k + 1, m + 1)'
    <3>1. Len(text') = 0
      BY <1>1, EmptySeq
    <3>2. (m + 1) + Len(text') = m + 1
      BY <2>6, <3>1
    <3> QED  BY <1>1, <1>2, <2>3, <2>4, <2>5, <2>6, <2>8, <3>1, <3>2 DEF CallAt
  <2>10. text' \in CharSeqs
    BY <1>1, Literals
  <2> QED  BY <1>1, <1>5, <2>4, <2>6, <2>8, <2>9, <2>10, CallKeeps
<1> QED  BY <1>3, <1>4, <1>5 DEF TypeInv

(***************************************************************************)
(* A conversion replaces its part of the format by the part's text.        *)
(***************************************************************************)
LEMMA ConvertsOK ==
  ASSUME PInv, NEW letters, NEW w, NEW used, Converts(letters, w, used),
         \A k \in 1 .. Len(spec.parts) :
           /\ AtConversion(k) /\ args = spec.parts[k].rest /\ spec.parts[k].letter \in letters
           => /\ w = PartText(spec.parts[k])
              /\ used = IF UsesArg(spec.parts[k].letter) THEN 1 ELSE 0
  PROVE  PInv'
<1>1. /\ fn # "none" /\ text = <<>> /\ At(pos) = "%" /\ ~LonePercent /\ At(Conv.pos) \in letters
      /\ text' = w /\ args' = SubSeq(args, used + 1, Len(args)) /\ pos' = Conv.pos + 1
      /\ UNCHANGED <<call, st, ret, when>>
  BY DEF Converts
<1>2. UNCHANGED <<script, panicked, fn, fmt, spec, now, start>>
  BY <1>1 DEF call
<1>3. ~panicked
  BY <1>1, PanicAt
<1>4. PICK k \in 1 .. Len(spec.parts) : CallAt(k, spec.parts[k].off)
                                        /\ (AtChar(k) \/ AtConversion(k) \/ AtEnd(k))
  BY <1>1, <1>3, BetweenParts
<1>5. AtConversion(k)
  BY <1>1, <1>4, OnePart
<1>6. PICK m, p, q, v : /\ m = spec.parts[k].off /\ p = spec.parts[k] /\ q = spec.parts[k + 1]
                        /\ v = PartText(p)
  OBVIOUS
<1>7. args = p.rest /\ TextDone(m) /\ m \in 0 .. Len(spec.text)
  BY <1>4, <1>6 DEF CallAt
<1>8. /\ k + 1 \in 1 .. Len(spec.parts) /\ IsConv(p) /\ Conv.pos = q.at - 1
      /\ At(q.at - 1) = p.letter /\ q.at \in 1 .. Len(fmt) + 1
      /\ q.rest = (IF UsesArg(p.letter) THEN Tail(p.rest) ELSE p.rest)
      /\ q.off = m + Len(v) /\ \A j \in 1 .. Len(v) : spec.text[m + j] = v[j]
  BY <1>5, <1>6 DEF AtConversion
<1>9. w = v /\ used = IF UsesArg(p.letter) THEN 1 ELSE 0
  BY <1>1, <1>5, <1>6, <1>7, <1>8
<1>10. pos' = q.at
  BY <1>1, <1>8
<1>11. args' = q.rest
  <2>1. PICK a, S : a = args /\ a \in Seq(S)
    BY <1>3, <1>1, <1>6, <1>7, Running, PartPlace, IsSeqTyped
  <2>2. CASE UsesArg(p.letter)
    <3>1. a # <<>>
      BY <1>7, <1>8, <2>1, <2>2 DEF IsConv, TypedArg
    <3>2. Tail(a) = SubSeq(a, 2, Len(a))
      BY <2>1, <3>1, TailIsSubSeq
    <3>3. used + 1 = 2
      BY <1>9, <2>2
    <3> QED  BY <1>1, <1>7, <1>8, <2>1, <2>2, <3>2, <3>3
  <2>3. CASE ~UsesArg(p.letter)
    <3>1. SubSeq(a, 1, Len(a)) = a
      BY <2>1, SubSeqFull
    <3>2. used + 1 = 1
      BY <1>9, <2>3
    <3> QED  BY <1>1, <1>7, <1>8, <2>1, <2>3, <3>1, <3>2
  <2> QED  BY <2>2, <2>3
<1>12. TextDone(m)'
  BY <1>1, <1>2, <1>7 DEF TextDone, Shown, Output
<1>13. CallAt(k + 1, m)'
  BY <1>1, <1>2, <1>6, <1>7, <1>8, <1>9, <1>10, <1>11, <1>12 DEF CallAt
<1>14. text' \in CharSeqs
  BY <1>1, <1>6, <1>8, <1>9, TextTyped
<1>15. /\ st' \in StType /\ st'.prefix_enabled = st.prefix_enabled /\ start' \in 0 .. Len(st'.out)
       /\ when' \in Seq(Nat)
       /\ StampsOK' /\ (fn = "klog" /\ st'.at_line_start => FreshLine')
  BY <1>1, <1>2, <1>3, Running DEF TypeInv, StampsOK, FreshLine
<1> QED  BY <1>1, <1>3, <1>7, <1>8, <1>13, <1>14, <1>15, CallKeeps

(***************************************************************************)
(* What a conversion has parsed.                                           *)
(***************************************************************************)
LEMMA Parsed ==
  ASSUME NEW k, AtConversion(k), args = spec.parts[k].rest
  PROVE  LET p == spec.parts[k]
         IN  /\ IsConv(p) /\ Head(args) = Head(p.rest)
             /\ Conv.width = WidthOf(p.digits) /\ Conv.pad = PadOf(p) /\ Conv.length = p.length
             /\ At(Conv.pos) = p.letter
BY DEF AtConversion

LEMMA ConversionsOK ==
  ASSUME PInv,
         conv_percent \/ conv_c \/ conv_s \/ conv_d \/ conv_u \/ conv_p \/ conv_default
  PROVE  PInv'
<1>1. PICK a, x, g : a = Head(args) /\ x = Conv /\ g = emit_unsigned(Head(args), 16, FALSE, PtrDigits, "0")
  OBVIOUS
<1>2. CASE conv_percent
  <2>1. Converts({"%"}, <<"%">>, 0)
    BY <1>2 DEF conv_percent
  <2>2. \A k : spec.parts[k].letter \in {"%"} =>
          <<"%">> = PartText(spec.parts[k]) /\ 0 = IF UsesArg(spec.parts[k].letter) THEN 1 ELSE 0
    BY PartTexts DEF UsesArg, Numeric
  <2> QED  BY <2>1, <2>2, ConvertsOK
<1>3. CASE conv_c
  <2>1. Converts({"c"}, <<Head(args)>>, 1)
    BY <1>3 DEF conv_c
  <2>2. \A k : args = spec.parts[k].rest /\ spec.parts[k].letter \in {"c"} =>
          <<Head(args)>> = PartText(spec.parts[k]) /\ 1 = IF UsesArg(spec.parts[k].letter) THEN 1 ELSE 0
    BY PartTexts DEF UsesArg, Numeric
  <2> QED  BY <2>1, <2>2, ConvertsOK
<1>4. CASE conv_s
  <2>1. PICK w : w = emit_padded_string(Head(args), Conv.width, Conv.pad)
    OBVIOUS
  <2>2. Converts({"s"}, w, 1)
    BY <1>4, <2>1 DEF conv_s
  <2>3. ASSUME NEW k, AtConversion(k), args = spec.parts[k].rest, spec.parts[k].letter \in {"s"}
        PROVE  w = PartText(spec.parts[k]) /\ 1 = IF UsesArg(spec.parts[k].letter) THEN 1 ELSE 0
    BY ZenonT(60), <2>1, <2>3, Parsed, PartTexts DEF UsesArg
  <2> QED  BY <2>2, <2>3, ConvertsOK
<1>5. CASE conv_d
  <2>1. PICK v, w : /\ v = get_signed_arg(Head(args), Conv.length)
                    /\ w = IF v < 0 THEN <<"-">> \o emit_unsigned(-(v + 1) + 1, 10, FALSE, Conv.width, Conv.pad)
                           ELSE emit_unsigned(v, 10, FALSE, Conv.width, Conv.pad)
    OBVIOUS
  <2>2. Converts({"d", "i"}, w, 1)
    BY <1>5, <2>1 DEF conv_d
  <2>3. ASSUME NEW k, AtConversion(k), args = spec.parts[k].rest, spec.parts[k].letter \in {"d", "i"}
        PROVE  w = PartText(spec.parts[k]) /\ 1 = IF UsesArg(spec.parts[k].letter) THEN 1 ELSE 0
    <3>1. PICK p : p = spec.parts[k]
      OBVIOUS
    <3>2. /\ IsConv(p) /\ Head(args) = Head(p.rest) /\ p.letter \in {"d", "i"}
          /\ Conv.width = WidthOf(p.digits) /\ Conv.pad = PadOf(p) /\ Conv.length = p.length
      BY <2>3, <3>1, Parsed
    <3>3. v = get_signed_arg(Head(p.rest), p.length) /\ p.letter \in Numeric
      BY <2>1, <3>2 DEF Numeric
    <3>4. v \in Int
      <4>1. /\ (Head(p.rest) % Span[p.length]) \in Int /\ Span[p.length] \in Int
            /\ \E u \in Int : v = IF 2 * u >= Span[p.length] THEN u - Span[p.length] ELSE u
        BY <3>2, <3>3, ArgValues
      <4> QED  BY <4>1
    <3>5. -(v + 1) + 1 = -v
      BY <3>4
    <3>6. w = IF v < 0 THEN <<"-">> \o Number(p, -v, 10, FALSE) ELSE Number(p, v, 10, FALSE)
      BY <2>1, <3>2, <3>5 DEF Number
    <3>7. PartText(p) = IF v < 0 THEN <<"-">> \o Number(p, -v, 10, FALSE) ELSE Number(p, v, 10, FALSE)
      BY <3>2, <3>3, PartTexts
    <3>8. UsesArg(p.letter)
      BY <3>3 DEF UsesArg
    <3> QED  BY <3>1, <3>6, <3>7, <3>8
  <2> QED  BY <2>2, <2>3, ConvertsOK
<1>6. CASE conv_u
  <2>1. PICK v, w1, w2, w3 : /\ v = get_unsigned_arg(Head(args), Conv.length)
                             /\ w1 = emit_unsigned(v, 10, FALSE, Conv.width, Conv.pad)
                             /\ w2 = emit_unsigned(v, 16, FALSE, Conv.width, Conv.pad)
                             /\ w3 = emit_unsigned(v, 16, TRUE, Conv.width, Conv.pad)
    OBVIOUS
  <2>2. Converts({"u"}, w1, 1) \/ Converts({"x"}, w2, 1) \/ Converts({"X"}, w3, 1)
    BY <1>6, <2>1 DEF conv_u
  <2>3. ASSUME NEW k, AtConversion(k), args = spec.parts[k].rest, spec.parts[k].letter \in {"u", "x", "X"}
        PROVE  /\ spec.parts[k].letter = "u" => w1 = PartText(spec.parts[k])
               /\ spec.parts[k].letter = "x" => w2 = PartText(spec.parts[k])
               /\ spec.parts[k].letter = "X" => w3 = PartText(spec.parts[k])
               /\ 1 = IF UsesArg(spec.parts[k].letter) THEN 1 ELSE 0
    <3>1. PICK p : p = spec.parts[k]
      OBVIOUS
    <3>2. /\ Head(args) = Head(p.rest) /\ p.letter \in {"u", "x", "X"}
          /\ Conv.width = WidthOf(p.digits) /\ Conv.pad = PadOf(p) /\ Conv.length = p.length
      BY <2>3, <3>1, Parsed
    <3>3. UsesArg(p.letter)
      BY <3>2 DEF UsesArg, Numeric
    <3>4. w1 = Number(p, v, 10, FALSE) /\ w2 = Number(p, v, 16, FALSE) /\ w3 = Number(p, v, 16, TRUE)
          /\ v = get_unsigned_arg(Head(p.rest), p.length)
      BY <2>1, <3>2 DEF Number
    <3> QED  BY <3>1, <3>2, <3>3, <3>4, PartTexts
  <2>4. CASE Converts({"u"}, w1, 1)
    BY <2>3, <2>4, ConvertsOK
  <2>5. CASE Converts({"x"}, w2, 1)
    BY <2>3, <2>5, ConvertsOK
  <2>6. CASE Converts({"X"}, w3, 1)
    BY <2>3, <2>6, ConvertsOK
  <2> QED  BY <2>2, <2>4, <2>5, <2>6
<1>7. CASE conv_p
  <2>1. PICK w : w = <<"0", "x">> \o emit_unsigned(Head(args), 16, FALSE, PtrDigits, "0")
    OBVIOUS
  <2>2. Converts({"p"}, w, 1)
    BY <1>7, <2>1 DEF conv_p
  <2>3. ASSUME NEW k, AtConversion(k), args = spec.parts[k].rest, spec.parts[k].letter \in {"p"}
        PROVE  w = PartText(spec.parts[k]) /\ 1 = IF UsesArg(spec.parts[k].letter) THEN 1 ELSE 0
    <3>1. w = <<"0", "x">> \o emit_unsigned(Head(spec.parts[k].rest), 16, FALSE, PtrDigits, "0")
      BY <2>1, <2>3
    <3>2. UsesArg(spec.parts[k].letter)
      BY <2>3 DEF UsesArg, Numeric
    <3> QED  BY <2>3, <3>1, <3>2, PartTexts
  <2> QED  BY <2>2, <2>3, ConvertsOK
<1>8. CASE conv_default
  <2>1. PICK l : l = At(Conv.pos)
    OBVIOUS
  <2>2. PICK w : w = <<"%", l>>
    OBVIOUS
  <2>3. l \notin {"%", "c", "s", "d", "i", "u", "x", "X", "p"} /\ Converts({l}, w, 0)
    BY <1>8, <2>1, <2>2 DEF conv_default
  <2>4. ASSUME NEW k, AtConversion(k), args = spec.parts[k].rest, spec.parts[k].letter \in {l}
        PROVE  w = PartText(spec.parts[k]) /\ 0 = IF UsesArg(spec.parts[k].letter) THEN 1 ELSE 0
    BY <2>2, <2>3, <2>4, PartTexts DEF UsesArg, Numeric
  <2> QED  BY <2>3, <2>4, ConvertsOK
<1> QED  BY <1>2, <1>3, <1>4, <1>5, <1>6, <1>7, <1>8

(***************************************************************************)
(* The end of a call.                                                      *)
(***************************************************************************)
LEMMA LineEnd ==
  ASSUME PInv, finish, fn = "klog"
  PROVE  /\ TypeInv' /\ StampsOK' /\ FreshLine'
         /\ Output \in CharSeqs /\ Output' = Output \o <<"\r", "\n">>
<1>1. /\ text = <<>> /\ st' = emit_char(Fresh(FALSE, st), "\n") /\ fn' = "none"
      /\ UNCHANGED <<script, panicked, fmt, spec, now, start, pos, args, text, when>>
  BY DEF finish
<1>2. TypeInv /\ StampsOK
  BY DEF PInv, LineInv
<1>3. PICK b \in BOOLEAN : b = FALSE
  BY Zenon
<1>4. PICK s : s = Fresh(b, st)
  OBVIOUS
<1>5. st \in StType /\ now \in Nat /\ start \in 0 .. Len(st.out) /\ start' = start
  BY <1>1, <1>2 DEF TypeInv
<1>6. s \in StType /\ s.out = st.out /\ s.stamps = st.stamps /\ s.prefix_enabled = b
  BY <1>4, <1>5, FreshFields
<1>7. ~Due(s) /\ "\n" \in Char /\ st' = emit_char(s, "\n")
  BY <1>1, <1>3, <1>4, <1>6, NamedChars DEF Due
<1>8. Goes(s, "\n")
  BY <1>2, <1>5, <1>6, <1>7, EmitLine
<1>9. Shows(s, "\n") = <<"\r", "\n">>
  <2>1. Shows(s, "\n") = <<>> \o <<"\r", "\n">>
    BY <1>7 DEF Shows
  <2> QED  BY <2>1, Literals, ConcatEmptySeq DEF CharSeqs
<1>10. /\ st' \in StType /\ StampsOK' /\ FreshLine' /\ start' \in 0 .. Len(st'.out)
       /\ Output \in CharSeqs /\ Output' = Output \o <<"\r", "\n">>
  BY <1>8, <1>9 DEF Goes, Emitted
<1>11. TypeInv'
  BY <1>1, <1>2, <1>10 DEF TypeInv
<1> QED  BY <1>10, <1>11

LEMMA FinishOK ==
  ASSUME PInv, finish
  PROVE  PInv'
<1>1. /\ fn # "none" /\ text = <<>> /\ (At(pos) = NUL \/ LonePercent) /\ fn' = "none"
      /\ (fn = "klog" => ret' = st.written + 2) /\ (fn # "klog" => st' = st)
      /\ UNCHANGED <<script, panicked, fmt, spec, now, start, pos, args, text, when>>
  BY DEF finish
<1>2. TypeInv /\ ScriptInv /\ StampsOK
  BY DEF PInv, LineInv
<1>3. CallInv'
  BY <1>1 DEF CallInv
<1>4. ScriptInv'
  BY <1>1, <1>2 DEF ScriptInv
<1>5. CASE panicked
  <2>1. fn = "klog"
    BY <1>1, <1>5, PanicAt
  <2>2. TypeInv' /\ StampsOK' /\ FreshLine'
    BY <2>1, LineEnd
  <2>3. LineInv'
    BY <1>1, <2>2 DEF LineInv
  <2>4. spec' = NoSpec
    BY <1>1, <1>2, <1>5 DEF ScriptInv
  <2>5. ResultInv'
    BY <2>4, NoSpecKind DEF ResultInv, Returned
  <2> QED  BY <1>3, <1>4, <2>2, <2>3, <2>5 DEF PInv
<1>6. CASE ~panicked
  <2>1. PICK k \in 1 .. Len(spec.parts) : CallAt(k, spec.parts[k].off)
                                          /\ (AtChar(k) \/ AtConversion(k) \/ AtEnd(k))
    BY <1>1, <1>6, BetweenParts
  <2>2. AtEnd(k)
    BY <1>1, <2>1, OnePart
  <2>3. PICK t, n : t = spec.text /\ n = Len(t) /\ spec.parts[k].off = n
    BY <2>2 DEF AtEnd
  <2>4. TextDone(n)
    BY <2>1, <2>3 DEF CallAt
  <2>5. Len(when) = n /\ Output = Shown(n) /\ st.written = Len(Output)
    BY <2>4 DEF TextDone
  <2>6. Meaning(fmt, spec) /\ KindOK(fn, spec) /\ t \in Seq(Char)
    <3>1. Meaning(fmt, spec) /\ KindOK(fn, spec)
      BY <1>1, <1>6, Running
    <3> QED  BY <2>3, <3>1, Means
  <2>7. CASE fn = "klog"
    <3>1. /\ TypeInv' /\ StampsOK' /\ FreshLine'
          /\ Output \in CharSeqs /\ Output' = Output \o <<"\r", "\n">>
      BY <2>7, LineEnd
    <3>2. LineInv'
      BY <1>1, <3>1 DEF LineInv
    <3>3. Output = Lines(t, when)[n]
      BY <2>3, <2>5, <2>7 DEF Shown
    <3>4. ret' = Len(Output')
      <4>1. PICK o, e : o = Output /\ e = <<"\r", "\n">>
        OBVIOUS
      <4>2. o \in Seq(Char) /\ e \in Seq(Char) /\ Len(e) = 2
        BY Zenon, <3>1, <4>1, Literals DEF CharSeqs
      <4>3. Len(o \o e) = Len(o) + Len(e)
        BY <4>2, ConcatProperties
      <4> QED  BY <1>1, <2>5, <2>7, <3>1, <4>1, <4>2, <4>3
    <3>5. spec.kind = "message"
      BY <2>6, <2>7 DEF KindOK
    <3>6. ResultInv'
      BY <1>1, <1>6, <2>3, <2>5, <2>6, <3>1, <3>3, <3>4, <3>5 DEF ResultInv
    <3> QED  BY <1>3, <1>4, <3>1, <3>2, <3>6 DEF PInv
  <2>8. CASE fn = "kprintf"
    <3>1. st' = st /\ spec.kind = "number"
      BY <1>1, <2>6, <2>8 DEF KindOK
    <3>2. TypeInv'
      BY <1>1, <1>2, <3>1 DEF TypeInv
    <3>3. StampsOK' /\ Output' = Output
      BY <1>1, <1>2, <3>1 DEF StampsOK, Output
    <3>4. script # <<>> => script[1].fn = "kprintf"
      BY <1>2, <1>6, <2>8 DEF ScriptInv
    <3>5. LineInv'
      BY <1>1, <3>3, <3>4 DEF LineInv
    <3>6. Output = t
      <4>1. SubSeq(t, 1, Len(t)) = t
        BY <2>6, SubSeqFull
      <4> QED  BY <2>3, <2>5, <2>8, <4>1 DEF Shown
    <3>7. ResultInv'
      BY <1>1, <1>6, <2>3, <2>6, <2>8, <3>1, <3>3, <3>6 DEF ResultInv
    <3> QED  BY <1>3, <1>4, <3>2, <3>5, <3>7 DEF PInv
  <2> QED  BY <1>1, <1>2, <2>7, <2>8 DEF TypeInv
<1> QED  BY <1>2, <1>5, <1>6 DEF TypeInv

LEMMA PanicOK ==
  ASSUME PInv, Panic
  PROVE  PInv'
<1>1. /\ panicked' = TRUE /\ fn' = "none" /\ script' = <<EmptyLine, Banner>> /\ spec' = NoSpec
      /\ text' = <<>> /\ UNCHANGED <<fmt, now, start, pos, args, st, ret, when>>
  BY DEF Panic, PanicLog, EmptyLine, Banner
<1>2. TypeInv /\ StampsOK
  BY DEF PInv, LineInv
<1>3. TypeInv'
  BY <1>1, <1>2, Literals DEF TypeInv
<1>4. ScriptInv'
  BY <1>1 DEF ScriptInv
<1>5. CallInv' /\ ResultInv'
  BY <1>1, NoSpecKind DEF CallInv, ResultInv, Returned
<1>6. script'[1] = EmptyLine /\ EmptyLine.fmt = <<>>
  BY <1>1 DEF EmptyLine
<1>7. LineInv'
  <2>1. StampsOK'
    BY <1>1, <1>2 DEF StampsOK
  <2> QED  BY <1>1, <1>6, <2>1 DEF LineInv
<1> QED  BY <1>3, <1>4, <1>5, <1>7 DEF PInv

(***************************************************************************)
(* The clock runs, or nothing happens: what is printed keeps its times.    *)
(***************************************************************************)
LEMMA StutterOK ==
  ASSUME PInv, ClockRuns \/ UNCHANGED printkVars
  PROVE  PInv'
<1>1. /\ UNCHANGED <<script, panicked, fn, fmt, spec, start, pos, args, text, st, ret, when>>
      /\ now' \in Nat
  <2>1. CASE ClockRuns
    BY <2>1, PrintkAssumption DEF ClockRuns, PrintkAssumption
  <2>2. CASE UNCHANGED printkVars
    BY <2>2 DEF printkVars, call, PInv, TypeInv
  <2> QED  BY <2>1, <2>2
<1>2. TypeInv' /\ ScriptInv'
  BY <1>1 DEF PInv, TypeInv, ScriptInv
<1>3. LineInv'
  BY <1>1 DEF PInv, LineInv, StampsOK, FreshLine
<1>4. CallInv'
  BY ZenonT(60), <1>1 DEF PInv, CallInv, CallAt, TextDone, Shown, Output
<1>5. ResultInv'
  BY <1>1 DEF PInv, ResultInv, Returned, Output
<1> QED  BY <1>2, <1>3, <1>4, <1>5 DEF PInv

LEMMA PrintkInductive == PrintkSpec => []PInv
<1>1. PrintkInit => PInv
  BY PrintkInitOK
<1>2. PInv /\ [PrintkNext]_printkVars => PInv'
  <2> SUFFICES ASSUME PInv, [PrintkNext]_printkVars PROVE PInv'
    OBVIOUS
  <2>1. CASE Begin
    BY <2>1, BeginOK
  <2>2. CASE put_char
    BY <2>2, PutCharOK
  <2>3. CASE plain_char
    BY <2>3, PlainCharOK
  <2>4. CASE conv_percent \/ conv_c \/ conv_s \/ conv_d \/ conv_u \/ conv_p \/ conv_default
    BY <2>4, ConversionsOK
  <2>5. CASE finish
    BY <2>5, FinishOK
  <2>6. CASE Panic
    BY <2>6, PanicOK
  <2>7. CASE ClockRuns \/ Quiet \/ UNCHANGED printkVars
    BY <2>7, StutterOK DEF Quiet
  <2> QED  BY <2>1, <2>2, <2>3, <2>4, <2>5, <2>6, <2>7 DEF PrintkNext, Work
<1> QED  BY <1>1, <1>2, PTL DEF PrintkSpec

(***************************************************************************)
(* vprintk_internal never reads behind the terminator of its format, also  *)
(* where a % is the last character.                                        *)
(***************************************************************************)
THEOREM FormatBounded == PrintkSpec => []ReadsFormatOnly
<1>1. PInv => ReadsFormatOnly
  <2> SUFFICES ASSUME PInv PROVE ReadsFormatOnly
    OBVIOUS
  <2>1. fmt \in Seq(Char) /\ pos \in 1 .. Len(fmt) + 1
    BY DEF PInv, TypeInv, CharSeqs
  <2>2. Len(fmt) \in Nat
    BY <2>1, LenProperties
  <2> QED  BY <2>1, <2>2 DEF ReadsFormatOnly
<1> QED  BY <1>1, PrintkInductive, PTL

(***************************************************************************)
(* emit_log_prefix writes only at the start of a console line, kpanic's    *)
(* lines over an unfinished one included.                                  *)
(***************************************************************************)
THEOREM PrefixesAtLineStarts == PrintkSpec => []PrefixStartsLine
<1>1. PInv => PrefixStartsLine
  BY DEF PInv, LineInv, StampsOK, PrefixStartsLine
<1> QED  BY <1>1, PrintkInductive, PTL

(***************************************************************************)
(* klog shows its whole message, before every line the time at which that  *)
(* line began, and returns the number of characters it printed, for every  *)
(* format that spells the message and however the clock runs meanwhile.    *)
(***************************************************************************)
THEOREM MessagesShown == PrintkSpec => []LinesShown
<1>1. PInv => LinesShown
  BY DEF PInv, ResultInv, LinesShown
<1> QED  BY <1>1, PrintkInductive, PTL

(***************************************************************************)
(* kprintf shows the number its length modifier selects, in positional     *)
(* notation, for every argument, width, padding and modifier.              *)
(***************************************************************************)
THEOREM NumbersShown == PrintkSpec => []NumberShown
<1>1. PInv => NumberShown
  <2> SUFFICES ASSUME PInv, Returned, spec.kind = "number" PROVE ShowsNumber(Output, spec.parts[1])
    BY DEF NumberShown, ShowsNumber
  <2>1. Meaning(fmt, spec) /\ KindOK("kprintf", spec) /\ Output = spec.text
    BY DEF PInv, ResultInv
  <2>2. /\ IsConv(spec.parts[1]) /\ spec.parts[1].letter \in {"d", "i", "u", "x", "X"}
        /\ spec.text = PartText(spec.parts[1])
    BY <2>1, NumberMeans
  <2> QED  BY <2>1, <2>2, NumberPart
<1> QED  BY <1>1, PrintkInductive, PTL
=============================================================================
