----------------------------- MODULE TrapProof ------------------------------
(***************************************************************************)
(* A trap is transparent, and a panic tells the truth, for every set of    *)
(* causes, every number of nested faults and every size of the C handler's *)
(* stack frame.                                                            *)
(*                                                                         *)
(* The proof follows one trap through trap_entry.  At each program counter *)
(* the context that was interrupted is in the registers, in the frame or   *)
(* in the CSRs, as RegistersHeld and FrameHeld say. Two facts suffice for  *)
(* nested traps: interrupts stay masked until sret, and an exception never *)
(* returns, so that only a trap taken from the main code does.             *)
(***************************************************************************)
EXTENDS TrapProps, TLAPS

-----------------------------------------------------------------------------
(***************************************************************************)
(* The frame of trap.S and the struct of trap.h: the j-th field of the     *)
(* struct is the register the assembly keeps at offset 8 (j - 1).          *)
(***************************************************************************)
LEMMA StructMatches ==
  \A j \in 1 .. 35 : /\ trap_frame[j] \in DOMAIN TF
                     /\ TF[trap_frame[j]] = 8 * (j - 1)
BY SMTT(60) DEF TF, trap_frame

(***************************************************************************)
(* Every register the assembly saves is a field of the struct.             *)
(***************************************************************************)
LEMMA StructComplete ==
  \A r \in DOMAIN TF : \E j \in 1 .. 35 : trap_frame[j] = r
BY SMTT(60) DEF TF, trap_frame

(***************************************************************************)
(* The struct has 36 fields, the last one is not a register.               *)
(***************************************************************************)
LEMMA StructEnds == Len(trap_frame) = 36 /\ trap_frame[36] \notin DOMAIN TF
BY SMTT(60) DEF TF, trap_frame

(***************************************************************************)
(* Offsets name the registers: none is shared, and they are aligned words  *)
(* of a frame of TF_SIZE bytes.                                            *)
(***************************************************************************)
LEMMA Offsets ==
  /\ \A r \in DOMAIN TF : TF[r] \in 0 .. 272 /\ TF[r] % 8 = 0
  /\ \A r, s \in DOMAIN TF : TF[r] = TF[s] => r = s
<1>1. \A r \in DOMAIN TF : TF[r] \in 0 .. 272 /\ TF[r] % 8 = 0
  <2>1. SUFFICES ASSUME NEW r \in DOMAIN TF
                 PROVE  TF[r] \in 0 .. 272 /\ TF[r] % 8 = 0
    OBVIOUS
  <2>2. PICK j \in 1 .. 35 : trap_frame[j] = r
    BY StructComplete
  <2>3. TF[r] = 8 * (j - 1)
    BY <2>2, StructMatches
  <2> QED
    BY <2>3
<1>2. ASSUME NEW r \in DOMAIN TF, NEW s \in DOMAIN TF, TF[r] = TF[s] PROVE r = s
  <2>1. PICK j \in 1 .. 35 : trap_frame[j] = r
    BY StructComplete
  <2>2. PICK k \in 1 .. 35 : trap_frame[k] = s
    BY StructComplete
  <2>3. 8 * (j - 1) = 8 * (k - 1)
    BY <1>2, <2>1, <2>2, StructMatches
  <2> QED
    BY <2>1, <2>2, <2>3
<1> QED
  BY <1>1, <1>2

(***************************************************************************)
(* C finds a field where the assembly stored the register.                 *)
(***************************************************************************)
LEMMA FieldIs == \A f \in DOMAIN TF : FieldWord(f) = tf + TF[f]
<1>1. SUFFICES ASSUME NEW f \in DOMAIN TF PROVE FieldWord(f) = tf + TF[f]
  OBVIOUS
<1>2. PICK j \in 1 .. 35 : trap_frame[j] = f
  BY StructComplete
<1>3. \A k \in 1 .. Len(trap_frame) : trap_frame[k] = f => k = j
  <2>1. SUFFICES ASSUME NEW k \in 1 .. 36, trap_frame[k] = f PROVE k = j
    BY StructEnds
  <2>2. k \in 1 .. 35
    BY <2>1, StructEnds
  <2>3. 8 * (k - 1) = 8 * (j - 1)
    BY <2>1, <2>2, <1>2, StructMatches
  <2> QED
    BY <2>2, <2>3
<1>4. j \in 1 .. Len(trap_frame)
  BY StructEnds
<1>5. (CHOOSE k \in 1 .. Len(trap_frame) : trap_frame[k] = f) = j
  BY <1>2, <1>3, <1>4
<1>6. TF[f] = 8 * (j - 1)
  BY <1>2, StructMatches
<1> QED
  BY <1>5, <1>6 DEF FieldWord

(***************************************************************************)
(* Names and places of the single registers.                               *)
(***************************************************************************)
LEMMA Registers ==
  /\ {"sp", "sstatus", "sepc", "scause", "stval"} \subseteq DOMAIN TF
  /\ TF["sp"] = 8 /\ TF["sstatus"] = 248 /\ TF["sepc"] = 256
  /\ TF["scause"] = 264 /\ TF["stval"] = 272
  /\ GPR \cup {"sp"} \subseteq DOMAIN TF
  /\ {"t0", "a0", "ra"} \subseteq GPR
  /\ "sp" \notin GPR
  /\ \A r \in GPR \cup {"sp"} : r \notin Csrs
  /\ DOMAIN TF = GPR \cup {"sp"} \cup Csrs
BY SMTT(60) DEF TF, GPR, Csrs

-----------------------------------------------------------------------------
(***************************************************************************)
(* The inductive invariant.                                                *)
(***************************************************************************)
Main     == {<<"main", 0>>, <<"main", 1>>}
Unframed == {<<"entry">>, <<"sret">>, <<"lost">>}
Framed   == {<<"save">>, <<"save_csrs">>, <<"call">>, <<"handler">>, <<"kpanic">>,
             <<"wfi">>, <<"return">>, <<"restore">>}

Depth   == TF_SIZE + CFrame
Trapped == ctx[1]
Ecall   == Trapped.cause[2] \in {EXC_ECALL_FROM_U, EXC_ECALL_FROM_S}
Masked  == [SIE |-> FALSE, SPIE |-> Trapped.at.sie, SPP |-> TRUE]

(***************************************************************************)
(* Types; no register, word or stack entry has a type of its own.          *)
(***************************************************************************)
TypeOK ==
  /\ pc \in Main \cup Unframed \cup Framed
  /\ gpr = [r \in GPR |-> gpr[r]] /\ mem = [w \in Words |-> mem[w]]
  /\ sp \in Words /\ faults \in 0 .. MaxFaults
  /\ sstatus \in [SIE : BOOLEAN, SPIE : BOOLEAN, SPP : BOOLEAN]
  /\ stvec \in {<<"entry">>, <<"lost">>}
  /\ ctx \in Seq({ctx[i] : i \in 1 .. Len(ctx)})

(***************************************************************************)
(* The main code has its whole stack and no trap below it.                 *)
(***************************************************************************)
MainOK == pc \in Main => ctx = <<>> /\ sp = MainSp /\ faults = 0

(***************************************************************************)
(* A trap is masked, knows what it interrupted, and has not touched the    *)
(* top of that stack; an interrupt is always taken from the main code.     *)
(***************************************************************************)
ContextOK ==
  pc \notin Main =>
    /\ Len(ctx) >= 1 /\ sstatus.SIE = FALSE
    /\ Trapped.at = [pc |-> Trapped.at.pc, gpr |-> Trapped.at.gpr, sp |-> Trapped.at.sp,
                     sie |-> Trapped.at.sie, top |-> Trapped.at.top]
    /\ Trapped.at.gpr = [r \in GPR |-> Trapped.at.gpr[r]]
    /\ Trapped.at.sp \in Words /\ mem[Trapped.at.sp] = Trapped.at.top
    /\ Trapped.at.sie \in BOOLEAN
    /\ \/ Trapped.cause[1] = "exception"
       \/ /\ Trapped.cause[1] = "interrupt" /\ Len(ctx) = 1
          /\ Trapped.at.pc \in Main /\ Trapped.at.sp = MainSp /\ faults = 0

(***************************************************************************)
(* Where the frame is, and that the stack has room for the faults to come. *)
(***************************************************************************)
StackOK ==
  /\ pc \in Unframed => sp = Trapped.at.sp
  /\ pc \in Framed => sp = Trapped.at.sp - TF_SIZE /\ sp >= (MaxFaults - faults) * Depth
  /\ pc = <<"entry">> => sp >= (MaxFaults - faults) * Depth + Depth
  /\ pc \in {<<"handler">>, <<"kpanic">>, <<"wfi">>} => tf = sp

(***************************************************************************)
(* The interrupted context is in the registers before they are saved and   *)
(* after they are restored.                                                *)
(***************************************************************************)
RegistersHeld ==
  /\ pc \in {<<"entry">>, <<"save">>, <<"save_csrs">>, <<"sret">>} => gpr = Trapped.at.gpr
  /\ pc \in {<<"entry">>, <<"save">>, <<"save_csrs">>} =>
       scause = Trapped.cause /\ stval = Trapped.tval
  /\ pc \in {<<"entry">>, <<"save">>, <<"save_csrs">>, <<"restore">>, <<"sret">>} =>
       sepc = Trapped.at.pc /\ sstatus = Masked

(***************************************************************************)
(* In between it is in the frame; the handler only moves the saved sepc,   *)
(* and only for an ecall.                                                  *)
(***************************************************************************)
FrameHeld ==
  /\ pc \in Framed \ {<<"save">>} =>
       /\ \A r \in GPR : mem[sp + TF[r]] = Trapped.at.gpr[r]
       /\ mem[sp + 8] = <<"address", sp>>
  /\ pc \in Framed \ {<<"save">>, <<"save_csrs">>} =>
       /\ mem[sp + 248] = Masked
       /\ mem[sp + 256] = IF pc \in {<<"kpanic">>, <<"wfi">>} /\ Ecall
                            THEN PlusFour(Trapped.at.pc) ELSE Trapped.at.pc
       /\ mem[sp + 264] = Trapped.cause /\ mem[sp + 272] = Trapped.tval

(***************************************************************************)
(* Interrupts return, exceptions panic.                                    *)
(***************************************************************************)
WayOut ==
  /\ pc \in {<<"return">>, <<"restore">>, <<"sret">>} => Trapped.cause[1] = "interrupt"
  /\ pc \in {<<"kpanic">>, <<"wfi">>} => Trapped.cause[1] = "exception"
  /\ report.kind = "panic" => pc = <<"wfi">>

IInv == /\ TypeOK /\ MainOK /\ ContextOK /\ StackOK
        /\ RegistersHeld /\ FrameHeld /\ WayOut /\ PanicTells

-----------------------------------------------------------------------------
(***************************************************************************)
(* The stack: MainSp bytes of aligned words, MaxFaults + 1 times the depth *)
(* of one trap.                                                            *)
(***************************************************************************)
LEMMA StackSize ==
  /\ Depth \in Nat /\ Depth >= 288
  /\ \A n \in Nat : n * Depth \in Nat /\ (n + 1) * Depth = n * Depth + Depth
  /\ MainSp \in Nat /\ MainSp = MaxFaults * Depth + Depth
<1>1. Depth \in Nat /\ Depth >= 288
  BY TrapAssumption DEF Depth, TF_SIZE
<1>2. PICK d \in Nat : d = Depth
  BY <1>1
<1>3. \A n \in Nat : n * d \in Nat /\ (n + 1) * d = n * d + d
  OBVIOUS
<1>4. MainSp = (MaxFaults + 1) * d
  BY <1>2 DEF MainSp, Depth
<1> QED
  BY <1>1, <1>2, <1>3, <1>4, TrapAssumption

LEMMA WordsAre ==
  /\ \A w : w \in Words <=> w \in Nat /\ w % 8 = 0 /\ w <= MainSp
  /\ MainSp % 8 = 0
<1>1. PICK c \in Nat : CFrame = 8 * c
  BY TrapAssumption
<1>2. PICK m \in Nat : m = MaxFaults + 1
  BY TrapAssumption
<1>3. PICK e \in Nat : e = 36 + c
  OBVIOUS
<1>4. MainSp = m * (8 * e)
  BY <1>1, <1>2, <1>3 DEF MainSp, TF_SIZE
<1>5. PICK k \in Nat : k = m * e
  OBVIOUS
<1>6. MainSp = 8 * k
  BY <1>4, <1>5
<1>7. MainSp \div 8 = k
  BY <1>6
<1> QED
  BY <1>6, <1>7 DEF Words

LEMMA FrameWords ==
  ASSUME NEW p \in Words, p + 288 \in Words
  PROVE  /\ p \in Nat
         /\ \A r \in DOMAIN TF : p + TF[r] \in Words /\ p + TF[r] < p + 288
<1>1. p \in Nat /\ p % 8 = 0 /\ p + 288 <= MainSp
  BY WordsAre
<1>2. ASSUME NEW r \in DOMAIN TF
      PROVE  p + TF[r] \in Words /\ p + TF[r] < p + 288
  <2>1. PICK o \in 0 .. 272 : o = TF[r] /\ o % 8 = 0
    BY Offsets
  <2>2. p + o \in Nat /\ (p + o) % 8 = 0 /\ p + o <= MainSp /\ p + o < p + 288
    BY <1>1, <2>1, StackSize
  <2> QED
    BY <2>1, <2>2, WordsAre
<1> QED
  BY <1>1, <1>2

(***************************************************************************)
(* Pushing a context, and popping the only one.                            *)
(***************************************************************************)
LEMMA Push ==
  ASSUME NEW S, NEW s \in Seq(S), NEW x
  PROVE  LET t == <<x>> \o s
         IN  /\ t \in Seq({t[i] : i \in 1 .. Len(t)})
             /\ Len(t) = Len(s) + 1 /\ t[1] = x
<1>1. <<x>> \in Seq(S \cup {x}) /\ s \in Seq(S \cup {x})
  OBVIOUS
<1> DEFINE t == <<x>> \o s
<1>2. t \in Seq(S \cup {x}) /\ Len(t) = Len(s) + 1 /\ t[1] = x
  BY <1>1
<1> HIDE DEF t
<1>3. t \in Seq({t[i] : i \in 1 .. Len(t)})
  BY <1>2
<1> QED
  BY <1>2, <1>3 DEF t

(***************************************************************************)
(* The initial states.                                                     *)
(***************************************************************************)
LEMMA InitOK == Init => IInv
<1>1. SUFFICES ASSUME Init PROVE IInv
  OBVIOUS
<1>2. MainSp \in Words
  BY WordsAre, StackSize
<1>3. ctx = <<>> /\ pc = <<"main", 0>> /\ report.kind = "none"
  BY <1>1 DEF Init
<1>4. TypeOK
  BY <1>1, <1>2, TrapAssumption DEF Init, TypeOK, Main, Values
<1>5. MainOK /\ ContextOK
  BY <1>1 DEF Init, MainOK, ContextOK, Main
<1>6. StackOK /\ RegistersHeld /\ FrameHeld
  BY <1>3 DEF StackOK, RegistersHeld, FrameHeld, Framed, Unframed
<1>7. WayOut /\ PanicTells
  BY <1>3 DEF WayOut, PanicTells
<1> QED
  BY <1>4, <1>5, <1>6, <1>7 DEF IInv

(***************************************************************************)
(* A panic is reported once, and nothing changes after it.                 *)
(***************************************************************************)
LEMMA NoPanicYet ==
  ASSUME WayOut, pc # <<"wfi">>, report' = report
  PROVE  PanicTells' /\ (report'.kind = "panic" => pc' = <<"wfi">>)
<1>1. report.kind # "panic"
  BY DEF WayOut
<1> QED
  BY <1>1 DEF PanicTells

(***************************************************************************)
(* Taking a trap: from the main code, or from the handler or kpanic.       *)
(***************************************************************************)
LEMMA TakeTrapOK ==
  ASSUME IInv, NEW kind, NEW cause, NEW tval, TakeTrap(kind, cause, tval),
         \/ kind = "interrupt" /\ pc \in Main /\ faults' = faults
         \/ /\ kind = "exception" /\ pc \in Main \cup {<<"handler">>, <<"kpanic">>}
            /\ faults < MaxFaults /\ faults' = faults + 1
  PROVE  IInv'
<1> DEFINE c == [at |-> Context, cause |-> <<kind, cause>>, tval |-> tval]
<1>1. /\ sepc' = pc /\ stval' = tval /\ scause' = <<kind, cause>>
      /\ sstatus' = [SIE |-> FALSE, SPIE |-> sstatus.SIE, SPP |-> TRUE]
      /\ pc' = stvec /\ ctx' = <<c>> \o ctx
      /\ gpr' = gpr /\ sp' = sp /\ mem' = mem /\ stvec' = stvec /\ report' = report
  BY DEF TakeTrap
<1>2. /\ Len(ctx') = Len(ctx) + 1 /\ ctx'[1] = c
      /\ ctx' \in Seq({ctx'[i] : i \in 1 .. Len(ctx')})
  <2> DEFINE S == {ctx[i] : i \in 1 .. Len(ctx)}
  <2>1. ctx \in Seq(S)
    BY DEF IInv, TypeOK
  <2> HIDE DEF c, S
  <2> DEFINE t == <<c>> \o ctx
  <2>2. t \in Seq({t[i] : i \in 1 .. Len(t)}) /\ Len(t) = Len(ctx) + 1 /\ t[1] = c
    BY <2>1, Push
  <2> QED
    BY <1>1, <2>2
<1>3. /\ c.at = Context /\ c.cause = <<kind, cause>> /\ c.tval = tval
      /\ Context = [pc |-> pc, gpr |-> gpr, sp |-> sp, sie |-> sstatus.SIE, top |-> mem[sp]]
  BY DEF Context
<1> HIDE DEF c
<1>4. /\ Context.pc = pc /\ Context.gpr = gpr /\ Context.sp = sp
      /\ Context.sie = sstatus.SIE /\ Context.top = mem[sp]
      /\ c.cause[1] = kind
  BY <1>3
<1>5. pc' \in {<<"entry">>, <<"lost">>} /\ pc' \notin Main /\ pc' \notin Framed /\ pc # <<"wfi">>
  BY <1>1 DEF IInv, TypeOK, Main, Framed
<1>6. TypeOK'
  <2>1. sstatus.SIE \in BOOLEAN /\ faults' \in 0 .. MaxFaults
    BY TrapAssumption DEF IInv, TypeOK
  <2> QED
    BY <1>1, <1>2, <1>5, <2>1 DEF IInv, TypeOK, Unframed
<1>7. MainOK'
  BY <1>5 DEF MainOK
<1>8. Trapped' = c
  BY <1>2 DEF Trapped
<1>9. ContextOK'
  <2>1. Len(ctx') >= 1 /\ sstatus'.SIE = FALSE
    BY <1>1, <1>2 DEF IInv, TypeOK
  <2>2. c.at = [pc |-> c.at.pc, gpr |-> c.at.gpr, sp |-> c.at.sp, sie |-> c.at.sie, top |-> c.at.top]
    BY <1>3, <1>4
  <2>3. /\ c.at.gpr = [r \in GPR |-> c.at.gpr[r]] /\ c.at.sp \in Words
        /\ mem'[c.at.sp] = c.at.top /\ c.at.sie \in BOOLEAN
    BY <1>1, <1>3, <1>4 DEF IInv, TypeOK
  <2>4. CASE kind = "exception"
    BY <1>4, <1>8, <2>1, <2>2, <2>3, <2>4 DEF ContextOK
  <2>5. CASE kind = "interrupt" /\ pc \in Main /\ faults' = faults
    <3>1. ctx = <<>> /\ sp = MainSp /\ faults = 0
      BY <2>5 DEF IInv, MainOK
    <3>2. Len(ctx') = 1
      BY <3>1, <1>2
    <3> QED
      BY <1>3, <1>4, <1>8, <2>1, <2>2, <2>3, <2>5, <3>1, <3>2 DEF ContextOK
  <2> QED
    BY <2>4, <2>5
<1>10. StackOK'
  <2>1. sp' = c.at.sp
    BY <1>1, <1>3, <1>4
  <2>2. sp' >= (MaxFaults - faults') * Depth + Depth
    <3>1. CASE pc \in Main
      <4>1. sp' = MaxFaults * Depth + Depth /\ faults = 0
        BY <3>1, <1>1, StackSize DEF IInv, MainOK
      <4>2. CASE faults' = faults
        BY <4>1, <4>2, StackSize, TrapAssumption
      <4>3. CASE faults < MaxFaults /\ faults' = faults + 1
        <5>1. PICK m \in Nat : m = MaxFaults - 1
          BY <4>1, <4>3, TrapAssumption
        <5>2. MaxFaults * Depth = m * Depth + Depth /\ MaxFaults - faults' = m /\ m * Depth \in Nat
          BY <5>1, <4>1, <4>3, StackSize, TrapAssumption
        <5> QED
          BY <4>1, <5>2, StackSize
      <4> QED
        BY <4>2, <4>3
    <3>2. CASE pc \in {<<"handler">>, <<"kpanic">>}
      <4>1. faults < MaxFaults /\ faults' = faults + 1 /\ faults \in Nat
        BY <3>2 DEF IInv, TypeOK, Main
      <4>2. sp >= (MaxFaults - faults) * Depth
        BY <3>2 DEF IInv, StackOK, Framed
      <4>3. PICK m \in Nat : m = MaxFaults - faults'
        BY <4>1, TrapAssumption
      <4>4. MaxFaults - faults = m + 1
        BY <4>1, <4>3, TrapAssumption
      <4> QED
        BY <1>1, <4>2, <4>3, <4>4, StackSize
    <3> QED
      BY <3>1, <3>2
  <2> QED
    BY <1>5, <1>8, <2>1, <2>2 DEF StackOK, Unframed
<1>11. RegistersHeld'
  BY <1>1, <1>3, <1>4, <1>8 DEF RegistersHeld, Masked
<1>12. FrameHeld'
  BY <1>5 DEF FrameHeld
<1>13. WayOut' /\ PanicTells'
  BY <1>1, <1>5, NoPanicYet DEF IInv, WayOut
<1> QED
  BY <1>6, <1>7, <1>9, <1>10, <1>11, <1>12, <1>13 DEF IInv

(***************************************************************************)
(* What is left alone: every part of the invariant is about these.         *)
(***************************************************************************)
LEMMA Untouched ==
  ASSUME IInv, UNCHANGED <<pc, gpr, sp, mem, csrVars, tf, report, ctx, faults>>
  PROVE  IInv'
<1>1. /\ pc' = pc /\ gpr' = gpr /\ sp' = sp /\ mem' = mem /\ sstatus' = sstatus
      /\ sepc' = sepc /\ scause' = scause /\ stval' = stval /\ stvec' = stvec
      /\ tf' = tf /\ report' = report /\ ctx' = ctx /\ faults' = faults
  BY DEF csrVars
<1>2. Trapped' = Trapped /\ Masked' = Masked /\ Ecall' = Ecall
  BY <1>1 DEF Trapped, Masked, Ecall
<1>3. TypeOK' /\ MainOK'
  BY <1>1 DEF IInv, TypeOK, MainOK
<1>4. ContextOK' /\ StackOK'
  BY <1>1, <1>2 DEF IInv, ContextOK, StackOK
<1>5. RegistersHeld' /\ FrameHeld'
  BY <1>1, <1>2 DEF IInv, RegistersHeld, FrameHeld
<1>6. WayOut' /\ PanicTells'
  BY <1>1, <1>2 DEF IInv, WayOut, PanicTells
<1> QED
  BY <1>3, <1>4, <1>5, <1>6 DEF IInv

(***************************************************************************)
(* The main code keeps its stack pointer, whatever it computes and however *)
(* it sets the interrupt enables.                                          *)
(***************************************************************************)
LEMMA MainCodeOK ==
  ASSUME IInv, pc \in Main, pc' \in Main, ctx' = ctx, sp' = sp, faults' = faults,
         report' = report, gpr' = [r \in GPR |-> gpr'[r]], mem' = [w \in Words |-> mem'[w]],
         sstatus' \in [SIE : BOOLEAN, SPIE : BOOLEAN, SPP : BOOLEAN],
         stvec' \in {<<"entry">>, <<"lost">>}
  PROVE  IInv'
<1>1. pc' \notin Framed /\ pc' \notin Unframed /\ pc # <<"wfi">>
  BY DEF Main, Framed, Unframed
<1>2. TypeOK'
  BY DEF IInv, TypeOK
<1>3. MainOK' /\ ContextOK'
  BY DEF IInv, MainOK, ContextOK
<1>4. StackOK' /\ RegistersHeld' /\ FrameHeld'
  BY DEF StackOK, RegistersHeld, FrameHeld, Main, Framed, Unframed
<1>5. WayOut' /\ PanicTells'
  BY <1>1, NoPanicYet DEF IInv, WayOut, Main
<1> QED
  BY <1>2, <1>3, <1>4, <1>5 DEF IInv

LEMMA MainStepOK == ASSUME IInv, MainStep PROVE IInv'
<1>1. pc \in Main
  BY DEF MainStep, InMain, Main
<1>2. /\ pc' = <<"main", 1 - pc[2]>> /\ gpr' = Values(1 - pc[2])
      /\ mem' = [mem EXCEPT ![sp] = <<"local", 1 - pc[2]>>]
      /\ sstatus' = sstatus /\ stvec' = stvec
      /\ ctx' = ctx /\ sp' = sp /\ faults' = faults /\ report' = report
  BY DEF MainStep, csrVars
<1>3. pc' \in Main
  BY <1>1, <1>2 DEF Main
<1>4. gpr' = [r \in GPR |-> gpr'[r]]
  BY <1>2 DEF Values
<1>5. mem' = [w \in Words |-> mem'[w]]
  BY <1>2 DEF IInv, TypeOK
<1> QED
  BY <1>1, <1>2, <1>3, <1>4, <1>5, MainCodeOK DEF IInv, TypeOK

LEMMA ApiCallOK == ASSUME IInv, ApiCall PROVE IInv'
<1>1. pc \in Main
  BY DEF ApiCall, InMain, Main
<1>2. /\ pc' = pc /\ gpr' = gpr /\ mem' = mem
      /\ ctx' = ctx /\ sp' = sp /\ faults' = faults /\ report' = report
  BY DEF ApiCall
<1>3. \/ sstatus' = sstatus
      \/ sstatus' = [sstatus EXCEPT !.SIE = TRUE]
      \/ sstatus' = [sstatus EXCEPT !.SIE = FALSE]
  BY DEF ApiCall, trap_init, trap_enable_interrupts, trap_disable_interrupts
<1>4. stvec' = stvec \/ stvec' = <<"entry">>
  BY DEF ApiCall, trap_init
<1>5. sstatus' \in [SIE : BOOLEAN, SPIE : BOOLEAN, SPP : BOOLEAN]
  BY <1>3 DEF IInv, TypeOK
<1>6. stvec' \in {<<"entry">>, <<"lost">>}
  BY <1>4 DEF IInv, TypeOK
<1>7. gpr' = [r \in GPR |-> gpr'[r]] /\ mem' = [w \in Words |-> mem'[w]]
  BY <1>2 DEF IInv, TypeOK
<1> QED
  BY <1>1, <1>2, <1>5, <1>6, <1>7, MainCodeOK

-----------------------------------------------------------------------------
(***************************************************************************)
(* The steps of a trap: the context it interrupted is still on ctx, and    *)
(* nothing is reported before kpanic.                                      *)
(***************************************************************************)
LEMMA InTrap ==
  ASSUME IInv, pc \notin Main, pc' \notin Main, pc' \in Unframed \cup Framed,
         ctx' = ctx, faults' = faults, sstatus'.SIE = FALSE, stvec' = stvec,
         sstatus' \in [SIE : BOOLEAN, SPIE : BOOLEAN, SPP : BOOLEAN],
         sp' \in Words, gpr' = [r \in GPR |-> gpr'[r]], mem' = [w \in Words |-> mem'[w]],
         mem'[Trapped.at.sp] = mem[Trapped.at.sp]
  PROVE  /\ TypeOK' /\ MainOK' /\ ContextOK'
         /\ Trapped' = Trapped /\ Masked' = Masked /\ Ecall' = Ecall
<1>1. Trapped' = Trapped /\ Masked' = Masked /\ Ecall' = Ecall
  BY DEF Trapped, Masked, Ecall
<1>2. TypeOK'
  BY DEF IInv, TypeOK
<1>3. MainOK'
  BY DEF MainOK
<1>4. ContextOK'
  BY <1>1 DEF IInv, ContextOK
<1> QED
  BY <1>1, <1>2, <1>3, <1>4

(***************************************************************************)
(* The frame lies below the interrupted code's stack pointer.              *)
(***************************************************************************)
LEMMA FrameBelow ==
  ASSUME IInv, pc \in Framed
  PROVE  /\ sp \in Nat /\ sp + 288 = Trapped.at.sp /\ Trapped.at.sp \in Words
         /\ \A r \in DOMAIN TF : sp + TF[r] \in Words /\ sp + TF[r] # Trapped.at.sp
         /\ \A r, s \in DOMAIN TF : sp + TF[r] = sp + TF[s] => r = s
<1>1. pc \notin Main
  BY DEF Framed, Main
<1>2. sp \in Words /\ Trapped.at.sp \in Words /\ sp = Trapped.at.sp - 288
  BY <1>1 DEF IInv, TypeOK, ContextOK, StackOK, TF_SIZE
<1>3. sp \in Nat /\ Trapped.at.sp \in Nat
  BY <1>2, WordsAre
<1>4. sp + 288 = Trapped.at.sp
  BY <1>2, <1>3
<1>5. \A r \in DOMAIN TF : sp + TF[r] \in Words /\ sp + TF[r] < sp + 288
  BY <1>2, <1>4, FrameWords
<1>6. \A r \in DOMAIN TF : TF[r] \in Nat
  BY Offsets
<1>7. \A r, s \in DOMAIN TF : sp + TF[r] = sp + TF[s] => TF[r] = TF[s]
  BY <1>3, <1>6
<1>8. \A r \in DOMAIN TF : sp + TF[r] # Trapped.at.sp
  BY <1>3, <1>4, <1>5, <1>6
<1> QED
  BY <1>2, <1>3, <1>4, <1>5, <1>7, <1>8, Offsets

LEMMA EntryOK == ASSUME IInv, entry PROVE IInv'
<1>1. /\ pc = <<"entry">> /\ pc' = <<"save">> /\ sp' = sp - 288
      /\ gpr' = gpr /\ mem' = mem /\ sstatus' = sstatus /\ sepc' = sepc /\ scause' = scause
      /\ stval' = stval /\ stvec' = stvec /\ report' = report /\ ctx' = ctx /\ faults' = faults
  BY DEF entry, entry_frame, csrVars, TF_SIZE
<1>2. pc \notin Main /\ pc' \notin Main /\ pc' \in Framed /\ pc' \notin Unframed
  BY <1>1 DEF Main, Framed, Unframed
<1>3. PICK n \in Nat : n = MaxFaults - faults
  BY TrapAssumption DEF IInv, TypeOK
<1>4. sp >= n * Depth + Depth /\ sp = Trapped.at.sp
  BY <1>1, <1>3 DEF IInv, StackOK, Unframed
<1>5. sp \in Nat /\ sp % 8 = 0 /\ sp <= MainSp
  BY WordsAre DEF IInv, TypeOK
<1>6. PICK q \in Nat : q = n * Depth
  BY StackSize
<1>7. sp' >= q /\ sp' \in Nat /\ sp' % 8 = 0 /\ sp' <= MainSp
  BY <1>1, <1>4, <1>5, <1>6, StackSize
<1>8. sp' \in Words
  BY <1>7, WordsAre
<1>9. sstatus.SIE = FALSE /\ gpr = [r \in GPR |-> gpr[r]] /\ mem = [w \in Words |-> mem[w]]
      /\ sstatus \in [SIE : BOOLEAN, SPIE : BOOLEAN, SPP : BOOLEAN]
  BY <1>2 DEF IInv, TypeOK, ContextOK
<1>10. TypeOK' /\ MainOK' /\ ContextOK' /\ Trapped' = Trapped /\ Masked' = Masked
  BY <1>1, <1>2, <1>8, <1>9, InTrap
<1>11. StackOK'
  BY <1>1, <1>2, <1>3, <1>4, <1>6, <1>7, <1>10 DEF StackOK, TF_SIZE
<1>12. RegistersHeld'
  BY <1>1, <1>10 DEF IInv, RegistersHeld
<1>13. FrameHeld'
  BY <1>1 DEF FrameHeld
<1>14. WayOut' /\ PanicTells'
  BY <1>1, NoPanicYet DEF IInv, WayOut
<1> QED
  BY <1>10, <1>11, <1>12, <1>13, <1>14 DEF IInv

LEMMA SaveRegistersOK == ASSUME IInv, save_registers PROVE IInv'
<1>1. /\ pc = <<"save">> /\ pc' = <<"save_csrs">> /\ sp' = sp
      /\ gpr' = gpr /\ sstatus' = sstatus /\ sepc' = sepc /\ scause' = scause
      /\ stval' = stval /\ stvec' = stvec /\ report' = report /\ ctx' = ctx /\ faults' = faults
  BY DEF save_registers, csrVars
<1> DEFINE R == GPR \cup {"sp"}
<1>2. mem' = [w \in Words |-> IF \E r \in R : w = sp + TF[r]
                                THEN Stored(CHOOSE r \in R : w = sp + TF[r]) ELSE mem[w]]
  BY DEF save_registers
<1>3. pc \notin Main /\ pc' \notin Main /\ pc \in Framed /\ pc' \in Framed /\ pc' \notin Unframed
  BY <1>1 DEF Main, Framed, Unframed
<1>4. R \subseteq DOMAIN TF
  BY Registers
<1> HIDE DEF R
<1>5. \A r \in R : mem'[sp + TF[r]] = Stored(r)
  <2>1. SUFFICES ASSUME NEW r \in R PROVE mem'[sp + TF[r]] = Stored(r)
    OBVIOUS
  <2>2. \A s \in R : sp + TF[r] = sp + TF[s] => s = r
    BY <1>3, <1>4, FrameBelow
  <2>3. (CHOOSE s \in R : sp + TF[r] = sp + TF[s]) = r
    BY <2>2
  <2>4. sp + TF[r] \in Words
    BY <1>3, <1>4, FrameBelow
  <2> QED
    BY <1>2, <2>3, <2>4
<1>6. mem'[Trapped.at.sp] = mem[Trapped.at.sp]
  BY <1>2, <1>3, <1>4, FrameBelow
<1>7. mem' = [w \in Words |-> mem'[w]]
  BY <1>2
<1>8. sstatus.SIE = FALSE /\ gpr = [r \in GPR |-> gpr[r]] /\ sp \in Words
      /\ sstatus \in [SIE : BOOLEAN, SPIE : BOOLEAN, SPP : BOOLEAN]
  BY <1>3 DEF IInv, TypeOK, ContextOK
<1>9. TypeOK' /\ MainOK' /\ ContextOK' /\ Trapped' = Trapped /\ Masked' = Masked
  BY <1>1, <1>3, <1>6, <1>7, <1>8, InTrap
<1>10. StackOK'
  BY <1>1, <1>3, <1>9 DEF IInv, StackOK
<1>11. RegistersHeld'
  BY <1>1, <1>9 DEF IInv, RegistersHeld
<1>12. FrameHeld'
  <2>1. gpr = Trapped.at.gpr
    BY <1>1 DEF IInv, RegistersHeld
  <2>2. \A r \in GPR : r \in R /\ Stored(r) = gpr[r]
    BY Registers DEF R, Stored
  <2>3. "sp" \in R /\ Stored("sp") = <<"address", sp>> /\ TF["sp"] = 8
    BY Registers DEF R, Stored
  <2>4. mem'[sp + 8] = <<"address", sp>>
    BY <1>5, <2>3
  <2>5. \A r \in GPR : mem'[sp + TF[r]] = Trapped.at.gpr[r]
    BY <1>5, <2>1, <2>2
  <2> QED
    BY <1>1, <1>9, <2>4, <2>5 DEF FrameHeld
<1>13. WayOut' /\ PanicTells'
  BY <1>1, NoPanicYet DEF IInv, WayOut
<1> QED
  BY <1>9, <1>10, <1>11, <1>12, <1>13 DEF IInv

LEMMA SaveCsrsOK == ASSUME IInv, save_csrs PROVE IInv'
<1>1. /\ pc = <<"save_csrs">> /\ pc' = <<"call">> /\ sp' = sp
      /\ gpr' = [gpr EXCEPT !["t0"] = stval] /\ sstatus' = sstatus
      /\ stvec' = stvec /\ report' = report /\ ctx' = ctx /\ faults' = faults
  BY DEF save_csrs, csrVars
<1>2. mem' = [mem EXCEPT ![sp + 248] = sstatus, ![sp + 256] = sepc,
                         ![sp + 264] = scause, ![sp + 272] = stval]
  BY ZenonT(60), Registers DEF save_csrs
<1>3. pc \notin Main /\ pc' \notin Main /\ pc \in Framed /\ pc' \in Framed /\ pc' \notin Unframed
  BY <1>1 DEF Main, Framed, Unframed
<1>4. /\ sp \in Nat /\ sp + 288 = Trapped.at.sp /\ Trapped.at.sp \in Words
      /\ sp + 248 \in Words /\ sp + 256 \in Words /\ sp + 264 \in Words /\ sp + 272 \in Words
  BY <1>3, FrameBelow, Registers
<1>5. mem = [w \in Words |-> mem[w]]
  BY DEF IInv, TypeOK
<1>6. /\ mem' = [w \in Words |-> mem'[w]]
      /\ mem'[sp + 248] = sstatus /\ mem'[sp + 256] = sepc
      /\ mem'[sp + 264] = scause /\ mem'[sp + 272] = stval
      /\ \A w \in Words : w \notin {sp + 248, sp + 256, sp + 264, sp + 272} => mem'[w] = mem[w]
  <2> DEFINE A == sp + 248
             B == sp + 256
             C == sp + 264
             D == sp + 272
  <2>1. A # B /\ A # C /\ A # D /\ B # C /\ B # D /\ C # D
    BY <1>4
  <2>2. A \in Words /\ B \in Words /\ C \in Words /\ D \in Words
    BY <1>4
  <2>3. mem' = [[[[mem EXCEPT ![A] = sstatus] EXCEPT ![B] = sepc]
                 EXCEPT ![C] = scause] EXCEPT ![D] = stval]
    BY <1>2
  <2> HIDE DEF A, B, C, D
  <2>4. DOMAIN mem = Words
    BY <1>5
  <2>5. mem' = [w \in Words |-> mem'[w]]
    BY <2>3, <2>4
  <2>6. mem'[A] = sstatus /\ mem'[B] = sepc /\ mem'[C] = scause /\ mem'[D] = stval
    BY <2>1, <2>2, <2>3, <2>4
  <2>7. \A w \in Words : w \notin {A, B, C, D} => mem'[w] = mem[w]
    BY <2>1, <2>2, <2>3, <2>4
  <2> QED
    BY <2>5, <2>6, <2>7 DEF A, B, C, D
<1>7. mem'[Trapped.at.sp] = mem[Trapped.at.sp]
  BY <1>4, <1>6
<1>8. sstatus.SIE = FALSE /\ gpr = [r \in GPR |-> gpr[r]] /\ sp \in Words
      /\ sstatus \in [SIE : BOOLEAN, SPIE : BOOLEAN, SPP : BOOLEAN]
  BY <1>3 DEF IInv, TypeOK, ContextOK
<1>9. gpr' = [r \in GPR |-> gpr'[r]]
  BY <1>1, <1>8
<1>10. TypeOK' /\ MainOK' /\ ContextOK' /\ Trapped' = Trapped /\ Masked' = Masked
  BY <1>1, <1>3, <1>6, <1>7, <1>8, <1>9, InTrap
<1>11. StackOK'
  BY <1>1, <1>3, <1>10 DEF IInv, StackOK
<1>12. RegistersHeld'
  BY <1>1 DEF RegistersHeld
<1>13. FrameHeld'
  <2>1. /\ scause = Trapped.cause /\ stval = Trapped.tval
        /\ sepc = Trapped.at.pc /\ sstatus = Masked
        /\ \A r \in GPR : mem[sp + TF[r]] = Trapped.at.gpr[r]
        /\ mem[sp + 8] = <<"address", sp>>
    BY <1>1, <1>3 DEF IInv, RegistersHeld, FrameHeld
  <2>2. ASSUME NEW r \in GPR \cup {"sp"} PROVE mem'[sp + TF[r]] = mem[sp + TF[r]]
    <3>1. r \in DOMAIN TF /\ r \notin {"sstatus", "sepc", "scause", "stval"}
      BY Registers DEF Csrs
    <3>2. sp + TF[r] \in Words /\ sp + TF[r] \notin {sp + 248, sp + 256, sp + 264, sp + 272}
      BY <1>3, <3>1, FrameBelow, Registers
    <3> QED
      BY <1>6, <3>2
  <2>3. mem'[sp + 8] = <<"address", sp>>
    BY <2>1, <2>2, Registers
  <2>4. \A r \in GPR : mem'[sp + TF[r]] = Trapped.at.gpr[r]
    BY <2>1, <2>2
  <2> QED
    BY <1>1, <1>6, <1>10, <2>1, <2>3, <2>4 DEF FrameHeld
<1>14. WayOut' /\ PanicTells'
  BY <1>1, NoPanicYet DEF IInv, WayOut
<1> QED
  BY <1>10, <1>11, <1>12, <1>13, <1>14 DEF IInv

LEMMA CallHandlerOK == ASSUME IInv, call_handler PROVE IInv'
<1>1. /\ pc = <<"call">> /\ pc' = <<"handler">> /\ sp' = sp /\ tf' = sp /\ mem' = mem
      /\ gpr' = [gpr EXCEPT !["a0"] = <<"address", sp>>, !["ra"] = <<"return">>]
      /\ sstatus' = sstatus
      /\ stvec' = stvec /\ report' = report /\ ctx' = ctx /\ faults' = faults
  BY DEF call_handler, csrVars
<1>2. pc \notin Main /\ pc' \notin Main /\ pc \in Framed /\ pc' \in Framed /\ pc' \notin Unframed
  BY <1>1 DEF Main, Framed, Unframed
<1>3. /\ sstatus.SIE = FALSE /\ gpr = [r \in GPR |-> gpr[r]] /\ sp \in Words
      /\ mem = [w \in Words |-> mem[w]]
      /\ sstatus \in [SIE : BOOLEAN, SPIE : BOOLEAN, SPP : BOOLEAN]
  BY <1>2 DEF IInv, TypeOK, ContextOK
<1>4. gpr' = [r \in GPR |-> gpr'[r]]
  BY <1>1, <1>3
<1>5. TypeOK' /\ MainOK' /\ ContextOK' /\ Trapped' = Trapped /\ Masked' = Masked
  BY <1>1, <1>2, <1>3, <1>4, InTrap
<1>6. StackOK'
  BY <1>1, <1>2, <1>5 DEF IInv, StackOK
<1>7. RegistersHeld'
  BY <1>1 DEF RegistersHeld
<1>8. FrameHeld'
  BY <1>1, <1>2, <1>5 DEF IInv, FrameHeld
<1>9. WayOut' /\ PanicTells'
  BY <1>1, NoPanicYet DEF IInv, WayOut
<1> QED
  BY <1>5, <1>6, <1>7, <1>8, <1>9 DEF IInv

-----------------------------------------------------------------------------
(***************************************************************************)
(* The C code writes below the frame it is given only.                     *)
(***************************************************************************)
LEMMA CRunsBelow ==
  ASSUME IInv, pc \in Framed, NEW m, CRuns(m)
  PROVE  /\ gpr' = [r \in GPR |-> gpr'[r]] /\ mem' = [w \in Words |-> mem'[w]]
         /\ mem'[Trapped.at.sp] = m[Trapped.at.sp]
         /\ \A r \in DOMAIN TF : mem'[sp + TF[r]] = m[sp + TF[r]]
<1>1. /\ gpr' = [r \in GPR |-> IF r \in CallerSaved THEN <<"junk">> ELSE gpr[r]]
      /\ mem' = [w \in Words |-> IF sp - CFrame <= w /\ w < sp THEN <<"junk">> ELSE m[w]]
  BY DEF CRuns
<1>2. \A r \in DOMAIN TF : sp + TF[r] \in Words /\ ~ (sp + TF[r] < sp)
  BY FrameBelow, Offsets
<1>3. Trapped.at.sp \in Words /\ ~ (Trapped.at.sp < sp)
  BY FrameBelow
<1>4. mem'[Trapped.at.sp] = m[Trapped.at.sp]
  BY <1>1, <1>3
<1>5. \A r \in DOMAIN TF : mem'[sp + TF[r]] = m[sp + TF[r]]
  BY <1>1, <1>2
<1>6. gpr' = [r \in GPR |-> gpr'[r]] /\ mem' = [w \in Words |-> mem'[w]]
  BY <1>1
<1> QED
  BY <1>4, <1>5, <1>6

(***************************************************************************)
(* What C reads through tf is the frame at sp.                             *)
(***************************************************************************)
LEMMA ReadsFrame ==
  ASSUME IInv, pc \in {<<"handler">>, <<"kpanic">>}
  PROVE  /\ tf = sp /\ \A f \in DOMAIN TF : Field(f) = mem[sp + TF[f]]
         /\ FieldWord("sepc") = sp + 256
         /\ Field("scause") = Trapped.cause
<1>1. tf = sp
  BY DEF IInv, StackOK
<1>2. \A f \in DOMAIN TF : FieldWord(f) = sp + TF[f]
  BY <1>1, FieldIs
<1>3. \A f \in DOMAIN TF : Field(f) = mem[sp + TF[f]]
  BY <1>2 DEF Field
<1>4. mem[sp + 264] = Trapped.cause
  BY DEF IInv, FrameHeld, Framed
<1> QED
  BY <1>1, <1>2, <1>3, <1>4, Registers

LEMMA HandleInterruptOK == ASSUME IInv, handle_interrupt PROVE IInv'
<1>1. /\ pc = <<"handler">> /\ pc' = <<"return">> /\ sp' = sp /\ CRuns(mem)
      /\ sstatus' = sstatus
      /\ stvec' = stvec /\ ctx' = ctx /\ faults' = faults
  BY DEF handle_interrupt, csrVars
<1>2. pc \notin Main /\ pc' \notin Main /\ pc \in Framed /\ pc' \in Framed /\ pc' \notin Unframed
  BY <1>1 DEF Main, Framed, Unframed
<1>3. /\ sstatus.SIE = FALSE /\ sp \in Words
      /\ sstatus \in [SIE : BOOLEAN, SPIE : BOOLEAN, SPP : BOOLEAN]
  BY <1>2 DEF IInv, TypeOK, ContextOK
<1>4. /\ gpr' = [r \in GPR |-> gpr'[r]] /\ mem' = [w \in Words |-> mem'[w]]
      /\ mem'[Trapped.at.sp] = mem[Trapped.at.sp]
      /\ \A r \in DOMAIN TF : mem'[sp + TF[r]] = mem[sp + TF[r]]
  BY <1>1, <1>2, CRunsBelow
<1>5. TypeOK' /\ MainOK' /\ ContextOK' /\ Trapped' = Trapped /\ Masked' = Masked
  BY <1>1, <1>2, <1>3, <1>4, InTrap
<1>6. StackOK'
  BY <1>1, <1>2, <1>5 DEF IInv, StackOK
<1>7. RegistersHeld'
  BY <1>1 DEF RegistersHeld
<1>8. FrameHeld'
  <2>1. /\ \A r \in GPR : mem[sp + TF[r]] = Trapped.at.gpr[r]
        /\ mem[sp + 8] = <<"address", sp>> /\ mem[sp + 248] = Masked
        /\ mem[sp + 256] = Trapped.at.pc
        /\ mem[sp + 264] = Trapped.cause /\ mem[sp + 272] = Trapped.tval
    BY <1>1, <1>2 DEF IInv, FrameHeld
  <2>2. /\ \A r \in GPR : mem'[sp + TF[r]] = mem[sp + TF[r]]
        /\ mem'[sp + 8] = mem[sp + 8] /\ mem'[sp + 248] = mem[sp + 248]
        /\ mem'[sp + 256] = mem[sp + 256]
        /\ mem'[sp + 264] = mem[sp + 264] /\ mem'[sp + 272] = mem[sp + 272]
    BY <1>4, Registers
  <2> QED
    BY <1>1, <1>5, <2>1, <2>2 DEF FrameHeld
<1>9. WayOut'
  <2>1. report.kind # "panic"
    BY <1>1 DEF IInv, WayOut
  <2>2. report'.kind # "panic"
    <3>1. CASE report' = report
      BY <3>1, <2>1
    <3>2. CASE report' = [kind |-> "ignored", sepc |-> Field("sepc"), stval |-> Field("stval")]
      BY <3>2
    <3> QED
      BY <3>1, <3>2 DEF handle_interrupt
  <2>3. Trapped.cause[1] = "interrupt"
    BY <1>1, ReadsFrame DEF handle_interrupt
  <2> QED
    BY <1>1, <1>5, <2>2, <2>3 DEF WayOut
<1>10. PanicTells'
  BY <1>1, <1>9 DEF WayOut, PanicTells
<1> QED
  BY <1>5, <1>6, <1>7, <1>8, <1>9, <1>10 DEF IInv

LEMMA HandleExceptionOK == ASSUME IInv, handle_exception PROVE IInv'
<1> DEFINE m == IF Field("scause")[2] \in {EXC_ECALL_FROM_U, EXC_ECALL_FROM_S}
                  THEN [mem EXCEPT ![FieldWord("sepc")] = PlusFour(@)] ELSE mem
<1>1. /\ pc = <<"handler">> /\ pc' = <<"kpanic">> /\ sp' = sp /\ CRuns(m)
      /\ sstatus' = sstatus /\ tf' = tf /\ report' = report
      /\ stvec' = stvec /\ ctx' = ctx /\ faults' = faults
  BY DEF handle_exception, csrVars
<1>2. pc \notin Main /\ pc' \notin Main /\ pc \in Framed /\ pc' \in Framed /\ pc' \notin Unframed
  BY <1>1 DEF Main, Framed, Unframed
<1>3. /\ sstatus.SIE = FALSE /\ sp \in Words /\ mem = [w \in Words |-> mem[w]]
      /\ sstatus \in [SIE : BOOLEAN, SPIE : BOOLEAN, SPP : BOOLEAN]
  BY <1>2 DEF IInv, TypeOK, ContextOK
<1>4. /\ FieldWord("sepc") = sp + 256 /\ Field("scause") = Trapped.cause /\ tf = sp
  BY <1>1, ReadsFrame
<1>5. /\ sp + 256 \in Words /\ sp + 256 # Trapped.at.sp /\ Trapped.at.sp \in Words
      /\ \A r \in DOMAIN TF : sp + TF[r] \in Words /\ (sp + TF[r] = sp + 256 => r = "sepc")
  BY <1>2, FrameBelow, Registers
<1>6. m = IF Ecall THEN [mem EXCEPT ![sp + 256] = PlusFour(@)] ELSE mem
  BY <1>4 DEF Ecall
<1> HIDE DEF m
<1>7. /\ m[sp + 256] = IF Ecall THEN PlusFour(mem[sp + 256]) ELSE mem[sp + 256]
      /\ \A w \in Words : w # sp + 256 => m[w] = mem[w]
  BY <1>3, <1>5, <1>6
<1>8. /\ gpr' = [r \in GPR |-> gpr'[r]] /\ mem' = [w \in Words |-> mem'[w]]
      /\ mem'[Trapped.at.sp] = m[Trapped.at.sp]
      /\ \A r \in DOMAIN TF : mem'[sp + TF[r]] = m[sp + TF[r]]
  BY <1>1, <1>2, CRunsBelow
<1>9. mem'[Trapped.at.sp] = mem[Trapped.at.sp]
  BY <1>5, <1>7, <1>8
<1>10. TypeOK' /\ MainOK' /\ ContextOK' /\ Trapped' = Trapped /\ Masked' = Masked /\ Ecall' = Ecall
  BY <1>1, <1>2, <1>3, <1>8, <1>9, InTrap
<1>11. StackOK'
  BY <1>1, <1>2, <1>4, <1>10 DEF IInv, StackOK
<1>12. RegistersHeld'
  BY <1>1 DEF RegistersHeld
<1>13. FrameHeld'
  <2>1. /\ \A r \in GPR : mem[sp + TF[r]] = Trapped.at.gpr[r]
        /\ mem[sp + 8] = <<"address", sp>> /\ mem[sp + 248] = Masked
        /\ mem[sp + 256] = Trapped.at.pc
        /\ mem[sp + 264] = Trapped.cause /\ mem[sp + 272] = Trapped.tval
    BY <1>1, <1>2 DEF IInv, FrameHeld
  <2>2. \A r \in DOMAIN TF \ {"sepc"} : mem'[sp + TF[r]] = mem[sp + TF[r]]
    BY <1>5, <1>7, <1>8
  <2>3. /\ \A r \in GPR : r \in DOMAIN TF \ {"sepc"}
        /\ {"sp", "sstatus", "scause", "stval"} \subseteq DOMAIN TF \ {"sepc"}
    BY Registers DEF Csrs
  <2>4. /\ \A r \in GPR : mem'[sp + TF[r]] = mem[sp + TF[r]]
        /\ mem'[sp + 8] = mem[sp + 8] /\ mem'[sp + 248] = mem[sp + 248]
        /\ mem'[sp + 264] = mem[sp + 264] /\ mem'[sp + 272] = mem[sp + 272]
    BY <2>2, <2>3, Registers
  <2>5. mem'[sp + 256] = IF Ecall THEN PlusFour(Trapped.at.pc) ELSE Trapped.at.pc
    BY <1>7, <1>8, <2>1, Registers
  <2> QED
    BY <1>1, <1>10, <2>1, <2>4, <2>5 DEF FrameHeld
<1>14. WayOut' /\ PanicTells'
  <2>1. Trapped.cause[1] = "exception"
    BY <1>4 DEF handle_exception
  <2>2. PanicTells' /\ report'.kind # "panic"
    BY <1>1, NoPanicYet DEF IInv
  <2> QED
    BY <1>1, <1>10, <2>1, <2>2 DEF WayOut
<1> QED
  BY <1>10, <1>11, <1>12, <1>13, <1>14 DEF IInv

(***************************************************************************)
(* The dump.                                                               *)
(***************************************************************************)
LEMMA KpanicOK == ASSUME IInv, kpanic PROVE IInv'
<1>1. /\ pc = <<"kpanic">> /\ pc' = <<"wfi">> /\ sp' = sp /\ gpr' = gpr /\ mem' = mem
      /\ sstatus' = sstatus /\ tf' = tf /\ report' = [kind |-> "panic", dump |-> trap_dump_frame]
      /\ stvec' = stvec /\ ctx' = ctx /\ faults' = faults
  BY DEF kpanic, csrVars
<1>2. pc \notin Main /\ pc' \notin Main /\ pc \in Framed /\ pc' \in Framed /\ pc' \notin Unframed
  BY <1>1 DEF Main, Framed, Unframed
<1>3. /\ sstatus.SIE = FALSE /\ gpr = [r \in GPR |-> gpr[r]] /\ sp \in Words
      /\ mem = [w \in Words |-> mem[w]]
      /\ sstatus \in [SIE : BOOLEAN, SPIE : BOOLEAN, SPP : BOOLEAN]
  BY <1>2 DEF IInv, TypeOK, ContextOK
<1>4. TypeOK' /\ MainOK' /\ ContextOK' /\ Trapped' = Trapped /\ Masked' = Masked /\ Ecall' = Ecall
  BY <1>1, <1>2, <1>3, InTrap
<1>5. StackOK'
  BY <1>1, <1>2, <1>4 DEF IInv, StackOK
<1>6. RegistersHeld'
  BY <1>1 DEF RegistersHeld
<1>7. FrameHeld'
  BY <1>1, <1>2, <1>4 DEF IInv, FrameHeld
<1>8. WayOut'
  BY <1>1, <1>4 DEF IInv, WayOut
<1>9. PanicTells'
  <2> DEFINE d == trap_dump_frame
  <2>1. d = [f \in DOMAIN TF |-> Field(f)]
    BY DEF trap_dump_frame
  <2>2. \A f \in DOMAIN TF : d[f] = mem[sp + TF[f]]
    BY <1>1, <2>1, ReadsFrame
  <2>3. report'.dump = d
    BY <1>1
  <2> HIDE DEF d
  <2>4. /\ \A r \in GPR : mem[sp + TF[r]] = Trapped.at.gpr[r]
        /\ mem[sp + 8] = <<"address", sp>> /\ mem[sp + 248] = Masked
        /\ mem[sp + 256] = IF Ecall THEN PlusFour(Trapped.at.pc) ELSE Trapped.at.pc
        /\ mem[sp + 264] = Trapped.cause /\ mem[sp + 272] = Trapped.tval
    BY <1>1, <1>2 DEF IInv, FrameHeld
  <2>5. /\ \A r \in GPR : d[r] = Trapped.at.gpr[r]
        /\ d["sp"] = <<"address", sp>> /\ d["sstatus"] = Masked
        /\ d["sepc"] = IF Ecall THEN PlusFour(Trapped.at.pc) ELSE Trapped.at.pc
        /\ d["scause"] = Trapped.cause /\ d["stval"] = Trapped.tval
    BY <2>2, <2>4, Registers
  <2>6. sp = Trapped.at.sp - TF_SIZE
    BY <1>2 DEF IInv, StackOK
  <2>7. Masked.SPIE = Trapped.at.sie
    BY DEF Masked
  <2>8. Trapped.cause[1] = "exception"
    BY <1>1 DEF IInv, WayOut
  <2> QED
    BY <1>4, <2>3, <2>5, <2>6, <2>7, <2>8 DEF PanicTells, Trapped, Ecall
<1> QED
  BY <1>4, <1>5, <1>6, <1>7, <1>8, <1>9 DEF IInv

-----------------------------------------------------------------------------
LEMMA RestoreCsrsOK == ASSUME IInv, restore_csrs PROVE IInv'
<1>1. /\ pc = <<"return">> /\ pc' = <<"restore">> /\ sp' = sp /\ mem' = mem
      /\ sstatus' = mem[sp + 248] /\ sepc' = mem[sp + 256]
      /\ gpr' = [gpr EXCEPT !["t0"] = mem[sp + 256]]
      /\ report' = report /\ stvec' = stvec /\ ctx' = ctx /\ faults' = faults
  BY Registers DEF restore_csrs
<1>2. pc \notin Main /\ pc' \notin Main /\ pc \in Framed /\ pc' \in Framed /\ pc' \notin Unframed
  BY <1>1 DEF Main, Framed, Unframed
<1>3. /\ gpr = [r \in GPR |-> gpr[r]] /\ sp \in Words /\ mem = [w \in Words |-> mem[w]]
      /\ Trapped.at.sie \in BOOLEAN
  BY <1>2 DEF IInv, TypeOK, ContextOK
<1>4. sstatus' = Masked /\ sepc' = Trapped.at.pc
  BY <1>1, <1>2 DEF IInv, FrameHeld
<1>5. sstatus'.SIE = FALSE /\ sstatus' \in [SIE : BOOLEAN, SPIE : BOOLEAN, SPP : BOOLEAN]
  BY <1>3, <1>4 DEF Masked
<1>6. gpr' = [r \in GPR |-> gpr'[r]]
  BY <1>1, <1>3
<1>7. TypeOK' /\ MainOK' /\ ContextOK' /\ Trapped' = Trapped /\ Masked' = Masked
  BY ZenonT(60), <1>1, <1>2, <1>3, <1>5, <1>6, InTrap
<1>8. StackOK'
  BY <1>1, <1>2, <1>7 DEF IInv, StackOK
<1>9. RegistersHeld'
  BY <1>1, <1>4, <1>7 DEF RegistersHeld
<1>10. FrameHeld'
  BY <1>1, <1>2, <1>7 DEF IInv, FrameHeld
<1>11. PanicTells' /\ report'.kind # "panic"
  BY <1>1, NoPanicYet DEF IInv
<1>12. WayOut'
  BY <1>1, <1>7, <1>11 DEF IInv, WayOut
<1> QED
  BY <1>7, <1>8, <1>9, <1>10, <1>11, <1>12 DEF IInv

LEMMA RestoreRegistersOK == ASSUME IInv, restore_registers PROVE IInv'
<1>1. /\ pc = <<"restore">> /\ pc' = <<"sret">> /\ sp' = sp + 288 /\ mem' = mem
      /\ gpr' = [r \in GPR |-> mem[sp + TF[r]]] /\ sstatus' = sstatus /\ sepc' = sepc
      /\ report' = report /\ stvec' = stvec /\ ctx' = ctx /\ faults' = faults
  BY DEF restore_registers, csrVars, TF_SIZE
<1>2. /\ pc \notin Main /\ pc' \notin Main /\ pc \in Framed
      /\ pc' \in Unframed /\ pc' \notin Framed
  BY <1>1 DEF Main, Framed, Unframed
<1>3. /\ sp \in Words /\ mem = [w \in Words |-> mem[w]] /\ sstatus.SIE = FALSE
      /\ sstatus \in [SIE : BOOLEAN, SPIE : BOOLEAN, SPP : BOOLEAN]
      /\ Trapped.at.gpr = [r \in GPR |-> Trapped.at.gpr[r]]
  BY <1>2 DEF IInv, TypeOK, ContextOK
<1>4. sp' = Trapped.at.sp /\ sp' \in Words
  BY <1>1, <1>2, FrameBelow
<1>5. \A r \in GPR : mem[sp + TF[r]] = Trapped.at.gpr[r]
  BY <1>1, <1>2 DEF IInv, FrameHeld
<1>6. gpr' = Trapped.at.gpr
  BY <1>1, <1>3, <1>5
<1>7. gpr' = [r \in GPR |-> gpr'[r]]
  BY <1>1
<1>8. TypeOK' /\ MainOK' /\ ContextOK' /\ Trapped' = Trapped /\ Masked' = Masked
  BY <1>1, <1>2, <1>3, <1>4, <1>7, InTrap
<1>9. StackOK'
  BY <1>1, <1>2, <1>4, <1>8 DEF StackOK
<1>10. RegistersHeld'
  BY <1>1, <1>6, <1>8 DEF IInv, RegistersHeld
<1>11. FrameHeld'
  BY <1>2 DEF FrameHeld
<1>12. PanicTells' /\ report'.kind # "panic"
  BY <1>1, NoPanicYet DEF IInv
<1>13. WayOut'
  BY <1>1, <1>8, <1>12 DEF IInv, WayOut
<1> QED
  BY <1>8, <1>9, <1>10, <1>11, <1>12, <1>13 DEF IInv

(***************************************************************************)
(* The return itself, and what makes it one: the interrupted context is    *)
(* the hart's again.                                                       *)
(***************************************************************************)
LEMMA SretReturns ==
  ASSUME IInv, sret
  PROVE  Trapped.cause[1] = "interrupt" /\ Context' = Trapped.at
<1>1. /\ pc = <<"sret">> /\ pc' = sepc /\ gpr' = gpr /\ sp' = sp /\ mem' = mem
      /\ sstatus' = [SIE |-> sstatus.SPIE, SPIE |-> TRUE, SPP |-> FALSE]
  BY DEF sret
<1>2. pc \in Unframed /\ pc \notin Main
  BY <1>1 DEF Unframed, Main
<1>3. Trapped.cause[1] = "interrupt"
  BY <1>1 DEF IInv, WayOut
<1>4. /\ sepc = Trapped.at.pc /\ gpr = Trapped.at.gpr /\ sp = Trapped.at.sp
      /\ sstatus = Masked /\ mem[Trapped.at.sp] = Trapped.at.top
      /\ Trapped.at = [pc |-> Trapped.at.pc, gpr |-> Trapped.at.gpr, sp |-> Trapped.at.sp,
                       sie |-> Trapped.at.sie, top |-> Trapped.at.top]
  BY <1>1, <1>2 DEF IInv, RegistersHeld, StackOK, ContextOK
<1>5. Masked.SPIE = Trapped.at.sie
  BY DEF Masked
<1>6. sstatus'.SIE = Trapped.at.sie
  BY <1>1, <1>4, <1>5
<1> QED
  BY <1>1, <1>3, <1>4, <1>6 DEF Context

LEMMA SretOK == ASSUME IInv, sret PROVE IInv'
<1>1. /\ pc = <<"sret">> /\ pc' = sepc /\ gpr' = gpr /\ sp' = sp /\ mem' = mem
      /\ sstatus' = [SIE |-> sstatus.SPIE, SPIE |-> TRUE, SPP |-> FALSE]
      /\ ctx' = Tail(ctx) /\ stvec' = stvec /\ report' = report /\ faults' = faults
  BY DEF sret
<1>2. pc \in Unframed /\ pc \notin Main /\ Trapped.cause[1] = "interrupt"
  BY <1>1 DEF Unframed, Main, IInv, WayOut
<1>3. Len(ctx) = 1 /\ Trapped.at.pc \in Main /\ Trapped.at.sp = MainSp /\ faults = 0
  BY <1>2 DEF IInv, ContextOK
<1>4. pc' \in Main /\ sp' = MainSp
  BY <1>1, <1>2, <1>3 DEF IInv, RegistersHeld, StackOK
<1>5. ctx' = <<>>
  <2>1. ctx \in Seq({ctx[i] : i \in 1 .. Len(ctx)})
    BY DEF IInv, TypeOK
  <2> QED
    BY <1>1, <1>3, <2>1
<1>6. TypeOK'
  <2>1. sstatus' \in [SIE : BOOLEAN, SPIE : BOOLEAN, SPP : BOOLEAN]
    BY <1>1 DEF IInv, TypeOK
  <2>2. ctx' \in Seq({ctx'[i] : i \in 1 .. Len(ctx')})
    BY <1>5
  <2> QED
    BY <1>1, <1>4, <2>1, <2>2 DEF IInv, TypeOK
<1>7. MainOK' /\ ContextOK'
  BY <1>1, <1>3, <1>4, <1>5 DEF MainOK, ContextOK
<1>8. StackOK' /\ RegistersHeld' /\ FrameHeld'
  BY <1>4 DEF StackOK, RegistersHeld, FrameHeld, Main, Framed, Unframed
<1>9. PanicTells' /\ report'.kind # "panic"
  BY <1>1, <1>4, NoPanicYet DEF IInv, Main
<1>10. WayOut'
  BY <1>4, <1>9 DEF WayOut, Main
<1> QED
  BY <1>6, <1>7, <1>8, <1>9, <1>10 DEF IInv

-----------------------------------------------------------------------------
(***************************************************************************)
(* IInv holds in every reachable state.                                    *)
(***************************************************************************)
LEMMA StepOK == IInv /\ [Next]_vars => IInv'
<1>1. SUFFICES ASSUME IInv, [Next]_vars PROVE IInv'
  OBVIOUS
<1>2. CASE Handling
  BY <1>1, <1>2, EntryOK, SaveRegistersOK, SaveCsrsOK, CallHandlerOK, HandleInterruptOK,
     HandleExceptionOK, KpanicOK, RestoreCsrsOK, RestoreRegistersOK, SretOK DEF Handling
<1>3. CASE MainStep
  BY <1>1, <1>3, MainStepOK
<1>4. CASE ApiCall
  BY <1>1, <1>4, ApiCallOK
<1>5. ASSUME NEW c \in Interrupts, Interrupt(c) PROVE IInv'
  <2>1. sstatus.SIE /\ TakeTrap("interrupt", c, <<>>) /\ faults' = faults
    BY <1>5 DEF Interrupt
  <2>2. pc \in Main
    BY <1>1, <2>1 DEF IInv, ContextOK
  <2> QED
    BY <1>1, <2>1, <2>2, TakeTrapOK
<1>6. ASSUME NEW c \in Exceptions, Exception(c) PROVE IInv'
  <2>1. /\ TakeTrap("exception", c, <<"address", faults>>)
        /\ pc \in Main \cup {<<"handler">>, <<"kpanic">>}
        /\ faults < MaxFaults /\ faults' = faults + 1
    BY <1>6 DEF Exception, InMain, Main
  <2> QED
    BY <1>1, <2>1, TakeTrapOK
<1>7. ASSUME NEW c \in Interrupts, DeviceRaises(c) \/ DeviceWithdraws(c) PROVE IInv'
  BY <1>1, <1>7, Untouched DEF DeviceRaises, DeviceWithdraws
<1>8. CASE UNCHANGED vars
  BY <1>1, <1>8, Untouched DEF vars
<1> QED
  BY <1>1, <1>2, <1>3, <1>4, <1>5, <1>6, <1>7, <1>8 DEF Next, Stopped

LEMMA Inductive == Spec => []IInv
BY InitOK, StepOK, PTL DEF Spec

(***************************************************************************)
(* What kpanic logs is what the trap interrupted, whichever trap it is of  *)
(* those that nest.                                                        *)
(***************************************************************************)
THEOREM DumpTellsTruth == Spec => []PanicTells
<1>1. IInv => PanicTells
  BY DEF IInv
<1> QED
  BY <1>1, Inductive, PTL

(***************************************************************************)
(* A trap that returns gives the interrupted code back its program         *)
(* counter, its registers, its stack and its interrupt enable, and only an *)
(* interrupt returns.                                                      *)
(***************************************************************************)
THEOREM TrapsAreTransparent == Spec => Transparent
<1>1. IInv /\ [Next]_vars =>
        [sret => ctx[1].cause[1] = "interrupt" /\ Context' = ctx[1].at]_vars
  BY SretReturns DEF Trapped
<1> QED
  BY <1>1, Inductive, PTL DEF Spec, Transparent
=============================================================================
