-------------------------------- MODULE Trap --------------------------------
(***************************************************************************)
(* platform/generic/trap.S, trap.c and trap.h: entry, handling, panic and  *)
(* return of a supervisor trap, beside the hart that takes it and the      *)
(* devices that raise interrupts between any two steps.                    *)
(*                                                                         *)
(*   pc = <<"main", k>>  the kernel code that is interrupted               *)
(*        <<"entry">> ... <<"call">>    trap_entry up to the call          *)
(*        <<"handler">>                 trap_handler                       *)
(*        <<"kpanic">>, <<"wfi">>       kpanic: its log lines, its loop    *)
(*        <<"return">> ... <<"sret">>   trap_entry after the call          *)
(*        <<"lost">>                    where stvec points before          *)
(*                                      trap_init has set it               *)
(* The values of the registers are the names <<register, k>>, so that no   *)
(* two registers ever hold the same value.                                 *)
(***************************************************************************)
EXTENDS Integers, Sequences

CONSTANTS
  Interrupts, Exceptions,  \* the causes that occur, as numbered in scause
  CFrame,                  \* bytes of stack the C handler uses
  MaxFaults                \* bound: exceptions in a behaviour

IRQ_S_TIMER      == 5
EXC_ECALL_FROM_U == 8
EXC_ECALL_FROM_S == 9
TF_SIZE          == 288

ASSUME TrapAssumption ==
  /\ Interrupts \subseteq Nat /\ Exceptions \subseteq Nat /\ MaxFaults \in Nat
  /\ CFrame \in Nat /\ CFrame % 8 = 0

(***************************************************************************)
(* trap.S: where the frame keeps each register, from the stack pointer.    *)
(***************************************************************************)
TF == [ra |-> 0, sp |-> 8, gp |-> 16, tp |-> 24, t0 |-> 32, t1 |-> 40, t2 |-> 48,
       s0 |-> 56, s1 |-> 64, a0 |-> 72, a1 |-> 80, a2 |-> 88, a3 |-> 96, a4 |-> 104,
       a5 |-> 112, a6 |-> 120, a7 |-> 128, s2 |-> 136, s3 |-> 144, s4 |-> 152,
       s5 |-> 160, s6 |-> 168, s7 |-> 176, s8 |-> 184, s9 |-> 192, s10 |-> 200,
       s11 |-> 208, t3 |-> 216, t4 |-> 224, t5 |-> 232, t6 |-> 240,
       sstatus |-> 248, sepc |-> 256, scause |-> 264, stval |-> 272]

trap_frame_swapped ==                       \* mutation: C and assembly disagree
  <<"ra", "sp", "gp", "tp", "t0", "t1", "t2", "t3", "t4", "t5", "t6", "s0", "s1", "a0",
    "a1", "a2", "a3", "a4", "a5", "a6", "a7", "s2", "s3", "s4", "s5", "s6", "s7", "s8",
    "s9", "s10", "s11", "sstatus", "sepc", "scause", "stval", "padding">>

(***************************************************************************)
(* trap.h: the same frame as C sees it, eight bytes per field.             *)
(***************************************************************************)
trap_frame ==
  <<"ra", "sp", "gp", "tp", "t0", "t1", "t2", "s0", "s1", "a0", "a1", "a2", "a3", "a4",
    "a5", "a6", "a7", "s2", "s3", "s4", "s5", "s6", "s7", "s8", "s9", "s10", "s11",
    "t3", "t4", "t5", "t6", "sstatus", "sepc", "scause", "stval", "padding">>

Csrs        == {"sstatus", "sepc", "scause", "stval"}
GPR         == DOMAIN TF \ (Csrs \cup {"sp"})
CallerSaved == {"ra", "t0", "t1", "t2", "t3", "t4", "t5", "t6",
                "a0", "a1", "a2", "a3", "a4", "a5", "a6", "a7"}

MainSp == (MaxFaults + 1) * (TF_SIZE + CFrame)     \* main's sp: room for every trap below
Words  == {8 * j : j \in 0 .. MainSp \div 8}

VARIABLES
  pc, gpr, sp, mem,                       \* program counter, registers, stack
  sstatus, sepc, scause, stval, stvec, sie, \* the CSRs
  pending,                                \* interrupts the devices raise
  tf, report,                             \* kpanic's argument; what it logged
  ctx, faults                             \* history: the contexts the traps
                                          \* interrupted, the innermost first

csrVars == <<sstatus, sepc, scause, stval, stvec, sie>>
vars    == <<pc, gpr, sp, mem, csrVars, pending, tf, report, ctx, faults>>

-----------------------------------------------------------------------------
(***************************************************************************)
(* The hart.                                                               *)
(***************************************************************************)
Values(k) == [r \in GPR |-> <<r, k>>]
InMain    == pc \in {<<"main", 0>>, <<"main", 1>>}

Context == [pc |-> pc, gpr |-> gpr, sp |-> sp, sie |-> sstatus.SIE, top |-> mem[sp]]

TakeTrap(kind, cause, tval) ==
  /\ sepc' = pc /\ stval' = tval
  /\ scause' = <<kind, cause>>
  /\ sstatus' = [SIE |-> FALSE, SPIE |-> sstatus.SIE, SPP |-> TRUE]
  /\ pc' = stvec
  /\ ctx' = <<[at |-> Context, cause |-> <<kind, cause>>, tval |-> tval]>> \o ctx
  /\ UNCHANGED <<gpr, sp, mem, stvec, sie, pending, tf, report>>

Interrupt(c) ==
  /\ pc # <<"lost">> /\ sstatus.SIE /\ c \in sie \cap pending
  /\ TakeTrap("interrupt", c, <<>>) /\ UNCHANGED faults

(***************************************************************************)
(* An instruction of the kernel faults; klog in the handler and in kpanic  *)
(* may fault as well (the UART is a mapping like any other).               *)
(***************************************************************************)
Exception(c) ==
  /\ InMain \/ pc \in {<<"handler">>, <<"kpanic">>}
  /\ faults < MaxFaults /\ faults' = faults + 1
  /\ TakeTrap("exception", c, <<"address", faults>>)

DeviceRaises(c) ==
  /\ c \notin pending /\ pending' = pending \cup {c}
  /\ UNCHANGED <<pc, gpr, sp, mem, csrVars, tf, report, ctx, faults>>

DeviceWithdraws(c) ==
  /\ c \in pending /\ pending' = pending \ {c}
  /\ UNCHANGED <<pc, gpr, sp, mem, csrVars, tf, report, ctx, faults>>

(***************************************************************************)
(* The interrupted code computes: every register and its stack change.     *)
(***************************************************************************)
MainStep ==
  /\ InMain
  /\ LET k == 1 - pc[2]
     IN  pc' = <<"main", k>> /\ gpr' = Values(k) /\ mem' = [mem EXCEPT ![sp] = <<"local", k>>]
  /\ UNCHANGED <<sp, csrVars, pending, tf, report, ctx, faults>>

-----------------------------------------------------------------------------
(***************************************************************************)
(* The calls kernel code makes: csr_set and csr_clear on sstatus and sie.  *)
(***************************************************************************)
trap_enable_interrupts  == sstatus' = [sstatus EXCEPT !.SIE = TRUE]
trap_disable_interrupts == sstatus' = [sstatus EXCEPT !.SIE = FALSE]
trap_enable_interrupt_sources  == sie' = sie \cup {1, 5, 9}
trap_disable_interrupt_sources == sie' = sie \ {1, 5, 9}

trap_init ==
  /\ trap_disable_interrupts
  /\ trap_disable_interrupt_sources
  /\ stvec' = <<"entry">>
  /\ UNCHANGED <<sepc, scause, stval>>

ApiCall ==
  /\ InMain
  /\ \/ trap_init
     \/ trap_enable_interrupts /\ UNCHANGED <<sepc, scause, stval, stvec, sie>>
     \/ trap_disable_interrupts /\ UNCHANGED <<sepc, scause, stval, stvec, sie>>
     \/ trap_enable_interrupt_sources /\ UNCHANGED <<sstatus, sepc, scause, stval, stvec>>
     \/ trap_disable_interrupt_sources /\ UNCHANGED <<sstatus, sepc, scause, stval, stvec>>
  /\ UNCHANGED <<pc, gpr, sp, mem, pending, tf, report, ctx, faults>>

-----------------------------------------------------------------------------
(***************************************************************************)
(* trap_entry before the call.                                             *)
(***************************************************************************)
entry_frame == sp' = sp - TF_SIZE

entry ==
  /\ pc = <<"entry">> /\ pc' = <<"save">>
  /\ entry_frame
  /\ UNCHANGED <<gpr, mem, csrVars, pending, tf, report, ctx, faults>>

Stored(r) == IF r = "sp" THEN <<"address", sp>> ELSE gpr[r]

save_registers ==
  /\ pc = <<"save">> /\ pc' = <<"save_csrs">>
  /\ mem' = [w \in Words |->
       IF \E r \in GPR \cup {"sp"} : w = sp + TF[r]
         THEN Stored(CHOOSE r \in GPR \cup {"sp"} : w = sp + TF[r]) ELSE mem[w]]
  /\ UNCHANGED <<gpr, sp, csrVars, pending, tf, report, ctx, faults>>

save_csrs ==
  /\ pc = <<"save_csrs">> /\ pc' = <<"call">>
  /\ mem' = [mem EXCEPT ![sp + TF.sstatus] = sstatus, ![sp + TF.sepc] = sepc,
                        ![sp + TF.scause] = scause, ![sp + TF.stval] = stval]
  /\ gpr' = [gpr EXCEPT !["t0"] = stval]
  /\ UNCHANGED <<sp, csrVars, pending, tf, report, ctx, faults>>

call_handler ==
  /\ pc = <<"call">> /\ pc' = <<"handler">>
  /\ gpr' = [gpr EXCEPT !["a0"] = <<"address", sp>>, !["ra"] = <<"return">>]
  /\ tf' = sp
  /\ UNCHANGED <<sp, mem, csrVars, pending, report, ctx, faults>>

(***************************************************************************)
(* trap_handler.  C code may change the caller-saved registers and its own *)
(* frame below the stack pointer.                                          *)
(***************************************************************************)
FieldWord(f) == tf + 8 * ((CHOOSE j \in 1 .. Len(trap_frame) : trap_frame[j] = f) - 1)
Field(f)     == mem[FieldWord(f)]
PlusFour(p)  == Append(p, "+4")

CRuns(m) == /\ gpr' = [r \in GPR |-> IF r \in CallerSaved THEN <<"junk">> ELSE gpr[r]]
            /\ mem' = [w \in Words |-> IF sp - CFrame <= w /\ w < sp THEN <<"junk">> ELSE m[w]]

trap_dump_frame == [f \in DOMAIN TF |-> Field(f)]

handle_interrupt_panics ==                  \* mutation: an unknown interrupt is fatal
  /\ pc = <<"handler">> /\ Field("scause")[1] = "interrupt"
  /\ pc' = IF Field("scause")[2] = IRQ_S_TIMER THEN <<"return">> ELSE <<"kpanic">>
  /\ CRuns(mem)
  /\ UNCHANGED <<sp, csrVars, pending, tf, report, ctx, faults>>

handle_interrupt ==
  /\ pc = <<"handler">> /\ Field("scause")[1] = "interrupt"
  /\ pc' = <<"return">>
  /\ CRuns(mem)
  /\ report' = IF Field("scause")[2] = IRQ_S_TIMER THEN report
               ELSE [kind |-> "ignored", sepc |-> Field("sepc"), stval |-> Field("stval")]
  /\ UNCHANGED <<sp, csrVars, pending, tf, ctx, faults>>

handle_exception ==
  /\ pc = <<"handler">> /\ Field("scause")[1] = "exception"
  /\ pc' = <<"kpanic">>
  /\ CRuns(IF Field("scause")[2] \in {EXC_ECALL_FROM_U, EXC_ECALL_FROM_S}
             THEN [mem EXCEPT ![FieldWord("sepc")] = PlusFour(@)] ELSE mem)
  /\ UNCHANGED <<sp, csrVars, pending, tf, report, ctx, faults>>

kpanic ==
  /\ pc = <<"kpanic">> /\ pc' = <<"wfi">>
  /\ report' = [kind |-> "panic", dump |-> trap_dump_frame]
  /\ UNCHANGED <<gpr, sp, mem, csrVars, pending, tf, ctx, faults>>

-----------------------------------------------------------------------------
(***************************************************************************)
(* trap_entry after the call.                                              *)
(***************************************************************************)
restore_csrs_enabled ==                     \* mutation: SIE set too early
  /\ pc = <<"return">> /\ pc' = <<"restore">>
  /\ sstatus' = [mem[sp + TF.sstatus] EXCEPT !.SIE = mem[sp + TF.sstatus].SPIE]
  /\ sepc' = mem[sp + TF.sepc]
  /\ gpr' = [gpr EXCEPT !["t0"] = mem[sp + TF.sepc]]
  /\ UNCHANGED <<sp, mem, scause, stval, stvec, sie, pending, tf, report, ctx, faults>>

restore_csrs ==
  /\ pc = <<"return">> /\ pc' = <<"restore">>
  /\ sstatus' = mem[sp + TF.sstatus]
  /\ sepc' = mem[sp + TF.sepc]
  /\ gpr' = [gpr EXCEPT !["t0"] = mem[sp + TF.sepc]]
  /\ UNCHANGED <<sp, mem, scause, stval, stvec, sie, pending, tf, report, ctx, faults>>

restore_registers ==
  /\ pc = <<"restore">> /\ pc' = <<"sret">>
  /\ gpr' = [r \in GPR |-> mem[sp + TF[r]]]
  /\ sp' = sp + TF_SIZE
  /\ UNCHANGED <<mem, csrVars, pending, tf, report, ctx, faults>>

sret ==
  /\ pc = <<"sret">> /\ pc' = sepc
  /\ sstatus' = [SIE |-> sstatus.SPIE, SPIE |-> TRUE, SPP |-> FALSE]
  /\ ctx' = Tail(ctx)
  /\ UNCHANGED <<gpr, sp, mem, sepc, scause, stval, stvec, sie, pending, tf, report, faults>>

(***************************************************************************)
(* The loop of kpanic, and a hart that nothing brings back.                *)
(***************************************************************************)
Stopped == pc \in {<<"wfi">>, <<"lost">>} /\ UNCHANGED vars

-----------------------------------------------------------------------------
Init ==
  /\ pc = <<"main", 0>> /\ gpr = Values(0) /\ sp = MainSp
  /\ mem = [w \in Words |-> IF w = MainSp THEN <<"local", 0>> ELSE <<"free">>]
  /\ sstatus = [SIE |-> FALSE, SPIE |-> FALSE, SPP |-> FALSE]
  /\ sepc = <<>> /\ scause = <<>> /\ stval = <<>> /\ stvec = <<"lost">> /\ sie \in {{}, {1, 5, 9}}
  /\ pending = {} /\ tf = 0 /\ report = [kind |-> "none"] /\ ctx = <<>> /\ faults = 0

Handling ==
  \/ entry \/ save_registers \/ save_csrs \/ call_handler
  \/ handle_interrupt \/ handle_exception \/ kpanic
  \/ restore_csrs \/ restore_registers \/ sret

Next ==
  \/ Handling \/ MainStep \/ ApiCall \/ Stopped
  \/ \E c \in Interrupts : Interrupt(c) \/ DeviceRaises(c) \/ DeviceWithdraws(c)
  \/ \E c \in Exceptions : Exception(c)

Spec == Init /\ [][Next]_vars

FairSpec == Spec /\ WF_vars(Handling)
=============================================================================
