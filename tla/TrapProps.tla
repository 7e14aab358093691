----------------------------- MODULE TrapProps ------------------------------
(***************************************************************************)
(* What taking a trap promises the code it interrupts, and the reader of a *)
(* panic.                                                                  *)
(***************************************************************************)
EXTENDS Trap

(***************************************************************************)
(* When trap_entry returns, the code that was interrupted finds its        *)
(* program counter, all its registers, its stack pointer, its stack and    *)
(* its interrupt enable bit as they were, whatever the C handler used and  *)
(* whatever the devices raised meanwhile; and only an interrupt returns,   *)
(* handle_exception never does.                                            *)
(***************************************************************************)
Transparent ==
  [][sret => ctx[1].cause[1] = "interrupt" /\ Context' = ctx[1].at]_vars

(***************************************************************************)
(* What kpanic logs, read by C through struct trap_frame, is what the      *)
(* assembly saved for the trap that caused the panic, also when that trap  *)
(* interrupted the handling of another; after an ecall sepc is past it.    *)
(* The sp it logs is the one after trap_entry made its frame: TF_SIZE      *)
(* below that of the code that trapped.                                    *)
(***************************************************************************)
PanicTells ==
  report.kind = "panic" =>
    LET c == ctx[1]
        d == report.dump
    IN  /\ \A r \in GPR : d[r] = c.at.gpr[r]
        /\ d.sp = <<"address", c.at.sp - TF_SIZE>>
        /\ d.sepc = IF c.cause[1] = "exception" /\ c.cause[2] \in {EXC_ECALL_FROM_U, EXC_ECALL_FROM_S}
                      THEN PlusFour(c.at.pc) ELSE c.at.pc
        /\ d.scause = c.cause /\ d.stval = c.tval /\ d.sstatus.SPIE = c.at.sie

(***************************************************************************)
(* Every trap that reaches trap_entry ends in the interrupted code again,  *)
(* unless an instruction faults.                                           *)
(***************************************************************************)
InterruptReturns == pc = <<"entry">> ~> InMain \/ faults > 0
=============================================================================
