----------------------------- MODULE BootProps ------------------------------
(***************************************************************************)
(* What kmain promises on every machine.                                   *)
(***************************************************************************)
EXTENDS Boot

(***************************************************************************)
(* The time stamp of a log line is the time since ktime_init at the        *)
(* frequency the kernel assumes, also when the counter wraps meanwhile.    *)
(* It stays so as long as ticks * 1000 fits in 64 bits.                    *)
(***************************************************************************)
UptimeExact ==
  log # <<>> => stamp.ms = (stamp.at * Thousand) \div ktime_tick_freq

(***************************************************************************)
(* The clock runs at the frequency the device tree gives ("timebase-       *)
(* frequency", time.c:19) and at KTIME_FALLBACK_FREQ only without one.     *)
(***************************************************************************)
TimebaseUsed ==
  pc = "hlt" /\ dtb_ready /\ m.freq \notin {<<>>, <<0>>} => ktime_tick_freq = m.freq[1]

(***************************************************************************)
(* Before there is a trap handler, kmain faults only on a machine whose    *)
(* last page has gone to the page tables; the store of the allocation test *)
(* is safe on all others.                                                  *)
(***************************************************************************)
FaultOnlyWhenExhausted == pc = "fault" => free = 0 /\ tables = m.pages /\ ~stvec

-----------------------------------------------------------------------------
(***************************************************************************)
(* What a machine has to read in the end, worked out from the machine      *)
(* alone.  Line: a line on the serial port and, with ft, on the screen.    *)
(***************************************************************************)
Line(says, serial, ft) == [says |-> says, sinks |-> IF ft THEN {serial, "screen"} ELSE {serial}]

UpToDtb(x) ==
  LET pmm == Append(<<>>, Line("pmm", "sbi", FALSE))
  IN  IF x.dtb = "valid" THEN pmm ELSE Append(pmm, Line("no dtb", "sbi", FALSE))
UpToUart(x) == Append(UpToDtb(x), Line("uart", "uart", FALSE))
UpToPaging(x) == Append(UpToUart(x), Line("paging", "uart", FALSE))
UpToScreen(x) ==
  IF x.fb = "ok" THEN UpToPaging(x) ELSE Append(UpToPaging(x), Line("no screen", "uart", FALSE))
UpToHello(x) == Append(UpToScreen(x), Line("hello", "uart", x.fb = "ok"))
UpToAlloc(x) == Append(UpToHello(x), Line("allocated", "uart", x.fb = "ok"))
UpToWrite(x) == Append(UpToAlloc(x), Line("written", "uart", x.fb = "ok"))
UpToTrap(x) == Append(UpToWrite(x), Line("trap", "uart", x.fb = "ok"))

(***************************************************************************)
(* Pages left by the UART's tables; a call fails for want of tables when   *)
(* the pages left and a whole pool are not enough.                         *)
(***************************************************************************)
Left(x) == IF x.uart.tables <= x.pages THEN x.pages - x.uart.tables ELSE 0
UartFails(x) == x.uart.conflict \/ x.uart.tables > x.pages + PoolSize
InitFails(x) == ~x.exec \/ x.init.conflict \/ x.init.tables > Left(x) + PoolSize

Story(x) ==
  IF ~x.revision THEN <<>>
  ELSE IF ~(x.memmap /\ x.hhdm /\ x.storage) THEN Append(<<>>, Line("pmm failed", "sbi", FALSE))
  ELSE IF ~x.satp THEN Append(UpToDtb(x), Line("early failed", "sbi", FALSE))
  ELSE IF UartFails(x) THEN Append(UpToDtb(x), Line("uart failed", "sbi", FALSE))
  ELSE IF InitFails(x) THEN Append(UpToUart(x), Line("paging failed", "uart", FALSE))
  ELSE Append(UpToTrap(x), Line(IF x.mp THEN "cpus" ELSE "mp failed", "uart", x.fb = "ok"))

(***************************************************************************)
(* Once kmain has stopped in hlt(), the log tells what the machine was     *)
(* like: it names the first thing that was missing or went wrong (nothing  *)
(* at all for an unsupported base revision), tables and pages running out  *)
(* in any of the mapping calls included, after the lines of everything     *)
(* that worked, each of them once and on the consoles that were up then.   *)
(***************************************************************************)
LogTellsStory == pc = "hlt" => log = Story(m)
=============================================================================
