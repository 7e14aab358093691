------------------------------ MODULE BootProof -----------------------------
(***************************************************************************)
(* Proofs about kmain, for every set of boot loader responses, every       *)
(* machine, every value of the time CSR at power on and every tick of it.  *)
(***************************************************************************)
EXTENDS BootProps, SequenceTheorems, TLAPS

-----------------------------------------------------------------------------
Statements == {"revision", "ktime", "pmm", "dtb", "early", "uart", "paging", "fb",
               "hello", "alloc", "write", "free", "trap", "mp", "hlt", "fault"}

TypeOK ==
  /\ m \in Machines /\ pc \in Statements
  /\ time \in 0 .. Word - 1 /\ ktime_boot_ticks \in 0 .. Word - 1
  /\ ktime_tick_freq \in Nat /\ elapsed \in 0 .. MaxTicks
  /\ ktime_ready \in BOOLEAN /\ uart_ready \in BOOLEAN /\ stvec \in BOOLEAN
  /\ free \in Nat /\ tables \in Nat /\ pool \in 0 .. PoolSize
  /\ a \in {"none", "page", "null"}

(***************************************************************************)
(* The clock: nothing is logged before ktime_init, and afterwards the CSR  *)
(* is elapsed ticks past ktime_boot_ticks, once round the counter or not.  *)
(***************************************************************************)
ClockOK ==
  /\ pc \in {"revision", "ktime"} => ~ktime_ready
  /\ pc \notin {"revision", "ktime", "hlt"} => ktime_ready
  /\ log # <<>> => ktime_ready
  /\ ktime_ready =>
       /\ ktime_tick_freq > 0
       /\ time = IF ktime_boot_ticks + elapsed < Word THEN ktime_boot_ticks + elapsed
                 ELSE ktime_boot_ticks + elapsed - Word

(***************************************************************************)
(* Where the machine's pages are.                                          *)
(***************************************************************************)
PagesOK ==
  /\ pc \in {"revision", "ktime", "pmm"} => free = 0 /\ tables = 0
  /\ pc \in {"dtb", "early", "uart", "paging", "fb", "hello", "alloc", "trap", "mp"} =>
       free + tables = m.pages
  /\ pc \in {"write", "free"} =>
       IF a = "page" THEN free + 1 + tables = m.pages ELSE free = 0 /\ tables = m.pages
  /\ pc = "write" => a # "none"
  /\ pc = "free" => a = "page"
  /\ stvec => pc \in {"mp", "hlt"}
  /\ pc = "mp" => stvec

(***************************************************************************)
(* The statements that come after another one.                             *)
(***************************************************************************)
AfterMp == {"hello", "alloc", "write", "free", "trap", "mp"}
AfterPaging == {"fb"} \cup AfterMp
AfterUart == {"paging"} \cup AfterPaging
AfterEarly == {"uart"} \cup AfterUart
AfterPmm == {"dtb", "early"} \cup AfterEarly

(***************************************************************************)
(* What kmain has found out about the machine by the time it reaches a     *)
(* statement, and the consoles that are up.                                *)
(***************************************************************************)
FoundOK ==
  /\ pc \in {"ktime", "pmm"} \cup AfterPmm => m.revision
  /\ pc \in AfterPmm => m.memmap /\ m.hhdm /\ m.storage
  /\ pc \in {"dtb", "early", "uart"} => free = m.pages
  /\ pc \in AfterEarly => m.satp
  /\ pc = "uart" => pool = 0
  /\ pc \in AfterUart => ~UartFails(m)
  /\ pc = "paging" => free = Left(m)
  /\ pc \in AfterPaging => ~InitFails(m)
  /\ pc \in {"revision", "ktime", "pmm", "dtb", "early", "uart"} => ~uart_ready
  /\ pc \in AfterUart => uart_ready
  /\ pc \in {"revision", "ktime", "pmm", "dtb", "early", "uart", "paging", "fb"} => ~g_ft_ctx
  /\ pc \in AfterMp => (g_ft_ctx <=> m.fb = "ok")

(***************************************************************************)
(* What it has logged by then.                                             *)
(***************************************************************************)
LogOK ==
  /\ pc \in {"revision", "ktime", "pmm"} => log = <<>>
  /\ pc = "dtb" => log = Append(<<>>, Line("pmm", "sbi", FALSE))
  /\ pc \in {"early", "uart"} => log = UpToDtb(m)
  /\ pc = "paging" => log = UpToUart(m)
  /\ pc = "fb" => log = UpToPaging(m)
  /\ pc = "hello" => log = UpToScreen(m)
  /\ pc = "alloc" => log = UpToHello(m)
  /\ pc = "write" => log = UpToAlloc(m)
  /\ pc \in {"free", "trap"} => log = UpToWrite(m)
  /\ pc = "mp" => log = UpToTrap(m)

BInv == TypeOK /\ ClockOK /\ PagesOK /\ UptimeExact /\ FaultOnlyWhenExhausted

IInv == BInv /\ FoundOK /\ LogOK /\ LogTellsStory

-----------------------------------------------------------------------------
(***************************************************************************)
(* Unsigned arithmetic on values less than twice the modulus.              *)
(***************************************************************************)
LEMMA ModOnce ==
  ASSUME NEW w \in Nat \ {0}, NEW x \in Int, x < 2 * w, -w <= x
  PROVE  x % w = IF x < 0 THEN x + w ELSE IF x < w THEN x ELSE x - w
<1>1. CASE x < 0
  BY <1>1
<1>2. CASE 0 <= x /\ x < w
  BY <1>2
<1>3. CASE w <= x
  BY <1>3
<1> QED  BY <1>1, <1>2, <1>3

(***************************************************************************)
(* Multiplication by a natural number is monotone.                         *)
(***************************************************************************)
LEMMA MultMono ==
  ASSUME NEW x \in Nat, NEW y \in Nat, NEW k \in Nat \ {0}, x <= y
  PROVE  x * k \in Nat /\ x * k <= y * k /\ y <= y * k
OBVIOUS

(***************************************************************************)
(* The constants, without the product that bounds MaxTicks.                *)
(***************************************************************************)
LEMMA Constants ==
  /\ Word \in Nat \ {0} /\ MaxTicks \in Nat /\ MaxTicks < Word
  /\ Starts \subseteq 0 .. Word - 1 /\ PoolSize \in Nat
<1>1. MaxTicks <= MaxTicks * Thousand /\ MaxTicks * Thousand \in Nat
  BY KtimeAssumption, MultMono
<1>2. MaxTicks < Word
  BY <1>1, KtimeAssumption
<1> QED  BY <1>2, KtimeAssumption, BootAssumption

(***************************************************************************)
(* ktime_get_ms is the time since ktime_init: the subtraction of the       *)
(* counter values undoes a wrap, and the product does not wrap.            *)
(***************************************************************************)
LEMMA GetMs ==
  ASSUME TypeOK, ClockOK, ktime_ready
  PROVE  ktime_get_ms = (elapsed * Thousand) \div ktime_tick_freq
<1>1. MaxTicks < Word /\ elapsed * Thousand \in Nat /\ elapsed * Thousand < Word
  <2>1. elapsed * Thousand \in Nat /\ elapsed * Thousand <= MaxTicks * Thousand
    BY KtimeAssumption, MultMono DEF TypeOK
  <2>2. MaxTicks * Thousand \in Nat
    BY KtimeAssumption, MultMono
  <2> QED  BY <2>1, <2>2, KtimeAssumption, Constants
<1>2. ktime_get_ticks = elapsed
  <2>1. (time - ktime_boot_ticks) % Word = elapsed
    <3>1. /\ time - ktime_boot_ticks \in Int
          /\ time - ktime_boot_ticks < 2 * Word /\ -Word <= time - ktime_boot_ticks
      BY KtimeAssumption DEF TypeOK
    <3>2. time - ktime_boot_ticks = IF ktime_boot_ticks + elapsed < Word THEN elapsed
                                    ELSE elapsed - Word
      BY KtimeAssumption DEF TypeOK, ClockOK
    <3>3. elapsed \in Nat /\ elapsed < Word
      BY <1>1, KtimeAssumption DEF TypeOK
    <3> QED  BY SMTT(30), <3>1, <3>2, <3>3, ModOnce, KtimeAssumption
  <2> QED  BY <2>1 DEF ktime_get_ticks
<1>3. (elapsed * Thousand) % Word = elapsed * Thousand
  <2>1. PICK x \in Nat : x = elapsed * Thousand /\ x < Word
    BY <1>1
  <2> QED  BY <2>1, ModOnce, KtimeAssumption
<1> QED  BY <1>2, <1>3 DEF ktime_get_ms, ClockOK, TypeOK

(***************************************************************************)
(* A line that is logged has the right time, and the sinks of Line.        *)
(***************************************************************************)
LEMMA KlogTime ==
  ASSUME TypeOK, ClockOK, ktime_ready, NEW says, NEW ready, NEW ft, Klog(says, ready, ft),
         UNCHANGED ktime_tick_freq
  PROVE  UptimeExact'
<1>1. stamp' = [ms |-> ktime_get_ms, at |-> elapsed]
  BY DEF Klog
<1>2. stamp'.ms = ktime_get_ms /\ stamp'.at = elapsed
  BY <1>1
<1> QED  BY <1>2, GetMs DEF UptimeExact

LEMMA KlogLine ==
  \A says, ready, ft : Klog(says, ready, ft) =>
     /\ ready => log' = Append(log, Line(says, "uart", ft))
     /\ ~ready => log' = Append(log, Line(says, "sbi", ft))
<1> TAKE says, ready, ft
<1>1. /\ ready => printk_putc(ready, ft) = IF ft THEN {"uart", "screen"} ELSE {"uart"}
      /\ ~ready => printk_putc(ready, ft) = IF ft THEN {"sbi", "screen"} ELSE {"sbi"}
  BY DEF printk_putc
<1> QED  BY <1>1 DEF Klog, Line

LEMMA KlogSbi ==
  ASSUME ~uart_ready, ~g_ft_ctx
  PROVE  \A says : Klog(says, uart_ready, g_ft_ctx)
                     => log' = Append(log, Line(says, "sbi", FALSE))
<1> TAKE says
<1>1. printk_putc(uart_ready, g_ft_ctx) = {"sbi"}
  BY DEF printk_putc
<1>2. Line(says, "sbi", FALSE) = [says |-> says, sinks |-> {"sbi"}]
  BY DEF Line
<1> QED  BY <1>1, <1>2 DEF Klog

(***************************************************************************)
(* Tables come from the free pages while there are any.                    *)
(***************************************************************************)
LEMMA TakeTablesFacts ==
  ASSUME free \in Nat, tables \in Nat, NEW n \in Nat, NEW pool0 \in 0 .. PoolSize,
         TakeTables(n, pool0)
  PROVE  /\ free' \in Nat /\ tables' \in Nat /\ pool' \in 0 .. PoolSize
         /\ free' + tables' = free + tables
         /\ free' = IF n <= free THEN free - n ELSE 0
         /\ n > free => free' = 0
BY BootAssumption DEF TakeTables, Least

-----------------------------------------------------------------------------
(***************************************************************************)
(* A mapping call asks for some number of tables.                          *)
(***************************************************************************)
LEMMA AskedFacts ==
  ASSUME NEW need, need.tables \in Nat, NEW n \in Asked(need)
  PROVE  n \in Nat /\ (~need.conflict => n = need.tables)
BY DEF Asked

-----------------------------------------------------------------------------
(***************************************************************************)
(* The invariant at power on.                                              *)
(***************************************************************************)
LEMMA InitOK == Init => IInv
<1> SUFFICES ASSUME Init PROVE IInv
  OBVIOUS
<1>1. log = <<>>
  BY DEF Init
<1>2. TypeOK
  <2>1. time \in 0 .. Word - 1
    BY Constants DEF Init, KtimeInit
  <2>2. 0 \in 0 .. Word - 1 /\ 0 \in 0 .. MaxTicks /\ 0 \in 0 .. PoolSize
    BY Constants
  <2> QED  BY <2>1, <2>2 DEF Init, KtimeInit, TypeOK, Statements
<1>3. ClockOK /\ PagesOK
  BY <1>1 DEF Init, KtimeInit, ClockOK, PagesOK
<1>4. UptimeExact /\ FaultOnlyWhenExhausted
  BY <1>1 DEF Init, UptimeExact, FaultOnlyWhenExhausted
<1>5. FoundOK /\ LogOK /\ LogTellsStory
  BY <1>1 DEF Init, FoundOK, LogOK, LogTellsStory, AfterPmm, AfterEarly, AfterUart, AfterPaging, AfterMp
<1> QED  BY <1>2, <1>3, <1>4, <1>5 DEF IInv, BInv

(***************************************************************************)
(* A statement of kmain after ktime_init that logs nothing.                *)
(***************************************************************************)
LEMMA SilentOK ==
  ASSUME BInv, UNCHANGED <<m, ktimeVars>>, ktime_ready,
         TypeOK', PagesOK', FaultOnlyWhenExhausted',
         pc' \notin {"revision", "ktime"}, UNCHANGED logVars
  PROVE  BInv'
BY DEF BInv, ClockOK, UptimeExact, ktimeVars, logVars

(***************************************************************************)
(* A statement of kmain after ktime_init that logs a line.                 *)
(***************************************************************************)
LEMMA LoggedOK ==
  ASSUME BInv, UNCHANGED <<m, ktimeVars>>, ktime_ready,
         TypeOK', PagesOK', FaultOnlyWhenExhausted',
         pc' \notin {"revision", "ktime"},
         NEW says, NEW ready, NEW ft, Klog(says, ready, ft)
  PROVE  BInv'
<1>1. UNCHANGED ktime_tick_freq
  BY DEF ktimeVars
<1>2. UptimeExact'
  BY <1>1, KlogTime DEF BInv
<1>3. ClockOK'
  BY DEF BInv, ClockOK, ktimeVars
<1> QED  BY <1>2, <1>3 DEF BInv

(***************************************************************************)
(* The check of the base revision.                                         *)
(***************************************************************************)
LEMMA RevisionOK == ASSUME BInv, check_revision PROVE BInv'
BY DEF check_revision, At, Go, ktimeVars, BInv, TypeOK, Statements, ClockOK, PagesOK, UptimeExact,
       FaultOnlyWhenExhausted, logVars

(***************************************************************************)
(* ktime_init never leaves a frequency of zero.                            *)
(***************************************************************************)
LEMMA KtimeInitOK == ASSUME BInv, call_ktime_init PROVE BInv'
<1>1. /\ pc = "ktime" /\ pc' = "pmm" /\ ktime_boot_ticks' = time /\ ktime_ready' = TRUE
      /\ elapsed' = 0 /\ time' = time
      /\ UNCHANGED <<m, dtb_ready, uart_ready, g_ft_ctx, stvec, free, tables, pool, a, logVars>>
  BY DEF call_ktime_init, ktime_init, Go
<1>2. ktime_tick_freq' \in Nat /\ ktime_tick_freq' > 0
  <2>1. CASE dtb_timebase = <<>> \/ dtb_timebase = <<0>>
    BY <2>1, KtimeAssumption DEF call_ktime_init, ktime_init
  <2>2. CASE ~(dtb_timebase = <<>> \/ dtb_timebase = <<0>>)
    <3>1. PICK f \in Seq(Nat) : f = dtb_timebase /\ Len(f) <= 1 /\ f # <<>> /\ f # <<0>>
      BY <2>2, BootAssumption DEF dtb_timebase, BInv, TypeOK
    <3>2. Len(f) = 1 /\ f[1] \in Nat
      <4>1. PICK k \in Nat \ {0} : k = Len(f)
        BY <3>1, EmptySeq
      <4>2. k <= 1
        BY <3>1, <4>1
      <4>3. k = 1
        BY <4>2
      <4>4. 1 \in 1 .. Len(f)
        BY <4>1, <4>3
      <4> QED  BY <4>1, <4>3, <4>4, ElementOfSeq
    <3>3. f = <<f[1]>>
      BY <3>2
    <3>4. f[1] # 0
      BY <3>1, <3>3
    <3> QED  BY <2>2, <3>1, <3>2, <3>4 DEF call_ktime_init, ktime_init
  <2> QED  BY <2>1, <2>2
<1>3. log = <<>>
  BY <1>1 DEF BInv, ClockOK
<1>4. TypeOK'
  BY <1>1, <1>2, KtimeAssumption DEF BInv, TypeOK, Statements
<1>5. ClockOK' /\ PagesOK'
  <2>1. PagesOK'
    BY <1>1 DEF BInv, PagesOK
  <2>2. time \in Nat /\ time < Word
    BY Constants DEF BInv, TypeOK
  <2>3. ktime_boot_ticks' + elapsed' = time'
    BY <1>1, <2>2
  <2>4. time' < Word
    BY <1>1, <2>2
  <2>5. ClockOK'
    BY <1>1, <1>2, <1>3, <2>3, <2>4 DEF ClockOK
  <2> QED  BY <2>1, <2>5
<1>6. UptimeExact' /\ FaultOnlyWhenExhausted'
  BY <1>1, <1>3 DEF UptimeExact, FaultOnlyWhenExhausted, logVars
<1> QED  BY <1>4, <1>5, <1>6 DEF BInv

(***************************************************************************)
(* pmm_init puts every page of the machine on the free lists.              *)
(***************************************************************************)
LEMMA PmmInitOK == ASSUME BInv, call_pmm_init PROVE BInv'
<1>1. pc = "pmm" /\ ktime_ready /\ UNCHANGED <<m, ktimeVars>> /\ ~stvec
  BY DEF call_pmm_init, At, BInv, ClockOK, PagesOK
<1>2. TypeOK' /\ PagesOK' /\ FaultOnlyWhenExhausted' /\ pc' \in {"dtb", "hlt"}
  <2>1. /\ m.pages \in Nat /\ free' \in {0, m.pages} /\ pc' \in {"dtb", "hlt"}
        /\ pc' = "dtb" => free' = m.pages
    BY <1>1, BootAssumption DEF call_pmm_init, Go, BInv, TypeOK
  <2>2. UNCHANGED <<m, ktimeVars, uart_ready, stvec, tables, pool, a>> /\ tables = 0
    BY <1>1 DEF call_pmm_init, At, BInv, PagesOK
  <2>3. TypeOK'
    BY <2>1, <2>2 DEF BInv, TypeOK, Statements, ktimeVars
  <2> QED  BY <1>1, <2>1, <2>2, <2>3 DEF PagesOK, FaultOnlyWhenExhausted
<1>3. \E says : Klog(says, uart_ready, g_ft_ctx)
  BY DEF call_pmm_init, Same
<1> QED  BY <1>1, <1>2, <1>3, LoggedOK

(***************************************************************************)
(* dtb_init, whose failure does not stop kmain.                            *)
(***************************************************************************)
LEMMA DtbInitOK == ASSUME BInv, dtb_init PROVE BInv'
<1>1. pc = "dtb" /\ pc' = "early" /\ ktime_ready /\ UNCHANGED <<m, ktimeVars>>
  BY DEF dtb_init, At, Go, BInv, ClockOK
<1>2. TypeOK' /\ PagesOK' /\ FaultOnlyWhenExhausted'
  BY <1>1 DEF dtb_init, ktimeVars, BInv, TypeOK, Statements, PagesOK, FaultOnlyWhenExhausted
<1>3. UNCHANGED logVars \/ Klog("no dtb", uart_ready, g_ft_ctx)
  BY DEF dtb_init, Same
<1> QED  BY <1>1, <1>2, <1>3, SilentOK, LoggedOK

(***************************************************************************)
(* paging_early_init.                                                      *)
(***************************************************************************)
LEMMA EarlyInitOK == ASSUME BInv, call_paging_early_init PROVE BInv'
<1>1. pc = "early" /\ ktime_ready /\ UNCHANGED <<m, ktimeVars>> /\ ~stvec
  BY DEF call_paging_early_init, At, BInv, ClockOK, PagesOK
<1>2. TypeOK' /\ PagesOK' /\ FaultOnlyWhenExhausted' /\ pc' \in {"uart", "hlt"}
  <2>1. /\ pc' \in {"uart", "hlt"} /\ pool' = 0 /\ 0 \in 0 .. PoolSize
        /\ UNCHANGED <<m, ktimeVars, uart_ready, stvec, free, tables, a>>
    <3>1. 0 \in 0 .. PoolSize
      BY BootAssumption
    <3> QED  BY <3>1 DEF call_paging_early_init, At, Go
  <2>2. TypeOK'
    BY <2>1 DEF BInv, TypeOK, Statements, ktimeVars
  <2> QED  BY <1>1, <2>1, <2>2 DEF BInv, PagesOK, FaultOnlyWhenExhausted
<1>3. UNCHANGED logVars \/ Klog("early failed", uart_ready, g_ft_ctx)
  BY DEF call_paging_early_init, Same
<1> QED  BY <1>1, <1>2, <1>3, SilentOK, LoggedOK

(***************************************************************************)
(* uart_init faults only where its tables came from the pool, that is when *)
(* the last free page had become a table.                                  *)
(***************************************************************************)
LEMMA UartInitOK == ASSUME BInv, call_uart_init PROVE BInv'
<1>1. /\ pc = "uart" /\ ktime_ready /\ UNCHANGED <<m, ktimeVars>> /\ ~stvec /\ stvec' = stvec
      /\ a' = a /\ free + tables = m.pages /\ free \in Nat /\ tables \in Nat
      /\ pool \in 0 .. PoolSize /\ m.uart.tables \in Nat
  BY BootAssumption DEF call_uart_init, At, BInv, ClockOK, PagesOK, TypeOK
<1>2. PICK n \in Asked(m.uart) :
        /\ TakeTables(n, pool)
        /\ \/ pc' = "hlt" /\ Klog("uart failed", uart_ready, g_ft_ctx) /\ uart_ready' = uart_ready
           \/ pc' = "paging" /\ uart_ready' = TRUE /\ Klog("uart", TRUE, g_ft_ctx)
           \/ pc' = "fault" /\ UNCHANGED <<logVars, uart_ready>> /\ n > free
  BY DEF call_uart_init, Go, Same
<1>3. /\ free' \in Nat /\ tables' \in Nat /\ pool' \in 0 .. PoolSize
      /\ free' + tables' = m.pages
      /\ n > free => free' = 0
  <2>1. n \in Nat
    BY <1>1, <1>2, AskedFacts
  <2>2. /\ free' \in Nat /\ tables' \in Nat /\ pool' \in 0 .. PoolSize
        /\ free' + tables' = free + tables
        /\ n > free => free' = 0
    BY <1>1, <1>2, <2>1, TakeTablesFacts
  <2>3. free' + tables' = m.pages
    BY <1>1, <2>2
  <2> QED  BY Zenon, <2>2, <2>3
<1>4. TypeOK'
  BY <1>1, <1>2, <1>3 DEF BInv, TypeOK, Statements, ktimeVars
<1>5. PagesOK' /\ FaultOnlyWhenExhausted'
  <2>1. pc' = "hlt" \/ (pc' \in {"paging", "fault"} /\ free' + tables' = m.pages /\ free' \in Nat)
    BY <1>2, <1>3
  <2>2. pc' = "fault" => free' = 0 /\ tables' = m.pages
    BY <1>2, <1>3, <2>1
  <2> QED  BY <1>1, <2>1, <2>2 DEF PagesOK, FaultOnlyWhenExhausted
<1> QED  BY <1>1, <1>2, <1>4, <1>5, SilentOK, LoggedOK

(***************************************************************************)
(* paging_init, likewise.                                                  *)
(***************************************************************************)
LEMMA PagingInitOK == ASSUME BInv, call_paging_init PROVE BInv'
<1>1. /\ pc = "paging" /\ ktime_ready /\ UNCHANGED <<m, ktimeVars>> /\ ~stvec /\ stvec' = stvec
      /\ a' = a /\ uart_ready' = uart_ready
      /\ free + tables = m.pages /\ free \in Nat /\ tables \in Nat
      /\ m.init.tables \in Nat /\ 0 \in 0 .. PoolSize
  <2>1. m.init.tables \in Nat /\ 0 \in 0 .. PoolSize
    BY BootAssumption DEF BInv, TypeOK
  <2> QED  BY <2>1 DEF call_paging_init, At, BInv, ClockOK, PagesOK, TypeOK
<1>2. \A n \in Asked(m.init) : TakeTables(n, 0) =>
        /\ free' \in Nat /\ tables' \in Nat /\ pool' \in 0 .. PoolSize
        /\ free' + tables' = m.pages
        /\ n > free => free' = 0
  <2> SUFFICES ASSUME NEW n \in Asked(m.init), TakeTables(n, 0)
               PROVE  /\ free' \in Nat /\ tables' \in Nat /\ pool' \in 0 .. PoolSize
                      /\ free' + tables' = m.pages
                      /\ n > free => free' = 0
    OBVIOUS
  <2>1. n \in Nat
    BY <1>1, AskedFacts
  <2>2. /\ free' \in Nat /\ tables' \in Nat /\ pool' \in 0 .. PoolSize
        /\ free' + tables' = free + tables
        /\ n > free => free' = 0
    BY <1>1, <2>1, TakeTablesFacts
  <2>3. free' + tables' = m.pages
    BY <1>1, <2>2
  <2> QED  BY Zenon, <2>2, <2>3
<1>3. \/ /\ pc' = "hlt" /\ Klog("paging failed", uart_ready, g_ft_ctx)
         /\ pool' = 0 /\ UNCHANGED <<free, tables>>
      \/ \E n \in Asked(m.init) :
           /\ TakeTables(n, 0)
           /\ \/ pc' = "hlt" /\ Klog("paging failed", uart_ready, g_ft_ctx)
              \/ pc' = "fb" /\ Klog("paging", uart_ready, g_ft_ctx)
              \/ pc' = "fault" /\ UNCHANGED logVars /\ n > free
  BY DEF call_paging_init, Go, Same
<1>4. TypeOK'
  BY <1>1, <1>2, <1>3 DEF BInv, TypeOK, Statements, ktimeVars
<1>5. PagesOK' /\ FaultOnlyWhenExhausted'
  <2>1. pc' = "hlt" \/ (pc' \in {"fb", "fault"} /\ free' + tables' = m.pages /\ free' \in Nat)
    BY <1>2, <1>3
  <2>2. pc' = "fault" => free' = 0 /\ tables' = m.pages
    BY <1>2, <1>3, <2>1
  <2> QED  BY <1>1, <2>1, <2>2 DEF PagesOK, FaultOnlyWhenExhausted
<1>6. UNCHANGED logVars \/ \E says : Klog(says, uart_ready, g_ft_ctx)
  BY <1>3
<1>7. pc' \in {"hlt", "fb", "fault"}
  BY <1>3
<1> QED  BY <1>1, <1>4, <1>5, <1>6, <1>7, SilentOK, LoggedOK

(***************************************************************************)
(* The rest of kmain: the store of the allocation test goes through NULL   *)
(* only when no page was left.                                             *)
(***************************************************************************)
LEMMA RestOK ==
  ASSUME BInv, framebuffer \/ hello \/ test_alloc \/ test_write \/ test_free \/ call_trap_init \/ mp
  PROVE  BInv'
<1>1. /\ pc \in {"fb", "hello", "alloc", "write", "free", "trap", "mp"}
      /\ ktime_ready /\ UNCHANGED <<m, ktimeVars>> /\ uart_ready' = uart_ready
  BY DEF framebuffer, hello, test_alloc, test_write, test_free, call_trap_init, mp, At, BInv, ClockOK
<1>2. CASE framebuffer
  <2>1. TypeOK' /\ PagesOK' /\ FaultOnlyWhenExhausted' /\ pc' = "hello"
    BY <1>1, <1>2
    DEF framebuffer, At, Go, ktimeVars, BInv, TypeOK, Statements, PagesOK, FaultOnlyWhenExhausted
  <2>2. UNCHANGED logVars \/ \E says, ready, ft : Klog(says, ready, ft)
    BY <1>2 DEF framebuffer
  <2> QED  BY <1>1, <2>1, <2>2, SilentOK, LoggedOK
<1>8. CASE hello
  <2>1. TypeOK' /\ PagesOK' /\ FaultOnlyWhenExhausted' /\ pc' = "alloc"
    BY <1>1, <1>8
    DEF hello, At, Go, ktimeVars, BInv, TypeOK, Statements, PagesOK, FaultOnlyWhenExhausted
  <2>2. Klog("hello", uart_ready, g_ft_ctx)
    BY <1>8 DEF hello, Same
  <2> QED  BY <1>1, <2>1, <2>2, SilentOK, LoggedOK
<1>3. CASE test_alloc
  <2>1. TypeOK' /\ PagesOK' /\ FaultOnlyWhenExhausted' /\ pc' = "write"
    BY <1>1, <1>3
    DEF test_alloc, At, Go, ktimeVars, BInv, TypeOK, Statements, PagesOK, FaultOnlyWhenExhausted
  <2>2. Klog("allocated", uart_ready, g_ft_ctx)
    BY <1>3 DEF test_alloc, Same
  <2> QED  BY <1>1, <2>1, <2>2, SilentOK, LoggedOK
<1>4. CASE test_write
  <2>1. TypeOK' /\ PagesOK' /\ FaultOnlyWhenExhausted' /\ pc' \in {"fault", "free"}
    <3>1. TypeOK' /\ pc = "write" /\ pc' = IF a = "null" THEN "fault" ELSE "free"
      BY <1>1, <1>4 DEF test_write, At, Go, ktimeVars, BInv, TypeOK, Statements
    <3>2. UNCHANGED <<m, free, tables, a, stvec>> /\ ~stvec /\ a \in {"page", "null"}
      BY <1>4, <3>1 DEF test_write, At, BInv, PagesOK, TypeOK
    <3> QED  BY <3>1, <3>2 DEF BInv, PagesOK, FaultOnlyWhenExhausted
  <2>2. UNCHANGED logVars \/ Klog("written", uart_ready, g_ft_ctx)
    BY <1>4 DEF test_write, Same
  <2> QED  BY <1>1, <2>1, <2>2, SilentOK, LoggedOK
<1>5. CASE test_free
  <2>1. TypeOK' /\ PagesOK' /\ FaultOnlyWhenExhausted' /\ pc' = "trap" /\ UNCHANGED logVars
    BY <1>1, <1>5
    DEF test_free, At, Go, ktimeVars, BInv, TypeOK, Statements, PagesOK, FaultOnlyWhenExhausted
  <2> QED  BY <1>1, <2>1, SilentOK, LoggedOK
<1>6. CASE call_trap_init
  <2>1. TypeOK' /\ PagesOK' /\ FaultOnlyWhenExhausted' /\ pc' = "mp"
    BY <1>1, <1>6
    DEF call_trap_init, At, Go, ktimeVars, BInv, TypeOK, Statements, PagesOK, FaultOnlyWhenExhausted
  <2>2. Klog("trap", uart_ready, g_ft_ctx)
    BY <1>6 DEF call_trap_init, Same
  <2> QED  BY <1>1, <2>1, <2>2, SilentOK, LoggedOK
<1>7. CASE mp
  <2>1. TypeOK' /\ PagesOK' /\ FaultOnlyWhenExhausted' /\ pc' = "hlt" /\ stvec'
    BY <1>1, <1>7
    DEF mp, At, Go, ktimeVars, BInv, TypeOK, Statements, PagesOK, FaultOnlyWhenExhausted
  <2>2. Klog(IF m.mp THEN "cpus" ELSE "mp failed", uart_ready, g_ft_ctx)
    BY <1>7 DEF mp, Same
  <2> QED  BY <1>1, <2>1, <2>2, SilentOK, LoggedOK
<1> QED  BY <1>2, <1>3, <1>4, <1>5, <1>6, <1>7, <1>8

(***************************************************************************)
(* The counter runs on, past its end or not.                               *)
(***************************************************************************)
LEMMA TickOK == ASSUME BInv, NEW d \in {1, 3}, Tick(d) PROVE BInv'
<1>1. /\ ktime_ready /\ elapsed + d <= MaxTicks
      /\ time' = (time + d) % Word /\ elapsed' = elapsed + d
      /\ UNCHANGED <<ktime_boot_ticks, ktime_tick_freq, ktime_ready>>
      /\ UNCHANGED <<m, pc, dtb_ready, uart_ready, g_ft_ctx, stvec, free, tables, pool, a, logVars>>
  BY DEF Tick, Ticks
<1>2. MaxTicks < Word /\ Word \in Nat \ {0} /\ MaxTicks \in Nat
  BY Constants
<1>3. time' = IF time + d < Word THEN time + d ELSE time + d - Word
  <2>1. PICK x \in Nat : x = time + d /\ x < 2 * Word
    BY <1>1, <1>2 DEF BInv, TypeOK
  <2>2. x % Word = IF x < Word THEN x ELSE x - Word
    BY <1>2, <2>1, ModOnce
  <2>3. time' = x % Word
    BY <1>1, <2>1
  <2>4. time' = IF x < Word THEN x ELSE x - Word
    BY <2>2, <2>3
  <2> QED  BY <1>2, <2>1, <2>4 DEF BInv, TypeOK
<1>4. TypeOK'
  BY <1>1, <1>2, <1>3 DEF BInv, TypeOK
<1>5. ClockOK'
  BY <1>1, <1>2, <1>3 DEF BInv, TypeOK, ClockOK
<1>6. PagesOK' /\ UptimeExact' /\ FaultOnlyWhenExhausted'
  BY <1>1 DEF BInv, PagesOK, UptimeExact, FaultOnlyWhenExhausted, logVars
<1> QED  BY <1>4, <1>5, <1>6 DEF BInv

-----------------------------------------------------------------------------
(***************************************************************************)
(* Each statement leaves the log the machine calls for.                    *)
(***************************************************************************)
StoryOK == FoundOK /\ LogOK /\ LogTellsStory

LEMMA StoryFirst ==
  ASSUME BInv, StoryOK, check_revision \/ call_ktime_init \/ call_pmm_init \/ dtb_init
                        \/ call_paging_early_init
  PROVE  StoryOK'
<1> USE DEF StoryOK, AfterPmm, AfterEarly, AfterUart, AfterPaging, AfterMp, Go
<1>1. CASE check_revision
  BY <1>1 DEF check_revision, At, logVars, FoundOK, LogOK, LogTellsStory, Story
<1>2. CASE call_ktime_init
  BY <1>2 DEF call_ktime_init, logVars, FoundOK, LogOK, LogTellsStory
<1>3. CASE call_pmm_init
  <2>1. /\ pc = "pmm" /\ m.revision /\ log = <<>> /\ ~uart_ready /\ ~g_ft_ctx
        /\ UNCHANGED <<m, uart_ready, g_ft_ctx>>
    BY <1>3 DEF call_pmm_init, At, FoundOK, LogOK
  <2>2. CASE m.memmap /\ m.hhdm /\ m.storage
    <3>1. free' = m.pages /\ pc' = "dtb" /\ Klog("pmm", uart_ready, g_ft_ctx)
      BY <1>3, <2>2 DEF call_pmm_init, Same
    <3>2. log' = Append(log, Line("pmm", "sbi", FALSE))
      BY <2>1, <3>1, KlogSbi
    <3> QED  BY <2>1, <2>2, <3>1, <3>2 DEF FoundOK, LogOK, LogTellsStory
  <2>3. CASE ~(m.memmap /\ m.hhdm /\ m.storage)
    <3>1. pc' = "hlt" /\ Klog("pmm failed", uart_ready, g_ft_ctx)
      BY <1>3, <2>3 DEF call_pmm_init, Same
    <3>2. log' = Append(log, Line("pmm failed", "sbi", FALSE))
      BY <2>1, <3>1, KlogSbi
    <3> QED  BY <2>1, <2>3, <3>1, <3>2 DEF FoundOK, LogOK, LogTellsStory, Story
  <2> QED  BY <2>2, <2>3
<1>4. CASE dtb_init
  <2>1. /\ pc = "dtb" /\ pc' = "early" /\ ~uart_ready /\ ~g_ft_ctx
        /\ UNCHANGED <<m, uart_ready, g_ft_ctx, free>>
        /\ log = Append(<<>>, Line("pmm", "sbi", FALSE))
    BY <1>4 DEF dtb_init, At, FoundOK, LogOK
  <2>2. log' = UpToDtb(m)
    <3>1. CASE m.dtb = "valid"
      BY <1>4, <2>1, <3>1 DEF dtb_init, logVars, UpToDtb
    <3>2. CASE m.dtb # "valid"
      <4>1. Klog("no dtb", uart_ready, g_ft_ctx)
        BY <1>4, <3>2 DEF dtb_init, Same
      <4>2. log' = Append(log, Line("no dtb", "sbi", FALSE))
        BY <2>1, <4>1, KlogSbi
      <4> QED  BY <2>1, <3>2, <4>2 DEF UpToDtb
    <3> QED  BY <3>1, <3>2
  <2> QED  BY <2>1, <2>2 DEF FoundOK, LogOK, LogTellsStory
<1>5. CASE call_paging_early_init
  <2>1. /\ pc = "early" /\ m.revision /\ m.memmap /\ m.hhdm /\ m.storage /\ log = UpToDtb(m)
        /\ ~uart_ready /\ ~g_ft_ctx /\ UNCHANGED <<m, uart_ready, g_ft_ctx, free>>
        /\ pool' = 0
    BY <1>5 DEF call_paging_early_init, At, FoundOK, LogOK
  <2>2. CASE m.satp
    BY <1>5, <2>1, <2>2 DEF call_paging_early_init, logVars, FoundOK, LogOK, LogTellsStory
  <2>3. CASE ~m.satp
    <3>1. pc' = "hlt" /\ Klog("early failed", uart_ready, g_ft_ctx)
      BY <1>5, <2>3 DEF call_paging_early_init, Same
    <3>2. log' = Append(log, Line("early failed", "sbi", FALSE))
      BY <2>1, <3>1, KlogSbi
    <3> QED  BY <2>1, <2>3, <3>1, <3>2 DEF FoundOK, LogOK, LogTellsStory, Story
  <2> QED  BY <2>2, <2>3
<1> QED  BY <1>1, <1>2, <1>3, <1>4, <1>5

(***************************************************************************)
(* The mapping calls: whether their tables suffice depends on the pages    *)
(* the machine had and on the calls before.                                *)
(***************************************************************************)
LEMMA StoryUart == ASSUME BInv, StoryOK, call_uart_init PROVE StoryOK'
<1> USE DEF StoryOK, AfterPmm, AfterEarly, AfterUart, AfterPaging, AfterMp, Go
<1>1. /\ pc = "uart" /\ m.revision /\ m.memmap /\ m.hhdm /\ m.storage /\ m.satp
      /\ log = UpToDtb(m) /\ ~uart_ready /\ ~g_ft_ctx /\ UNCHANGED <<m, g_ft_ctx>>
      /\ free = m.pages /\ pool = 0 /\ m.pages \in Nat /\ m.uart.tables \in Nat
      /\ PoolSize \in Nat /\ tables \in Nat
  BY BootAssumption DEF call_uart_init, At, FoundOK, LogOK, BInv, TypeOK
<1>2. PICK n \in Asked(m.uart) :
        /\ TakeTables(n, pool)
        /\ \/ /\ m.uart.conflict \/ Short(n, pool)
              /\ pc' = "hlt" /\ Klog("uart failed", uart_ready, g_ft_ctx)
           \/ /\ ~m.uart.conflict /\ ~Short(n, pool)
              /\ pc' = "paging" /\ uart_ready' = TRUE /\ Klog("uart", TRUE, g_ft_ctx)
           \/ pc' = "fault"
  BY DEF call_uart_init, Same
<1>3. n \in Nat /\ (~m.uart.conflict => n = m.uart.tables)
  BY <1>1, <1>2, AskedFacts
<1>4. free' = IF n <= m.pages THEN m.pages - n ELSE 0
  <2>1. 0 \in 0 .. PoolSize
    BY <1>1
  <2> QED  BY <1>1, <1>2, <1>3, <2>1, TakeTablesFacts
<1>5. CASE pc' = "hlt"
  <2>1. UartFails(m)
    <3>1. CASE m.uart.conflict
      BY <3>1 DEF UartFails
    <3>2. CASE ~m.uart.conflict
      <4>1. Short(m.uart.tables, 0)
        BY <1>1, <1>2, <1>3, <1>5, <3>2
      <4>2. m.uart.tables > m.pages + PoolSize
        BY <1>1, <4>1 DEF Short
      <4> QED  BY <4>2 DEF UartFails
    <3> QED  BY <3>1, <3>2
  <2>2. log' = Append(log, Line("uart failed", "sbi", FALSE))
    BY <1>1, <1>2, <1>5, KlogSbi
  <2> QED  BY <1>1, <1>5, <2>1, <2>2 DEF FoundOK, LogOK, LogTellsStory, Story
<1>6. CASE pc' = "paging"
  <2>1. ~UartFails(m) /\ free' = Left(m)
    BY <1>1, <1>2, <1>3, <1>4, <1>6 DEF Short, UartFails, Left
  <2>2. uart_ready' /\ log' = Append(UpToDtb(m), Line("uart", "uart", g_ft_ctx))
    <3>1. uart_ready' /\ Klog("uart", TRUE, g_ft_ctx)
      BY <1>2, <1>6
    <3>2. \A u : u /\ Klog("uart", u, g_ft_ctx) => log' = Append(log, Line("uart", "uart", g_ft_ctx))
      BY KlogLine
    <3> QED  BY <1>1, <3>1, <3>2
  <2>3. Line("uart", "uart", g_ft_ctx) = Line("uart", "uart", FALSE)
    BY <1>1 DEF Line
  <2> QED  BY <1>1, <1>6, <2>1, <2>2, <2>3 DEF FoundOK, LogOK, LogTellsStory, UpToUart
<1>7. CASE pc' = "fault"
  BY <1>7 DEF FoundOK, LogOK, LogTellsStory
<1> QED  BY <1>2, <1>5, <1>6, <1>7

LEMMA StoryPaging == ASSUME BInv, StoryOK, call_paging_init PROVE StoryOK'
<1> USE DEF StoryOK, AfterPmm, AfterEarly, AfterUart, AfterPaging, AfterMp, Go
<1>1. /\ pc = "paging" /\ m.revision /\ m.memmap /\ m.hhdm /\ m.storage /\ m.satp
      /\ ~UartFails(m) /\ log = UpToUart(m) /\ uart_ready /\ ~g_ft_ctx
      /\ UNCHANGED <<m, uart_ready, g_ft_ctx>>
      /\ free = Left(m) /\ free \in Nat /\ m.init.tables \in Nat /\ PoolSize \in Nat
  BY BootAssumption DEF call_paging_init, At, FoundOK, LogOK, BInv, TypeOK
<1>2. \/ /\ ~m.exec /\ pc' = "hlt" /\ Klog("paging failed", uart_ready, g_ft_ctx)
      \/ /\ m.exec
         /\ \E n \in Asked(m.init) :
              \/ /\ m.init.conflict \/ Short(n, 0)
                 /\ pc' = "hlt" /\ Klog("paging failed", uart_ready, g_ft_ctx)
              \/ /\ ~m.init.conflict /\ ~Short(n, 0)
                 /\ pc' = "fb" /\ Klog("paging", uart_ready, g_ft_ctx)
              \/ pc' = "fault"
  BY <1>1 DEF call_paging_init, Same
<1>3. \A n \in Asked(m.init) : n \in Nat /\ (~m.init.conflict => n = m.init.tables)
  BY <1>1, AskedFacts
<1>4. CASE pc' = "hlt"
  <2>1. InitFails(m)
    <3>1. CASE ~m.exec \/ m.init.conflict
      BY <3>1 DEF InitFails
    <3>2. CASE m.exec /\ ~m.init.conflict
      <4>1. Short(m.init.tables, 0)
        BY <1>2, <1>3, <1>4, <3>2
      <4>2. m.init.tables > Left(m) + PoolSize
        BY <1>1, <4>1 DEF Short
      <4> QED  BY <4>2 DEF InitFails
    <3> QED  BY <3>1, <3>2
  <2>2. log' = Append(UpToUart(m), Line("paging failed", "uart", g_ft_ctx))
    BY Zenon, <1>1, <1>2, <1>4, KlogLine
  <2>3. Line("paging failed", "uart", g_ft_ctx) = Line("paging failed", "uart", FALSE)
    BY <1>1 DEF Line
  <2> QED  BY <1>1, <1>4, <2>1, <2>2, <2>3 DEF FoundOK, LogOK, LogTellsStory, Story
<1>5. CASE pc' = "fb"
  <2>1. ~InitFails(m)
    <3>1. m.exec /\ ~m.init.conflict /\ ~Short(m.init.tables, 0)
      BY <1>2, <1>3, <1>5
    <3>2. ~(m.init.tables > Left(m) + PoolSize)
      BY <1>1, <3>1 DEF Short
    <3> QED  BY <3>1, <3>2 DEF InitFails
  <2>2. log' = Append(UpToUart(m), Line("paging", "uart", g_ft_ctx))
    BY Zenon, <1>1, <1>2, <1>5, KlogLine
  <2>3. Line("paging", "uart", g_ft_ctx) = Line("paging", "uart", FALSE)
    BY <1>1 DEF Line
  <2> QED  BY <1>1, <1>5, <2>1, <2>2, <2>3 DEF FoundOK, LogOK, LogTellsStory, UpToPaging
<1>6. CASE pc' = "fault"
  BY <1>6 DEF FoundOK, LogOK, LogTellsStory
<1> QED  BY <1>2, <1>4, <1>5, <1>6

(***************************************************************************)
(* The rest of kmain writes to the UART and to the screen if there is one. *)
(***************************************************************************)
LEMMA StoryRest ==
  ASSUME BInv, StoryOK, framebuffer \/ hello \/ test_alloc \/ test_write \/ test_free
                        \/ call_trap_init \/ mp
  PROVE  StoryOK'
<1> USE DEF StoryOK, AfterPmm, AfterEarly, AfterUart, AfterPaging, AfterMp, Go
<1>1. /\ pc \in AfterPaging /\ UNCHANGED <<m, uart_ready>> /\ uart_ready
      /\ m.revision /\ m.memmap /\ m.hhdm /\ m.storage /\ m.satp
      /\ ~UartFails(m) /\ ~InitFails(m)
  BY DEF framebuffer, hello, test_alloc, test_write, test_free, call_trap_init, mp, At, FoundOK
<1>2. CASE framebuffer
  <2>1. pc = "fb" /\ pc' = "hello" /\ log = UpToPaging(m) /\ (g_ft_ctx' <=> m.fb = "ok")
    BY <1>2 DEF framebuffer, At, LogOK
  <2>2. log' = UpToScreen(m)
    <3>1. CASE m.fb = "ok"
      BY <1>2, <2>1, <3>1 DEF framebuffer, logVars, UpToScreen
    <3>2. CASE m.fb # "ok"
      <4>1. Klog("no screen", uart_ready, FALSE)
        BY <1>2, <3>2 DEF framebuffer
      <4>2. \A f : Klog("no screen", uart_ready, f)
                     => log' = Append(log, Line("no screen", "uart", f))
        BY <1>1, KlogLine
      <4> QED  BY <2>1, <3>2, <4>1, <4>2 DEF UpToScreen
    <3> QED  BY <3>1, <3>2
  <2> QED  BY <1>1, <2>1, <2>2 DEF FoundOK, LogOK, LogTellsStory
<1>3. ASSUME pc # "fb"
      PROVE  /\ (g_ft_ctx <=> m.fb = "ok") /\ UNCHANGED g_ft_ctx
             /\ \A says : Line(says, "uart", g_ft_ctx) = Line(says, "uart", m.fb = "ok")
             /\ \A says : Klog(says, uart_ready, g_ft_ctx)
                            => log' = Append(log, Line(says, "uart", m.fb = "ok"))
  <2>1. (g_ft_ctx <=> m.fb = "ok") /\ UNCHANGED g_ft_ctx
    BY <1>1, <1>3
    DEF FoundOK, framebuffer, hello, test_alloc, test_write, test_free, call_trap_init, mp, At
  <2>2. \A says : Line(says, "uart", g_ft_ctx) = Line(says, "uart", m.fb = "ok")
    BY <2>1 DEF Line
  <2>3. \A says : Klog(says, uart_ready, g_ft_ctx)
                   => log' = Append(log, Line(says, "uart", g_ft_ctx))
    BY <1>1, KlogLine
  <2> QED  BY <2>1, <2>2, <2>3
<1>4. CASE hello
  <2>1. pc = "hello" /\ pc' = "alloc" /\ log = UpToScreen(m) /\ Klog("hello", uart_ready, g_ft_ctx)
    BY <1>4 DEF hello, At, Same, LogOK
  <2>2. log' = UpToHello(m)
    BY Zenon, <1>3, <2>1 DEF UpToHello
  <2> QED  BY <1>1, <1>3, <2>1, <2>2 DEF FoundOK, LogOK, LogTellsStory
<1>5. CASE test_alloc
  <2>1. /\ pc = "alloc" /\ pc' = "write" /\ log = UpToHello(m)
        /\ Klog("allocated", uart_ready, g_ft_ctx)
    BY <1>5 DEF test_alloc, At, Same, LogOK
  <2>2. log' = UpToAlloc(m)
    BY Zenon, <1>3, <2>1 DEF UpToAlloc
  <2> QED  BY <1>1, <1>3, <2>1, <2>2 DEF FoundOK, LogOK, LogTellsStory
<1>6. CASE test_write
  <2>1. /\ pc = "write" /\ log = UpToAlloc(m)
        /\ pc' = "fault" \/ (pc' = "free" /\ Klog("written", uart_ready, g_ft_ctx))
    BY <1>6 DEF test_write, At, Same, LogOK
  <2>2. ASSUME pc' = "free" PROVE log' = UpToWrite(m)
    BY Zenon, <1>3, <2>1, <2>2 DEF UpToWrite
  <2>3. CASE pc' = "fault"
    BY <2>3 DEF FoundOK, LogOK, LogTellsStory
  <2>4. CASE pc' = "free"
    BY <1>1, <1>3, <2>1, <2>2, <2>4 DEF FoundOK, LogOK, LogTellsStory
  <2> QED  BY <2>1, <2>3, <2>4
<1>7. CASE test_free
  BY <1>1, <1>3, <1>7 DEF test_free, At, logVars, FoundOK, LogOK, LogTellsStory
<1>8. CASE call_trap_init
  <2>1. /\ pc = "trap" /\ pc' = "mp" /\ log = UpToWrite(m) /\ Klog("trap", uart_ready, g_ft_ctx)
    BY <1>8 DEF call_trap_init, At, Same, LogOK
  <2>2. log' = UpToTrap(m)
    BY Zenon, <1>3, <2>1 DEF UpToTrap
  <2> QED  BY <1>1, <1>3, <2>1, <2>2 DEF FoundOK, LogOK, LogTellsStory
<1>9. CASE mp
  <2>1. /\ pc = "mp" /\ pc' = "hlt" /\ log = UpToTrap(m)
        /\ Klog(IF m.mp THEN "cpus" ELSE "mp failed", uart_ready, g_ft_ctx)
    BY <1>9 DEF mp, At, Same, LogOK
  <2>2. log' = Append(UpToTrap(m), Line(IF m.mp THEN "cpus" ELSE "mp failed", "uart", m.fb = "ok"))
    BY <1>3, <2>1
  <2> QED  BY <1>1, <2>1, <2>2 DEF FoundOK, LogOK, LogTellsStory, Story
<1> QED  BY <1>2, <1>4, <1>5, <1>6, <1>7, <1>8, <1>9

(***************************************************************************)
(* A step that is not one of kmain's.                                      *)
(***************************************************************************)
LEMMA SameStory ==
  ASSUME FoundOK, LogOK, LogTellsStory, UNCHANGED <<m, pc, free, pool, uart_ready, g_ft_ctx, log>>
  PROVE  FoundOK' /\ LogOK' /\ LogTellsStory'
<1>1. FoundOK'
  BY DEF FoundOK
<1>2. LogOK'
  BY DEF LogOK
<1>3. LogTellsStory'
  BY DEF LogTellsStory
<1> QED  BY <1>1, <1>2, <1>3

(***************************************************************************)
(* The invariant holds throughout the boot.                                *)
(***************************************************************************)
LEMMA Inductive == Spec => []IInv
<1>1. IInv /\ UNCHANGED vars => IInv'
  <2> SUFFICES ASSUME IInv, UNCHANGED vars PROVE IInv'
    OBVIOUS
  <2>1. TypeOK' /\ ClockOK' /\ PagesOK'
    BY DEF vars, logVars, ktimeVars, IInv, BInv, TypeOK, ClockOK, PagesOK
  <2>2. UptimeExact' /\ FaultOnlyWhenExhausted'
    BY DEF vars, logVars, ktimeVars, IInv, BInv, UptimeExact, FaultOnlyWhenExhausted
  <2>3. UNCHANGED <<m, pc, free, pool, uart_ready, g_ft_ctx, log>>
    BY DEF vars, logVars
  <2>4. FoundOK' /\ LogOK' /\ LogTellsStory'
    BY <2>3, SameStory DEF IInv
  <2> QED  BY <2>1, <2>2, <2>4 DEF IInv, BInv
<1>2. ASSUME IInv, NEW d \in {1, 3}, Tick(d) PROVE IInv'
  <2>1. FoundOK' /\ LogOK' /\ LogTellsStory'
    <3>1. UNCHANGED <<m, pc, free, pool, uart_ready, g_ft_ctx, log>>
      BY <1>2 DEF Tick, logVars
    <3> QED  BY <1>2, <3>1, SameStory DEF IInv
  <2> QED  BY <1>2, <2>1, TickOK DEF IInv
<1>3. IInv /\ kmain => BInv' /\ StoryOK'
  BY RevisionOK, KtimeInitOK, PmmInitOK, DtbInitOK, EarlyInitOK, UartInitOK, PagingInitOK, RestOK,
     StoryFirst, StoryUart, StoryPaging, StoryRest
  DEF kmain, IInv, StoryOK
<1>4. IInv /\ [Next]_vars => IInv'
  BY <1>1, <1>2, <1>3 DEF Next, Stopped, IInv, StoryOK
<1> QED  BY <1>4, InitOK, PTL DEF Spec

(***************************************************************************)
(* Every log line carries the time since ktime_init, also when the counter *)
(* has wrapped since, as long as the ticks times 1000 fit in the word.     *)
(***************************************************************************)
THEOREM TimeStampsExact == Spec => []UptimeExact
<1>1. IInv => UptimeExact
  BY DEF IInv, BInv
<1> QED  BY <1>1, Inductive, PTL

(***************************************************************************)
(* Before stvec is set kmain faults only when every page of the machine    *)
(* has become a page table.                                                *)
(***************************************************************************)
THEOREM FaultsExplained == Spec => []FaultOnlyWhenExhausted
<1>1. IInv => FaultOnlyWhenExhausted
  BY DEF IInv, BInv
<1> QED  BY <1>1, Inductive, PTL

(***************************************************************************)
(* When kmain has stopped, its log names the first thing the machine       *)
(* lacked, after a line for everything that worked, whatever the machine   *)
(* and however many pages its page tables need.                            *)
(***************************************************************************)
THEOREM BootLogTrue == Spec => []LogTellsStory
<1>1. IInv => LogTellsStory
  BY DEF IInv
<1> QED  BY <1>1, Inductive, PTL
=============================================================================
