-------------------------------- MODULE Boot --------------------------------
(***************************************************************************)
(* main.c: kmain, from the boot loader's answers to the last hlt(), while  *)
(* the clock runs.  The subsystems appear with the outcomes their own      *)
(* modules give them: what they need, what they leave behind and the last  *)
(* line they log.  pc is the next statement of kmain; "hlt" is the loop of *)
(* hlt(), "fault" a trap that nobody handles, stvec not being set yet.     *)
(***************************************************************************)
EXTENDS Ktime, Sequences

CONSTANTS
  Machines,   \* the boot loader's responses and the machine:
              \*   revision, memmap, hhdm, exec, mp : BOOLEAN
              \*   storage : a usable region is large enough for the pfndb
              \*   satp : the mode of satp is Sv39, Sv48 or Sv57, its root not 0
              \*   dtb  : "none", "null", "invalid" or "valid"
              \*   freq : <<timebase-frequency>> in the device tree, or <<>>
              \*   fb   : "none", "unusable" or "ok"
              \*   pages : pages the allocator gets
              \*   uart, init : what the loader's page tables make of mapping the
              \*     UART and of paging_init: the page tables that are missing, and
              \*     whether a leaf there conflicts, [tables : Nat, conflict : BOOLEAN]
  PoolSize    \* tables in g_early_pt_pool

ASSUME BootAssumption ==
  /\ PoolSize \in Nat
  /\ \A x \in Machines :
       /\ x.pages \in Nat /\ x.uart.tables \in Nat /\ x.init.tables \in Nat
       /\ x.freq \in Seq(Nat) /\ Len(x.freq) <= 1

VARIABLES
  m,                          \* the machine, never written
  pc,
  dtb_ready, uart_ready, g_ft_ctx, stvec,
  free, tables, pool,         \* free pages; tables taken from it and from the pool
  a,                          \* "none", "page" or "null"
  log,                        \* history: what was logged and where, [says, sinks]
  stamp                       \* time stamp of its last line, and the ticks then

logVars == <<log, stamp>>
vars == <<ktimeVars, m, pc, dtb_ready, uart_ready, g_ft_ctx, stvec, free, tables, pool, a, logVars>>

-----------------------------------------------------------------------------
(***************************************************************************)
(* klog through printk_putc: where the line goes and with which time.  at  *)
(* is history: the ticks that had really passed.                           *)
(***************************************************************************)
printk_putc(ready, ft) ==
  {IF ready THEN "uart" ELSE "sbi"} \cup (IF ft THEN {"screen"} ELSE {})

Klog(says, ready, ft) ==
  /\ log' = Append(log, [says |-> says, sinks |-> printk_putc(ready, ft)])
  /\ stamp' = [ms |-> ktime_get_ms, at |-> elapsed]

At(s) == pc = s /\ UNCHANGED <<m, ktimeVars>>
Go(s) == pc' = s

Same(says) == Klog(says, uart_ready, g_ft_ctx)

(***************************************************************************)
(* A call that maps pages through need.tables missing tables: each comes   *)
(* from the allocator, and from the pool once that is empty; pool0 is      *)
(* g_early_pt_pool_used when it begins.  It asks for all of them unless it *)
(* meets a conflicting leaf before.                                        *)
(***************************************************************************)
Least(x, y) == IF x < y THEN x ELSE y

Asked(need) == IF need.conflict THEN 0 .. need.tables ELSE {need.tables}
Short(n, pool0) == n > free + (PoolSize - pool0)

TakeTables(n, pool0) ==
  /\ free' = free - Least(n, free) /\ tables' = tables + Least(n, free)
  /\ pool' = pool0 + Least(n - Least(n, free), PoolSize - pool0)

-----------------------------------------------------------------------------
(***************************************************************************)
(* The statements of kmain.                                                *)
(***************************************************************************)
check_revision ==
  /\ At("revision") /\ Go(IF m.revision THEN "ktime" ELSE "hlt")
  /\ UNCHANGED <<dtb_ready, uart_ready, g_ft_ctx, stvec, free, tables, pool, a, logVars>>

(***************************************************************************)
(* The lookups of ktime_init end at dtb_ready (dtb.c:50, dtb.c:121).       *)
(***************************************************************************)
dtb_timebase == IF dtb_ready THEN m.freq ELSE <<>>

call_ktime_init ==
  /\ pc = "ktime" /\ Go("pmm")
  /\ ktime_init(dtb_timebase)
  /\ UNCHANGED <<m, dtb_ready, uart_ready, g_ft_ctx, stvec, free, tables, pool, a, logVars>>

(***************************************************************************)
(* pfndb_init and pmm_init, which needs the database: pfndb_init sets none *)
(* up without a memory map, an HHDM offset or a place to put it.           *)
(***************************************************************************)
call_pmm_init ==
  /\ At("pmm")
  /\ IF m.memmap /\ m.hhdm /\ m.storage THEN free' = m.pages /\ Go("dtb") /\ Same("pmm")
     ELSE free' = 0 /\ Go("hlt") /\ Same("pmm failed")
  /\ UNCHANGED <<dtb_ready, uart_ready, g_ft_ctx, stvec, tables, pool, a>>

dtb_init ==
  /\ At("dtb") /\ Go("early")
  /\ dtb_ready' = (m.dtb = "valid")
  /\ IF m.dtb = "valid" THEN UNCHANGED logVars ELSE Same("no dtb")
  /\ UNCHANGED <<uart_ready, g_ft_ctx, stvec, free, tables, pool, a>>

early_init_unchecked ==                     \* mutation: its result is not looked at
  /\ At("early") /\ pool' = 0 /\ Go("uart")
  /\ UNCHANGED <<dtb_ready, uart_ready, g_ft_ctx, stvec, free, tables, a, logVars>>

(***************************************************************************)
(* paging_early_init: paging_setup_root, and PHYS_TO_VIRT needs the HHDM.  *)
(***************************************************************************)
call_paging_early_init ==
  /\ At("early") /\ pool' = 0
  /\ IF m.satp /\ m.hhdm THEN Go("uart") /\ UNCHANGED logVars
     ELSE Go("hlt") /\ Same("early failed")
  /\ UNCHANGED <<dtb_ready, uart_ready, g_ft_ctx, stvec, free, tables, a>>

(***************************************************************************)
(* uart_init: it maps the registers, writes them and logs through them.    *)
(* Tables of the pool are linked at a wrong address: the first access      *)
(* faults, unless they serve only the pages behind the registers.          *)
(***************************************************************************)
call_uart_init ==
  /\ At("uart")
  /\ \E n \in Asked(m.uart) :
       /\ TakeTables(n, pool)
       /\ \/ /\ m.uart.conflict \/ Short(n, pool)
             /\ Go("hlt") /\ Same("uart failed") /\ UNCHANGED uart_ready
          \/ /\ ~m.uart.conflict /\ ~Short(n, pool)
             /\ Go("paging") /\ uart_ready' = TRUE /\ Klog("uart", TRUE, g_ft_ctx)
          \/ /\ ~m.uart.conflict /\ ~Short(n, pool) /\ n > free
             /\ Go("fault") /\ UNCHANGED <<logVars, uart_ready>>
  /\ UNCHANGED <<dtb_ready, g_ft_ctx, stvec, a>>

(***************************************************************************)
(* paging_init, which begins by declaring the pool unused; what it maps    *)
(* through a table of the pool may be needed at once or never.             *)
(***************************************************************************)
call_paging_init ==
  /\ At("paging")
  /\ \/ /\ ~(m.satp /\ m.hhdm /\ m.memmap /\ m.exec) /\ pool' = 0
        /\ Go("hlt") /\ Same("paging failed") /\ UNCHANGED <<free, tables>>
     \/ /\ m.satp /\ m.hhdm /\ m.memmap /\ m.exec
        /\ \E n \in Asked(m.init) :
             /\ TakeTables(n, 0)
             /\ \/ (m.init.conflict \/ Short(n, 0)) /\ Go("hlt") /\ Same("paging failed")
                \/ ~m.init.conflict /\ ~Short(n, 0) /\ Go("fb") /\ Same("paging")
                \/ n > free /\ Go("fault") /\ UNCHANGED logVars
  /\ UNCHANGED <<dtb_ready, uart_ready, g_ft_ctx, stvec, a>>

framebuffer ==
  /\ At("fb") /\ Go("hello")
  /\ g_ft_ctx' = (m.fb = "ok")
  /\ IF m.fb = "ok" THEN UNCHANGED logVars ELSE Klog("no screen", uart_ready, FALSE)
  /\ UNCHANGED <<dtb_ready, uart_ready, stvec, free, tables, pool, a>>

hello ==
  /\ At("hello") /\ Go("alloc") /\ Same("hello")
  /\ UNCHANGED <<dtb_ready, uart_ready, g_ft_ctx, stvec, free, tables, pool, a>>

test_alloc_order ==                         \* mutation: an order pmm_alloc refuses
  /\ At("alloc") /\ Go("write")
  /\ a' = "null" /\ Same("allocated")
  /\ UNCHANGED <<dtb_ready, uart_ready, g_ft_ctx, stvec, free, tables, pool>>

(***************************************************************************)
(* The allocation test: pmm_alloc(0), a store through its result, which is *)
(* not tested, pmm_free.                                                   *)
(***************************************************************************)
test_alloc ==
  /\ At("alloc") /\ Go("write")
  /\ a' = IF free > 0 THEN "page" ELSE "null"
  /\ free' = IF free > 0 THEN free - 1 ELSE free
  /\ Same("allocated")
  /\ UNCHANGED <<dtb_ready, uart_ready, g_ft_ctx, stvec, tables, pool>>

test_write ==
  /\ At("write")
  /\ IF a = "null" THEN Go("fault") /\ UNCHANGED logVars ELSE Go("free") /\ Same("written")
  /\ UNCHANGED <<dtb_ready, uart_ready, g_ft_ctx, stvec, free, tables, pool, a>>

test_free ==
  /\ At("free") /\ Go("trap")
  /\ free' = free + 1 /\ a' = "none"
  /\ UNCHANGED <<dtb_ready, uart_ready, g_ft_ctx, stvec, tables, pool, logVars>>

call_trap_init ==
  /\ At("trap") /\ Go("mp")
  /\ stvec' = TRUE /\ Same("trap")
  /\ UNCHANGED <<dtb_ready, uart_ready, g_ft_ctx, free, tables, pool, a>>

mp ==
  /\ At("mp") /\ Go("hlt")
  /\ IF m.mp THEN Same("cpus") ELSE Same("mp failed")
  /\ UNCHANGED <<dtb_ready, uart_ready, g_ft_ctx, stvec, free, tables, pool, a>>

-----------------------------------------------------------------------------
Stopped == pc \in {"hlt", "fault"} /\ UNCHANGED vars

Tick(d) ==
  /\ pc \notin {"hlt", "fault"} /\ Ticks(d)
  /\ UNCHANGED <<m, pc, dtb_ready, uart_ready, g_ft_ctx, stvec, free, tables, pool, a, logVars>>

Init ==
  /\ m \in Machines /\ pc = "revision" /\ KtimeInit
  /\ dtb_ready = FALSE /\ uart_ready = FALSE /\ g_ft_ctx = FALSE /\ stvec = FALSE
  /\ free = 0 /\ tables = 0 /\ pool = 0 /\ a = "none"
  /\ log = <<>> /\ stamp = [ms |-> 0, at |-> 0]

kmain ==
  \/ check_revision \/ call_ktime_init \/ call_pmm_init \/ dtb_init
  \/ call_paging_early_init \/ call_uart_init \/ call_paging_init \/ framebuffer \/ hello
  \/ test_alloc \/ test_write \/ test_free \/ call_trap_init \/ mp

Next == kmain \/ Stopped \/ \E d \in {1, 3} : Tick(d)

Spec == Init /\ [][Next]_vars
=============================================================================
