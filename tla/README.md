# Specifications of the risky kernel

TLA+ modules for [risky](../src/README.md), a small RISC-V kernel booted by
Limine, with the TLC configurations that check them and TLAPS proofs about
eight of its parts. `PROJECT.json` maps every definition to the lines it models.

## 1. The system

One hart runs `kmain` (`kernel/src/main.c`). There are no threads; what runs
beside the code is hardware: the page table walker and its TLB, the serial port,
the clock, the sources of interrupts, and the boot loader's data, which the
kernel reads and in one place edits. Code is interrupted only by traps: an
exception anywhere, an interrupt once both `sstatus.SIE` and its source are
enabled.

| part | source (`kernel/src/`) | state | operations |
|---|---|---|---|
| page frame database | `mm/pfndb.c`, `mm/page.h` | `g_pfndb` (flags, order, links per page frame), `g_pfndb_phys`, `g_max_pfn`; the memory map, edited in place | `pfndb_init`, `pfndb_mark_range`, conversions |
| page allocator | `mm/pmm.c` | free lists per order, `g_free_pages`, `g_total_pages`, `g_pmm_ready` | `pmm_init`, `pmm_alloc`, `page_alloc`, `pmm_free` |
| paging | `mm/paging.c` | page tables in memory, `g_root_phys`, `g_levels`, the early pool | `paging_early_init`, `paging_init`, `paging_map_page`, `_range`, `_mmio` |
| UART | `platform/generic/uart.c` | `uart0`, `uart_ready`; the 16550's registers and queues | `uart_init`, `uart_putc`, `uart_puts`, `uart_getc` |
| FDT parser | `dev/fdt.c` | none beyond a walk's locals | lookups by path and by compatible string, properties, `reg` |
| dtb | `dev/dtb.c` | `dtb_fdt`, `dtb_ready` | `dtb_init`, wrappers that test `dtb_ready` |
| time | `lib/time.c` | `ktime_boot_ticks`, `ktime_tick_freq`, `ktime_ready` | `ktime_init`, `ktime_get_ticks`, `ktime_get_ms` |
| traps | `platform/generic/trap.c`, `trap.h`, `trap.S` | `stvec`, `sie`, `sstatus`, the trap frames on the stack | `trap_entry`, `trap_handler`, `kpanic`, `trap_init`, enabling and disabling interrupts |
| printk | `lib/printk.c` | `struct printk_state` of one call | `kprintf`, `klog` |
| string functions | `lib/string.c` | none beyond a call's locals | `memcpy`, `memset`, `memmove`, `memcmp`, `strlen`, `strnlen`, `strcmp`, `strchr` |
| boot | `main.c`, `boot/req.c` | `g_ft_ctx`; the Limine responses | `kmain` |

How they interact: `kmain` calls `ktime_init`, `pfndb_init`, `pmm_init`,
`dtb_init`, `paging_early_init`, `uart_init`, `paging_init`, `trap_init` in that
order and stops in `hlt()` when the allocator, paging or the UART fails.
`pmm_init` builds its lists from the flags `pfndb_init` set. Paging takes pages
for tables from `page_alloc`, and from a pool in the kernel image when there are
none. `uart_init` finds its port through dtb/fdt and maps it through paging.
`printk_putc` uses the UART once it is ready and the firmware before that.

What is hard here: stale flags inside merged blocks; long sequences of
allocations and frees; tables that the hardware reads while they are written;
the early pool, whose pages are not in the HHDM; ranges that fail half way; the
16550 whose registers change meaning with DLAB and which sends and receives
between any two accesses; bounded and unbounded polling; limits of the FDT walk;
several walks in a row over one tree; a trap frame whose layout is written down
twice; a trap inside a trap, and a panic in the middle of a log line; a clock that
wraps; overlapping regions in `memmove`.
`PROJECT.json` lists these under `hazards`, each at its line.

What makes each part correct, in one line: every page is in exactly one block
and none is lost (allocator); the hardware translates what was asked for and
nothing else changed (paging); one consistent, configured port and every byte
once, in order (UART); lookups agree with the tree the blob stands for and, where
the blob keeps its promises, stay inside it (FDT, dtb); a trap that returns is invisible and one that panics tells
the truth (traps); the console shows what the call means (printk); the log of a
boot tells what happened and why it ended (kmain); results equal definitions without loops (strings).

## 2. Modules

| module | contents |
|---|---|
| `Page` | page arithmetic and flags of `mm/page.h` |
| `Pfndb` | `pfndb_init` and its parts |
| `Pmm` | extends `Pfndb`: the boot calls and the buddy allocator |
| `PmmProps` | its properties and the refinement mapping |
| `PhysMem` | abstract specification: a set of free pages, blocks handed out |
| `PmmDoubleFree` | `Pmm` with a caller that frees twice |
| `PmmProof`, `PagingProof`, `FdtBytesProof`, `DtbProof`, `TrapProof`, `BootProof`, `StringProof` | the theorems about the module of that name |
| `ConsoleProof` | the theorems about `Uart` and `Printk` |
| `Paging`, `PagingProps` | `mm/paging.c`, the hardware walk and TLB |
| `Uart`, `UartProps` | the UART driver and the 16550 |
| `Fdt`, `FdtProps` | the walk and the lookups of `dev/fdt.c`, and the reference tree |
| `Dtb`, `DtbProps` | extends `Fdt`: `dtb_init` and all the lookups of `uart_find_port`, one after the other |
| `FdtBytes` | the loops of `dev/fdt.c` below the tokens: which bytes they read |
| `Trap`, `TrapProps` | trap entry, handling, panic and return, with the hart and its interrupts |
| `Printk`, `PrintkProps` | formatting, line prefixes, a panic that breaks in |
| `Ktime` | the clock of `lib/time.c` |
| `Boot`, `BootProps` | extends `Ktime`: `kmain` on every kind of machine |
| `String`, `StringProps` | `lib/string.c` |
| `MCPmm`, `MCPaging`, `MCUart`, `MCDtb`, `MCPrintk`, `MCBoot` | constants for TLC |

**Pmm.** A page is its frame number, `struct page` is four functions (`flags` as
a set, `order`, `next`, `prev`). A call is split at its loop iterations, `pc`
says where it is, `page`, `cur`, `req`, `scan` are its locals. Splitting is not
about concurrency: it lets the invariants speak about the middle of a merge or a
split, and it is what the proofs induct over. `held` is the environment: the
pages callers were given and have not given back. `MayFree` says what callers
pass to `pmm_free`: what they hold, and bad pointers of every kind that
`pmm_free` tests for; `PmmDoubleFree` adds a second free. `page_alloc` is the
same code as `pmm_alloc` with another return type and is the same action.
`Pfns` is the range of frame numbers that `pfndb_get_page` has a page for.

**Paging.** `mem` maps page frames to tables. The code reaches a frame through a
pointer (`FrameAt`: the boot loader's mapping of the kernel image, or the HHDM);
the hardware reaches it through physical addresses (`TranslateIn`). Each store to
a table is a step of its own, and between any two the hart may cache a
translation (`TlbFill`, one cached translation stands for all). `AddrSpan` is
the number of addresses the active mode translates: an address is taken by its
low 39, 48 or 57 bits, which is all that distinguishes canonical addresses and all
that an index or an offset is cut from. `paging_init` is the sequence of ranges of
`paging_map_hhdm` and `paging_map_kernel_segments` put through the loop of
`paging_map_range`. The page allocator appears as the set `avail` of pages it can
still give. `PoolUsed` says that a table of the early pool has been linked; three
invariants are stated for behaviours without such a table, because with one they
do not hold (the violation `paging_pool`; `paging_init` also starts the pool again
and can hand out a table that is already linked). `uart_init` writes the port's registers
as soon as they are mapped, and that write (`uart.c:146`) faults when the hardware
does not see the mapping, so `paging_init` is only reached with `RegistersReached`:
the UART's own tables are real ones or the boot loader's. `TlbCoherent` and the action
properties hold with it as well.

**Uart.** `uart_find_port` is an operator on the device tree (`FindNode` for the
choice of the node, then what was written to `uart0` when it gave up). The
configuration writes are steps, the spin loop counts up to `SPIN_LIMIT`, the
device sends and receives in between. The history variables `wire`, `asked`,
`arrived`, `got` record the bytes. At the start the port is as the firmware left it,
with one exception: DLAB is clear. `uart_init` relies on that (its first write, to
`IER`, would go to the divisor latch otherwise), so a firmware that leaves DLAB set
is outside the model.

**Fdt and Dtb.** A blob is a sequence of tokens; a check on bytes that fails (a
string without end, a value longer than the block) is the token `"bad"`. A value that
is read as strings need not end in a zero byte (`str` is FALSE): the last entry of such a
value never matches (`fdt.c:416`). One step
per token of `fdt_walk_next_node`, with frames, path and limits as in the code.
`Dtb` starts the walks: `dtb_init` accepts or refuses the header, then
`uart_find_port` looks for `/chosen`, maybe `/aliases`, the node they name, and
each compatible string, and reads the registers of what it found. Texts are
sequences of pieces (`<<"/", "soc", "/", "bbb", ":", "opts">>`), since the code
only cuts them at `/` and `:`, compares them and counts their characters.
`FdtProps` defines the tree from the nesting of the tokens alone, `DtbProps` the
port that tree describes; neither walks. In `Uart`, the device tree is a list of
UART nodes and the choice is one operator; `Dtb` is where it is really made.

**FdtBytes.** The same two loops (`fdt_walk_next_node`, `fdt_get_property` with
`fdt_node_payload`) and that of `fdt_node_has_compatible` over the value found, with
addresses in place of tokens. What the bytes say is left
open at every step, so one run covers every content of the block. `size_t`
differences wrap. The walk is checked for every position and size of the block,
the scan for blocks of whole words: `fdt_get_property` (`dev/fdt.c:337`) does not
test that a whole token is left, as `fdt_walk_next_node` does. The third loop looks for
the end of an entry with `strlen` (`fdt.c:414`) before it tests whether that end is in
the value, so `StaysInBlock` is claimed for values that end in a zero byte (`last = 0`):
one that does not makes `strlen` leave the value, and the block when nothing behind
the value stops it. That all three loops end is claimed with such values too.

**Trap.** Registers, stack and CSRs of the hart are variables; a register holds a
value named after itself, so that any mix-up shows. `TF` is the layout of
`trap.S`, `trap_frame` that of `trap.h`; the assembly stores by the first and C
reads by the second. Between any two steps a device may raise or withdraw an
interrupt, and any instruction may fault, in the handler and in `kpanic` too
(`MaxFaults` of them). The C code is one step that leaves arbitrary values in the
registers it may change and in its own stack frame.

**Printk.** A conversion computes its text, which then goes out one character a
step, with the prefix logic of `emit_char`. The clock is a variable: it may run on
(`ClockRuns`) between any two characters, and `emit_log_prefix` reads it at each start
of a line, so the lines of one message carry different times; `when` records the time
of each character. A width is an `unsigned int` and wraps (`NextWidth`). `Panic` may happen after any
character and prints kpanic's lines over what was being printed. The `klog` of
`handle_interrupt` (`trap.c:169`) could break in the same way; it is left out because
nothing in the kernel enables interrupts, and would have to be added when something
does. What a call means
is given with it (`spec`): the format as a sequence of parts, each a plain character
or a conversion with its modifiers and argument, and the text they stand for.
`CallMeans` relates the two by positions in the format, without the parser.

**Ktime and Boot.** `Boot` has one action per statement of `kmain`, over machines
that answer each Limine request or not, with and without a usable device tree and
framebuffer, with and without a place for the database and a `satp` that
`paging_setup_root` accepts, with 0 to 6 pages, and with page tables of the loader that
the mapping calls extend, cover or conflict with. The subsystems appear with the outcomes their
own modules give them. A mapping call takes its tables one by one and stops at a
conflicting leaf, before which it may have taken any number of them. The history
variable `log` is all that was logged, each line with the consoles it went to.
`LogTellsStory` compares it, once `kmain` has stopped, with the log worked out from the
machine alone (`Story`). The time CSR ticks between any two statements and wraps.

**String.** One call, one step per turn of the loop, operands in one memory so
that they may overlap. `Legal` is what the C standard asks of the caller.

## 3. Runs

| run | states | shows |
|---|---|---|
| `pmm` | 107 thousand | `NoOverlap`, `MergesListedBuddy`, `ListsWellLinked`, `FreeCountExact`, `HeldIsUsableRam`, `FailsOnlyWhenFull`, `TypeOK`, and the refinement `ImplementsPhysMem` |
| `pmm_double_free` | violation | a second free of the upper half of a merged block is accepted |
| `paging` | 99 thousand | `MappedSoFar`, `InitMapsAll`, `TlbCoherent`, `TablesFormTree`, `OthersPreserved`, `LargePagesStay`, with three, one or no pages for tables |
| `paging_pool` | violation | `InitOkMapsAll` fails when tables come from the early pool |
| `uart` | 706 thousand | `PortConsistent`, `Configured`, `OrderedOutput`, `InputInOrder`, `PutsReturns`, `InitReturns` |
| `dtb` | 514 thousand | `LookupRight`, `WalkInStep`, `RegRight`, `PortRight`, `ReadsInside` |
| `fdt_bytes` | 249 thousand | `StaysInBlock`, `LoopsEnd` |
| `trap` | 27 thousand | `PanicTells`, `Transparent`, `InterruptReturns` |
| `printk` | 173 thousand | `NumberShown`, `LinesShown`, `PrefixStartsLine`, `ReadsFormatOnly` |
| `boot` | 77 thousand | `UptimeExact`, `FaultOnlyWhenExhausted`, `LogTellsStory` |
| `boot_timebase` | violation | `TimebaseUsed` fails on a complete machine |
| `string` | 308 thousand | `Moved`, `Answered`, `StopsAtEnd` |

The three violations are findings, described in `PROJECT.json`:

* `pmm_free` logs "refusing double free" (`mm/pmm.c:228`) but tests only
  `PageFree`. A page merged as the upper buddy keeps `PAGE_USED`, so its second
  free is accepted.
* A table of `g_early_pt_pool` is linked at `VIRT_TO_PHYS` of an address in the
  kernel image (`mm/paging.c:209`), which is not its physical address;
  `paging_init` then logs "init ok" (`mm/paging.c:367`). In the run the UART lies in a
  large page of the boot loader, so mapping it takes no table and its registers are
  reached; no page is left, so the first table of `paging_init` comes from the pool.
* `ktime_init` reads `timebase-frequency` (`lib/time.c:20`) before `dtb_init` has
  run (`main.c:37` and `:44`), so the clock runs at `KTIME_FALLBACK_FREQ` on every
  machine.

More things the models show without a run of their own: the `sp` of a panic
is `TF_SIZE` below that of the code that trapped, because `trap.S:50` makes the
frame before the register is stored (a conjunct of `PanicTells`); `kmain` faults
in its allocation test when the page tables took the last page
(`FaultOnlyWhenExhausted` says that this is the only such case); and a format that
ends inside a conversion ("%4", "%l") makes `vprintk_internal` step over the
terminator (`lib/printk.c:315`), which no format in the kernel does. Two more are
exempted in `StaysInBlock`, see `FdtBytes` above.

### Bounds

* `pmm`: pages of 4 bytes, `sizeof(page_t)` 1, at most 16 page frames. The seven
  memory maps cover: no map, no usable memory, no room for the database, an entry
  emptied by the database, holes, an odd last page, and eight aligned free pages.
  With three orders these make two buddies of the top order, which must not
  merge, and blocks that are split and put together again.
* `paging`: pages of 2 bytes, 3 entries per table, 3 levels, 12 frames. Calls:
  new tables at two levels, replaced leaves, covered and conflicting large
  pages, unaligned, empty and wrapping ranges. Free frames hold old contents
  that would be valid entries.
* `uart`: `SPIN_LIMIT` 2, queues of 2 bytes, 4 bytes in each direction, so that
  queues overflow and spins run out. Before `uart_init` the port holds what the
  firmware left there.
* `dtb`: every well-formed tree of up to 5 tokens after the root over an alphabet
  of 9, every sequence of 3 tokens after the root over 10, broken ones and a
  `compatible` without terminator included, and boards with `/chosen`, `/aliases` and two ports that say everything or
  nothing, before or after each other, of different names or of one, and one whose
  parent declares each of 0 to 3 address and 0 to 3 size cells; at most 3 open
  nodes and 11 characters of path, so that both limits are met; a cell has 16 values. The other headers (no
  blob, wrong magic, a block that ends outside, a sum that wraps) go with short
  blobs, since no walk may begin.
* `fdt_bytes`: blocks that end at up to address 28, values and entries of up to 9 bytes,
  two open nodes: every alignment of a name and of a value, and ends inside each.
* `trap`: two interrupt sources, three exceptions, two faults in a behaviour, so
  that a fault in the handler and one in `kpanic` happen; 16 bytes of C stack.
* `printk`: arguments at both ends of each length, whose widths are scaled down
  together; a width that wraps; messages with line ends at the start, in the middle
  and at the end; the clock at each of a few times, in any order that does not go back.
  The formats end outside a conversion or in a lone `%`.
* `boot`: a clock of 16 values that starts at 0 or at 12, 7 ticks (so that ticks
  times `Thousand` fits, as it does for 58 years), every answer and precondition missing
  alone and in twos, every shortage of pages with 0 to 3 tables needed at each of two
  places, and a conflicting leaf at either, with pages for some, most or all of the tables.
* `string`: 5 bytes of memory with the values 0, 1 and 200 (above 127, where a
  signed comparison would differ), int arguments 1, 256 and 300, every call.

`CHECK_DEADLOCK FALSE` is used for the UART only: the kernel may stop in `hlt()`
and a caller may wait in `uart_getc` for ever.

### Fairness

`FairSpec` is weak fairness of the steps of the code that is running: the hart
keeps executing. Nothing is assumed of the environment: callers need not call, the
device need not send, an interrupt may come back as soon as it was handled. So
`PutsReturns` holds through the bound on spins alone, and `InterruptReturns` says
that each trap ends, not that the interrupted code gets on. The drain loop of
`uart_init` has no bound: `InitReturns` claims that it ends if the sender pauses,
and only then. In `FdtBytes` the content is arbitrary, so `LoopsEnd` is about the
cursor alone.

## 4. Proofs

Eight modules hold theorems. Each property below is an invariant or action property
of a run; the theorem states it for every value of the constants that satisfies the
assumptions named in the component's modules, which TLC evaluates in the run.

| module | theorem | property |
|---|---|---|
| `PmmProof` | `TypeCorrect` | `TypeOK` |
| | `BlocksDisjoint` | `NoOverlap` |
| | `BuddyIsListed` | `MergesListedBuddy` |
| | `RefinesPhysMem` | `ImplementsPhysMem` (refinement) |
| | `CountsExact` | `FreeCountExact` |
| | `ListsLinked` | `ListsWellLinked` |
| | `RefusesOnlyWhenFull` | `FailsOnlyWhenFull` |
| | `HandsOutUsableRam` | `HeldIsUsableRam` |
| `PagingProof` | `TlbNeverStale` | `TlbCoherent` |
| | `OthersUntouched` | `OthersPreserved` (action property) |
| | `LargePagesKept` | `LargePagesStay` (action property) |
| | `TablesStayTree` | `TablesFormTree` |
| | `RangeMapsPages` | `MappedSoFar` |
| | `InitMapsRegions` | `InitMapsAll` |
| `ConsoleProof` | `PortNeverMixed` | `PortConsistent` |
| | `PortConfigured` | `Configured` |
| | `OutputInOrder` | `OrderedOutput` |
| | `InputNotLost` | `InputInOrder` |
| | `NumbersShown` | `NumberShown` |
| | `MessagesShown` | `LinesShown` |
| | `PrefixesAtLineStarts` | `PrefixStartsLine` |
| | `FormatBounded` | `ReadsFormatOnly` |
| `FdtBytesProof` | `ReadsStayInBlock` | `StaysInBlock` |
| `DtbProof` | `WalksInsideBlob` | `ReadsInside` |
| | `WalkFollowsTree` | `WalkInStep` |
| | `LookupFindsNode` | `LookupRight` |
| | `RegOfFoundNode` | `RegRight` |
| | `PortIsRight` | `PortRight` |
| `TrapProof` | `DumpTellsTruth` | `PanicTells` |
| | `TrapsAreTransparent` | `Transparent` (action property) |
| `BootProof` | `TimeStampsExact` | `UptimeExact` |
| | `FaultsExplained` | `FaultOnlyWhenExhausted` |
| | `BootLogTrue` | `LogTellsStory` |
| `StringProof` | `MovesRight` | `Moved` |
| | `AnswersRight` | `Answered` |
| | `LoopsStopAtEnd` | `StopsAtEnd` |

### Page allocator

For every set of memory maps, every page size and every `PMM_MAX_ORDER` up to 10
(the code's value). `UsableAssumption` is Limine's promise about the map: usable
entries are made of whole pages and do not overlap; only `HandsOutUsableRam` and
what it rests on use it. None of the properties is inductive. `NoOverlap` needs to
know that the buddy merged is a block, which the code infers from a `FREE` flag and
an order that can be stale. The invariant `IInv` adds:

* `PhaseOK`: what is known in each phase of boot (no database, nothing listed);
* `LinksOK` (`HeadsOK`, `NextOK`, `PrevOK`): heads, `next` and `prev` agree and
  link only listed pages of the same order, so that unlinking a page removes
  exactly it;
* `OnePlace`: a page is on a list, held, or in hand, and only one of these;
* `FreeFlagInBlock`: a page with the `FREE` flag lies in some block. With
  alignment this makes the buddy test sound: the buddy starts at a multiple of
  its size, so a block around it that is not larger starts at the buddy itself,
  and a larger one would also contain the block in hand, which is apart from all
  others. So the buddy is a head, and by `OnePlace` it is a listed one;
* `ScanOK`: pages `pmm_init` has still to visit are in no block yet;
* `SplitOK`: while splitting, the order asked for is not above the current one.

There is one lemma per action, over lemmas on powers of two and aligned blocks (two
aligned blocks are nested or apart; a block and its buddy make a block of the next
order) and on what `pmm_list_push` and `pmm_list_remove` do to the set of listed
pages. The other theorems build on `Inductive == Spec => []IInv`: the refinement
maps a free page to a page of a listed block or of the block in hand; the count
adds the cardinalities of disjoint intervals; that a list is one chain from its
head is kept by a push and by a removal, and a chain that missed a listed page
would have a first place where it does so; an aligned free run that no list covers
would hold a lowest block whose buddy is free too, which no finished merge leaves;
and the pages marked free are the whole pages of the map after `pfndb_init` took
its storage out of it.

### Paging

For every physical memory, number of entries per table, mode and sequence of calls.
The assumptions are what the boot loader and the linker see to: its tables are a
tree of known frames, outside usable memory (`BootTablesAssumption`); the HHDM
reaches all of memory and the kernel image is not in it (`HhdmAssumption`); the
early pool is zeroed, page aligned and in the image (`PoolAssumption`); mappings
ask for some permission and addresses fit in a register (`CallsAssumption`); the
memory map fits in the HHDM, and the segments are in the image and in pages of their
own, so that two regions of `paging_init` that share a page agree about it
(`RegionsAssumption`, which only `InitMapsRegions` uses; `kernel/linker.ld` aligns
every segment).

`TlbCoherent` speaks of the hardware's walk, and the code never walks that way. The
invariant joins the two: `WalksApart` (two walks that meet in a table came the same
way, so an entry belongs to one path), `SparesUnreached` (no walk reads a frame that
`paging_alloc_table` can still clear), `LinksKnown` and `PoolLinksPool` (where
entries lead, so that a pointer made from one is the table it names), `PointerOK`
(`paging_map_one` is at the table where the hardware's walk of that page is, or in a
pool table that the hardware never reaches) and `NewTableOK` (a table about to be
linked is empty and read by no walk). Three lemmas carry the steps: a store into a
frame that no walk reads changes no walk; linking an empty table changes walks only
below an entry that was not valid, hence no translation; and storing a leaf changes
the walk of one page only, because the indices at all levels determine the page
(`Digits`). `TablesStayTree` follows from `WalksApart`: every path of indices is the
walk of some page, so two entries that led to one table would be two walks that meet.

`RangeMapsPages` speaks of the pages that the loop has passed. A range whose end wraps
(`paging.c:393`) has none, and the call returns true with nothing mapped. The theorem
needs the converse of `PointerOK`. Unless the walk went through an
entry that links a pool table (`PoolReached`), the table where `paging_map_one` stands
is the one the hardware reads, so that the leaf it finds or stores is the translation
of the page. The invariant `MInv` keeps that (`PoolWalk`), that `virt` and `phys` of
the loop move together (`InRange`), and that each page before `virt` is mapped
(`DoneMapped`): a later store changes no other page, by the lemmas of
`OthersUntouched`. For `InitMapsRegions`, `SInv` adds which region the loop is in
(`Nth`, `InitProgress`) and that the regions before it are whole. Mapping a later
region may come back to a page of an earlier one; the two agree about that page,
so that it stays mapped as both ask. What remains is the arithmetic of
`PAGE_ALIGN_DOWN` and `PAGE_ALIGN_UP`, from bytes of the memory map to pages of a
region.

### Device tree

For every header of 32-bit fields, every sequence of tokens (nested or not), every
depth and path limit and every base of a cell. `FdtAssumption` asks that the path
buffer holds the root's path (`FDT_MAX_PATH` is 256 in the code); `DtbAssumption`
that values are sequences and that those the parser reads as cells are made of
cells. `HeaderInv` ties a running walk to the test that `dtb_init` made of the
header, which gives `WalksInsideBlob`.

The reference tree of `FdtProps` is defined by recursion over the tokens. The proofs
by induction go through least counterexamples: `LeastExists` gives the least element
of a nonempty set of numbers, and a function that a `LET` defines by recursion
obeys its equation because a function on `0 .. k` that obeys it extends to
`0 .. k + 1` (`ScanExtends`, `ScanDef`; `ReadingExists` for cells).

* `WalkFollowsTree`. Which nodes are open before a token depends on the tokens only
  (`Nested`, `Open`, `EnclosingIs`). `TreeInv` says that the frames of the walk are
  those nodes, each with the cell sizes it has declared so far, and that its path
  is theirs. Each prefix of the path was once the whole path, so it was tested.
* `LookupFindsNode` is about well-formed blobs, which may be cut short: on those a node
  found is the first that matches, and a failure within the limits means that none
  matches. On a blob that breaks the nesting, and for a failure over a limit, it claims
  nothing. To `TreeInv` it adds that no earlier node matched (`NoneYet`) and that what a
  node declares before its first child is all it declares (`CellsKept`), since
  properties come before children in the token order the walk accepts.
* `RegOfFoundNode`: `fdt_get_property` is the node's first own property of that
  name (`PropertyRight`), and reading cells one after the other is the positional
  value of the whole (`RegOfNode`).
* `PortIsRight`: `PortInv` has one conjunct per point of `uart_find_port`
  (`AtStdout`, `AtAlias`, `AtPath`, `AtSearch`, `AtReg`, `AtFound`, `AtFailed`), each
  of which says what the earlier lookups have settled about the tree. The proof
  corrected the property: of two siblings of one name the path means the first,
  an alias is looked up only when the whole text fits the buffer, and a value with
  broken cells is no number.

### Printk

For every set of scripts of calls, every even size of the argument types, every
number of pointer digits and every course of the clock. `PrintkAssumption` says that the characters
the code itself prints are characters and that no type is wider than the register.
`ScriptsAssumption` is what the callers see to: a format is spelled by its parts and
each conversion finds an argument of its type (`CallMeans`), and no log line follows
an unfinished line of `kprintf`, which in the kernel only `vklog` calls.

The parts come from the caller, the parser from the code, so the first group of
lemmas is about what the parser finds (`WidthEndIs`, `ParseWidthIs`, `ParseSpecIs`):
it stops where the part says, with its padding, width and length. The second is about
numbers: `DigitsAreRight` shows by a least counterexample that the digits read back
to the value, with no zero in front; `NumberPart` adds the padding, the sign and the
bits the modifier selects, the most negative number included; `PrefixIsStamp` shows
that the three digits after the point are those of the milliseconds. The third is
about lines: `EmitChar` is what one character puts on the console at the time it goes out,
`TextStep` that this is the next piece of `Lines`, and `LinesGrow` that a later time
changes nothing of the pieces before.

`PInv` says where a call is: at part `k` of its format, with the first `m` characters
of the text on the console and the rest of the part in hand (`CallAt`); what the
console shows at that point, what `written` is, and whether the next character starts
a line (`TextDone`). `LineInv` keeps the prefixes at line starts: before a log line
the console is at a line start, except before the empty line of `kpanic`, which prints
no prefix. `ResultInv` carries the result of a call to its caller. Each conversion
needs only that it computes the text of the part (`ConvertsOK`).

### The other parts

* `FdtBytes`, for every position and size of the block, depth limit and length of a
  value. The invariant keeps the cursor inside the block (`CursorInside`), for the scan
  on a word (`ScanAligned`), without which its unchecked token read (`dev/fdt.c:337`)
  could leave the block, and the value found inside the block (`ValueInside`), so that
  an entry that ends in the value does too. `Held` is the antecedent of the claim.
* `String`, for every memory size and content and every legal call: what has been
  written so far (`Written`), which bytes are still intact for the rest of the loop
  (`Owed`, in both directions of `memmove`) and what the loop has already passed
  (`Passed`). That a first difference or terminator exists is a least-element
  argument.
* `Uart`, for every device tree, spin limit, queue length and string: `PhaseOK` and
  `RegistersOK` say what is set up at each step of `uart_init`; `HistoryOK` splits
  the bytes asked for into those on the wire, in the queue and in hand, and the
  bytes that arrived into those drained, returned and waiting.
* `Boot`, for every machine, clock width, frequency and start of the time CSR:
  `ClockOK` relates the register, the start and the ticks gone by through the wrap;
  `PagesOK` accounts for the pages that became tables. For `BootLogTrue`, `FoundOK` says
  what each statement reached tells of the machine, `LogOK` how far the log of the
  machine's story has come. `KtimeAssumption` bounds the
  ticks so that their product with 1000 fits (58 years).
* `Trap`, for every set of causes, every number of faults and every size of the C
  stack frame: `RegistersHeld` and `FrameHeld` say for each program counter of
  `trap_entry` where the interrupted context is (registers, frame or CSRs). Interrupts are masked until
  `sret` and an exception never returns, so a trap that does return was taken from
  main code. `PanicTells` has `sepc` advanced by 4 for the two `ECALL` causes, as
  `trap_handler` leaves it, and `sp` below the frame.

### Only model-checked

* Liveness: `PutsReturns`, `InitReturns`, `InterruptReturns`, `LoopsEnd`. The prover
  has no fairness rule.

## 5. Not modelled

* The framebuffer terminal (third-party) and Limine itself: only whether they
  answer.
* `boot/req.c` is static data for the boot loader; the section attributes and
  markers around it are the linker's.
* The wording of messages, except where a property is about a conversion.
* `csr_swap`, `csr_read_set`, `csr_read_clear` and the SBI calls the kernel does
  not make: no caller.
* The accessors in `mm/page.h` that only read or set a flag appear as the flag
  itself.
* `ticks * 1000` beyond 64 bits (58 years of uptime): `UptimeExact` is stated for
  the time before.
* More than one hart: `kmain` only counts the processors, it starts none.

## 6. Plan

Every component of the kernel has a module, and every safety property a run checks
is proved. What could be added: the device tree's bytes and tokens in one module, so
that `FdtBytes` implements `Fdt`, and the second hart when the kernel starts one.
