# ARMphetamine: TLA+ models, checks and proofs

ARMphetamine emulates an ARM processor with its memory management unit and the
peripherals of a few machines (LART, RiscPC, a RISC OS emulation), by
interpretation and, experimentally, by recompiling hot code to x86. This
directory holds TLA+ models of its core, the TLC configurations that check them
on small instances, and TLAPS proofs of the main results for every instance.
The models follow the default build: `MACH=lart`, 32-bit processor modes
(`ARM26BIT` undefined). The modules of the recompiler and of its profiler model
the build with `RECOMPILE` defined; the others describe what the two builds
share.

To check a module: `tlc -config Mmu.cfg MCMmu.tla`. To check its proofs:
`tlapm Mmu_proof.tla`. `PROJECT.json` lists all runs, and for every definition
the source lines it models.

## 1. The system

### Parts of the modelled core

**Processor modes and registers** (`src/core/processor.c`, `registers.c`).
State: the live registers `r[0..15]`, the save arrays `usr`, `fiq`, `irq`,
`svc`, `abt`, `und`, the status word `cpsr`, five saved status words `spsr[]`
and the number `spsr_current` of the one in use; a third record of the mode,
`mem->currentmode`, belongs to the memory system. Operations: mode switch,
exception entry, exception return by a data operation or an LDM on r15, MSR,
and block transfers to the user bank from a privileged mode. Hard: any nesting
of these copies each register back and forth between the live set and the
arrays; `spsr[]` is indexed in two different ways. Correct when each mode sees
its own registers whatever happened before, and a handler returns to the status
it interrupted.

**Instructions** (`src/core/execute.inc.c`, `execute.h`). State: the registers
and the flags. Operations: one handler per instruction class, behind a table of
conditions. Hard: carry and overflow at boundaries, shift amounts 0, 31, 32 and
more in two encodings, the order in which one instruction updates several
registers. Correct when results and flags are the architecture's along any
program, and when STM/LDM, calls and returns give a compiled program its stack.

**Memory** (`src/core/memory.c`, `src/mach/lart/lartmem.c`, and the CP15 part
of `execute.inc.c`). State: CP15 registers, two TLBs of one entry each (for
fetches and for data), a fault flag. Operations: fetch, load, store (each walks
the tables on a miss), and MCR. Hard: entries outlive changes of tables,
domains, control bits and mode; switching the MMU takes effect some
instructions later, inside the same MCR. Correct when a flushed TLB is never
stale.

**Timer, interrupt controller, main loop** (`src/mach/lart/ostimer.c`,
`intctrl.c`, `src/core/machine.c`). State: a divider local to the loop, the
timer's clock, match, status and enable registers, the controller's pending,
mask, level and request registers. Operations: guest writes, the divided clock
(which matches, latches and delivers), and the debugger leaving and re-entering
the loop. Hard: acknowledging in one unit must withdraw requests in another;
delivery must not depend on an edge. Correct when requests have a cause, and
wanted interrupts and matches eventually happen.

**Serial port and flash** (`src/mach/lart/sapcm.c`, `lartmem.c`, `lartflash.h`).
State: one data register for both directions, two status flags, the pseudo
terminal; the flash's mode. Operations: the same divided clock polls the
terminal, sets or withdraws the receive flag and overwrites the data register;
guest reads and writes; commands to the flash, whose data and address lines the
board crosses. Hard: the guest polls against the clock, sends into the register
a character may just have arrived in, and the terminal may never have opened.
Correct when a guest that looks in time hears every character once it is typed
and nothing else, and a probe through the wiring finds the chip.

**Profiling and translation cache** (`src/dynarec/profile.c`, `transmap.c`, the
`RECOMPILE` parts of `machine.c`). State: the block being run, entries by
address with a length, a count and perhaps native code, the number of
translations. Operations: feed the address of a leader or of an instruction that
wrote r15; translate; run native code. Hard: interrupts and debugger stops come
in the middle of a block; counts and lengths go to the entry created last, which
may have been translated before. Correct when a translation is a block as the
interpreter has run it, from its leader to its branch and nothing else, and hot
code gets translated.

**Recompiler** (`src/dynarec/pheta.c`, `palloc.c`, `relocate.c`,
`arch/x86/genx86.c`, called by `recompile.c`). State: a graph of basic blocks of
intermediate code with, per block, the temporaries that stand for ARM registers;
live ranges and the place of each temporary; buffers of x86 instructions with
fetches and commits to insert; the code and its relocations. Operations: one
pass after the other. Hard: each pass relies on what all others keep (which
registers and flags are current where), on programs nobody tried. Correct when
each pass preserves the meaning of the ARM code, faults of memory accesses
included.

**Containers** (`src/libjtype`). State: items on the heap linked to each other.
Operations: insert, remove, find, reverse, move. Hard: pointers to items that
have been freed and allocated again for another container. Correct when each
container is what it abstracts, whatever the others do.

The interactions: an instruction calls the memory system, which calls handlers
of the peripherals by physical frame; the loop calls the serial port's clock and
the timer's, the timer calls the controller (`intctrl_add`, `intctrl_fire`), and
the controller calls `processor_irq`, which changes r15 behind the profiler's
back. The profiler calls the recompiler and native code; the recompiler keeps
relocations in a list, live ranges in a priority queue, blocks in a list.
Everything runs in one thread; the "concurrency" is between the guest program,
the clock, exceptions, the debugger and whoever types in the terminal.

### Parts not modelled

| part | state and operations | why not |
|---|---|---|
| LCD, DMA and memory controller registers (`sapcm.c`, `mexreg.c`), UART control | plain storage | nothing reads them but the guest; the LCD handlers never reach their registers, because the frame they are mapped at (0xb0) matches neither case of their switch |
| decoder (`decode.c`, `decodet.c`), disassemblers, listings (`phetadism.c`, `x86dism.c`) | a table of bit patterns; printing | no state |
| byte and halfword lanes, SWP | which bytes of a word an access reads | left for an extension of `LoadStore` |
| bytes of x86 instructions (`rtasm.c`, generated tables) | encoding | an instruction is a record in `Assemble`; whether a form for its operands exists is modelled |
| `map.c`, `buffer.c`, set operations of `bset.c`, most of `strng.c` | containers | no caller in the program |
| `flush.c`, `block.c`, invalidation in `transmap.c` | | bodies empty or disabled, no caller |
| parts of `palloc.c` (`shufflecommit`, `nonorthog`, `fetchmem`, `closealias`) | | never called, or commented out in `recompile_chunk` |
| RiscPC (`iomd.c`, `keyboard.c`, `vidc20.c`) | registers | storage without behaviour: timers that only print when they run out, video registers under cases that never match, a disabled keyboard table; includes at paths that no longer exist |
| RISC OS emulation (`src/mach/rohle`), riscose | forwarding to the host | pure I/O |
| `src/old` | first recompiler | in no makefile |
| debugger commands, breakpoints | breakpoint table, parser | leaving and re-entering the loop is in `LartTimer`, `LartDevices` and `Profile`; the commands are I/O |

`PROJECT.json` has the same list as "components", and under "hazards" each
place where this code can go wrong in a way a test would hardly reach. A
hazard without a property there has a note: the code is known to go wrong at that
place and the properties leave the case out, or the bounds never reach it.

## 2. Modules

| module | models | abstract counterpart | proofs |
|---|---|---|---|
| `ArmModes` | mode numbers, register banks | | |
| `Processor` | modes, banks, status words, exceptions | `BankedRegs` (refined) | `Processor_proof` |
| `ProcessorHistory` | `Processor` with the status each handler was entered from | | `Processor_proof` |
| `LartTimer` | main loop, OS timer, interrupt controller | | `LartTimer_proof` |
| `Mmu` | table walk, TLBs, CP15 | `Walk` on the current tables | `Mmu_proof` |
| `Shifter` | the barrel shifter on W-bit words | | `Alu_proof` |
| `Alu` | conditions, data operations, multiplications | exact integer arithmetic (`ref`) | `Alu_proof` |
| `Operand2` | second operands: shifter, rotated immediates | bit-serial shift and rotation (`Serial`) | `Alu_proof` |
| `LoadStore` | LDM/STM, LDR/STR, halfword forms, B/BL | `GuestStack` (refined) | `LoadStore_proof` |
| `LartDevices`, `LartFlash` | serial port, flash, their clock, a polling guest | | `LartDevices_proof` |
| `GuestFlow`, `Profile` | a guest's words; main loop with profiler and native code | | `Profile_proof` |
| `PhetaIr`, `Pheta` | intermediate code, translation of ARM code | `PhetaMeaning!guest` | |
| `PhetaPasses` | passes over the block graph | `PhetaMeaning!run` | |
| `Palloc`, `LinearScan`, `GenX86`, `Assemble` | live ranges, allocation, code generation, layout and jumps | `NativeMeaning!exec` | |
| `Recompiler` | `recompile_chunk`: one action per pass | the two meaning modules | |
| `Lists`, `Pqueue`, `Containers` | containers of libjtype on one heap | `Collections` (refined) | `Containers_proof` |
| `MC*` | constants and bounds for TLC | | |

**Processor.** Each action is a whole instruction or exception. `processor_mode`
takes the live registers, saves them where the old mode's switch puts them
(`SavedTo`), and loads the new mode's (`LoadedFrom`); mode numbers outside the
switches fall through, as in the code. `Enter` is the common body of
`processor_irq`, `processor_swi` and `processor_und`, in the code's order: the
status word is stored at `spsr[mode & 15]` before the switch. `spsr[11]`, which
`processor_und` writes, is outside the structure: the store goes unnoticed or
the process ends. `spsr[5]`, which undefined mode reads, is `spsr_current`
itself. `abort()` and failed assertions end the process (`Halt`). The
registers r0-r7 are not banked and left out; r8-r12 are `LoRegs`, r13-r14
`HiRegs`. `BankedRegs` says what a guest may rely on: a physical register file,
of which each mode sees a part. Its mapping `FileOf` takes a register from the
live set where the current mode sees it and from the save arrays elsewhere.

**LartTimer.** `Guest` is one turn of the loop: a write to a register of either
unit, a change of mode or interrupt bits, or any other instruction. `Tick`
is `ostimer_clock` with `intctrl_add` and `intctrl_fire` inside, when the
divider has run out. `Reenter` is a breakpoint or a single step, which restarts
the divider. Registers are sets of channels.

**Mmu.** An address is section, page and quarter; a descriptor is a record, and
a coarse one holds its second-level table. An instruction is a `Fetch`, any
number of `Transfer`s (LDM and STM make many), and one action that completes
it. A switch of the MMU is `pending` for `Latency` instructions, which the code
runs recursively inside the MCR. `Fill` follows `memory_physicalmap`, which
changes no handler for a frame in a hole of the memory map. `dirty` is history:
the guest has changed tables, base or control bits since the last flush.

**Shifter, Alu, Operand2.** Words have W bits, with `Half = 2^(W-1)`. `Alu`
keeps the flags and the last result, takes any operands (loads bring in any
word), and carries `ref`, what the architecture defines flags and result to be,
computed from exact integers and never from the code's formulas.
`Operand2` has the operand alone, so that every shift amount and every 12-bit
immediate field can be enumerated; there an immediate is a real 32-bit word,
as the set of its one bits. Its reference is `Serial`: so many `Step`s, each of
which shifts or rotates by one bit and leaves the bit that fell out in carry.

**LoadStore.** Aligned words of mapped memory; an address counts words and
wraps. `exec_bdt` runs `BdtLoop`: sixteen turns, one per register, in the
order of the code's loop for that direction (`Visited`); a turn whose register
is in the list is a `BdtStep`. The guest has a stack in one of the ARM's four conventions
(full or empty, ascending or descending) and uses it by LDM/STM or by single
loads and stores with write-back, in any mixture, calls by BL, returns by
loading r15, and walks a pointer through memory off the stack. `GuestStack` is
what a compiler relies on: a sequence of words, in which `Place` says how deep
each register of a list pushed lies, whatever the order of the transfers.

**LartDevices.** `Guest` is one turn of the loop with one instruction of a
driver: it reads the status, acts on what it saw with the next instruction, or
does something else, but looks at the status once in `PollEvery` turns. `Tick`
is `sapcm_clock` when the divider has run out; `Type` is the person at the
terminal. Characters are numbered, so what is heard can be compared with what
was typed; `Junk`, `NUL` and `Own` are what else the register may hold: `malloc`
does not clear it, a failed `select` counts as input, and the guest sends
through it. `LartFlash` has the macros of `lartflash.h`, words being the sets of
their one bits; only the emulated side and chip U2 have users in `src`, the
driver's macros are used by the guest.

**GuestFlow, Profile.** A program is a function from addresses to words that go
on, branch, branch perhaps, or return from the interrupt. `GuestFlow` moves from
word to word and allows an interrupt between any two. `Profile` is the loop: one
action per way through `profile_feednseqaddr`, `Execute` with
`profile_feedseqaddr` inside, the clock's interrupt, the debugger, and native
code word by word. `transmap` is a function of addresses to entries. `code` is
the number of words an entry was translated with; its `length` may grow
afterwards, the native code (`Last`) does not. `halted` records how a process
ended; `own`, `seen` and `strayed` are history.

**PhetaIr to Assemble.** The data structures are records and sequences, a
function of the code is an operator from chunk to chunk. Instructions of the
guest are records with the fields a handler reads. Two things are kept to the
letter: the order in which temporaries, fetches and commits are created, which
later passes depend on, and every way a pass can end the process (`fault`).
`PhetaMeaning` and `NativeMeaning` give ARM code, block graphs and x86 code a
meaning by symbolic execution: words are terms over the initial registers, a
condition is a question about terms that splits the execution, every memory
access has an outcome in which it faults. Nothing of the translator is used in
them.

**Recompiler.** One action per pass; `pass` says which comes next. `Means`
compares the graph with the ARM code after translation and after both branch
passes, `FixupMeans` after flags have been placed, `NativeMeans` the x86 code
with the graph. Their antecedents (`Regular`, `Local`, `Simple`) name the
programs the passes handle; what happens with others is listed below.

**Containers.** All containers take items from one small heap, so a pointer kept
too long meets an item of another container. `Lists` works on that heap pointer
by pointer; touching a free item sets `bad`. A loop over a chain is a function
from the turns taken to the memory left (`after`), and `Chain` follows pointers
no further than there are addresses, so neither needs recursion. In `Pqueue` an
insertion is `Up` repeated and a removal `Down` repeated, on the whole array.
The calls are those the program makes: it never reverses or adds to a list it
has begun to consume. `Collections` is a map, a list, a sequence and a bag;
`MapHeld`, `ListHeld`, `RingHeld` and `QueueHeld` say what the containers hold.

## 3. Runs

Passing runs:

| run | properties | what it shows | bounds |
|---|---|---|---|
| `processor` | `TypeOK`, `ModeCoherent`, `ReturnsToInterrupted`, `ImplementsBankedRegs` | any six instructions and exceptions keep the mode records agreeing, each handler finds the status it interrupted, and the arrays implement banked registers | one register of each kind, two addresses, one value written besides the initial one, written modes user, FIQ and abort, programs of 6 |
| `timer` | `TypeOK`, `RequestsHaveCause`, `PendingDelivered`, `MatchHappens` | requests follow the status register; wanted interrupts are delivered and matches happen, across the wrap of the clock | one channel, a clock of three values, divider 1, debugger re-entry |
| `mmu` | `TypeOK`, `TlbCoherent` | after a flush neither TLB is stale, whatever tables, domains, modes and control bits were before | one section of two pages of two quarters, one domain, two tables, four kinds of descriptor, three frames, latency 3 as in the code |
| `alu` | `TypeOK`, `FlagsExact`, `ComparisonDecides` | results and flags along any program; comparisons decide the conditions | three-bit words, the boundary first operands 0, 3, 4, 7, all second operands, registers plain and RRX |
| `operand2` | `ShifterExact`, `ImmediateExact` | the shifter's closed forms are a shift one bit at a time; so are immediates and their carry | eight-bit words, all register amounts to 17, all 4096 immediate fields on 32 bits |
| `load_store` | `ImplementsStack` | four stack conventions implement a stack | four words of memory, two on the stack, three registers pushed (r15 among them), one of them a pointer too |
| `devices` | `TypeOK`, `NoneLost`, `HearsLatest`, `TypedIsHeard`, `ProbeFinds` | a guest that looks once in a period loses no character, takes no old one or its own for a new one except in one race, and hears all; the probe finds the flash | divider 3, a look in every 3 turns (with 4 a character is lost), two characters, terminal open or failed |
| `profile` | `AssertionsNeedInterrupt`, `TranslatesWholeBlocks`, `TranslatesWhatRan`, `HotIsTranslated` | a failed assertion needs an interrupt; a translation made from its own block's runs is whole and holds only words that have run; a guest that goes on gets its translation | five guests of four words, two entry points, threshold 2, one translation, two interrupts or debugger stops |
| `recompiler` | `Means`, `FixupMeans`, `NativeMeans`, `Encodes`, `TransitiveEnds` | each pass preserves the meaning; all instructions have an encoding as long as nothing is spilled; the branch pass ends | 5128 chunks of three instructions over four registers; 3 conditions answered, 14 blocks or ARM instructions and 120 x86 instructions on a path, 8 turns of the branch pass |
| `containers` | `ImplementsCollections`, `TouchesNoFreedItem`, `HoldsWhatIsUsed` | the containers are a map, a list, a sequence and a bag; no freed item is touched, and no item is lost before it is freed | four cells and a sentry, three keys, two data, two chains, a queue array of two |

Why the bounds are enough. Saving and loading treat all registers of a kind in
one loop, so one register per kind shows a wrong array; six steps allow two
nested exceptions with a return and a user-bank transfer in each. The timer's
channels are independent bits of the same registers, and a clock of three
values with every match value wraps and passes each. In `Mmu` one entry per TLB
can only be stale with respect to one walk; two tables and four descriptor
kinds let every field of an entry differ. Three-bit words contain zero, both
signs, both extremes and every carry and overflow combination of the formulas,
which look at top bits only. A stack of two words already tells the orders of
transfer apart; starting at address 1 of 4 it wraps in both directions. The
guest that looks every third turn is the slowest that loses nothing with a
divider of three, and two characters are enough for one to overwrite another.
The guests of `Profile` were chosen so that every way the process can end is
reached (a failed assertion, an empty translation, native code that runs behind
its end, a handler's return in native code). Three instructions allow each pair
of instructions to interact in front of each kind of end, and all graphs of
three branches; the chunks with longer loops than `Fuel` are cut at the same
point on both sides. Four cells let every container hold two items while another
holds two, and chains of two distinguish all orders of relinking. The proofs of
section 4 remove the bounds of all runs but `recompiler`; in the others only
the liveness properties depend on them.

Runs that end in a counterexample, each a disagreement of the code with its own
comments, declarations or assertions:

| run | property | what happens |
|---|---|---|
| `processor_und` | `UndReturnPassesAssert` | returning from an undefined-instruction handler fails `assert(newmode>=16)`: there is no SPSR for that mode, and the word read is `spsr_current` |
| `recompiler_alias` | `OverwrittenIsDead` | `palloc_srcdestalias` shares a register although the source is read later: for `MOV` it never looks, for others it looks at ranges as they were before it shared any |

Other deviations met while modelling, without a run. In the interpreter and the
devices:

- A request latched before its source was masked still interrupts: writing
  `icmr` stores the mask, `intctrl_fire` tests `icip` alone (`ostimer.c:86`).
- `currentmode&15==0` is always 0 (`memory.c:300`), so accesses in user mode are
  checked by the supervisor column of the permission table.
- The rows of GT and LE (`execute.inc.c:66`): with n and v set, GT admits z set
  and refuses z clear, LE the reverse. `ComparisonDecides` leaves them out.
- The branch of `exec_mull` marked signed multiplies unsigned words
  (`execute.inc.c:978`); `Alu.cfg` has no signed long products.
- LDRT and STRT advance the base register and then overwrite it with the old
  value (`execute.inc.c:1150`); `LoadStore.cfg` leaves them out.
- The clock's receive flag means "receive fifo not empty" (`sapcm.c:274`) but
  reading the data register does not withdraw it, so a guest that looks twice in
  a period reads the character twice; nothing raises a serial interrupt.
- A byte sent just when a character has arrived replaces it, with the flag still
  set: the guest reads its own byte as input (`HearsLatest`, `spoilt`).
- If `openpty` fails, the descriptor stays unset and the machine goes on; a
  failing `select` then delivers a zero in each period (`sapcm.c:269`).
- `jt_list_insertitem` sets `next` of the item before instead of `prev`, and
  `buffer_append` never ends for a buffer of size 0; neither has a caller.
  `jt_list_removehead` leaves the new head's `next` on the freed item
  (`list.c:24`); no caller goes on to a function that would follow it.
- `exec_dp_imm` stores the rotation's carry in C before ADC, SBC and RSC read it
  (`execute.inc.c:634`; modelled, and why `Alu.cfg` leaves these operations out
  of `ImmOpcodes`).
- LSL by a register holding exactly 32, and ROR by one holding 0, take another
  carry than a bit-serial shifter (excluded by name in `ShifterExact`).
- `memory_physicalmap` keeps the previous handlers for frames in holes of the
  map (`Fill`; `Agrees` excludes the handlers there).
- A domain fault on a fetch leaves `memoryfault` set, and the next load or
  store becomes a data abort (`Fetch`, `Transfer`).
- Single stepping for ever restarts the divider for ever: no clock tick ever
  happens (`Reenter`; excepted by name in the liveness properties).
- The comment at `execute.inc.c:1667` says an MMU switch takes about two
  instructions, the loop at 1672 runs three (`Latency = 3`).
- `exec_sdth` stores r15 one instruction further than `exec_sdt` does.

In the profiler (`Profile` models all of these but the last three):

- A visit to a known block counts for, and its length extends, the entry created
  last (`profile.c:74`, `:29`), although the comment speaks of reinstating a
  previous block and increasing its count (`profile.c:54`). A length may therefore
  end in a word that is no branch, behind which nothing was generated, or cover
  words that have never run, such as literals. The entry created last may have
  been translated in the meantime; then its length and its code differ.
- An interrupt in the middle of a block makes the assertion "Non-sequential
  address?" fail when the handler, at a lower address, branches.
- A block that a breakpoint cut short has length zero; it can become hot and is
  translated as an empty chunk.
- Native code never reads a saved status word, so a handler translated natively
  returns without restoring mode and interrupts.
- Native blocks run, and chain, without a turn of the loop: timers, serial port
  and interrupts stand still meanwhile, for ever if the guest waits in a loop.
- Translations are found by virtual address and never invalidated.
- `nativesupport_invoke2` copies `reg->cflag` and the others into the status word
  afterwards, but nothing copies the status word into them before.

In the recompiler (all modelled; the antecedents of the properties exclude them):

- `pheta.c:182`: a leader whose block exists already links the block before to
  itself, and that block's newer registers are not written back. A conditional
  instruction at a leader executes unconditionally and loops. A branch that is a
  leader does not make its destination one (line 158), which ends in a null
  pointer at 829.
- r15 as operand gives the instruction's address, not 8 more; BL stores 4 less; a
  load of r15 leaves the block before registers are synchronised (2098, 2212).
  An exit to an unknown address has no synchronisation at all, nor has a memory
  access that may fault: flags nothing else needs are not stored.
- LDM and STM with write-back expand a register list through a table whose entry
  for 0xf3 is 4 (`bset.c:22`): the base moves by 16 for r0, r1 and r4 to r7.
- `fixup_flags` returns 1 on every path, so its panic at 910 never fires; a
  predicate some of whose flags are set by another instruction than the rest
  aborts (`CMP; ANDS; BLT`), and needs of a block that loops to itself are lost.
- The branch pass never ends for empty blocks that branch in a circle. Code
  whose last instruction is no branch falls off its end.
- A spilled temporary goes to the word of the register file that bears its
  number, an ARM register's. Eviction applies to code already generated.
- `genx86_recover` writes back only ranges still active at an exit; an expired
  or shared one is lost (`ADD r0,..; MOV pc,lr`). Fetches at a place are inserted
  before commits at the same place (`ADD r0,..; STR r0,[r1]` stores the old r0).
- Carry conditions after a comparison are inverted, HI and LS wrong after an
  addition; carries written by shifts are not committed; a condition that is
  never true is taken as always; shifts by register, products with constants and
  moves from memory to memory end the process; a byte constant without a form is
  dropped; the path for a fault leaves a word on the stack.

Deadlock is checked except where the process or the work really ends: `LartTimer`,
`Mmu`, `LartDevices` and `Profile` (`abort`, `exit`, failed assertions), `Operand2`
(the operand has been computed) and `Recompiler` (the chunk has its code).

**Fairness.** `LartTimer` and `LartDevices` assume weak fairness of `Guest` and
`Tick`: the loop in `machine_start` has no blocking call, so while the
process lives it executes instructions, and calls the clock when the divider
has run out. `Profile` assumes it of feeding, executing and native words, for
the same reason. Nothing is assumed of which instructions the guest executes,
except for the polling one of `LartDevices`; of who types; of interrupts; and
nothing of the debugger: behaviours in which it re-enters the loop again and
again are excepted in the properties (`Profile` bounds its stops by
`Disturbances`). That the branch pass ends is a safety property with a bound on
its turns (`TransitiveEnds`): the number of blocks is the claim.

## 4. Proofs

| theorem | for every | assumption |
|---|---|---|
| `Processor_proof!TypeCorrect`, `ModesAgree`, `Refinement`, `FindsInterrupted` | register set, address space, vectors, values and status words written, nesting of exceptions | `GuestModesKnown` |
| `LartTimer_proof!TypeCorrect`, `Cause` | set of channels, clock width, divider | none |
| `Mmu_proof!TypeCorrect`, `Coherence` | tables, descriptors, frames, domains, modes, latency | none |
| `Alu_proof!TypeCorrect`, `Exact`, `Decides` | word width, operand sets, shifts | `ExactGuest` |
| `Alu_proof!ShiftsExact`, `ImmediatesExact` | word width, word, shift amount; immediate field | none |
| `LoadStore_proof!Implements` | address space, depth of the stack, start, registers pushed, pointers, targets | no LDRT and STRT |
| `LartDevices_proof!TypeCorrect`, `Latest` | divider, polling interval, number of characters | none |
| `LartDevices_proof!NothingLost` | the same | `LooksInTime` |
| `LartDevices_proof!Restored`, `FlashFound` | word sent to the flash; the same | none |
| `Profile_proof!Assertions`, `WholeBlocks`, `OnlyWhatRan` | guest programs, threshold, numbers of translations and disturbances | none |
| `Containers_proof!Invariance`, `NoFreedItemTouched`, `UsedIsHeld`, `Refinement` | finite set of addresses, keys, data, number of chains, first capacity of the queue | none |

Besides these each proof uses the named assumptions on constants, which TLC
evaluates in the runs.

- *Processor.* `GuestModesKnown`: the guest writes into status words only modes
  the code implements, or 26-bit ones, which the assertion rejects. Without it
  a return to, say, mode 31 falls through both switches and the live registers
  are taken over. The invariant is `TypeOK`, `ModeCoherent` and that every
  saved status word has such a mode, which makes a return safe. The refinement
  rests on `FileOf = processor_reg_savecurrent(r, bank, mode)`: the file is what
  saving now would store, and loading a mode's registers gives its view of it,
  so a switch leaves the file alone and each other step changes only what the
  mode sees. `FindsInterrupted` is about the history of `ProcessorHistory`.
  What it states concerns only the mode the processor is in and is not
  inductive; the invariant `HInv` adds `EntryKept`: as long as a handler may
  still return, the word it was entered from lies in slot `mode & 15`, in
  whatever mode the processor is now. Entering another mode writes another slot
  or, for undefined mode, none; an MSR writes the slot of its own mode.
- *LartTimer.* `RequestsHaveCause` is inductive as it stands: a tick latches what
  is in the status register, and an acknowledgement removes the same bits from
  all three latches.
- *Mmu.* `TlbCoherent` needs the types of what a walk reads, no more. The lemma
  that carries the proof, `Uniform`, says that all addresses an entry covers
  get the same answer from a walk (equal subpage permissions, repeated slots of
  large pages); then a filled entry is right for its whole extent, and every
  change either flushes, or sets `dirty`, or is not seen by the walk.
  `TypeCorrect` adds the type of the pending switch, whose control word becomes
  the register's, and the lemma `WalkType`: what a walk returns, on any path
  through the tables, is something an entry may hold.
- *Alu.* `ExactGuest` leaves out the two operations shown inexact above. The
  invariant adds that after a subtraction the flags are those of its operands.
  `AddExact` and `SubExact` show the top-bit formulas equal to exact carry and
  signed overflow for every width, by cases on the signs.
- *Operand2.* That a closed form for amount k is k single steps goes by
  induction on k. The library's induction theorem takes an operator and cannot
  be used, so `Induct` states it for a set: a set of naturals that holds zero
  and the successor of each member holds all, from the least element of its
  complement (well-foundedness of the naturals). One lemma per shift
  (`StepLSL` to `StepROR`) is the step, from what one more bit does to
  quotients and remainders (`LeftOneMore`, `ArithOneMore`, `RotateOneMore`);
  `Start` shows that amounts past the width have reached a fixed point. The
  exceptions, LSL by W and ROR by zero, are those the property names.
  `PowerAssumption` is the law of exponents, which the provers do not know; TLC
  evaluates it.
- *LoadStore.* The invariant is small: types, and a stack no higher than `Depth`,
  which is less than the address space, so that a wrapping stack never meets
  itself. The argument is in the lemmas. The words of the stack are counted
  from the bottom (`Cell`), where a push or pop leaves the others in place; the
  rank of a register among those transferred is the number of its turn
  (`Turn`), and the ranks upwards and downwards are opposite (`Opposite`), which
  is why popping in the other direction gives every register its own word.
  `StoreLoop` and `LoadLoop` say what sixteen turns leave, from one turn
  (`StoreTurn`, `LoadTurn`); that two registers of one transfer have
  different addresses needs a list shorter than the address space
  (`AddrsApart`). `Pushed` and `Popped` are what a push and a pop do whether made
  by a multiple or by a single transfer; `PushStep`, `PopStep`, `CallStep` and
  `AccessStep` map each to a step of `GuestStack`. LDRT and STRT are excluded
  (`TVariants`) because the code undoes their write-back.
- *LartDevices.* `FreshInv` says what the data register may hold whenever
  the receive flag is set or the driver has seen it set: the last character, or
  one of the exceptions `HearsLatest` names. `LossInv` adds time: while the
  last character is unheard, the turns left until the driver's next look are no
  more than those left until the clock. `LooksInTime`, looks no further apart
  than the divider, cannot be weakened: with one turn more TLC finds a lost
  character.
- *Flash.* The masks of the macros are computed bit by bit (`HalfIs`), so that
  each macro is a relation between lines (`ToChip`, `FromChip`); the two relations
  are inverse (`ThereAndBack`), hence every word comes back, not only each line
  and the two codes. `ProbeInv` adds what has been read so far to `ProbeFinds`; a
  probe keeps it because the address lines it uses are put in order again
  (`SelectedIs`).
- *Profile.* The guest is any program that is closed, each branch leading into it
  (`GuestAssumption`). All three results need the invariant `Inv`: unless an
  interrupt came, a block is being run from its start forward and every word of
  it so far has run (`InBlock`, with which only an interrupt can make an address
  non-sequential); and the words an entry was translated with, or would be now
  (`Extent`), have all run and end in one that writes r15, if runs of its own
  have shown them (`OwnWhole`). An entry that has code keeps its extent whatever
  becomes of its length, and nothing else runs natively (`NativeCoded`).
- *Containers.* What is on the heap is described without pointers: for some family
  `K` of sequences of addresses, one for each chain, the list, the circular list
  and the queue, the sequences are disjoint, have no address twice, and together
  are the items in use, and each container is linked as its sequence says
  (`Shape`). A chain is linked both ways and its items hash to it, each key once;
  the list is linked backwards only as long as it is being built, which is why
  `jt_list_reverse` is safe then and would not be later; the circular list starts
  with the sentry; the queue's array is a heap and shorter than its capacity.
  That there is such a family (`Inv`) is inductive. `Change` is what an operation
  on one container may do: turn its sequence s into t, taking items that were
  free, and leave everything else in use as it was; from it `FamilyStep` has that
  the other containers stay what they are. So each operation needs one lemma
  about its own sequence: an item joins or leaves at a place (`Inserted`,
  `Removed`), the order turns, the array is a permutation with one item more or
  less (`Perm`), and the loops of `HashRemove`, `HashNuke` and `list_reverse` by
  `Induct` over their turns. `Chain` returns the sequence it is led along
  (`ChainIs`): it ends before it runs out of addresses because a sequence
  without repetition is no longer than there are addresses. In the heap, `Up` and
  `Down` keep the order everywhere but at the place they have come to, and a
  place that has moved up or down as often as there are items has nowhere to go.
  The refinement reads the map off the entries in the chains (`Pairs`, at most
  one for each key), the sequences off the data of the items, and the bag by
  counting the items with a key, which a permutation does not change
  (`WithPerm`); that the head is least goes by parents (`HeadLeast`).

Only model-checked: the liveness properties `PendingDelivered`, `MatchHappens`,
`TypedIsHeard` and `HotIsTranslated` (outside the prover's reach); all of
`Recompiler`, which rests on recursive operators over graphs and terms.

## 5. Plan

1. Byte and halfword lanes of `memory.c` and SWP as an extension of `LoadStore`.
2. The machine as a whole: `Processor` with `LartTimer` delivering into it.
3. The breakpoint table and commands of the debugger.
4. Proofs about the recompiler: its passes as functions over blocks instead of
   recursive operators, beginning with the branch pass and the layout of jumps.
