# Microwatt4Zynq in TLA+

Models, model-checking runs and proofs for [Microwatt4Zynq](../src/README.md): a
Microwatt POWER core in the programmable logic of a Zynq, whose memory and UART are
those of the processing system (the *PS*), reached through a Wishbone-to-AXI bridge
and an address window that software on the PS sets up before it releases the core.

Every definition is translated from the sources (`PROJECT.json`, `map`, names the
lines). Parts outside the repository (the AXI slave of the PS, the SD host controller and
the card, the UART, the interrupt handler of the operating system) are modelled from how the repository's code uses them
and are marked external.

1. [The system](#1-the-system)
2. [Modules](#2-modules)
3. [Runs](#3-runs)
4. [Fairness](#4-fairness)
5. [Proofs](#5-proofs)
6. [Findings](#6-findings)
7. [What is not modelled](#7-what-is-not-modelled)
8. [Plan](#8-plan)

## 1. The system

```
 PS software -- AXI --> s_axi_lite ---- slv_reg0[0]: reset, slv_reg1: offset --+
 (bootloader.c)         (registers)                                           |
                                                                              v
 core: dcache --+                                              microwatt_wrapper
       icache --+-> arbiter -> decoder --> s_wb_2_m_axi_lite --> + offset --> PS memory
                       |          |         (bridge)
                 snoop to caches  +-> 64/32 latch -> I/O interconnect -> icp, ics (XICS)

 bootloader.c -> SD driver -> host controller -> card        the ELF file of the system
      |  copies mw_welcome, extracts the file, opens the window, releases the core
      v
 mw_welcome.c on the core -> UART: messages, a key, jump into what was extracted
```

All hardware has one clock. A clocked process sees the registers of the others as
they were before the edge, so one step of a system module is one clock edge, the
conjunction of all processes; what interleaves are the *distances in cycles* at which
requests, handshakes, answers, lines and accesses arrive, and those are free. The
programs are sequential; what interleaves with them is the controller with its card, the
UART, and whoever presses keys.

| component | state | operations | interacts by | hard because | correct if |
|---|---|---|---|---|---|
| bridge `s_wb_2_m_axi_lite.v` | two FSMs, latched request, AXI channel registers | accept, start, write, read, respond, reset | Wishbone strobe/stall/ack, five AXI channels, `axi_start`/`axi_done` | the strobe it answers is still up when it is idle again; channels are accepted in any order | each request is served once, with its own response, and answered; AXI channels are stable |
| control slave `s_axi_lite.v` | registers, three latches, two responses | latch AW, W, AR; perform; sample; respond | AXI from the PS | halves of a write at any distance, behind an untaken answer | it is a register file with atomic writes |
| wrapper `microwatt_wrapper.v` | none of its own | translate, reset | wires of the two above | combinational use of registers that change at any time | the core runs only behind its window, PS memory is kept, a read is met by its own response |
| boot program `bootloader.c` | address, sector and rest of the read loop, segment counter, memory | copy program, read the ELF file, load segments, configure, release | writes of the control slave, memory, SD driver | three counters that advance together; headers re-read from the buffer; an error at any step | the image is in place and the window open when the core is released, nothing else is written |
| arbiter `wishbone_arbiter.vhdl` | `selected` | grant, route | `cyc` of the masters | it tracks no request | answers reach the master that is owed them |
| decoder, latch, interconnect `soc.vhdl` | latch FSM, cycles of the devices | decode, split 64 to 32 bits, wait, merge, snoop | bus, devices | answers are routed by the *current* address; two accesses for one | each half once, to its own address; a 64-bit access is atomic; each write is snooped once by the other cache, never by the writer's |
| XICS `xics.vhdl` | XIVEs, latch, picked source, CPPR, MFRR, XISR, irq | mask, move, latch, pick, present, accept, end | lines, bus accesses, interrupt wire | four registers between line and wire, accesses in between | settled: the most favoured interrupt is presented; none is lost; CPPR follows what is accepted |
| data cache `dcache.vhdl` | Wishbone FSM, `acks_pending`, reservation, lines, TLB | load, store, refill, stcx, snoop, dcbz, tlbie | bus, snoop, MMU, load/store unit | answers counted a cycle late; snoop during refill and store conditional | bus kept while owed; a store conditional succeeds only if nothing intervened |
| instruction cache `icache.vhdl` | refill FSM, valid bits per row, lines | fetch, refill, flush, snoop | bus, snoop, fetch | flush and snoop during refill | no stale line survives |
| MMU `mmu.vhdl` | walk FSM, process and partition table registers | lookup, walk, tlbie | data cache, load/store unit, fetch | long walk with faults at each level | every request is answered once |
| load/store unit `loadstore1.vhdl` | three pipeline stages and queue | split, align, wait, fault, retry after TLB miss | data cache, MMU, write back | retries while the next access is behind | answers in order, each access once |
| fetch, decode, control, write back | tags, stalls, redirects | issue, forward, flush, complete | each other | tags are reused; interrupts flush | every instruction completes once; operands are the newest |
| debug `core_debug.vhdl` | stopping, step, terminated | stop, start, step, read registers | DMI, core | requests race termination | a stop stops |
| execution units, FPU, decoders | operand and result registers | arithmetic | pipeline | width | the instruction set |
| SD driver `sd_card_driver/` | instance (type, width, mode, `IsBusy`, ...), host registers, descriptor table | configure, initialise, read, write, start, check, erase, sanitize, idle | status register of the controller, DMA, the card | time-outs, late answers, bits left from before; two sides to be switched together over many steps | success means it was done; both sides agree; clock within the mode; every call returns |
| welcome program `mw_welcome/` | position in formats and strings | print, poll a key, jump | UART | busy waits on queues that move by themselves | messages arrive whole; a key starts the kernel |

The hazards, each at its line and with the properties that guard it, are listed in
`PROJECT.json`, also those that no property covers yet.

## 2. Modules

**Bridge.** `BusTypes` (words by lanes, requests), `AxiBridge` (one operator per
clocked process and branch of it: `WbIdle`, `WbAccept`, `WbWait`, `WbRespond`;
`AxiIdle`, `AxiStartWrite`, `AxiStartRead`, `AxiWrite`, `AxiRead`), `AxiMemory` (the
AXI slave of the PS: collects address and data in any order, performs, answers at any
time with any response code), `PipelinedMaster` (any master that keeps the caches'
rules), `MemPort` (the abstract specification: take, serve once, answer),
`InFlight` (where the addresses and data of a transaction are, for the invariants),
`BridgeSystem` (the composition, its properties and the refinement), `BridgeProofs`.

A process takes its input wires as parameters and gives the next value of each of its
registers. The same modules are therefore used alone (`BridgeSystem`) and behind the
wrapper (`WrapperSystem`).

**Control slave.** `AxiLiteSlave` (the write half and the read half of the clocked
process, which touch different registers), `RegFile` (abstract: atomic register file
with an answer pending), `AxiLiteSystem` (a PS master that offers addresses and data of up to
`MaxAhead` writes independently), `AxiLiteProofs`.

**Wrapper.** `WrapperSystem` (the window, as comparison and addition modulo the address width; slave, bridge, core as a master, PS memory, and the boot program from
`bootloader.c:306` on), `WrapperProofs` (the window as an operator on addresses, the
composition, the refinement through the window).

**Interrupt controller.** `Xics` (`IcsEdge`, `IcpEdge`), `XicsSystem` (two environments:
free lines and accesses, and an interrupt handler with devices that hold their level), `XicsProofs`.

**SoC bus.** `SocBus` (arbiter, decoder, latch, interconnect, and devices as registers
that answer one cycle after their strobe), `SocBusSystem` (two masters that keep the caches' rules, the bridge as
the bus sees it), `SocBusProofs`.

**Data cache.** `DCache` (one operator per process or branch: `Stage0Edge`, `ReadEdge`,
`SnoopEdge`, `RequestEdge`, `RamEdge`, `TagEdge`, and one per state of the machine:
`Idle` with an action per request, `Reload`, `Store`, `NcLoad`, `DoStcx`, `Flush`),
`DCacheSystem` (the load-store unit and the MMU as requesters, a bus that is given, kept
and stalls as `SocBus` does, other masters that store while the cache does not have it, and
a history: for every request under way, the values a load may return), `DCacheInvariant` (what holds
after every edge, proved in `DCacheProofs`). A row of 64 bits is
represented by one of its bits and the byte select that covers it. The properties are about
the completion wires, not about the cache's insides: what a load returns is
compared with what memory, and the own stores before the load, have made of its address
since the load was taken. The runs compare states by
`LiveState` (a `VIEW`), which leaves out registers that are overwritten before they are read
again: a request that is not full, tags read for nobody, the wires of a bus that is not asked
for. `Avoids` names what requesters do not do, see
[Findings](#6-findings): the passing run shows that with requesters that avoid this the
cache is coherent.

**SD card driver.** Nine modules, each extending the one before, from data to calls and proofs:

| module | content | code |
|---|---|---|
| `Adma` | the descriptor table and how the controller reads it | `XSdPs_Setup64ADMA2DescTbl`, limit of `XSdPs_Read` |
| `SdModes` | what is computed: kinds of commands, modes, clocks, divisor, tap delays | `FrameCmd`, `CalcBusSpeed`, `CalcClock`, `Identify_UhsMode`, ... |
| `SdCard` | the card: states, commands it answers, settings (external) | |
| `SdHost` | the controller's registers; command line, data lines, status bits, what may go wrong | `SetClock`, `HostConfig`, `CheckBusIdle`, ...; the rest external |
| `SdDriver` | commands, waits, reset, clock, voltage switch | `CmdTransfer`, `SetupCmd`, `CheckTransferDone`, `Switch_Voltage`, ... |
| `SdInit` | identification, enumeration, width, speed, tuning for every kind of card | `CardInitialize` and all it calls |
| `SdSystem` | configuration, transfers, other calls; the properties | `xsdps.c`, `Start`/`CheckReadTransfer`, ... |
| `SdInvariant` | what holds between any two steps: items of `todo`, stages of a call and of a transfer | |
| `SdProofs` | the proofs about driver and descriptor table | |

The driver is sequential code that fails at the first call that fails. A function is
therefore a sequence of names in `todo`, and a step of the model executes the first of them;
a function that only calls others is an operator that yields such a sequence, one that looks at
a register or at the instance is an action. Between any two steps the controller, the card
and the faults move. A failure drops the rest, up to one of the three places that look at the
status and go on (`Handlers`). A wait is passed when its event is there, and fails when its
limit is over, which the model allows only if the event is late (a fault), lost, or
cannot come.

**Boot and welcome program.** `Boot` (`bootloader.c`: one action per round of a loop), `PrintFormat`
(`my_itoa`, `my_uitoa_hex` and a round of `my_printf` as operators on sequences of characters),
`Welcome` (`main`, `my_printf` with one character per step, the UART's two queues),
`BootSystem` (both, one after the other, and what the screen shows), `BootProofs`. Memory and
file are made of cells: bytes, and the two ELF structures, one cell each. The welcome program
reads what it reports about the kernel from the memory the boot program has filled.

How the models relate to each other: `BridgeSystem` shows that a strobe is accepted
exactly in the cycle of its ack (`AckMeetsStrobe`, a part of `IInv`) and is answered (`EveryStrobeAnswered`);
`SocBusSystem` takes the bridge to be just that. `SdSystem` shows that a read that succeeds has moved all
its blocks (`OwnData`) and that calls return (`CallReturns`); `Boot` takes a read to be one step that moves all
of them, or fails having moved some. `WrapperSystem` has the end of the boot program cycle by cycle, with
the core's accesses; `Boot` has all of it, with the core's view of memory (`Core`). `PipelinedMaster` and the masters of
`SocBusSystem` are what the caches are taken to be: a strobe is held until it is not
stalled, `cyc` is kept while an answer is owed, and *all requests that are outstanding
together go to one slave*. The data cache ensures the last by pipelining stores only
within a page (`dcache.vhdl:1773-1789`); the decoder needs it, as the mutant of
`AnswersReachOwner` shows. A master may raise `cyc` with the address before its strobe,
as a store conditional does (`dcache.vhdl:1840-1858`).

Faulty variants of definitions stand above the ones they are variants of, under a
heading or a comment that says so. They are not part of any specification; substituted for the right
definition they make the property they are listed with fail (`PROJECT.json`, `mutants`).

## 3. Runs

| run | configuration | question | bounds |
|---|---|---|---|
| `bridge` | `MCBridge.cfg` | each request served once, as a memory port; AXI rules; the inductive invariant; every strobe answered | 2 addresses, 1 lane, 2 byte values, an error response |
| `axilite` | `MCAxiLite.cfg` | the invariant of the proofs; a register file, whatever the order of halves; every write and read answered | 2 registers, 1 lane, 2 values, 3 writes (one with no lane), 2 begun |
| `wrapper` | `MCWrapper.cfg` | the invariant of the proofs; released only configured, PS memory kept, a read met only by the response to its own address; through the window still a memory port | 8 addresses, DRAM 4, offset 1; the core uses 0 (moved), 3 (top of DRAM, not moved) and 7 (device); 2 byte values |
| `xics` | `MCXics.cfg` | the invariant of the proofs; settled, the best is presented; raised is serviced; an accept leaves CPPR at least as favoured as what it reports, and exactly that once settled | 2 lines, 1 cpu, priorities 0, 1 and masked written; free accesses, or a handler with messages, chosen at reset |
| `soc_bus` | `MCSocBus.cfg` | the invariant of the proofs; answers reach their owner, halves once; each write snooped once by the other cache and never by its own; every master served | 2 masters, 1 memory and 2 devices, 2 values; 8 requests of the data master (a read and a write of memory, reads of a device with both, one and no half, writes of one device half by half), 2 of the instruction master |
| `dcache` | `MCDCache.cfg` | the invariant of the proofs; every load coherent, quadwords at one time, every completion that of the oldest request; store conditional atomic, bus kept, sync waits | 2 tags in 1 set of 1 way, 2 rows; two programs: one loads, stores (in one line without the byte), zeroes, flushes, touches, with a denied load and a load of the MMU; one has single and quadword lwarx and stcx, one of a line not reserved, non-cacheable load, sync; stores of another master to both rows; `MAX_ACKS` 2, the slave owes up to 3 |
| `dcache_dcbz` | `MCDCacheDcbz.cfg` | *violated*: dcbz writes zeroes to the RAM | 3 requests, stores may follow a dcbz |
| `dcache_quad` | `MCDCacheQuad.cfg` | *violated*: the second half of a quadword load is of the time of the first | 2 ways, a refill may be under way |
| `dcache_lwarx` | `MCDCacheLwarx.cfg` | *violated*: store conditional atomic | 2 ways, a refill may be under way |
| `sd` | `MCSd.cfg` | the invariant of the proofs; driver, controller and card agree; clock within the mode; nothing fails that should not; success means this transfer's data; every call returns | 12 boards: SD, SDHC, UHS-I (three sets of modes), MMC, eMMC (DDR on one and on eight lines, HS200) on controllers of version 2 and 3, slots embedded or not, and three cards that the driver gives up; 4 calls, transfers of 1, 4096 and 4097 blocks; 1 fault; polls and tuning of 2 rounds |
| `boot` | `MCBoot.cfg` | the invariant of the proofs; image in place and nothing else written; screen whole; a key starts the kernel | blocks of 2 bytes, chunks of 3 blocks, a file of 7 bytes from sector 1; 3 files; both kinds of addressing; UART queues of 2, 2 keys, zero among them |
| `sd_busy` | `MCSdBusy.cfg` | *violated*: a transfer reported busy is in progress | as `sd`, no fault |

Why the bounds are enough. The bridge has one request in flight, so one address tells
"the same" and one "another"; a write of a lane is told from a read, from a write of another
value and from one with no lane selected; lanes do not interact, so one stands for all.
The control slave has one latch per channel and one response, so a write that is being answered, and one behind it,
fill it; `MaxAhead` 2 is a queue longer than the latches by the one whose
handshake is under way. The writes are one to each register and one that selects nothing.
In the window the
interesting addresses are the classes cut by offset, end of DRAM and end of the address space;
the core uses one of each class, and memory has all 8, so that a wrong translation
hits a neighbour. The interrupt controller compares two
candidates at a time, and equal, smaller, greater and masked priorities are among three
written values and their sources; with more lines the pick is the same fold. It is
checked with the one cpu the SoC has; the models are written for any number. The bus has as many masters as the SoC, and requests
differ in slave, direction and halves. The data cache
has two lines that compete for one way, so every miss evicts, and two rows, so that a line
arrives in two steps, starting with either; three requests fit between a request wire and its
completion, whatever the bounds. Stores of the cache and of others write different
values, as far as each run can afford. The counter of answers counts to 7 in the code and to 2 in
the run, less than the slave lets be outstanding, so that the limit is met. In `sd` each board
is there for a path of the initialization: versions, voltage switch, every speed mode, no CMD8, no
high capacity, address 0 at first, structures of either version, bus widths 1, 4 and 8. One fault (a lost or garbled
answer, damaged data, an answer later than the limit, the card taken out) at any point shows
every error path; four calls are configuration, initialization and two transfers, the second of which may find what
the first has left, or an initialization that failed, its repetition and a transfer. 4096 blocks are the 2 MB for which the table needs its
last entry, 4097 are refused. Loops poll twice, with cards that become ready in the last
round and after it. In `boot` the file takes a full chunk and a rest that ends inside a block, its header
table is at the start or in the last block, the segments have nothing, something and
only something to clear, and one entry is not to be loaded. No run has a state constraint; the counters are
`owed` (bounded by what the bridge and the latch accept), `accesses` (`TypeOK` of
`SocBusSystem` shows that a half is never strobed twice), `unseen` (`UnseenIsDue` shows that it stays
between -1 and 1), `quiet` and `held` (saturate at `Depth`) and the queue of writes (`MaxAhead`), the answers owed to the cache (`MaxOwed`), and the calls, faults and
keys of the software runs (`MaxCalls`, `MaxFaults`, `MAX_KEYS`). Those runs end, so deadlock is not
checked in them; that they do not end early is what `CallReturns` and `KeyStarts` are for.

What the properties say is in the comment above each. Eight runs check, in place of a type
invariant, the inductive invariant `IInv` of the proofs of [section 5](#5-proofs), of which the
type invariant is a part; that of `SocBusSystem` also bounds the device strobes.

## 4. Fairness

Safety does not use it: the theorems are about `Spec`, and fairness only adds `WF(Next)` and
conjuncts of the form `[]<>P` with `P` a state predicate about the environment, in `FairSpec`.

* `bridge`: the clock runs, and the PS does not hold off an offered address or datum for
  ever, nor keep a full latch unanswered for ever; AXI requires this of a slave.
* `axilite`: the PS offers both halves of a write it has begun, in whatever order, and
  takes answers that are up; AXI requires a master not to wait for ready before it raises
  valid.
* `xics`: under the handler, the handler does its next step some day, and the premise of
  `RaisedIsServiced` is that more favoured interrupts do not come without end; level
  interrupts of equal or less favour may.
* `soc_bus`: the clock runs and the memory is not busy for ever (what `bridge` shows); the
  premise of `EveryMasterServed` is that the other master gives up the bus again and again,
  because the arbiter itself starves the higher number.
* `sd`: one weak fairness for the driver's code and the bus together: while a call runs, either the program
  executes or something on the lines ends. The program is not assumed to make calls, and faults may
  happen or not. A wait may be prolonged by the bus, never without end.
* `boot`: both programs run, and the UART sends what is in its queue. Keys need not be pressed: the
  premise of `KeyStarts` is a key in the queue.

## 5. Proofs

For all sets of addresses, lanes, bytes and response codes, with only the assumptions
that the reset values are elements of them (`ZeroAssumption`, `RespAssumption`):

* `BridgeInvariant`: `Spec => []IInv`. The properties are not inductive. What is
  missing is where a transaction *is*: `Handover` says that of the two machines at most
  one is to move (the AXI machine is about to start, at work or done exactly while the
  Wishbone machine waits); `WriteInFlight` and `ReadInFlight` say that an address or a
  datum is in exactly one place, offered on its channel or accepted by the PS, is that of
  the latched request, and that nothing is left on any channel once the
  response is up. With these a response can only be met by the transaction it belongs to.
  Each part has a lemma of its own with one case per action; the lemmas are combined in the
  step lemma.
* `BridgeServes`, `BridgeResponses`, `BridgeAxiStable`: the safety
  properties of the run, for all constants, from the invariant.
* `BridgeRefinement`: `Spec => ImplementsPort`. The initial state maps to an initial state
  of `MemPort`, and each edge to one of its actions or a stutter: accept maps to `Take`, the
  moment the PS performs to `ServeWrite` or `ServeRead`, the ack to `Answer`.
For all registers, lanes and data, and any number of writes ahead (`RegAssumption`,
`AheadAssumption`):

* `AxiLiteInvariant`, `AxiLitePairs`: the two halves of a write are accepted at any distance, so
  the invariant cannot speak of a write as a whole. It counts: the addresses that have been accepted
  are those of the writes performed, and one more if the address latch is full; the same for the
  data; and a latch, or a channel, holds the half of the write with that number. That
  what is performed is one write's address with the same write's data is then arithmetic.
* `AxiLiteRefinement`: `Spec => ImplementsRegFile`. Performing maps to the write of the register file,
  sampling to its read, and every wait for a half or for a response to a stutter.

For all requests and values, with the two masters the SoC has (`MastersAssumption`), of which the
instruction cache never writes (`InsnAssumption`, `icache.vhdl:662-666`):

* `BusInvariant`: the bus keeps no record of whom an answer is for, so the invariant says what
  makes one unnecessary: `MemoryForSelected` and `LatchForSelected` (what is at work is at work for
  the selected master, which holds its strobe, or `cyc` and its slave), `HalfUnderWay` (the 32-bit
  request on the bus is a half of the oldest request, and a device answers it exactly when its strobe is
  down again) and `HalvesSeen` (which halves have been strobed, what they have changed and what has been read).
  One lemma per action of the latch.
* `BusAnswersReachOwner`, `BusServesOnce`: two of the safety properties of `soc_bus`.
* `BusSnoopsOnce`: `unseen` counts, for each cache, the writes of the other master that have been carried
  out less the writes the cache took for another master's. It is 0 whenever the cache has the bus or nobody
  does: nothing was missed, snooped twice, or snooped of its own. In between it may be off by one
  (`UnseenIsDue`): the latch stalls after it has taken a write, so the write is snooped first and carried
  out later; the memory stalls until it has answered, so the write is snooped last. The property therefore
  needs the arbiter to keep the bus and the master to keep its slave (a bus that is given away early
  violates it), not only the gate in `soc.vhdl:163`.

For all numbers of interrupt lines, cpus and priorities (`XicsAssumption`, `WiredAssumption`):

* `XicsInvariant`: the controller is a pipeline (lines, level, masked and compared, XISR, interrupt wire), and
  the invariant says how far a change has come: `quiet` clocks after the last one, the first
  `quiet` stages are functions of lines and masks as they stand. `XicsSettles` is the last stage; the fold that
  compares two candidates at a time yields the most favoured one (`PicksBest`).
* `XicsAcceptsOwn`: an accept on any cpu, with a handler or not, at any moment. Two picks meet in it, the
  registered one that is reported and the current one that CPPR takes. Lines may rise and messages be written in every
  cycle: CPPR is then at least as favoured as what is reported, so nothing less favoured nests in its
  service. The premise `held = Depth` leaves out only a line that fell or a source register that changed in the last three
  edges, for which the claim is false (section 6). With `quiet = Depth`, CPPR is exactly the priority of what
  is reported. The invariant is `Holding`, beside `Settling`: what the latch, the pick and XISR show is still
  pending one, two and three edges after something was last taken back.

For every geometry of the data cache, page map, limit of `acks_pending` and of what the slave may owe, and all
requests (`CacheAssumption`; `RequestsAssumption`: the MMU only loads, only loads and stores are atomic,
`dcache.vhdl:605-611`):

* `DCacheInvariant`: two parts. The *bus*: how many answers are owed in each state of the machine
  (`BusCounted`): in a refill what the answered rows are ahead of the strobed ones around the line
  (`OwedInReload`), in stores what `acks_pending` will count two clocks from now (`Counted`), else one or none.
  The *queue*: what is asked and not completed is the request the machine has, if it is full, and the one in stage 0 behind
  it (`InOrder`), of which the machine keeps the operation and the unit (`Serves`, `AtWork`,
  `RequesterKept`). A step is classified first by what completes (`Moved`), then each part has its lemma.
* `DCacheBusKept`, `DCacheSync`: for whatever is asked, also in the situations of [Findings](#6-findings).
* `DCacheCompletes`: if the units keep apart while a line is filled (`"mmu" \in Avoids`); without it a row that arrives
  for a load in stage 0 completes to the other unit, so the condition is needed.
* `DCacheCoherence`: `Spec => []IInv`, with what is in the cache: `IInv` is `BusInv /\ (Careful => CoherenceInv)`.
  `Careful` says that the requesters keep clear of the situations of
  [Findings](#6-findings) in which a property is known to be violated (all of `Avoids` but `"mmu"`); the run `dcache`
  is under it, the runs `dcache_dcbz`, `dcache_quad` and `dcache_lwarx` show that it is
  needed. It forbids no operation, only when some are asked. The centre of the invariant is `Backed`: a row that hits is
  what memory is *about to be*, where the store the cache has on the bus (`Now`) and the store that is still to be
  written to the RAM (`RowVal`) both count. Around it: what stage 0 has read of a RAM that is written
  meanwhile (`StageRead`, the forwarding stages), a snoop that is compared a cycle late with tags that may have
  been replaced (`SnoopRead`, `Stale`), a store that waits while lines come and go (`StoreHits`, `Waits`,
  `WritesStore`), which rows of a refill have come and what the answers on their way hold (`FillState`,
  `AnswersHold`), the values that loads may return (`MayReturn`, and for the halves of quadwords `PairKept`,
  `PairReads`, `StorePairs`), the rows of a dcbz (`Zeroes`), and the reservation (`Reserved`).
  Every cycle moves all processes at once, so the proof has no case per action. Instead `Turn` says what a cycle
  from a state of the invariant does, in parts: `Asks`, `Clocked`, `Fed`, `Moved`, `Recorded` (`NextTurns`: every step
  is one). From it come lemmas about one thing each, such as a row of memory (`MemAt`) or of the RAM (`RamStep`);
  then each conjunct of `CoherenceInv` has a step lemma, split by what the machine does in the cycle.
* `DCacheLoads`, `DCacheStcx`: from the invariant, with `Careful`: every load, quadwords included, returns
  values of one time while it was under way; a store conditional that succeeds finds in memory what its lwarx
  returned. That a dcbz writes zeroes is not claimed as a theorem: under `Careful` nothing else could be stored.

For every size of the address space and of DRAM inside it, and every window that is not empty and at most
half of DRAM (`SizeAssumption`; for the composition `WrapperAssumption` and `PsBaseAssumption`):

* `WindowProtects`: for every address width, DRAM size and offset up to half of DRAM, no
  address is translated below the offset. It is tight: with a larger offset the addresses
  at the top of DRAM that are not moved lie below it. The boot program sets a quarter.
* `WindowInjective`: two addresses meet only if one is moved and the other is at the top of
  DRAM, the premise under which
  `wrapper` chooses its addresses.
* `WrapperInvariant`: the boot program, the control slave and the bridge together. `InSequence` is the product
  of three things that advance together: where the program is, how far the slave is with the access it
  makes, and what the registers hold then; so each value it reads back is the one it has written, and
  its checks never fail. `OffersReleased` says that the bridge offers nothing while in reset.
* `WrapperReadsOwn`, `WrapperRefinement`: behind the window a read is only met by the response to its own
  accepted address, and what the core sees is a memory port of its own: the refinement maps the PS
  memory through the window, which takes the window to be injective on the addresses the core uses
  (`WindowAssumption`); an edge in reset is a stutter.
* `WrapperReleases`, `WrapperKeepsPsMemory`: the core is out of reset only behind the window the
  program has set and with the version it has checked, and (with `WindowProtects`) no
  access it makes, accepted by the PS at whatever moment, lies below the window.

For all block, chunk and file sizes, memories and welcome programs, assuming that DRAM and card
have room for whole blocks and that the program ends below the buffer (`BootAssumption`), and that
the file, if it has the magic number, is one the loader can load (`FilesAssumption`: table and
segments inside the file, segments between welcome program and buffer, apart from each
other). The boot program checks none of `WellFormed`; the proof says what it relies on.

* `BootInvariant`: `Spec => []IInv`. `ImageLoaded` speaks of the end; what leads there is
  `InStep` (address, sector and rest of the read loop count the same blocks, though the first is
  advanced by bytes read and the last by bytes asked for), `BufferIsFile` (what has been read is
  the file, and stays it while segments are copied out, so that a header read in a late round is
  that of the file), `ProgramKept`, `Extracted` (segments of earlier rounds are in place and
  later ones do not touch them) and `Checked`. One lemma per action.
* `BootLoadsImage`, `BootWritesConfined`: the image as the *core* sees it, through the window,
  when it is released; and that no step writes outside of the program, the buffer up to its last whole
  block, and the segments, a read that fails halfway included.

For all boards and cards, calls, faults, polling limits and block counts, if every poll has a round and a
transfer has fewer than 2^32 bytes (`SdAssumption`: the limit of `XSdPs_Read` is tested on a product of 32 bits
and lets through what wraps, see [Findings](#6-findings)):

* `SdInvariantHolds`: `Spec => []IInv`. `OwnData` speaks of the return of a call; what leads there is a status bit that
  is the transfer's own, of a command that was set up as it should be, and these are true at different places of a
  sequence of steps that is put together as the driver goes. So the invariant has two parts. *What is left to do*:
  `todo` is made of known items (`Typed`), a poll's look at the answer has only its command in front of
  it and a round counted (`Polling`), an initialization ends with the step that sets the block length
  (`Initializing`), so that a card that is initialized has it set (`Configured`). *Stages*: as long as the program
  waits for a transfer, what is left is the end of one of five sequences (`Refusable`, `Preparing`, `Moving`, `NotStarted`,
  `Checking`), and how much of `Moving` is left says what holds: nothing of the transfer on the lines before the
  command is sent, buffer and lengths set up before it (`Settings`), and from the clearing of the status on, that transfer
  complete means this transfer (`OwnEnd`). A transfer that was started keeps this while the program makes other
  calls, which are refused (`OwnTransfer`, `Awaited`). All is conditional on `~overdue`: what an abandoned
  call left on the lines really does break it.
  The proof follows the code: what each of the driver's 59 steps puts in front of `todo` and writes, then one lemma per
  stage (`RefusableStep`, `PreparingStep`, `MovingStep`, `NotStartedStep`, `CheckingStep`) with the same conclusion
  (`Outcome`), and that neither the bus (`BusMoveKept`) nor a new call (`BegunKept`, `CheckKept`) disturbs it.
* `SdTypes`, `SdOwnData`: from the invariant.
* `TableTilesBuffer`: for every length, the entries of the descriptor table, as the controller reads
  them (a length of 0 is 65536), cover the buffer, nothing else, and no byte twice; only the last entry
  ends the table; a length up to the driver's limit needs no more entries than there are. `DescribesAll`, that the
  lengths in the table add up to the buffer, is what `SdOwnData` takes from it.

Only model-checked: everything about liveness; that driver, controller and card agree after an
initialization, that the clock stays within the card's mode and that nothing fails without a fault (`InitAgrees`,
`ClockWithinMode`, `CleanCallSucceeds`: the card follows the initialization step by step, and an invariant would
list both sides at each of its steps, as the run does for every board); what is on the screen (`ScreenShows`). `LastFirst` (the digits of a number) is a recursive function; what it computes
for every number is induction over data, which the installed provers cannot do.

## 6. Findings

* `dcache_dcbz`: a dcbz completes with its first ack while the other rows of its line are still being
  written from `r1.req.data`; a store right behind it replaces that register, and its data goes
  into the cached line instead of zeroes.
* `sd_busy`: `XSdPs_StartReadTransfer` and `XSdPs_StartWriteTransfer` set `IsBusy` also when the transfer
  was refused or its command failed. From then on the check reports a transfer in
  progress, and every other transfer is refused, for ever. The boot program uses the polled calls only.

* `dcache_quad`: the second half of a quadword load reads the way the first half hit, without comparing
  tags again. The last answer of a refill sets that register to the way it has filled, whatever line the
  first half has hit, so a quadword load that hits while another line arrives may return a row of that other line.
* `dcache_lwarx`: a load in stage 0 that takes a row as it arrives sets the reservation if the request
  before it was a lwarx, also when that reservation has been lost to a snooped store since. The store conditional
  behind it succeeds although another master has stored to the line.

The requesters of `dcache` avoid these situations, and three more (`Avoids`, `Allowed`):

* `"dcbz"`: to store a nonzero value behind a dcbz that is under way, or to load from its line. A load
  that waits for its row of the line completes as in a refill (`dcache.vhdl:272-277`), with what the bus returns with the
  answer, which is that of a write.
* `"touch"`: to ask before a touched line has its tag (the request is compared with tags that are out of date, and
  may hit the line that is being replaced).
* `"mmu"`: to change between MMU and load-store unit while the cache is filling or has a request (a row that
  arrives for a load in stage 0 completes to the unit of the request before it, `r1.mmu_req`).
* `"quad"`, `"lwarx"`: to load a quadword, or to load and reserve, while a line is filled.
* `"refused"`: lwarx and stwcx that are refused (they leave `r1.req` as in `dcache_lwarx`).

What the load-store unit does to avoid them is a question for its model.

Two comments differ from the code without consequence, and the code is right. The header of the bridge
(`s_wb_2_m_axi_lite.v:26-27`) says that stall is tied low; it is driven, and has to be, for
`AckMeetsStrobe`. The header of `xics.vhdl` (12-14) says that what is presented is more
favoured than CPPR; the most favoured one is presented, and only the interrupt wire compares with
CPPR (`SettledPresentsBest`).

Observed and modelled as it is: an accept returns the registered XISR with the priority of
what is selected *now*. When something more favoured has come since, CPPR is the more favoured of the two
(`AcceptTakesItsPriority`). When a line has fallen, or a source was masked, in the last three edges, the accept still reports the
old source but takes the priority of what is left, or none: a handler that ends an interrupt in the
cycle after its device has dropped the line, and accepts again two cycles later, is told of the same source once more
with CPPR open. The latch's unmapped I/O cycle
cannot be reached, because the main decoder lets only the devices' own addresses through.
The reset bit resets the bridge, not the AXI slave behind it: a read that was accepted
before a reset would answer the first read after it. The boot program sets the bit once and never
clears it.

Of the SD driver:

* Initializing a card that is in use again fails: CMD0 resets the card to one data line, the
  controller's width and DDR setting stay. `CleanCallSucceeds` is therefore about the first
  initialization. Idle leaves the power off, and `XSdPs_CfgInitialize` refuses a second call.
* A card of version 1.0, which has no CMD6, fails in `XSdPs_Get_BusSpeed` though it
  could be used at its default speed. `XSdPs_Erase` returns success without doing anything on
  a card without command class 5.
* What an abandoned call left on the lines ends later, and its completion bit is
  taken by the next wait for one (`overdue` in `InitAgrees` and `OwnData`). Commands that end with a busy signal do not look
  whether the data lines are free.
* `XSdPs_CalcClock` that finds no divisor leaves 0, the full input clock (version 2 with an input above
  102.4 MHz). The product of count and size in `XSdPs_Read` wraps at 2^32 (`FitsTable` has the wrap).
  A sampling point of an earlier tuning lets a tuning pass that found none.

Of the two programs: an unknown specifier prints the rest of the format and then goes on in it; a
format that ends in a `%` runs past its end; the sign is not counted in the width, and the width
is not limited to the buffer of 21 bytes (`Round` does the first; the messages of the run have known specifiers and widths that fit). The
last chunk is rounded up to whole blocks behind the end of the file, and segments may be placed over
the buffer they come from; `WellFormed` excludes it. A key whose code is 0 is read and not seen, which is why `KeyStarts` is about
the others.

## 7. What is not modelled

Left out of modelled components: of the data cache the TLB and tlbie, the `hold` wire, the replacement
tree and reset after the start; resets of the SoC bus and of the interrupt
controller after the start; of the SD driver HS400 and everything for Versal, the table of
32-bit DMA, cache maintenance, delays, the transfer mode register, and the CSD and EXT_CSD
fields that only report sizes; of the welcome program the assembler start code; the ICS configuration and debug registers, which only report;
`PROT` signals; responses of the control slave, always OKAY; byte lanes within a half.
Not modelled for what they are: the decoders and execution units (tables and 64-bit
arithmetic, whose correctness is that of the instruction set, beyond enumeration), the FPU,
test benches, scripts. Not modelled yet: the components of the plan.

## 8. Plan

Done: bridge, control slave, wrapper, interrupt controller, SoC bus, data cache; then the software that brings
the system up: SD driver, boot program, welcome program. Every access of the core goes through
the bridge and the bus, and every boot through the programs. To do, the most important first:

1. `DCache`: liveness on a smaller instance; that it implements the masters of
   `PipelinedMaster` and `SocBusSystem`; two ways; the TLB, `hold`; together with `LoadStore`,
   which of the findings programs can meet.
2. `ICacheFill`: refill, flush, snoop; that no stale line survives.
3. `PipelineControl` with register file and write back: tags, forwarding, one completion.
4. `CoreDebug`: stop, step, terminate.
5. `Mmu`, `LoadStore`, `Fetch`: walks, retries, redirects.
6. Algorithms: divider, count and sort of bits, replacement tree.

Theorems to prove next: that driver, controller and card agree after an initialization; `ScreenShows`; the bus for any
number of masters; the refinement of `PipelinedMaster` by `DCache`.
