# Verification of the BeagleBone energy meter

TLA+ models of the energy meter under `src/EnergyMeter/`, the TLC runs that check
them on small instances and the TLAPS proofs that hold for every size. Paths below
are relative to `src/EnergyMeter/`; `CM/` stands for `CognitiveEnergyMeter/`,
`prussdrv.c` for the file of that name in
`CM/system/am335x/am335x_pru_package/pru_sw/app_loader/interface/`.

## 1. The system

```
 ADS131E08S --SPI--> PRU1 --scratch pad, evt18--> PRU0 --DDR, evt19--> INTC/UIO --> host program --TCP--> datalogger.py
                                                                                     |                     |
                                                                                   raw.bin            site_meter.dat
```

| component | state it keeps | operations | hard behaviour |
|---|---|---|---|
| PRU1 (`NFS/pru/ads131e08s_pru1.asm`, `NFS/ads_driver/*.inc`) | r1..r25, scratch pad | four conversions, marker, XOUT, signal PRU0 | never waits for PRU0 |
| PRU0 (`NFS/pru/ads131e08s_pru0.asm`) | r27, r29, two message buffers in DDR | wait, clear, XIN, store, interrupt the host | order of clear and XIN; never waits for the host |
| INTC and UIO (`prussdrv.c`, kernel) | pending events, enabled host interrupt, count | clear event, enable interrupt, count and disable | merged interrupts; order of clear and enable |
| host acquisition (`CM/AnalogCore.c`, `CM/DAQ.c`) | `buffer_ix`, `dbuffer`, `ch_data` | wait, clear, memcpy, convert | copies a buffer that PRU0 may be filling |
| start and cleanup (`CM/main.cpp`, `CM/pru.c`, `CM/Mem.c`) | what has been mapped, opened, started | the rungs of `main()` and its ladder of labels | failure at every rung; death by a signal; PRUs outlive the process |
| measuring loop (`CM/main.cpp`) | `idx`, `m`, `n`, `offset`, `params`, 33 filters | per sample, per cycle, per row; send; log | two rates with different periods; failing log |
| moving average (`CM/MAF.c`) | `Buffer`, `Head`, `Accumulator`, `MeanValue` | Init, Update | the running sum never forgets an error |
| power theory (`CM/CPT.c`) | integrals, 35 filters, the values of three phases | Config, the functions of Update in order | a value read before or after its update of the sample; shared buffers |
| metrology, harmonics, windows (`CM/MetrologyCore.c`, `CM/Goertzel.c`, `CM/Waveform.c`) | coefficients, windows of samples | Init, Scale, CalculateHarmonics, FindZero, WaveformDiff, CopyWaveform | alignment at a zero that may not exist; windows at the ends of a second |
| datalogger (`datalogger/datalogger.py`) | exit event, a thread per connection, the file | accept, recv, parse, open, write, close | TCP has no message boundaries; two threads and one file; blocking recv |
| PRU library (`prussdrv.c`) | maps, settings of the INTC, control registers, program memory | open, map, init, load, exec, enable, write, send and wait for events, addresses | a call is several stores; a PRU runs between them; calls that fail half-way |
| PRU assembler (`pru_sw/utils/pasm_source/`) | files, conditions, equates, structures, scopes, macros, labels, image | two passes over the text, then the outputs | recursion of files, equates and macros; what pass 1 leaves behind for pass 2; errors that stop a file half-way |
| examples (`pru_sw/example_apps/`, `pru_sw/old_example/`) | memories shared by host, PRUs and devices | 20 pairs of a host program and PRU programs | handshakes of three processors through events and memory |
| converter (`datalogger/convert_raw.py`) | none | raw.bin to CSV | assumes a raw.bin without gaps |

The assembler translates the two programs of the PRUs; the library loads them and
carries the host's side of the acquisition; the examples use both.

Components not listed here (board set-up, the converter's command driver,
`testes-c`) are in `PROJECT.json` with the reason why they are not modelled; headers
of other projects (`mysql/`) and build output are no part of the system.

What makes the parts correct:

* *Acquisition.* No signal is forgotten, whatever the speeds; on time, no packet is
  lost, repeated or mixed with one of another second.
* *Packet format.* A sample reaches the buffer of its channel with its value and sign.
* *Start and cleanup.* No exit leaves a PRU running; a restart does not inherit.
* *Measuring loop.* What is sent and logged belongs to one second.
* *Moving average.* It is the mean of the last Length inputs, for ever.
* *Power theory and windows.* Every value of a sample is computed from values of that
  sample; every window is the stretch of samples it is named for.
* *Telemetry.* Rows are messages, in order, once; the logger can be stopped.
* *PRU library.* A PRU runs a whole program that nobody changes meanwhile; the
  library's view of events and addresses is the hardware's.
* *Assembler.* What the text asks for is what is assembled, and what is assembled is
  what the words of the image do, also after errors and in the second pass.
* *Examples.* They end, and pass.

The hazards behind these statements, each at its line, are in `PROJECT.json`.

## 2. Modules

| module | models | composed of |
|---|---|---|
| `Acquisition` | PRU1, PRU0, INTC, UIO, host wait/copy | - |
| `MessageStream` | abstract: a lossless ordered stream of messages | implemented by `Acquisition` |
| `AcquisitionProofs` | theorems | `Acquisition` |
| `PacketLayout` | bytes of a packet from the bus to `ch_data` | - |
| `Lifecycle` | processes, rungs, cleanup, restart | - |
| `MeterLoop` | one turn of the loop of `main()` | - |
| `MeterLoopProofs` | theorems | `MeterLoop` |
| `MAF` | `MAF.c` | - |
| `SlidingWindow` | abstract: the last Length inputs | implemented by `MAF` |
| `Telemetry` | `send_data` and `datalogger.py` | - |
| `TelemetryProofs` | theorems | `Telemetry` |
| `CPT` | `CPT.c` | - |
| `Waveform` | `MetrologyCore.c`, `Goertzel.c`, `Waveform.c` | - |
| `SignalProofs` | theorems | `PacketLayout`, `MAF`, `Waveform`, `CPT` |
| `PruDriver` | `prussdrv.c` | - |
| `DriverProofs` | theorems | `PruDriver`, `Lifecycle` |
| `PruExamples` | the example programs of host and PRUs | - |
| `PasmText` | `GetTextLine`, `ReadCharacter` (`pasmpp.c`) | - |
| `PasmLine` | `ParseSourceLine` (`pasm.c`) | - |
| `PasmPP` | conditions, equates, includes, files and passes (`pasmpp.c`, `pasm.c`) | - |
| `PasmPPProofs` | theorems | `PasmPP`, `PasmMarks` |
| `PasmExpand` | `ParseSource`: recursive equates (`pasmpp.c`) | - |
| `PasmExpansion` | what `PasmExpand` delivers, by recursion on the text | `PasmExpand` |
| `PasmMarks` | what lines mark while they work: equates, macros, scopes | `PasmExpand`, `PasmStruct`, `PasmMacro` |
| `PasmFiles` | texts in files that include others, for the two modules below (`pasmpp.c`, `pasm.c`) | - |
| `PasmStruct` | structures and scopes (`pasmstruct.c`) | `PasmFiles` |
| `PasmMacro` | macros (`pasmmacro.c`) | `PasmFiles` |
| `PasmExp` | expressions, register offsets (`pasmexp.c`) | - |
| `PasmOp` | instructions and their words (`pasmop.c`) | - |
| `Pasm` | labels, dot commands, image, two passes (`pasm.c`, `pasmdot.c`) | - |
| `PasmOutput` | command line, output files, exit code (`pasm.c`) | - |
| `PasmPath` | include directories, file records (`path_utils.c`, `pasmpp.c`) | - |
| `PasmOpProofs` | theorems | `PasmOp` |
| `PasmProofs` | theorems | `PasmOutput`, `Pasm`, `PasmPath` |
| `MCAcquisition`, `MCTelemetry` | instances for TLC | the module named |
| `MCLifecycle` | instance | `Lifecycle`, `PruExamples` |
| `MCPrograms` | instance | `MAF`, `MeterLoop`, `PacketLayout`, `CPT`, `Waveform`, `PruDriver` |
| `MCPasmFront` | instance | `PasmText`, `PasmLine`, `PasmPP`, `PasmExpansion`, `PasmMarks` |
| `MCPasmBack` | instance | `PasmExp`, `PasmOp`, `Pasm`, `PasmOutput`, `PasmPath` |

In an MC module that names several, the modules do not share state: `part` says which
of them takes the steps of a behaviour, and the others rest in their initial state.
One run then asks one question of a layer (what happens to a sample, to a line of
text) of every part of that layer.

Every module holds, next to its actions, a few operators marked *Slip*: a plausible
mistake in the action that follows. A run must notice it (`mutants` in
`PROJECT.json`); no specification uses them.

### Acquisition

One action per instruction or register access whose order matters. `PRU1_Xout` is a
packet leaving PRU1 (the four conversions before it are not visible to others);
`PRU0_WaitPru1`, `_ClearPru1`, `_Xin`, `_Store` are the inner loops (both, `loop`
says which); `PRU0_SignalHost` is the interrupt at their end and the jump back.
`Uio_Interrupt` is the kernel's handler: it counts and disables the interrupt
(external: modelled from how `prussdrv.c` uses the device). `Host_WaitEvent`,
`_ClearEvent`, `_EnableInterrupt` are `prussdrv_pru_wait_event` and the two writes of
`prussdrv_pru_clear_event`; `Host_Copy` copies one packet of the memcpy at a time;
`Host_Process` is the conversion and the rest of the loop, with the check for lost
packets as written.

A packet is its number. There is no clock: nothing in the code makes PRU1 wait for
PRU0 or PRU0 for the host, so the model lets each be arbitrarily late and *records*
the first missed deadline. `linkLate`: PRU1 overwrote a packet PRU0 had not fetched.
`hostLate`: PRU0 came to overwrite a message, or to announce a second one, before the
host was done with the first. Properties that need deadlines say `OnTime`;
`TimelySpec` is the set of behaviours in which none is missed.

### PacketLayout

`regs` is the packet as PRU1 holds it in r1..r25; `DataByte` is the table of `MOV`s
in `ADS_GET_DATA24`. The host's side is `p_idx` and `Value`: four bytes skipped, three
bytes per channel, sign through a shift up and an arithmetic shift down, which wraps
at the word's width (`% (2 * Half * Base)`). A byte is a digit to the base `Base`.

### Lifecycle

`pc` walks the rungs of `main()`; each may fail with the `goto` of the code. PRUs and
events carry the number of the process they stem from, so that a later process can
be seen to answer an earlier one's interrupt. `Killed` is any fatal signal: there is
no handler. `prussdrv_open` does not look at the result of `mmap`; when it fails, the
process crashes on the first read through it (`Open0`).

### MeterLoop

The CPT's state, and any value read from it, is the number of samples consumed.
The constants are those of `Board.h` and `main.cpp` with the one assumption the code
makes silently: both divisions of the sample rate are exact. `WriteLog` looks at the
result of `fopen` only, so that it may lose any rows of a second; `SendData` may end the
process.

### MAF

Sums are exact (integers), `MeanValue` is in units of 1/Length. `totals` is history.

### Telemetry

A message is four pieces, distinguished by what `process_input` makes of an input
that ends behind them. `recv` may return any prefix of what has arrived, at most a
message and a half. `Thread_Open` and `Thread_Write` are two steps because another
thread may use the file in between; a file opened with `"w+"` is written from the
start when it is closed, over what has been appended meanwhile (`Remains`). A socket
is closed when nobody refers to it any more: `accepted` is the variable `connection`
of `start_server`, which keeps the last one. `link` is the connection as the meter
sees it: `silent` is a board without power, `closed` and `reset` follow a close by
the logger.

### CPT

`CPT_Update` is a sequence of functions, and many of them read what an earlier one
has written. A value is the unit it has, the sample and the phases it stems from, and
whether the formula that made it was well-formed; a formula that mixes samples or
units shows. Filters count their inputs, buffers are numbered as they are allocated.

### Waveform

A sample is its place. `FindZero` walks over signs: once around the window from the end,
with the sample it reads twice; `WaveformDiff` and `CopyWaveform` index windows, and
neither checks an index: offsets may be any integer, and what is read may lie outside the
channel. `CalculateHarmonics` walks over cycles and coefficients. Only Scale is called by
the program: the calls of the others are commented out in it.

### PruDriver

`todo` is the sequence of stores the call under way has still to make, each to a
control register, to instruction or data memory, or to a register of the INTC. PRUs
may run, and the process die, between any two. `device` is the hardware that
`__prussdrv_memmap_init` recognises. Words of a program file are its name and their
number; a length that is no multiple of four, or larger than the memory, is one of
the sizes tried. `Call` is any call of the library, in any order. Two of them put the
care for a program into the hands of the application: `prussdrv_pru_enable` starts
whatever is in the memory, and `prussdrv_pru_write_memory` writes to it at any time. A
PRU it has done that to is in `own` until the library halts it, and what is said of
programs is said of the others. Blocks that the application hands over end before the
next memory (`Room`); the library checks neither their length nor, on an AM18XX, that of
a file between the 4 KB of its memory and 8. `last` is the settings asked for last, which
the controller has even when `prussdrv_pruintc_init` has refused them half-way.

### PruExamples

A program is the sequence of its instructions that another processor can see,
written as data and run by one interpreter: stores, loads that are compared, events
raised, waited for and cleared, loops over memory. Devices (timer, EDMA, UART, the
DSP's library) are external and are modelled as far as the examples use them.

### The assembler

Each module is one source file, or the part of it that keeps a state of its own, and
its text is chosen step by step, so that TLC sees every text up to the bound. In the
modules with two passes the text is chosen in the first pass and read again in the
second; what lives across the passes (equates, labels, macros, structures, records of
files) is state, and what a pass resets is reset where the code does.

* `PasmText`, `PasmLine`, `PasmExpand` work on classes of characters, those the
  scanner tells apart; buffers have the few places that make them overflow.
* `PasmPP` has the stack of open files and the flags of conditions (`ccFlags`) beside
  a history of the conditions themselves (`conds`), the errors, and `late`: lines
  assembled after the error limit.
* `PasmFiles` is what `PasmStruct` and `PasmMacro` need of files: a line may include a
  file, and a file may end. In pass 1 a file is read on after an error, up to the limit of
  errors. In pass 2 an error ends the file it is in, and that file only: `LoadInclude`
  returns 0, `GetSourceLine` -1, and the file above reads on (`LastOfFile`). So a command
  may meet what failing lines have left behind, in either pass.
* `PasmStruct` numbers structures and scopes in the order of their creation; pointers
  may be `Null` or `Freed`. Only a command that refers to a structure has an answer. That
  the record was freed and is used nevertheless is noted (`freedUsed`); what the write
  does to the memory that was given back is not modelled.
  Here and in `PasmMacro` it is left out that CORE_V0 has neither structures nor macros, and
  that some names are reserved.
  References with the "digits" `.` and `/` are left out (`StructAssumption`):
  `GetFinalSize` computes with unsigned numbers, where `x.w.` and `x.b/` wrap to what it
  takes for a word and a byte of the element.
* `PasmMacro` keeps the stack of expansions; a local label is the name, the macro and
  the count of expansions (`Substitute`). A label that exists is an error that is counted
  and does not fail its line (`LabelNew`). A `.macro` whose file ends before its `.endm`
  stays the macro being defined. Of an argument or a word only its identity is
  kept: names are one-element tuples, so that none is the text of a local label. The
  arguments of `.mparam` are well formed.
* `PasmExp` reduces a text of tokens as `ProcessExpression` does. A word has `ExpBits`
  bits; shifts by more are taken modulo the width, what an x86 host does with the
  undefined shift of C.
* `PasmOp` encodes each instruction to a set of bits; its properties decode them again
  with the field layout of the cores. The limit of a 32 bit `MOV`, 2^32 - 1 in the code,
  is 2^31 - 1, the largest number TLC has (`Most`): immediates above it, among them the
  negative ones, which the code reads as unsigned, are an error in the model and two `LDI`s
  in the code.
* `Pasm` places words at addresses: an instruction is its size, its range and its
  operand.
* `PasmOutput` runs the command line to its flags and the flags to the files. A file that
  is made may lose what is written to it, in a write or in its `fclose` (`Losses`): the
  debug file is the only one whose writes are looked at, and its error is counted with
  the file in place; one error stands for the several the code may count. A source that
  cannot be opened again for the listing is left out of it (`Sources`).
* `PasmPath`: a name is a component and a length a number of components, which hides that
  `get_absolute` accepts a path one byte longer than its buffer.

## 3. Runs

| run | instance | what it shows |
|---|---|---|
| `acquisition` | 2 packets a message, 6 packets, any timing | signals between the processors are never forgotten (`PacketSignalKept`, `HostWakeupKept`), no turn of the host is spurious (`NoSpuriousTurn`), every signal is answered (`SignalsServed`) |
| `acquisition_timely` | 3 packets a message, 20 packets, on time | `EveryMessageAccounted`, `BuffersApart`, `WholeMessage`, and refinement of `MessageStream` with its fairness (`StreamOfMessages`) |
| `acquisition_loss` | as `acquisition` | *violated*: `LossNotified` |
| `lifecycle` | 3 starts; 20 examples | `LifeTypeOK` (registers are mapped when used), `StopsWhatItStarted`, `AnswersOwnPru`, `StartupEnds`; `EveryExamplePasses` |
| `lifecycle_restart` | 3 starts | *violated*: `BufferOfNextSecond` |
| `programs` | see the bounds | `ProgramTypeOK` (rows stay inside `params`, indices in their buffers); `SamplesFaithful` (bytes to codes); `WindowMean` and refinement of `SlidingWindow` (`SlidesOverInputs`); `MeansOfSecond`, `LogOfSeconds` (no block of raw.bin mixes seconds, whatever rows are lost); `DecompositionOfSample` (CPT); `WindowsOfSamples` (phase of what is subtracted, copies, harmonics); `DriverConsistent` (whole programs, maps of the controller, addresses) |
| `telemetry` | 2 connections, 3 messages, buffers for 2 | `RowsInOrder`, `NoGapWhenFramed`, `ThreadsEnd` |
| `telemetry_line`, `telemetry_exit` | as `telemetry` | *violated*: `InputIsLine`, `ExitStopsDaq` |
| `pasm_front` | see the bounds | a line is the text without comments, split at its separators (`LineDelivered`); conditions, files and records (`AssemblesWhatIsAsked`); equates (`LineIsExpansion`); structures (`ElementsWhereMapped`); macros (`ExpansionsFit`); nothing is left busy, in use or open, and a freed structure is used only when the pass has failed already (`NothingLeftMarked`); the loops end, but for the scan of a comment at the end of the file (`FrontReturns`) |
| `pasm_back` | see the bounds | `OperandsByGrammar`, `WordsDoInstruction`, `ImageIsProgram`, `OutputsAsAsked`, `IncludesResolved` |
| `pasm_branch` | as `pasm_back` | *violated*: `BranchReachesTarget` |

Several names are conjunctions of named parts (`LineDelivered`, `NothingLeftMarked`,
`ImageIsProgram`, `DriverConsistent`, ...); each part has its comment where it is
defined.

Why the bounds are enough:

* *acquisition*: the third message is the first that overwrites a buffer and the
  first that can be merged with an unanswered one; 6 packets reach it. On time the
  state repeats after two messages; 20 packets are six.
* *lifecycle*: a third process can inherit from one that inherited itself. Examples
  have no parameter: every interleaving of each is explored.
* *programs*, MAF: seven updates wrap a window of three twice; inputs of both signs
  and zero meet the threshold from both sides. MeterLoop: a row is one and a half
  cycles, as with 384 and 256 samples; three seconds see a failing log before, between
  and after good ones. PacketLayout: three registers a conversion, so that channels
  straddle registers in all the ways they do with six; the most negative code turns
  the sign over, and a code with three different bytes shows every exchange. CPT: one
  phase, for which the filters do not fit, and three; after the second of three
  samples everything has a predecessor. Waveform: windows of two periods of four samples,
  of every wave of signs; signatures as long as each other and half a period longer;
  copies at every offset from where none of the window is in the channel to where none is
  again. PruDriver: every sequence of calls, by one process after another, on two kinds of
  hardware and an unknown one, with settings in and out of range; files that fill the
  memory of one kind and are cut in the other, that are too long for the library, or are
  missing; a block of a word, written wherever the application may.
* *telemetry*: a restarted meter makes two threads share the file; three messages
  fill the buffers, leave a gap when one is lost, and let a first row and an appended
  one be overwritten.
* *pasm_front*: texts of up to five characters in a buffer of five (comments inside
  quotes, a continuation at the end of the file); lines of up to seven, with three
  terms of four characters; two levels of conditions, two open files and three
  records of them, two errors allowed and three reached; equates that name each other
  and themselves; six commands of structures and scopes, the beginning and the end of
  included files among them, which is enough for a file to use what the one it included
  has left open; six lines of two macros that use each other, or of files that end inside
  one. Each of these limits is met and exceeded; two errors abort a pass, 25 in the code.
* *pasm_back*: words of eight bits; texts of up to three tokens, and longer ones for
  precedence; for each family of instructions operands within and just outside what
  it accepts, on every core and byte order; programs of up to three lines of one or
  two words in an image of 15 with reach and immediates of 12, so that each limit is
  crossed; three arguments, and for each output every way it can fail; two include
  directories, of which both have the file.

`CHECK_DEADLOCK FALSE` is given where behaviours really stop: for Telemetry (an ended
logger, a meter without power) and for the assembler, which ends. The other modules
have an explicit stuttering step at their bound, so that any other deadlock would be
found.

### Fairness

* *Acquisition*: weak fairness of PRU1's signal, of PRU0, of the interrupt handler
  and of the host. PRUs execute an instruction per clock; the kernel handles an
  enabled pending interrupt; the host runs with SCHED_RR and locked memory. The
  converter owes nothing: `PRU1_Xout` has no fairness.
* *Lifecycle*: weak fairness of the rungs and of the cleanup: they are straight-line
  code of a runnable process. Every call is taken to return, with success or not;
  `connect()` does, by the kernel's own timeout.
* *Telemetry*: weak fairness of each client thread and of the server's exit (its
  `accept` has a timeout of 0.2 s). The meter and the operator owe nothing.
* *PruExamples*: weak fairness of the host program, of each PRU, of the devices and of
  UIO's interrupt handler: they run on processors of their own, or under a scheduler
  that runs them. `Prompt`: the PRUs have set up their events before the host starts
  the timer they wait for; without it PRU_timer0Interrupt can miss the timer's event
  and wait for ever, which only its timing prevents: the host calls `UTIL_waitLoop` before
  it starts the timer.
* *PasmText, PasmExpand, PasmMacro*: weak fairness of the step: a program that runs.
* The other modules: none; only safety is stated.

## 4. Findings

1. `acquisition_loss`: `lastEventN` is never assigned, so the check for lost packets
   in `main()` cannot fire. (The count would not show merged interrupts either: that
   is `NoSpuriousTurn`.)
2. `lifecycle_restart`: after the death of a process its PRUs run on. An interrupt of
   the old PRU0 between `prussdrv_pruintc_init` and the restart of PRU0 makes the new
   process read the wrong buffer for as long as it runs.
3. `telemetry_line`: the logger takes what one `recv` returns for a line; rows with a
   truncated last value, or one with `$bbb` behind it, reach the file.
4. `telemetry_exit`: `exit` does not stop the logger while a connection is silent.
5. `pasm_branch`: a quick branch that is the first instruction of a program without
   `.origin` or label before it is encoded nine words too far: `GetJmpOffset` computes
   from `CodeOffset` = -1 before `ValidateOffset` sets the default origin of 8.

Met while modelling, without a run: the head of `AnalogCore.c` draws the status word
at the end of a packet, PRU1 puts the marker 0xDEADBEEF at its beginning (the comment
in `ConvertRawValues` agrees with PRU1); and when `prussdrv_open` fails, the cleanup
halts PRU1 through a control register that was never mapped (`StopPru1`). A send on a
connection the logger has reset ends the meter by SIGPIPE before "Send failed" can be
printed (`SendData` of MeterLoop), which leads to finding 2. `CPT.c` keeps the
square of a phase's unbalanced currents where a mean current is meant (the collective
ones are averaged and rooted), so that `Na`, `Nr`, `N` and `NF` of a phase have no
power's unit; main() uses none of them, and `DecompositionOfSample` names them as its
exception (`Unrooted`). `CPT_Config` with
fewer than three phases initialises filters through a null pointer; main() has three. A `.struct`
that a file leaves open is freed between the passes and stays current; when the file is
included by one that goes on with elements or `.ends`, pass 2 writes to the freed record,
after an error, so that no image comes of it (`freedUsed`). The debug file is the only
output whose writes are looked at: any other that could not be written in full is a
success (`Losses`). `prussdrv_exec_program_at` compares the length of a file with 8 KB on
hardware with 4 KB of program memory, and `prussdrv_pruintc_init` refuses an event out of
range after it has written the maps.

## 5. Proofs

All theorems are for every value of the constants, from the named assumptions of the
modules only (`AcquisitionAssumption`, `MAFAssumption`, `LifecycleAssumption`,
`RatesAssumption`, `PPAssumption`, `TelemetryAssumption`, `LayoutAssumption`,
`WaveformAssumption`, `WindowAssumption`, `DriverAssumption`, `OutputAssumption`, `PasmAssumption`,
`StructAssumption`, `MacroAssumption`, `ExpandAssumption`, `OpAssumption`), which TLC
evaluates in the runs of those modules. Those of the layout, the waveforms, the driver
and the outputs say: a conversion fills whole registers, the radix of a byte is even and
codes are those of three bytes; the samples of a second are a whole number of cycles,
and there are coefficients for every harmonic computed (10 of 256 points in `Board.h`);
waveforms are signs and offsets integers; blocks handed to the library are not empty;
settings of the interrupt controller name each event and each channel once, and give
each channel that is used a host (as `PRUSS_INTC_INITDATA` and the examples do); an
argument is a file's name or a sequence of flags, and every word of an image that was
written comes from a line of a source file; an instruction is one of the opcodes of
`OpText` with any operands. `CPT` and `PasmPath` need none.

**Acquisition** (`AcquisitionProofs`). Three layers, each resting on the one before.
`Positions` (PRU0's counter and DDR pointer move together) makes the types inductive:
`TypeCorrect` says that PRU0 and the host stay inside the buffers whatever the timing.
`EventPath` (where an interrupt can be between INTC and host: the count is ahead by at
most one, and then the interrupt is disabled and the event pending) gives
`HostWakeupAlwaysKept` and, with `OwedBound`, `NoTurnIsSpurious`.
`PacketSignalAlwaysKept` is inductive as it stands. `ChainInv` adds what holds on
time: `PacketLink` (which packet is in the scratch pad and in the registers),
`DdrContents` (what each slot of DDR holds, by message), `HostPhase`, `HostData` (what
has been copied so far) and `Owed` (announced messages not yet taken: at most two).
`BuffersApart` and `WholeMessage` are not inductive: they need to know how far PRU0
can be ahead, which is `Owed`. From it: `MessagesAccounted`, `BuffersStayApart`,
`MessagesWhole`, and `ImplementsStream`: every step on time is a step of
`MessageStream` or a stutter.

**Lifecycle** (`DriverProofs`). `RegistersMapped` (types, and `Mapped`: the rungs
that use registers are reached through a successful `prussdrv_open`), `ExitLeavesNoPru` from `Owns` (which rungs may have
a PRU of the current process running) and `AnswersOnlyItsPru` from `Clean` (in a clean
process, whose events may be pending at which rung).

**MeterLoop** (`MeterLoopProofs`). `RowsStayInside`, `SendsMeansOfSecond`,
`LogHoldsSeconds` (whichever rows each write loses), from `MeterInv`: `m` and `head` are remainder and quotient of `idx`
by the cycle, `n` and `offset` by the row, and everything below `head` and `offset`
belongs to this second. The proof uses only that the divisions are exact, so it holds
for 15360, 60 and 40.

**PasmPP** (`PasmPPProofs`). `PreprocessorDoesWhatIsAsked`: for every depth of
conditions, number of open files and records, error limit and text. The code keeps
one flag for the innermost condition and a counter for the conditions inside a false
part. `FlagsAddUp` says what that flag is, at every level, in terms of the conditions
themselves, and that a level inside a false part is never a taken one; `Stacks` ties
the files on the stack to the depth each of them was entered at (a file that ends
inside a condition is an error, and the depth is restored); `Owned` says that a file's
record is in use and its own, which makes `RecordIsFree`, the search for a record to
reuse, safe; `LateLines` counts the lines after the error limit against the files
still open. Each kind of line has a lemma for its effect on the flags, on the files
and on the errors; `ReadOn`, `Leave`, `Enter`, `OpenMain` and `BeginPass` are the five
ways the stack of files changes.

**Telemetry** (`TelemetryProofs`). `RowsStayInOrder` and `TypesKept`, for any number of
connections and messages, any sizes of `recv` and of the socket buffers, and any way
TCP cuts the stream. `WireOrdered` (the pieces on a wire are in the order they were
sent) is not enough: an input that glues two messages is of the first of them, and
nothing on the wire may begin that message, or an older one, again. That is
`Received`; it holds because an input that does not begin with the first piece of a
message is not understood. `InputNewer` relates the input a thread holds to the rows
of its connection, and says that a thread that has truncated the file has no row in it,
which makes writing over the rows of others (`Remains`) safe for its own order.
`NoGapInFramedRows`: while every `recv` returns one message, rows of a connection have
no gap. `FramedInv` says why: the pieces on a wire are then consecutive and whole
(`WireWhole`), and what the thread holds, or else what is on the wire, begins with the
message after the newest row (`TakenInTurn`). As soon as one `recv` has split a message
the invariant promises nothing more, and finding the gap is the other run's.

**PacketLayout and Waveform** (`SignalProofs`). `SamplesArrive` (and `LayoutTypes`): for
every number of channels, samples and packets, any even radix and every code. A code
has three lives, and `LayoutInv` has a conjunct for each: its bytes in PRU1's registers
(`InRegs`), in the packets in DDR (`InRam`), its value in the host's buffers
(`InBuffers`); `Counted` says by position which code it is. `RoundTrip` is the arithmetic
of shifting the three bytes up and back with the sign; `Addresses` and
`DistinctAddresses` say that PRU1, counting registers, and the host, counting bytes, mean
the same place, that no two bytes share one and that none lies in the status word, which
the mark overwrites.
`WindowsKept`: for every length of windows, cycles and seconds, any integer as offset and
every waveform. What matters of `FindZero` is not which index it returns but that it is at
the same place of the wave in both signatures, since the samples from there on are
subtracted. `SearchInv` says what its two loops have passed, and `Scanned` what they leave:
negative samples, then positive ones, up to one that is neither. `EndsFalling`: in a
periodic wave that comes down once a period the search ends where it does, unless it
stopped on a sample of exactly 0 on the way up (`StoppedRising`). `ZerosOfWave`: so two
searches in one wave, one of them shifted, end a shift and whole periods apart, which is
`SamePhase`; it also says when the code loses the phase, at the end of signatures whose
lengths do not differ by whole waves. `CopyAround` says for which offsets a copy lies
within the channel and for which it does not; the code does not look. `HarmonicsInv` says
of every channel how many cycles are done and that each is of its own samples, scaled once;
`Bins` that rounding to the nearest bin changes nothing.

**MAF** (`SignalProofs`). `MeanIsOfWindow` (and `FilterTypes`). `SlotContents` says which
input each slot holds, relative to the lap around the buffer: it is what makes the value
that `Update` subtracts the one that leaves the window. `FilterSlides`: `MAF` implements
`SlidingWindow`, whose mean is the sum of its inputs added up anew. For that the
accumulator has to be the total of the window in the order of the window, for any length
(`SumIsTotal`). The total is a recursive function; `TotalIs` compares two solutions of its
equation at the least index where they differ, and `WindowHolds` gives what is in the
window through `SlotContents`.

**CPT** (`SignalProofs`). `SampleDecomposed`: `DecompositionOfSample` for any number of
samples. The invariant `CPTInv` says after which of the six functions of `CPT_Update` each
value is of this sample, with which unit and of which phases (`ValuesInv`: until its
function has run, nothing is promised of a value, so the proof fails if a function reads
what a later one writes), which filters the sample has been fed to (`FedTo`, `Fed`: no
filter twice, none with values of two kinds), and that buffers are apart (numbers
`9 * phase + filter` do not meet). `Products`, `Quotients`, `Sums`, `Squares` and `Roots`
are the formulas of `CPT.c`.

**PruDriver** (`DriverProofs`). `LibraryConsistent`, for any settings, files, blocks and
processes and every sequence of calls. `DriverConsistent` is far from inductive: what the
registers are worth depends on the stores the call under way has still to make, which may
be cut short after any of them. So `DrvInv` speaks about `todo`: `ProgramInv` says what a
call may be doing to programs (`Doing`): nothing; patching one, or enabling a PRU, by hand;
or one of the three stores of `prussdrv_exec_program_at`, of which the first has disabled
the PRU. What is whole is a file or a block as far as the memory holds it (`Held`).
`MapInv` says what the maps *will be* when all stores have been made (`WillBe`: the entry
has its value now, or a store on the way gives it, and no later one takes it away), for the
settings asked for last whether they are accepted or not; each store brings this one step
closer. `CopyInv` says that the process's copy is of settings that were
accepted, and only made by the last store. `Placed` lists the stores of
`prussdrv_pruintc_init` for lists of any length. `WindowsInv` is what the translations of
addresses need (`AddressesInv`), and that a process in the middle of a call has its
windows. Unknown hardware needs care: every base then is that of the first data memory,
and no PRU is ever enabled.

**PasmOutput** (`PasmProofs`). `OutputsTold`: for every command line and every image,
number of labels and set of source files the passes can leave, whatever fails of opening,
writing and closing the outputs and of opening sources again. `CoreInv` reads the flags
read so far: at most one names a core, which the recursion over the letters of an argument
keeps (`FlagsTold`). `FilesInv` compares the files written with the options before the
output at hand: as long as there is no error they are the same, and from then on one of
them is missing or the debug file is short, which is what the exit code tells.
`ContentsRight` makes each file speak of the image as it is and of sources that were found;
what follows is of files of which nothing was lost (`Complete`). What the files say is arithmetic over intervals: the sections
of the debug file meet without gap or overlap (`SectionsMeet`, from `ThreeRuns`), and the
listing shows at each line the words that come from it, and counts them (`WordsShown`,
`WordsCounted`).

**Pasm** (`PasmProofs`). `ImageAssembled`: for every set of lines, length of text, core
and limit of `ProgramImage`. That a branch of the second pass goes where its label is needs
both passes at once. `FirstPassInv` says that each label is noted at the offset its line
had in the first pass; `SecondPassInv` that the words below the current offset are there,
in order, each right for its line, and that unless `moved` the offsets are those of the
first pass, so that a label means the same place in both. Which words a line adds, and
what else it changes, is the same question for every command: `Adds`, `Writes` and `Does`
answer it once (`LineDoes`), `EngineOk` says what the engine keeps between lines.
Assumed of the lines: a known command, integers as operands, a natural as the number of
the register of `.setcallreg` (`PasmAssumption`).

**PasmPath** (`PasmProofs`). `IncludesFound`: for any directories, names, files and limits.
`PathInv` adds the types and that directories come before files: once a file is open,
no directory is added, so that the one an include was found in stays the first that has
it; a record is in use while its file is open, and one in use is not taken again, so that
each open file has its record to itself; a record that is taken again is taken for the
same path (`RecordsKeepTheirFile`).

**PasmOp** (`PasmOpProofs`). `WordsSaid`: for every instruction and any operands, each
core and byte order, and any place in the program. The model assembles an instruction in
one step, so the invariant (`OpInv`) only says that what is assembled is `Done`; the work
is in what a word says. A word is a union of pieces. Each piece lies in bits of its own
(`Pieces`, `FourPieces`, `Holds`), and a number of at most 16 bits is the number of its
bits (`NumberOfBits`), so that what the core reads from a range of bits is what was put
there (`ArithmeticSays` and its like for the other forms of word), and the top seven bits
tell the operations apart (`OperationIs`). What the getters build of an operand is what
the operand says (`RegSays`, `OperandSays`): a register's fields narrow it step by step and
stay within it (`Within`). Then one lemma for each family of instructions (`AluRight` to
`MviRight`). A distance is read back modulo 1024, from either end of its range. For `ZERO`
the moves are a recursive function: what it builds clears the bytes it is asked to
(`ZeroMovesClear`), since the least number of bytes for which it did not would follow from
a smaller one. Proving it showed two guards of the `CASE` in `ProcessMove` that
overlapped; the model now has them exclusive, as the code's early return does.

**PasmStruct** (`PasmPPProofs`). `LayoutsAgree` and `PointersAlive`, for every text,
number of elements and both byte orders. `StructInv` has one conjunct for each question.
`LayoutsRight`: the elements of a structure lie one behind the other (`Packed`), and those
of an assignment are aligned, in the registers `GetRegname` gives for their offsets, up to
the end that was asked for (`AssignRight`). `BytesOfField` and `FieldIsInterval` turn a
field of a register to an interval of bytes in either byte order, so that offsets and
registers can be compared; `AnswerRight` says of which assignment an answer is, and
`ValueMatches` compares it. `ScopeCurrentOpen` rests on the walk of `ScopeClose` to an open
scope: parents are older than their scopes (`Nested`), so it ends (`WalkExists`,
`FirstOpenIs`). `StructsAlive` is about the pointer that `StructCleanup` leaves behind:
when pass 1 ends inside a structure, its text opened a structure before it used one
(`OpensFirst`), so pass 2 meets that `.struct`, where it fails, before any `.ends` or
element (`StructOpened`). With the file that goes on after that, the freed record may be
used, but never before there is an error (`FreedUsedInVain`). Assumed of the commands: the two ends
of `.assign` are what `GetRegister` accepts, elements are of 1, 2 or 4 bytes.

**PasmMacro** (`PasmPPProofs`). `ExpansionsAgree` (with `ArgumentsFound` and
`LabelsOfTheirOwn`, its parts) and `InUseRightly`, for every text and every limit.
`MacrosFit` is about the macros, those held by a definition that goes on in one of the
open files or was cut off by the end of its file (`MacrosHeld`, `FilesRight`), the stack of
expansions and the labels made. `InUseRight` makes two activations have two macros; `MacroRight` (required
arguments first) and `ArgumentsRight` find the arguments. That the labels of two
expansions differ needs to know where each comes from: `LabelsPlaced` says that a label
was handed down from another expansion (`Handed`) or stands on a line of its macro that an
expansion still going on has behind it (`Placed`), so that the line at hand makes a new one,
unless the body has the label twice (`LabelFits`). The first form of `LocalLabelsDiffer`
did not except labels that a body passes to another macro, which may use its argument as
a label: TLC finds the counterexample with a text of nine lines, beyond the bound of the
run, and `PassedOn` is now the second exception. That pass 2, which creates no label, comes
to the labels of pass 1 is shown by replay: `After` is what follows a state without an
error, as a function of the state and the text; pass 1 leaves the sequence of its states
behind (`Run`), and pass 2, which checks less on the way, walks along it (`ReplayInv`), to
its end or to an error. Assumed of the lines: a label is a name, a `.macro` has one, an
`.mparam` names its argument (`MacroAssumption`).

**PasmExpand** (`PasmPPProofs`). `BusyRightly`: for every line, and whatever the texts of
the equates, an equate is busy exactly while one activation of `ParseSource` reads its
text. `ExpandInv` says of the stack of activations that the first one, the line's, has no
equate and every other one has its own (`OwnersRight`): a new one begins only with an
equate that is not busy (`CallBegins`), and whichever way an activation ends, it frees
its own and no other (`CallEnds`). `CallRight` keeps an activation inside its text and its
word buffer, which gives `ExpandTypes`. With `InUseRightly` and `PointersAlive` this is
`NothingStaysMarked`: all of `NothingLeftMarked`. The recursive function that says what
an expansion delivers is in `PasmExpansion`, which only TLC's run reaches. Assumed: lines
and texts of equates are sequences of characters (`ExpandAssumption`).

Only model-checked: liveness (`SignalsServed`, `StartupEnds`, `ThreadsEnd`,
`FrontReturns`, the end of the examples, the fairness part of `StreamOfMessages`),
which is out of the prover's reach; what recursive definitions compute, which is induction
over data: `OperandsByGrammar` (expressions), `LineIsExpansion` (texts of equates),
`LineDelivered` (comments and the splitting of lines). The type invariants
`ProgramTypeOK` and `FrontTypeOK` are conjunctions of those of their modules, of which
`FilterTypes`, `RowsStayInside`, `LayoutTypes` and `ExpandTypes` are proved.

## 6. Not modelled

* Time: no deadline is proved to be met; that needs the cycle counts of the PRUs and
  the host's load. What follows from meeting them is proved.
* Floating point: magnitudes in `CPT.c`, the recurrence of `Goertzel.c`, the rounding
  of `MAF.c`. `CalculateAll` and `CalculateOffset`, which nothing calls.
* SPI at the level of bits, the commands to the converter, the board's set-up: pure
  I/O against hardware that is not in the repository. The kernel.
* What a write through a dangling or wild pointer does to other data: a freed structure in
  the assembler, windows outside a channel, a scratch buffer that is a byte short. That it
  happens, and when, is modelled.
* `SaveWaveform` and the formats of the assembler's outputs: text.
* The `esp` boards of `datalogger.py`: nothing in this repository speaks as one.
* Rows of raw.bin that are written in part, which shift all later ones, and
  `convert_raw.py`, which reads them. (Rows that are missing are modelled.)
* `testes-c/rb_file.c`: an experiment with a library that is not in the repository.

## 7. Plan

1. (done) Acquisition, MessageStream and their proofs; MAF; Lifecycle; MeterLoop;
   PacketLayout; Telemetry.
2. (done) CPT, Waveform, PruDriver, PruExamples; the assembler; PasmPPProofs;
   TelemetryProofs, SignalProofs, DriverProofs, PasmProofs, PasmOpProofs.
3. (done) Proofs about PacketLayout, Waveform, MAF, CPT, PruDriver, PasmOutput, Pasm,
   PasmStruct, PasmMacro, PasmExpand, PasmPath and PasmOp.
4. Compose MeterLoop with Acquisition: a blocked `send()` makes the host late; which
   seconds reach raw.bin and the wire then.
5. raw.bin across crashes and `convert_raw.py`: partial blocks, time stamps of blocks
   after a dropped second.
