---------------------------- MODULE PruExamples ----------------------------
(***************************************************************************)
(* The example programs of the PRU package: a host program (the ARM under  *)
(* Linux, or the DSP of the older examples) loads programs into the PRUs,  *)
(* starts them, waits and looks at what they left in memory.               *)
(*                                                                         *)
(* A program is a sequence of the instructions that change what another    *)
(* processor sees: memory, events, interrupt lines, devices.  An area of   *)
(* memory that is moved as a whole is one cell, named by its region and    *)
(* byte offset and holding the sequence of its numbers; the 32-bit patterns*)
(* of the examples that only must arrive are the numbers 1, 2, 3.  The DSP *)
(* library (PRU_load, PRU_run, ...) is not in the repository.              *)
(***************************************************************************)
EXTENDS Integers, Sequences, TLC

CONSTANTS Examples,     \* the examples that are run
          Prompt        \* the PRUs set up their events before a timer starts

VARIABLES example,
          at,           \* next instruction of "host", "pru0", "pru1"; 0: stopped
          mem,          \* cells written so far
          raised,       \* events pending in the INTC
          line,         \* enabled events and their host interrupts
          masked,       \* host interrupts UIO has disabled
          jobs,         \* what timer, EDMA and PSC still have to do
          dsp,          \* interrupt of the DSP: "off", "armed", "pending"
          fault,        \* first call that failed, or "none"
          verdict       \* what the host printed

exVars == <<example, at, mem, raised, line, masked, jobs, dsp, fault, verdict>>

-----------------------------------------------------------------------------
(* Instructions                                                            *)

Cell(region, offset) == <<region, offset>>
Index(region, i) == Cell(region, 4 * i)              \* Uint32 pointer + i
Reg(name) == Cell(name, 0)
Constant(region, p, o) == Cell(region, 256 * p + o)  \* CTPPR entry p, offset o
Flag == Reg("host")         \* tmrIntReceived, edmaIntReceived, ...

Put(a, v) == [op |-> "put", a |-> a, v |-> v]
Calc(a, f, from) == [op |-> "calc", a |-> a, f |-> f, from |-> from]
Move(a, b) == Calc(a, "same", <<b>>)
If(a, v, to) == [op |-> "if", a |-> a, v |-> v, to |-> to]
Jump(to) == If(Reg("nowhere"), <<>>, to)
Spin(a, v) == [op |-> "spin", a |-> a, v |-> v]
Raise(e) == [op |-> "raise", e |-> e]
Clear(e) == [op |-> "clear", e |-> e]
Off == 99
Enable(e, h) == [op |-> "enable", e |-> e, h |-> h]
Bit(h) == [op |-> "bit", h |-> h]
Job(j) == [op |-> "job", j |-> j]
Run(n) == [op |-> "run", n |-> n]
Halted(n) == [op |-> "halted", n |-> n]
Open(h) == [op |-> "open", h |-> h]
MapDDR(puts) == [op |-> "map", puts |-> puts]
Exec(n) == [op |-> "exec", n |-> n]
Await(h) == [op |-> "await", h |-> h]
Ack(h, e) == [op |-> "ack", h |-> h, e |-> e]
Check(f) == [op |-> "check", f |-> f]
Equal(f) == [op |-> "equal", f |-> f]
Reset == [op |-> "reset"]
Vector == [op |-> "vector"]
StopTimer == [op |-> "stop"]

PruDone == 19                   \* PRU0_ARM_INTERRUPT; 20 for PRU1

(* main() of the older examples: PRU_disable, PRU_load, LOCAL_exampleInit, *)
(* PRU_run, PRU_waitForHalt, LOCAL_examplePassed, PRU_disable.             *)
DspMain(init, passed) ==
    <<Reset>> \o init \o <<Run("pru0"), Halted("pru0")>> \o passed \o <<Reset>>

(* main() of the newer ones: prussdrv_open, prussdrv_pruintc_init,         *)
(* LOCAL_exampleInit, prussdrv_exec_program, prussdrv_pru_wait_event,      *)
(* prussdrv_pru_clear_event, LOCAL_examplePassed, prussdrv_pru_disable.    *)
Intc == <<Enable(17, 1), Enable(18, 0), Enable(19, 2), Enable(20, 3)>>
ArmMain(opens, init, execs, waits, passed) ==
    opens \o Intc \o init \o execs \o waits \o passed \o <<Reset>>

Only(p) == [pru0 |-> p, pru1 |-> <<>>]

-----------------------------------------------------------------------------
(* The newer examples                                                      *)

PRU_memAccessPRUDataRam_c ==
    ArmMain(<<Open(2)>>,
            <<Put(Index("pru0", 1), <<0>>), Put(Index("pru0", 2), <<0>>)>>,
            <<Exec("pru0")>>, <<Await(2), Ack(2, 19)>>,
            <<Check({<<Index("pru0", 1), <<1110034>>>>,
                     <<Index("pru0", 2), <<1110034 + 22138>>>>})>>)
PRU_memAccessPRUDataRam_p ==
    Only(<<Put(Cell("pru0", 4), <<1110034>>), Put(Reg("r3"), <<22138>>),
           Calc(Cell("pru0", 8), "sum", <<Reg("r3"), Cell("pru0", 4)>>),
           Raise(PruDone)>>)

PRU_memAcc_DDR_sharedRAM_c ==
    ArmMain(<<Open(2)>>, <<MapDDR(1), Put(Cell("DDR", 4096), <<1, 2, 3>>)>>,
            <<Exec("pru0")>>, <<Await(2), Ack(2, 19)>>,
            <<Check({<<Index("shared", 2048), <<1, 2, 3>>>>})>>)
PRU_memAcc_DDR_sharedRAM_p ==
    Only(<<Move(Constant("shared", 32, 0), Constant("DDR", 16, 0)),
           Raise(PruDone)>>)

PRU_PRUtoPRU_Interrupt_c ==
    ArmMain(<<Open(2), Open(3)>>,
            <<MapDDR(2), Put(Cell("DDR", 0), <<0>>), Put(Cell("DDR", 4), <<0>>)>>,
            <<Exec("pru0"), Exec("pru1")>>,
            <<Await(2), Ack(2, 19), Await(3), Ack(3, 20)>>,
            <<Check({<<Cell("DDR", 0), <<10>>>>, <<Cell("DDR", 4), <<11>>>>})>>)
PRU_PRU0toPRU1_Interrupt_p ==
    <<Raise(17), Bit(0), Put(Cell("DDR", 4), <<11>>), Clear(18), Raise(19)>>
PRU_PRU1toPRU0_Interrupt_p ==
    <<Bit(1), Clear(17), Put(Cell("DDR", 0), <<10>>), Raise(18), Raise(20)>>
PRU_PRUtoPRU_Interrupt_p ==
    [pru0 |-> PRU_PRU0toPRU1_Interrupt_p, pru1 |-> PRU_PRU1toPRU0_Interrupt_p]

(* The PRU waits for the timer of its own subsystem; nothing is examined.  *)
PRU_industrialEthernetTimer_c ==
    ArmMain(<<Open(3)>>, <<Put(Cell("shared", 0), <<2000>>)>>,
            <<Exec("pru1")>>, <<Await(3), Ack(3, 20)>>, <<Check({})>>)
PRU_industrialEthernetTimer_p ==
    [pru0 |-> <<>>,
     pru1 |-> <<Move(Reg("r0"), Cell("shared", 0)), Put(Reg("passed"), <<0>>),
                Job([job |-> "iep", to |-> Reg("passed"), v |-> <<1>>]),
                Spin(Reg("passed"), <<0>>), Raise(20)>>]

-----------------------------------------------------------------------------
(* The older examples: memory                                              *)

old_memAccessPRUDataRam_c ==
    DspMain(<<Put(Index("pru0", 1), <<0>>), Put(Index("pru0", 2), <<0>>)>>,
            <<Check({<<Index("pru0", 1), <<1110034>>>>,
                     <<Index("pru0", 2), <<1110034 + 22138>>>>})>>)
old_memAccessPRUDataRam_p ==
    Only(<<Put(Cell("pru0", 4), <<1110034>>), Put(Reg("r3"), <<22138>>),
           Calc(Cell("pru0", 8), "sum", <<Reg("r3"), Cell("pru0", 4)>>)>>)

PRU_multiply_c ==
    DspMain(<<Put(Index("pru0", 0), <<256>>), Put(Index("pru0", 1), <<426>>),
              Put(Index("pru0", 2), <<>>)>>,
            <<Check({<<Index("pru0", 2), <<256 * 426>>>>})>>)
PRU_multiply_p ==
    Only(<<Calc(Cell("pru0", 8), "product", <<Cell("pru0", 0), Cell("pru0", 4)>>)>>)

PRU_memAccessL3andDDR_c ==
    DspMain(<<Put(Index("DDR", 1024), <<1, 2, 3>>)>>,
            <<Check({<<Index("L3", 2048), <<1, 2, 3>>>>})>>)
PRU_memAccessL3andDDR_p ==
    Only(<<Move(Constant("L3", 32, 0), Constant("DDR", 16, 0))>>)

(* The same program runs first on PRU0, then on PRU1. *)
PRU_memAccessL2_c ==
    LET round(n) == <<Reset, Put(Index("L2", 3), <<0, 0, 0>>), Run(n), Halted(n),
                      Check({<<Index("L2", 3), <<1, 2, 3>>>>})>>
    IN  round("pru0") \o round("pru1") \o <<Reset>>
PRU_memAccessL2_p ==
    LET p == <<Put(Constant("L2", 0, 12), <<1, 2, 3>>)>>
    IN  [pru0 |-> p, pru1 |-> p]

(* The power-up of the HPI comes before; result_2 = result_3 compares the  *)
(* register with the copy the PRU has made of it.                          *)
PRU_access_const_table_c ==
    DspMain(<<Put(Index("DDR", 0), <<1>>), Put(Cell("HPI", 48), <<5>>)>>,
            <<Check({<<Index("HPI", 1), <<1>>>>, <<Index("DDR", 1), <<5>>>>})>>)
PRU_access_const_table_p ==
    Only(<<Move(Cell("HPI", 4), Constant("DDR", 0, 0)),
           Move(Constant("DDR", 0, 4), Cell("HPI", 48))>>)

(* 32 bytes are one block of the PRU's copy loop. *)
PRU_mem1DTransfer_c ==
    DspMain(<<Put(Index("pru0", 2), <<32>>), Put(Reg("src"), <<7>>), Put(Reg("dst"), <<255>>)>>,
            <<Check({<<Index("pru0", 2), <<0>>>>, <<Reg("dst"), <<7>>>>})>>)
PRU_mem1DTransfer_p ==
    Only(<<If(Cell("pru0", 8), <<0>>, 6),
           Move(Reg("dst"), Reg("src")),
           Calc(Cell("pru0", 8), "less 32", <<Cell("pru0", 8)>>),
           If(Cell("pru0", 8), <<0>>, 6),
           Jump(2)>>)

(* Extract, sort and threshold eight 4-bit numbers.                        *)
PRU_miscOperations_c ==
    DspMain(<<Put(Index("L3", 0), <<266034162>>)>>,
            <<Calc(Reg("expected"), "nibbles", <<Index("L3", 0)>>),
              Calc(Reg("sorted"), "bubble sort", <<Reg("expected")>>),
              Calc(Reg("ones"), "above 8", <<Reg("sorted")>>),
              Equal({<<Cell("pru1", 0), Reg("expected")>>, <<Cell("DDR", 0), Reg("sorted")>>,
                     <<Cell("pru0", 0), Reg("ones")>>})>>)
PRU_miscOperations_p ==
    Only(<<Calc(Cell("pru1", 0), "nibbles", <<Cell("L3", 0)>>),
           Move(Cell("DDR", 0), Cell("pru1", 0)),
           Calc(Cell("DDR", 0), "bubble sort", <<Cell("DDR", 0)>>),
           Calc(Cell("pru0", 0), "from 8", <<Cell("DDR", 0)>>)>>)

(* Pins 0 to 7 are set and cleared in turn; nothing is examined. *)
PRU_gpioToggle_c == DspMain(<<>>, <<Check({})>>)
PRU_gpioToggle_p ==
    Only(<<Put(Reg("r30"), <<>>), Calc(Reg("r30"), "next pin", <<Reg("r30")>>),
           If(Reg("r30"), <<0, 1, 2, 3, 4, 5, 6, 7>>, 5), Jump(2)>>)

(* DSP and PRU copy from L2 to DDR in turn, each a longer block; the cells *)
(* are sharedMem[0..4] and the number of bytes copied without a gap.       *)
Shared(i) == Index("L3", i)
Block(size) == <<Calc(Reg("copied"), "append", <<Reg("copied"), Shared(2), Shared(3), size>>),
                 Calc(Shared(2), "sum", <<Shared(2), size>>),
                 Calc(Shared(3), "sum", <<Shared(3), size>>)>>
PRU_semaphore_c ==
    LET copy == 16
        done == 22
    IN  <<Reset, Put(Shared(0), <<1>>), Put(Shared(1), <<4>>), Put(Shared(2), <<0>>),
          Put(Shared(3), <<4>>), Put(Shared(4), <<0>>), Put(Reg("copied"), <<0>>),
          If(Shared(4), <<1>>, done),
          Calc(Reg("size"), "grown below 70", <<Shared(1)>>),
          Calc(Shared(4), "or from 70", <<Shared(4), Shared(1)>>),
          If(Shared(0), <<0>>, copy),
          Run("pru0"), Halted("pru0"), Reset, Jump(8)>>
        \o Block(Reg("size"))
        \o <<Put(Shared(0), <<1>>), Move(Shared(1), Reg("size")), Jump(8),
             Check({<<Shared(4), <<1>>>>}), Reset>>
PRU_semaphore_p ==
    Only(<<Spin(Shared(0), <<0>>)>> \o Block(Shared(1))
         \o <<Calc(Shared(1), "plus 10", <<Shared(1)>>), Put(Shared(0), <<0>>)>>)

-----------------------------------------------------------------------------
(* The older examples: events and devices                                  *)

(* Slip: the results are looked at when PRU1 has halted. *)
Early_old_PRUtoPRU_Interrupt_c ==
    <<Reset, Put(Index("DDR", 0), <<0>>), Put(Index("DDR", 1), <<0>>),
      Run("pru1"), Run("pru0"), Halted("pru1"),
      Check({<<Index("DDR", 0), <<10>>>>, <<Index("DDR", 1), <<11>>>>}), Reset>>
(* PRU0 raises event 32 and waits for 33, PRU1 the other way round; each   *)
(* maps and enables the event it raises.                                   *)
old_PRUtoPRU_Interrupt_c ==
    <<Reset, Put(Index("DDR", 0), <<0>>), Put(Index("DDR", 1), <<0>>),
      Run("pru1"), Run("pru0"), Halted("pru0"), Halted("pru1"),
      Check({<<Index("DDR", 0), <<10>>>>, <<Index("DDR", 1), <<11>>>>}), Reset>>
old_PRU0toPRU1_Interrupt_p ==
    <<Clear(32), Enable(32, 0), Raise(32), Bit(1), Put(Cell("DDR", 4), <<11>>), Clear(33)>>
old_PRU1toPRU0_Interrupt_p ==
    <<Bit(0), Clear(32), Put(Cell("DDR", 0), <<10>>), Clear(33), Enable(33, 1), Raise(33)>>
old_PRUtoPRU_Interrupt_p ==
    [pru0 |-> old_PRU0toPRU1_Interrupt_p, pru1 |-> old_PRU1toPRU0_Interrupt_p]

(* LOCAL_examplePassed waits for the interrupt and returns TRUE whatever   *)
(* it finds in memory.                                                     *)
PRU_PRUtoDSP_Interrupt_c ==
    DspMain(<<Put(Flag, <<0>>), Vector>>, <<Spin(Flag, <<0>>), Check({})>>)
PRU_PRUtoDSP_Interrupt_p ==
    Only(<<Put(Cell("DDR", 4), <<1>>), Clear(32), Enable(32, 2), Raise(32),
           Put(Cell("DDR", 4), <<32>>), Put(Cell("DDR", 4), <<11>>), Clear(32)>>)

(* The DSP is meant to interrupt the PRU after its own timer interrupt,    *)
(* but the PRU raises event 32 itself, and stops that timer.               *)
PRU_DSPtoPRU_Interrupt_c ==
    <<Reset, Clear(32), Put(Index("DDR", 0), <<10>>), Put(Flag, <<0>>),
      Run("pru0"), Vector, Job([job |-> "timer", to |-> "dsp"]),
      Spin(Flag, <<0>>), Raise(32), Halted("pru0"),
      Check({<<Index("DDR", 0), <<9>>>>}), Reset>>
PRU_DSPtoPRU_Interrupt_p ==
    Only(<<Clear(32), Enable(32, 0), Raise(32), Bit(0), Clear(32), Enable(32, Off), StopTimer,
           Calc(Constant("DDR", 0, 0), "less 1", <<Constant("DDR", 0, 0)>>)>>)

PRU_timer0Config_c ==
    <<Reset, Put(Flag, <<0>>), Vector, Run("pru0"), Halted("pru0"),
      Spin(Flag, <<0>>), Check({})>>
PRU_timer0Config_p == Only(<<Job([job |-> "timer", to |-> "dsp"])>>)

(* The PRU clears every event when it sets up its own: the timer must not  *)
(* have expired by then.                                                   *)
PRU_timer0Interrupt_c ==
    <<Reset, Put(Index("pru0", 0), <<255>>), Run("pru0"),
      Job([job |-> "timer", to |-> "pru"]), Halted("pru0"),
      Spin(Index("pru0", 0), <<255>>), Check({})>>
PRU_timer0Interrupt_p ==
    Only(<<Clear(3), Enable(3, 0), Bit(0), Clear(3), Put(Cell("pru0", 0), <<0>>)>>)

(* One cell stands for the 256 random bytes. *)
PRU_edmaConfig_c ==
    <<Reset, Put(Reg("src"), <<7>>), Put(Reg("dst"), <<0>>), Put(Flag, <<0>>), Vector,
      Run("pru0"), Spin(Flag, <<0>>), Halted("pru0"),
      Check({<<Reg("dst"), <<7>>>>}), Reset>>
PRU_edmaConfig_p == Only(<<Job([job |-> "edma", to |-> Reg("dst"), v |-> <<7>>])>>)

(* States of the power and sleep controllers: 1 reset, 3 enabled; the PRU  *)
(* turns four modules over and waits for each.                             *)
Modules == <<"UART0", "SPI0", "I2C1", "SPI1">>
PRU_pscConfig_c ==
    DspMain([i \in 1 .. 4 |-> Put(Reg(Modules[i]), IF i % 2 = 1 THEN <<1>> ELSE <<3>>)],
            <<Check({<<Reg(Modules[i]), IF i % 2 = 1 THEN <<3>> ELSE <<1>>>> : i \in 1 .. 4})>>)
PRU_pscConfig_p ==
    LET state(i) == IF i % 2 = 1 THEN <<3>> ELSE <<1>>
        Turn(i) == <<If(Reg(Modules[i]), state(i), 3 * i + 1),
                     Job([job |-> "psc", to |-> Reg(Modules[i]), v |-> state(i)]),
                     Spin(Reg(Modules[i]), <<4 - state(i)[1]>>)>>
    IN  Only(Turn(1) \o Turn(2) \o Turn(3) \o Turn(4))

-----------------------------------------------------------------------------
Program(host, pru) == [host |-> host, pru0 |-> pru.pru0, pru1 |-> pru.pru1]
Programs ==
    [memAccessPRUDataRam |-> Program(PRU_memAccessPRUDataRam_c, PRU_memAccessPRUDataRam_p),
     memAcc_DDR_sharedRAM |-> Program(PRU_memAcc_DDR_sharedRAM_c, PRU_memAcc_DDR_sharedRAM_p),
     PRUtoPRU_Interrupt |-> Program(PRU_PRUtoPRU_Interrupt_c, PRU_PRUtoPRU_Interrupt_p),
     industrialEthernetTimer |-> Program(PRU_industrialEthernetTimer_c,
                                         PRU_industrialEthernetTimer_p),
     old_memAccessPRUDataRam |-> Program(old_memAccessPRUDataRam_c, old_memAccessPRUDataRam_p),
     multiply |-> Program(PRU_multiply_c, PRU_multiply_p),
     memAccessL3andDDR |-> Program(PRU_memAccessL3andDDR_c, PRU_memAccessL3andDDR_p),
     memAccessL2 |-> Program(PRU_memAccessL2_c, PRU_memAccessL2_p),
     access_const_table |-> Program(PRU_access_const_table_c, PRU_access_const_table_p),
     mem1DTransfer |-> Program(PRU_mem1DTransfer_c, PRU_mem1DTransfer_p),
     miscOperations |-> Program(PRU_miscOperations_c, PRU_miscOperations_p),
     gpioToggle |-> Program(PRU_gpioToggle_c, PRU_gpioToggle_p),
     semaphore |-> Program(PRU_semaphore_c, PRU_semaphore_p),
     old_PRUtoPRU_Interrupt |-> Program(old_PRUtoPRU_Interrupt_c, old_PRUtoPRU_Interrupt_p),
     PRUtoDSP_Interrupt |-> Program(PRU_PRUtoDSP_Interrupt_c, PRU_PRUtoDSP_Interrupt_p),
     DSPtoPRU_Interrupt |-> Program(PRU_DSPtoPRU_Interrupt_c, PRU_DSPtoPRU_Interrupt_p),
     timer0Config |-> Program(PRU_timer0Config_c, PRU_timer0Config_p),
     timer0Interrupt |-> Program(PRU_timer0Interrupt_c, PRU_timer0Interrupt_p),
     edmaConfig |-> Program(PRU_edmaConfig_c, PRU_edmaConfig_p),
     pscConfig |-> Program(PRU_pscConfig_c, PRU_pscConfig_p)]

ASSUME ExamplesAssumption == Examples \subseteq DOMAIN Programs /\ Prompt \in BOOLEAN

-----------------------------------------------------------------------------
(* What the instructions do                                                *)

Prus == {"pru0", "pru1"}
Read(a) == IF a \in DOMAIN mem THEN mem[a] ELSE <<>>
Written(a, v) == mem' = (a :> v) @@ mem
Code(p) == Programs[example][p]
Asserted(h) == \E e \in raised : e \in DOMAIN line /\ line[e] = h

(* The eight 4-bit numbers of a word. *)
Nibbles(w) == [i \in 1 .. 8 |-> (w \div 16 ^ (i - 1)) % 16]

Value(f, s) ==
    LET x == s[1][1]
    IN  CASE f = "same" -> s[1]
          [] f = "sum" -> <<x + s[2][1]>>
          [] f = "product" -> <<x * s[2][1]>>
          [] f = "less 1" -> <<x - 1>>
          [] f = "less 32" -> <<x - 32>>
          [] f = "plus 10" -> <<x + 10>>
          [] f = "grown below 70" -> <<IF x >= 70 THEN x ELSE x + 4>>
          [] f = "or from 70" -> IF s[2][1] >= 70 THEN <<1>> ELSE s[1]
          [] f = "append" -> IF s[2] = s[1] /\ s[3] = <<x + 4>>
                               THEN <<x + s[4][1]>> ELSE s[1]
          [] f = "nibbles" -> Nibbles(x)
          [] f = "bubble sort" -> SortSeq(s[1], <)
          [] f = "above 8" -> [i \in 1 .. 8 |-> IF s[1][i] > 8 THEN 1 ELSE 0]
          [] f = "from 8" -> [i \in 1 .. 8 |-> IF 8 > s[1][i] THEN 0 ELSE 1]
          [] f = "next pin" -> Append(s[1], Len(s[1]))

DspInterrupt == dsp' = IF dsp = "armed" THEN "pending" ELSE dsp

(* A PRU that has halted or waits for something; with Prompt, a PRU gets   *)
(* there before the host starts a timer.  What stands for that in the code *)
(* is a delay: PRU_timer0Interrupt calls UTIL_waitLoop first.              *)
Waits(n) == at[n] \in DOMAIN Code(n) =>
                /\ Code(n)[at[n]].op = "bit"
                /\ ~Asserted(Code(n)[at[n]].h)

ExamplesInit ==
    /\ example \in Examples
    /\ at = [host |-> 1, pru0 |-> 0, pru1 |-> 0]
    /\ mem = <<>> /\ raised = {} /\ line = <<>> /\ masked = {}
    /\ jobs = {} /\ dsp = "off" /\ fault = "none" /\ verdict = "none"

Goes(p, to) == at' = [at EXCEPT ![p] = to]

(* Instructions of PRUs and hosts. *)
Memory(p, i) ==
    /\ \/ i.op = "put" /\ Written(i.a, i.v)
       \/ i.op = "calc" /\ Written(i.a, Value(i.f, [k \in DOMAIN i.from |-> Read(i.from[k])]))
       \/ i.op = "if" /\ UNCHANGED mem
       \/ i.op = "spin" /\ Read(i.a) # i.v /\ UNCHANGED mem
    /\ Goes(p, IF i.op = "if" /\ Read(i.a) = i.v THEN i.to ELSE at[p] + 1)
    /\ UNCHANGED <<raised, line, masked, jobs, dsp, fault, verdict>>

Events(p, i) ==
    /\ \/ /\ i.op = "raise" /\ raised' = raised \union {i.e}
          /\ IF i.e \in DOMAIN line /\ line[i.e] = 2 THEN DspInterrupt ELSE UNCHANGED dsp
          /\ UNCHANGED <<line, jobs>>
       \/ /\ i.op = "clear" /\ raised' = raised \ {i.e}
          /\ UNCHANGED <<line, jobs, dsp>>
       \/ /\ i.op = "enable" /\ line' = (i.e :> i.h) @@ line
          /\ UNCHANGED <<raised, jobs, dsp>>
       \/ /\ i.op = "bit" /\ Asserted(i.h)
          /\ UNCHANGED <<raised, line, jobs, dsp>>
       \/ /\ i.op = "job" /\ (p = "host" /\ Prompt => \A n \in Prus : Waits(n))
          /\ jobs' = jobs \union {i.j}
          /\ UNCHANGED <<raised, line, dsp>>
       \/ /\ i.op = "stop" /\ jobs' = {j \in jobs : j.job # "timer"}
          /\ UNCHANGED <<raised, line, dsp>>
    /\ Goes(p, at[p] + 1)
    /\ UNCHANGED <<mem, masked, fault, verdict>>

Fails(call) == fault' = IF fault = "none" THEN call ELSE fault
Judged(ok) == verdict' = IF verdict = "failed" \/ ~ok THEN "failed" ELSE "passed"

(* PRU_disable, PRU_run, PRU_waitForHalt, and the DSP's interrupt vector.  *)
Control(i) ==
    /\ \/ i.op = "reset" /\ at' = [host |-> at.host + 1, pru0 |-> 0, pru1 |-> 0]
          /\ UNCHANGED dsp
       \/ i.op = "run" /\ at' = [at EXCEPT !.host = @ + 1, ![i.n] = 1] /\ UNCHANGED dsp
       \/ i.op = "halted" /\ at[i.n] = Len(Code(i.n)) + 1
          /\ Goes("host", at.host + 1) /\ UNCHANGED dsp
       \/ i.op = "vector" /\ Goes("host", at.host + 1) /\ dsp' = "armed"
    /\ UNCHANGED <<mem, raised, line, masked, jobs, fault, verdict>>

(* prussdrv_open fails and main returns; /dev/mem or the program's file    *)
(* cannot be opened, and main goes on without.                             *)
Linux(i) ==
    /\ \/ /\ i.op = "open"
          /\ \/ Goes("host", at.host + 1) /\ UNCHANGED fault
             \/ Goes("host", Len(Code("host")) + 1) /\ Fails("open")
          /\ UNCHANGED <<raised, masked>>
       \/ /\ i.op = "map"
          /\ \/ Goes("host", at.host + 1) /\ UNCHANGED fault
             \/ Goes("host", at.host + 1 + i.puts) /\ Fails("map")
          /\ UNCHANGED <<raised, masked>>
       \/ /\ i.op = "exec"
          /\ \/ at' = [at EXCEPT !.host = @ + 1, ![i.n] = 1] /\ UNCHANGED fault
             \/ Goes("host", at.host + 1) /\ Fails("exec")
          /\ UNCHANGED <<raised, masked>>
       \/ /\ i.op = "await" /\ Asserted(i.h) /\ i.h \notin masked
          /\ masked' = masked \union {i.h}
          /\ Goes("host", at.host + 1) /\ UNCHANGED <<raised, fault>>
       \/ /\ i.op = "ack" /\ raised' = raised \ {i.e} /\ masked' = masked \ {i.h}
          /\ Goes("host", at.host + 1) /\ UNCHANGED fault
    /\ UNCHANGED <<mem, line, jobs, dsp, verdict>>

(* LOCAL_examplePassed; without the map of /dev/mem it reads through NULL. *)
Judge(i) ==
    /\ \/ /\ i.op = "check"
          /\ IF fault = "map" /\ \E c \in i.f : c[1][1] = "DDR"
               THEN verdict' = "crashed"
               ELSE Judged(\A c \in i.f : Read(c[1]) = c[2])
       \/ i.op = "equal" /\ Judged(\A c \in i.f : Read(c[1]) = Read(c[2]))
    /\ Goes("host", IF verdict' = "crashed" THEN Len(Code("host")) + 1 ELSE at.host + 1)
    /\ UNCHANGED <<mem, raised, line, masked, jobs, dsp, fault>>

Pru(n) ==
    /\ at[n] \in 1 .. Len(Code(n)) /\ UNCHANGED example
    /\ LET i == Code(n)[at[n]] IN Memory(n, i) \/ Events(n, i)

Host ==
    /\ at.host \in 1 .. Len(Code("host")) /\ UNCHANGED example
    /\ LET i == Code("host")[at.host]
       IN  Memory("host", i) \/ Events("host", i) \/ Control(i) \/ Linux(i) \/ Judge(i)

(* A timer expires, a transfer or a transition ends.                       *)
Device ==
    \E j \in jobs :
       /\ jobs' = jobs \ {j}
       /\ IF j.job = "timer" THEN UNCHANGED mem ELSE Written(j.to, j.v)
       /\ raised' = IF j.job = "timer" /\ j.to = "pru" THEN raised \union {3} ELSE raised
       /\ IF j.job = "edma" \/ (j.job = "timer" /\ j.to = "dsp")
            THEN DspInterrupt ELSE UNCHANGED dsp
       /\ UNCHANGED <<example, at, line, masked, fault, verdict>>

(* T64P0_TINT12_isr, EDMA3_CC0_INT1_isr, PRUSS_EVTOUT0_isr. *)
Isr == /\ dsp = "pending" /\ dsp' = "armed" /\ Written(Flag, <<1>>)
       /\ UNCHANGED <<example, at, raised, line, masked, jobs, fault, verdict>>

ExamplesNext == Host \/ Pru("pru0") \/ Pru("pru1") \/ Device \/ Isr

(* Processors go on and devices end what they were asked to do.            *)
ExamplesFairness ==
    /\ WF_exVars(Host) /\ WF_exVars(Pru("pru0")) /\ WF_exVars(Pru("pru1"))
    /\ WF_exVars(Device) /\ WF_exVars(Isr)

ExamplesSpec == ExamplesInit /\ [][ExamplesNext]_exVars /\ ExamplesFairness

-----------------------------------------------------------------------------
(* Properties                                                              *)

(* In PRU_semaphore both sides together copy every byte once, in order.    *)
CopiedWithoutGap ==
    example = "semaphore" /\ verdict = "passed" =>
       Read(Reg("copied")) = Read(Shared(2)) /\ Read(Shared(3)) = <<Read(Reg("copied"))[1] + 4>>

(* Unless a call of main() fails, every example ends and has passed: no    *)
(* host looks at a result before the PRU has written it, no event is       *)
(* cleared before the one it is meant for has seen it, and the events of   *)
(* the two PRUs never leave both of them waiting.                          *)
ExamplesPass ==
    /\ [](fault = "none" => verdict \in {"none", "passed"})
    /\ []CopiedWithoutGap
    /\ <>(fault # "none" \/ verdict = "passed")
=============================================================================
