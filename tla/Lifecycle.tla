----------------------------- MODULE Lifecycle -----------------------------
(***************************************************************************)
(* Start, failure, death and restart of the host program: the ladder of    *)
(* main() from the root check to the measuring loop, what each rung leaves *)
(* behind when it fails, and the PRUs, the INTC and the UIO device, which  *)
(* outlive the process.                                                    *)
(*                                                                         *)
(* Processes are numbered 1, 2, ...; a PRU and an event carry the number   *)
(* of the process whose program raised or runs them, 0 for none.           *)
(***************************************************************************)
EXTENDS Integers

CONSTANT MaxStarts        \* bound on the processes of a behaviour

ASSUME LifecycleAssumption == MaxStarts \in Nat \ {0}

VARIABLES
  pc,            \* where the process is, or how it ended
  gen,           \* number of the current process
  drvMapped,     \* prussdrv has mapped the PRU control registers
  pru0, pru1,    \* process whose program the PRU executes
  full,          \* PRU0 has stored the last packet of its message
  evt19,         \* pending PRU0_ARM_INTERRUPT, by the process it stems from
  hostEnabled,   \* host interrupt 2 (PRU_EVTOUT_0) is enabled
  wake,          \* counted interrupt the open UIO file has not returned yet
  answered,      \* history: origin of the last interrupt the loop answered
  cleanStart     \* history: both PRUs were halted when the process started

procVars == <<pc, gen, drvMapped, answered, cleanStart>>
pruVars == <<pru0, pru1, full>>
intcVars == <<evt19, hostEnabled, wake>>
lifeVars == <<procVars, pruVars, intcVars>>

Dead == {"none", "exited", "killed", "crashed"}
Rungs == {"privileges", "ram", "metrology", "open0", "open1", "intcClear",
          "intcEnable", "start0", "start1", "configure", "connect", "run"}
Ladder == {"stop1", "stop0", "deinit"}

\* Where the process uses the PRU registers, and may only if they are mapped
Opened == {"open1", "intcClear", "intcEnable", "start0", "start1", "configure",
           "connect", "run", "stop0"}

LifeFlags ==
    /\ drvMapped \in BOOLEAN /\ hostEnabled \in BOOLEAN
    /\ full \in BOOLEAN /\ cleanStart \in BOOLEAN

Mapped == pc \in Opened => drvMapped = TRUE

(* Every variable keeps its type, and from a successful prussdrv_open on   *)
(* the registers of the PRUs and of the INTC are mapped.                   *)
LifeTypeOK ==
    /\ LifeFlags /\ Mapped
    /\ pc \in Dead \cup Rungs \cup Ladder
    /\ gen \in 0 .. MaxStarts
    /\ pru0 \in 0 .. gen /\ pru1 \in 0 .. gen
    /\ evt19 \in 0 .. gen /\ wake \in 0 .. gen /\ answered \in 0 .. gen

(* Power-on. *)
LifeInit ==
    /\ pc = "none" /\ gen = 0 /\ drvMapped = FALSE
    /\ pru0 = 0 /\ pru1 = 0 /\ full = FALSE
    /\ evt19 = 0 /\ hostEnabled = FALSE /\ wake = 0
    /\ answered = 0 /\ cleanStart = FALSE

-----------------------------------------------------------------------------
(* Outside the process                                                     *)

(* PRU1 delivers the packet that completes PRU0's message, whichever       *)
(* processes started the two.                                              *)
PRU1_LastPacket ==
    /\ pru0 # 0 /\ pru1 # 0
    /\ full' = TRUE
    /\ UNCHANGED <<procVars, pru0, pru1, intcVars>>

(* PRU0 interrupts the host, whether or not anyone still listens.          *)
PRU0_Interrupt ==
    /\ pru0 # 0 /\ full
    /\ evt19' = pru0
    /\ full' = FALSE
    /\ UNCHANGED <<procVars, pru0, pru1, hostEnabled, wake>>

(* The UIO driver's interrupt handler. *)
Uio_Handler ==
    /\ evt19 # 0 /\ hostEnabled
    /\ wake' = evt19
    /\ hostEnabled' = FALSE
    /\ UNCHANGED <<procVars, pruVars, evt19>>

(* A signal ends the process: SIGPIPE from send(), SIGINT, SIGTERM, the    *)
(* OOM killer.  There is no handler: the PRUs go on.                       *)
Killed ==
    /\ pc \notin Dead
    /\ pc' = "killed"
    /\ UNCHANGED <<gen, drvMapped, answered, cleanStart, pruVars, intcVars>>

(* The program is started, by hand or by boot script.  An interrupt raised *)
(* before this moment has been handled by the kernel.                      *)
Start ==
    /\ pc \in Dead /\ gen < MaxStarts
    /\ ~(evt19 # 0 /\ hostEnabled)
    /\ pc' = "privileges"
    /\ gen' = gen + 1
    /\ drvMapped' = FALSE
    /\ answered' = 0
    /\ cleanStart' = (pru0 = 0 /\ pru1 = 0)
    /\ UNCHANGED <<pruVars, intcVars>>

-----------------------------------------------------------------------------
(* The rungs of main()                                                     *)

Goto(label) ==
    /\ pc' = label
    /\ UNCHANGED <<gen, drvMapped, answered, cleanStart, pruVars, intcVars>>

(* getuid, sched_setscheduler, mlockall: exit_failure *)
Privileges == pc = "privileges" /\ (Goto("ram") \/ Goto("exited"))

(* AnalogCore_Init, Allocate_RAM: exit_failure_ram; fscanf of a file that  *)
(* could not be opened crashes (getMemInfo).                               *)
AllocateRam ==
    pc = "ram" /\ (Goto("metrology") \/ Goto("deinit") \/ Goto("crashed"))

(* Board_Init, MetrologyCore_Init: exit_failure *)
Metrology == pc = "metrology" /\ (Goto("open0") \/ Goto("exited"))

(* Slip: the result of __prussdrv_memmap_init is not looked at. *)
Blind_Open0 ==
    /\ pc = "open0"
    /\ \/ pc' = "open1" /\ drvMapped' \in BOOLEAN
       \/ pc' = "stop1" /\ drvMapped' = FALSE
       \/ pc' = "crashed" /\ drvMapped' = FALSE
    /\ wake' = 0
    /\ UNCHANGED <<gen, answered, cleanStart, pruVars, evt19, hostEnabled>>

(* pru_setup: prussdrv_init, prussdrv_open(PRU_EVTOUT_0).  A new UIO file  *)
(* starts at the current count.  open() may fail before the registers are  *)
(* mapped, or __prussdrv_memmap_init after it: exit_failure_pru.  An mmap  *)
(* that fails is not noticed, and the hardware is recognised by reading    *)
(* through it.                                                             *)
Open0 ==
    /\ pc = "open0"
    /\ \/ pc' = "open1" /\ drvMapped' = TRUE
       \/ pc' = "stop1" /\ drvMapped' \in BOOLEAN
       \/ pc' = "crashed" /\ drvMapped' = FALSE
    /\ wake' = 0
    /\ UNCHANGED <<gen, answered, cleanStart, pruVars, evt19, hostEnabled>>

(* prussdrv_open(PRU_EVTOUT_1): exit_failure_pru *)
Open1 == pc = "open1" /\ (Goto("intcClear") \/ Goto("stop1"))

(* Slip: SECR is not written: an event of an earlier process stays. *)
Keep_IntcClear ==
    /\ pc = "intcClear"
    /\ pc' = "intcEnable"
    /\ UNCHANGED <<gen, drvMapped, answered, cleanStart, pruVars, intcVars>>

(* prussdrv_pruintc_init: the pending events are cleared ... *)
IntcClear ==
    /\ pc = "intcClear"
    /\ evt19' = 0
    /\ pc' = "intcEnable"
    /\ UNCHANGED <<gen, drvMapped, answered, cleanStart, pruVars,
                   hostEnabled, wake>>

(* ... and then the host interrupts enabled. *)
IntcEnable ==
    /\ pc = "intcEnable"
    /\ hostEnabled' = TRUE
    /\ pc' = "start0"
    /\ UNCHANGED <<gen, drvMapped, answered, cleanStart, pruVars, evt19,
                   wake>>

(* pru_start(PRU0): the program file is read first, and the PRU disabled,  *)
(* loaded and enabled only when that went well; else exit_failure_pru.     *)
StartPru0 ==
    /\ pc = "start0"
    /\ \/ pc' = "start1" /\ pru0' = gen /\ full' = FALSE
       \/ pc' = "stop1" /\ UNCHANGED <<pru0, full>>
    /\ UNCHANGED <<gen, drvMapped, answered, cleanStart, pru1, intcVars>>

(* pru_start(PRU1) *)
StartPru1 ==
    /\ pc = "start1"
    /\ \/ pc' = "configure" /\ pru1' = gen
       \/ pc' = "stop1" /\ UNCHANGED pru1
    /\ UNCHANGED <<gen, drvMapped, answered, cleanStart, pru0, full, intcVars>>

(* Slip: exit_failure_cpt behind DAQ_Stop *)
Skip_Configure == pc = "configure" /\ (Goto("connect") \/ Goto("deinit"))

(* CPT_Config, the filter buffers, socket(): exit_failure_cpt,             *)
(* exit_failure_mafs, sock_error                                           *)
Configure == pc = "configure" /\ (Goto("connect") \/ Goto("stop1"))

(* Slip: a refused connection is tried again from socket() on. *)
Retry_Connect == pc = "connect" /\ (Goto("run") \/ Goto("configure"))

(* connect(): sock_conn_error *)
Connect == pc = "connect" /\ (Goto("run") \/ Goto("stop1"))

(* A turn of the loop: wait for the interrupt, clear it, enable it again,  *)
(* copy, compute, send.  stop_daq is never cleared.                        *)
Turn ==
    /\ pc = "run"
    /\ wake # 0
    /\ answered' = wake
    /\ wake' = 0 /\ evt19' = 0 /\ hostEnabled' = TRUE
    /\ UNCHANGED <<pc, gen, drvMapped, cleanStart, pruVars>>

-----------------------------------------------------------------------------
(* The cleanup ladder                                                      *)

(* DAQ_Stop: pru_stop(PRU1) writes the control register of a PRU, which    *)
(* is address 0 when nothing was mapped.                                   *)
StopPru1 ==
    /\ pc = "stop1"
    /\ IF drvMapped THEN pc' = "stop0" /\ pru1' = 0
                    ELSE pc' = "crashed" /\ UNCHANGED pru1
    /\ UNCHANGED <<gen, drvMapped, answered, cleanStart, pru0, full, intcVars>>

(* pru_stop(PRU0), pru_cleanup *)
StopPru0 ==
    /\ pc = "stop0"
    /\ pru0' = 0 /\ full' = FALSE
    /\ pc' = "deinit"
    /\ UNCHANGED <<gen, drvMapped, answered, cleanStart, pru1, intcVars>>

(* AnalogCore_Deinit, then exit(code) *)
Deinit == pc = "deinit" /\ Goto("exited")

(* The bound has been reached. *)
Rest == pc \in Dead /\ gen = MaxStarts /\ UNCHANGED lifeVars

Startup == \/ Privileges \/ AllocateRam \/ Metrology \/ Open0 \/ Open1
           \/ IntcClear \/ IntcEnable \/ StartPru0 \/ StartPru1
           \/ Configure \/ Connect
Cleanup == StopPru1 \/ StopPru0 \/ Deinit

LifeNext == \/ Start \/ Startup \/ Turn \/ Cleanup
            \/ Killed \/ PRU1_LastPacket \/ PRU0_Interrupt \/ Uio_Handler \/ Rest

LifeSpec == LifeInit /\ [][LifeNext]_lifeVars /\ WF_lifeVars(Startup \/ Cleanup)

-----------------------------------------------------------------------------
(* Properties                                                              *)

(* A process that ends by itself leaves neither PRU running its program:   *)
(* every goto of main() enters the ladder above what it has to undo.       *)
StopsWhatItStarted == pc = "exited" => pru0 # gen /\ pru1 # gen

(* With halted PRUs at the start, every interrupt the loop answers comes   *)
(* from the PRU0 this process started, also when an earlier process left   *)
(* one pending: the events are cleared before the interrupt is enabled.    *)
AnswersOwnPru == cleanStart => answered \in {0, gen}

(* A start ends: in the measuring loop or in the death of the process.     *)
StartupEnds == pc = "privileges" ~> pc \in Dead \cup {"run"}

(* What AnalogCore.c says of its buffer: the one "used to store next 1     *)
(* second of samples", so that an interrupt the loop answers announces a   *)
(* message of the PRU0 it started, whatever ran before.                    *)
BufferOfNextSecond == answered \in {0, gen}
=============================================================================
