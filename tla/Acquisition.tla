---------------------------- MODULE Acquisition ----------------------------
(***************************************************************************)
(* The acquisition chain of the energy meter: two PRU cores, the PRU       *)
(* interrupt controller (INTC), the UIO device and the host program.       *)
(*                                                                         *)
(*   PRU1   reads four samples of every channel into r1..r25, moves the    *)
(*          100 bytes to the scratch pad (XOUT) and signals PRU0           *)
(*          (NFS/pru/ads131e08s_pru1.asm)                                  *)
(*   PRU0   waits for the signal, clears it, fetches the packet (XIN) and  *)
(*          stores it in DDR; LOOPS_PER_MSG packets fill one of two        *)
(*          message buffers, and then it interrupts the host               *)
(*          (NFS/pru/ads131e08s_pru0.asm)                                  *)
(*   host   waits for the interrupt, clears it, copies the message buffer  *)
(*          of this turn out of DDR and processes it (AnalogCore.c, DAQ.c, *)
(*          prussdrv.c, the loop of main.cpp)                              *)
(*                                                                         *)
(* Nobody waits for a slower consumer: PRU1 is driven by the ADC, PRU0 by  *)
(* PRU1.  The chain therefore works by deadlines.  The model takes no      *)
(* timing for granted; it records the first missed deadline in the history *)
(* variables linkLate and hostLate, and what holds only on time says so.   *)
(*                                                                         *)
(* A packet is represented by its number, 1 for the first one after start. *)
(***************************************************************************)
EXTENDS Integers

CONSTANTS LoopsPerMsg,   \* LOOPS_PER_MSG of PRU0 = PKG_COUNT of the host
          MaxPackets     \* bound on the packets PRU1 produces

ASSUME AcquisitionAssumption == /\ LoopsPerMsg \in Nat \ {0}
                                /\ MaxPackets \in Nat

VARIABLES
  \* PRU1
  pru1pc,        \* "xout" or "signal": next instruction after sampling
  scratch,       \* the packet in scratch pad bank 0
  \* INTC
  evt18,         \* system event PRU1_PRU0_INTERRUPT is pending
  evt19,         \* system event PRU0_ARM_INTERRUPT is pending
  hostEnabled,   \* host interrupt 2 (PRU_EVTOUT_0) is enabled
  \* PRU0
  pru0pc,        \* "wait", "clear", "xin", "store" or "raise"
  loop,          \* 1 in inner_loop_1, 2 in inner_loop_2
  regs,          \* the packet in r1..r25
  r27,           \* packets still missing in the message
  r29,           \* DDR write position, in packets
  ddr,           \* the two message buffers
  \* UIO and the host program
  uioCount,      \* interrupts counted by the UIO device
  listener,      \* the count the host's last read() returned (EventN)
  hostpc,        \* "setup", "wait", "clear", "enable", "copy" or "process"
  buffer_ix,     \* message buffer of the host's next turn
  copied,        \* packets memcpy has copied
  dbuffer,       \* the host's copy of the message
  ch_data,       \* the message behind the channel buffers
  notified,      \* the host has reported a lost packet
  \* history
  msgBase,       \* packets in DDR before the current message
  raised,        \* times PRU0 has interrupted the host
  taken,         \* messages copied by the host
  linkLate,      \* PRU0 missed a packet deadline
  hostLate       \* the host missed a message deadline

pru1Vars == <<pru1pc, scratch>>
intcVars == <<evt18, evt19, hostEnabled>>
pru0Vars == <<pru0pc, loop, regs, r27, r29, ddr>>
hostVars == <<hostpc, listener, buffer_ix, copied, dbuffer, ch_data, notified>>
histVars == <<msgBase, raised, taken, linkLate, hostLate>>
vars == <<pru1Vars, intcVars, pru0Vars, uioCount, hostVars, histVars>>

Slots == 0 .. LoopsPerMsg - 1            \* packets of a message buffer
DdrSlots == 0 .. 2 * LoopsPerMsg - 1     \* PRU_BUFFER_SIZE, in packets
Packets == 0 .. MaxPackets               \* 0: nothing acquired yet

Flags ==
    /\ evt18 \in BOOLEAN /\ evt19 \in BOOLEAN /\ hostEnabled \in BOOLEAN
    /\ notified \in BOOLEAN
    /\ linkLate \in BOOLEAN /\ hostLate \in BOOLEAN

(* Every variable keeps its type; in particular PRU0 writes, and the host  *)
(* reads, inside the two message buffers.                                  *)
TypeOK ==
    /\ Flags
    /\ pru1pc \in {"xout", "signal"}
    /\ scratch \in Packets
    /\ pru0pc \in {"wait", "clear", "xin", "store", "raise"}
    /\ loop \in {1, 2}
    /\ regs \in Packets
    /\ r27 \in 0 .. LoopsPerMsg
    /\ r29 \in 0 .. 2 * LoopsPerMsg
    /\ ddr \in [DdrSlots -> Packets]
    /\ uioCount \in Nat /\ listener \in Nat
    /\ hostpc \in {"setup", "wait", "clear", "enable", "copy", "process"}
    /\ buffer_ix \in {0, 1}
    /\ copied \in Slots
    /\ dbuffer \in [Slots -> Packets]
    /\ ch_data \in [Slots -> Packets]
    /\ msgBase \in Nat /\ raised \in Nat /\ taken \in Nat

(* The state AnalogCore_Setup leaves behind: INTC initialised with nothing *)
(* pending, both PRUs at the start of their main loops, the DDR pool and   *)
(* the static buffers zeroed, the host still configuring and connecting.   *)
Init ==
    /\ pru1pc = "xout" /\ scratch = 0
    /\ evt18 = FALSE /\ evt19 = FALSE /\ hostEnabled = TRUE
    /\ pru0pc = "wait" /\ loop = 1 /\ regs = 0
    /\ r27 = LoopsPerMsg /\ r29 = 0
    /\ ddr = [s \in DdrSlots |-> 0]
    /\ uioCount = 0 /\ listener = 0
    /\ hostpc = "setup" /\ buffer_ix = 0 /\ copied = 0
    /\ dbuffer = [i \in Slots |-> 0]
    /\ ch_data = [i \in Slots |-> 0]
    /\ notified = FALSE
    /\ msgBase = 0 /\ raised = 0 /\ taken = 0
    /\ linkLate = FALSE /\ hostLate = FALSE

-----------------------------------------------------------------------------
(* Slips the properties must notice: each differs from the action of the   *)
(* same name below in the one place its comment names.                     *)

(* clears the PRU1 event after the packet has been stored *)
Late_PRU0_Store ==
    /\ pru0pc = "store"
    /\ evt18' = FALSE
    /\ ddr' = [ddr EXCEPT ![r29] = regs]
    /\ r29' = r29 + 1
    /\ r27' = r27 - 1
    /\ pru0pc' = IF r27' # 0 THEN "wait" ELSE "raise"
    /\ hostLate' = (hostLate \/ raised > taken + 1)
    /\ UNCHANGED <<pru1Vars, evt19, hostEnabled, loop, regs, uioCount,
                   hostVars, msgBase, raised, taken, linkLate>>

(* outer_loop does not reset the DDR write position *)
NoReset_PRU0_SignalHost ==
    /\ pru0pc = "raise"
    /\ evt19' = TRUE
    /\ loop' = 3 - loop
    /\ r27' = LoopsPerMsg
    /\ pru0pc' = "wait"
    /\ msgBase' = msgBase + LoopsPerMsg
    /\ raised' = raised + 1
    /\ hostLate' = (hostLate \/ evt19)
    /\ UNCHANGED <<pru1Vars, evt18, hostEnabled, regs, r29, ddr, uioCount,
                   hostVars, taken, linkLate>>

(* leaves the system event pending *)
Keep_Host_ClearEvent ==
    /\ hostpc = "clear"
    /\ hostpc' = "enable"
    /\ UNCHANGED <<pru1Vars, intcVars, pru0Vars, uioCount, listener,
                   buffer_ix, copied, dbuffer, ch_data, notified, histVars>>

(* leaves the host interrupt disabled *)
Off_Host_EnableInterrupt ==
    /\ hostpc = "enable"
    /\ hostpc' = "copy"
    /\ UNCHANGED <<pru1Vars, intcVars, pru0Vars, uioCount, listener,
                   buffer_ix, copied, dbuffer, ch_data, notified, histVars>>

(* does not turn buffer_ix over *)
Same_Host_Copy ==
    /\ hostpc = "copy"
    /\ dbuffer' = [dbuffer EXCEPT ![copied] =
                                     ddr[buffer_ix * LoopsPerMsg + copied]]
    /\ IF copied + 1 < LoopsPerMsg
         THEN /\ copied' = copied + 1
              /\ UNCHANGED <<hostpc, taken>>
         ELSE /\ copied' = 0
              /\ hostpc' = "process"
              /\ taken' = taken + 1
    /\ UNCHANGED <<pru1Vars, intcVars, pru0Vars, uioCount, listener, ch_data,
                   buffer_ix, notified, msgBase, raised, linkLate, hostLate>>

-----------------------------------------------------------------------------
(* PRU1                                                                    *)

(* mainloop: four ADS_GET_DATA24, the marker in r1, then XOUT.  The        *)
(* deadline of PRU0 is that it has fetched the previous packet by now.     *)
PRU1_Xout ==
    /\ pru1pc = "xout"
    /\ scratch < MaxPackets
    /\ scratch' = scratch + 1
    /\ pru1pc' = "signal"
    /\ linkLate' = (linkLate \/ regs # scratch)
    /\ UNCHANGED <<intcVars, pru0Vars, uioCount, hostVars,
                   msgBase, raised, taken, hostLate>>

(* LDI r31.b0, PRU_INT_VALID + PRU1_PRU0_INTERRUPT *)
PRU1_Signal ==
    /\ pru1pc = "signal"
    /\ evt18' = TRUE
    /\ pru1pc' = "xout"
    /\ UNCHANGED <<scratch, evt19, hostEnabled, pru0Vars, uioCount,
                   hostVars, histVars>>

-----------------------------------------------------------------------------
(* PRU0.  inner_loop_1 and inner_loop_2 are the same instructions.         *)

(* WBS r31, 30 *)
PRU0_WaitPru1 ==
    /\ pru0pc = "wait"
    /\ evt18
    /\ pru0pc' = "clear"
    /\ UNCHANGED <<pru1Vars, intcVars, loop, regs, r27, r29, ddr, uioCount,
                   hostVars, histVars>>

(* SBCO &r0, C0, 0x24, 4 with r0 = 18: the event is cleared first ...      *)
PRU0_ClearPru1 ==
    /\ pru0pc = "clear"
    /\ evt18' = FALSE
    /\ pru0pc' = "xin"
    /\ UNCHANGED <<pru1Vars, evt19, hostEnabled, loop, regs, r27, r29, ddr,
                   uioCount, hostVars, histVars>>

(* ... and the packet fetched afterwards: XIN XFR_BANK0, &r1, 100 *)
PRU0_Xin ==
    /\ pru0pc = "xin"
    /\ regs' = scratch
    /\ pru0pc' = "store"
    /\ UNCHANGED <<pru1Vars, intcVars, loop, r27, r29, ddr, uioCount,
                   hostVars, histVars>>

(* SBBO to DDR, the pointer and the loop counter.  The host's deadline is  *)
(* to have copied the message that used this buffer two messages ago.      *)
PRU0_Store ==
    /\ pru0pc = "store"
    /\ ddr' = [ddr EXCEPT ![r29] = regs]
    /\ r29' = r29 + 1
    /\ r27' = r27 - 1
    /\ pru0pc' = IF r27' # 0 THEN "wait" ELSE "raise"
    /\ hostLate' = (hostLate \/ raised > taken + 1)
    /\ UNCHANGED <<pru1Vars, intcVars, loop, regs, uioCount, hostVars,
                   msgBase, raised, taken, linkLate>>

(* LDI r31.b0, PRU_INT_VALID + PRU0_ARM_INTERRUPT, then the other buffer;  *)
(* r29 runs on from buffer 1 into buffer 2 and is reset by outer_loop.     *)
(* The host's deadline is to have cleared the previous interrupt.          *)
PRU0_SignalHost ==
    /\ pru0pc = "raise"
    /\ evt19' = TRUE
    /\ loop' = 3 - loop
    /\ r27' = LoopsPerMsg
    /\ r29' = IF loop = 2 THEN 0 ELSE r29
    /\ pru0pc' = "wait"
    /\ msgBase' = msgBase + LoopsPerMsg
    /\ raised' = raised + 1
    /\ hostLate' = (hostLate \/ evt19)
    /\ UNCHANGED <<pru1Vars, evt18, hostEnabled, regs, ddr, uioCount,
                   hostVars, taken, linkLate>>

-----------------------------------------------------------------------------
(* The kernel's UIO driver (external): the interrupt handler disables the  *)
(* host interrupt, counts it and wakes the reader.                         *)
Uio_Interrupt ==
    /\ evt19 /\ hostEnabled
    /\ uioCount' = uioCount + 1
    /\ hostEnabled' = FALSE
    /\ UNCHANGED <<pru1Vars, evt18, evt19, pru0Vars, hostVars, histVars>>

-----------------------------------------------------------------------------
(* The host program.                                                       *)

(* main() between AnalogCore_Setup and its loop: CPT_Config, the filter    *)
(* buffers, socket(), connect().  The PRUs run all the while.              *)
Host_Connect ==
    /\ hostpc = "setup"
    /\ hostpc' = "wait"
    /\ UNCHANGED <<pru1Vars, intcVars, pru0Vars, uioCount, listener,
                   buffer_ix, copied, dbuffer, ch_data, notified, histVars>>

(* prussdrv_pru_wait_event: read() of the UIO device blocks until its      *)
(* count differs from the one the last read returned.                      *)
Host_WaitEvent ==
    /\ hostpc = "wait"
    /\ uioCount # listener
    /\ listener' = uioCount
    /\ hostpc' = "clear"
    /\ UNCHANGED <<pru1Vars, intcVars, pru0Vars, uioCount, buffer_ix, copied,
                   dbuffer, ch_data, notified, histVars>>

(* prussdrv_pru_clear_event, first half: SECR1 clears the system event ... *)
Host_ClearEvent ==
    /\ hostpc = "clear"
    /\ evt19' = FALSE
    /\ hostpc' = "enable"
    /\ UNCHANGED <<pru1Vars, evt18, hostEnabled, pru0Vars, uioCount, listener,
                   buffer_ix, copied, dbuffer, ch_data, notified, histVars>>

(* ... second half: HIEISR enables the host interrupt again. *)
Host_EnableInterrupt ==
    /\ hostpc = "enable"
    /\ hostEnabled' = TRUE
    /\ hostpc' = "copy"
    /\ UNCHANGED <<pru1Vars, evt18, evt19, pru0Vars, uioCount, listener,
                   buffer_ix, copied, dbuffer, ch_data, notified, histVars>>

(* memcpy of DAQ_Run, a packet at a time, from the buffer buffer_ix names; *)
(* AnalogCore_GetSamples turns buffer_ix over when DAQ_Run has returned.   *)
Host_Copy ==
    /\ hostpc = "copy"
    /\ dbuffer' = [dbuffer EXCEPT ![copied] =
                                     ddr[buffer_ix * LoopsPerMsg + copied]]
    /\ IF copied + 1 < LoopsPerMsg
         THEN /\ copied' = copied + 1
              /\ UNCHANGED <<hostpc, buffer_ix, taken>>
         ELSE /\ copied' = 0
              /\ hostpc' = "process"
              /\ buffer_ix' = 1 - buffer_ix
              /\ taken' = taken + 1
    /\ UNCHANGED <<pru1Vars, intcVars, pru0Vars, uioCount, listener, ch_data,
                   notified, msgBase, raised, linkLate, hostLate>>

(* main() initialises lastEventN and never assigns it again. *)
lastEventN == 0

(* ConvertRawValues fills the channel buffers; the loop of main() compares *)
(* event numbers, computes, sends, logs and yields.                        *)
Host_Process ==
    /\ hostpc = "process"
    /\ ch_data' = dbuffer
    /\ notified' = (notified \/ (listener - lastEventN > 1 /\ lastEventN # 0))
    /\ hostpc' = "wait"
    /\ UNCHANGED <<pru1Vars, intcVars, pru0Vars, uioCount, listener,
                   buffer_ix, copied, dbuffer, histVars>>

-----------------------------------------------------------------------------
(* The bound has been reached and the chain is idle. *)
Idle ==
    /\ scratch = MaxPackets /\ pru1pc = "xout"
    /\ pru0pc = "wait" /\ ~evt18
    /\ hostpc = "wait" /\ uioCount = listener
    /\ UNCHANGED vars

Pru1 == PRU1_Xout \/ PRU1_Signal
Pru0 == \/ PRU0_WaitPru1 \/ PRU0_ClearPru1 \/ PRU0_Xin
        \/ PRU0_Store \/ PRU0_SignalHost
Host == \/ Host_Connect \/ Host_WaitEvent \/ Host_ClearEvent
        \/ Host_EnableInterrupt \/ Host_Copy \/ Host_Process

Next == Pru1 \/ Pru0 \/ Uio_Interrupt \/ Host \/ Idle

(* A processor that can execute its next instruction does; the ADC, and    *)
(* with it PRU1_Xout, owes nothing.                                        *)
Fairness ==
    /\ WF_vars(PRU1_Signal)
    /\ WF_vars(Pru0)
    /\ WF_vars(Uio_Interrupt)
    /\ WF_vars(Host)

Spec == Init /\ [][Next]_vars

FairSpec == Spec /\ Fairness

(* The behaviours in which every deadline is met. *)
OnTime == ~linkLate /\ ~hostLate

TimelyNext == Next /\ OnTime'

TimelySpec == Init /\ [][TimelyNext]_vars /\ Fairness
-----------------------------------------------------------------------------
(* Properties                                                              *)

Bit(b) == IF b THEN 1 ELSE 0

(* A packet PRU0 has not fetched is never forgotten: PRU1 is about to      *)
(* signal it, its event is pending, or PRU0 is at the XIN.  Clearing the   *)
(* event before the XIN, never after it, is what makes this true, whatever *)
(* the relative speed of the two cores (pru0.asm, inner_loop_1 and _2).    *)
PacketSignalKept ==
    scratch # regs => pru1pc = "signal" \/ evt18 \/ pru0pc = "xin"

(* An interrupt of PRU0 is never forgotten either: while it is pending the *)
(* host interrupt is enabled, or its count waits for the host's read(), or *)
(* the host is between read() and the write that enables it again          *)
(* (prussdrv_pru_clear_event: system event first, host interrupt second).  *)
HostWakeupKept ==
    evt19 => \/ hostEnabled
             \/ uioCount # listener
             \/ hostpc \in {"clear", "enable"}

(* Every turn of the host's loop answers an interrupt PRU0 really raised,  *)
(* and the count read() returns never runs ahead of the host by more than  *)
(* one: it cannot show that interrupts were merged.                        *)
NoSpuriousTurn ==
    /\ taken + Bit(hostpc \in {"clear", "enable", "copy"}) <= raised
    /\ uioCount - listener \in {0, 1}

(* On time, every message PRU0 announced has been taken, is announced by   *)
(* the pending event, or is the one the host is copying.                   *)
EveryMessageAccounted ==
    OnTime => raised = taken + Bit(evt19) + Bit(hostpc \in {"enable", "copy"})

(* On time, memcpy never reads the message buffer PRU0 is filling: when    *)
(* both are in the same one, PRU0 has not stored its first packet yet.     *)
BuffersApart ==
    OnTime /\ hostpc = "copy" /\ buffer_ix = loop - 1 => r27 = LoopsPerMsg

(* On time, what the host processes is the next LoopsPerMsg packets, all   *)
(* of them, in order (AnalogCore_GetSamples, DAQ_Run).                     *)
WholeMessage ==
    OnTime /\ hostpc = "process" =>
        \A i \in Slots : dbuffer[i] = ch_data[LoopsPerMsg - 1] + 1 + i

(* Every packet in the scratch pad, or a later one, reaches PRU0, even     *)
(* when deadlines are missed (PRU0 always comes back to its WBS).          *)
PacketsFetched ==
    \A p \in Packets : scratch = p ~> regs >= p

(* Every interrupt of PRU0 reaches the host's memcpy in DAQ_Run, even when *)
(* deadlines are missed.                                                   *)
InterruptsAnswered == evt19 ~> hostpc = "copy"

(* Neither signal of the chain, of PRU1 or of PRU0, stays unanswered.      *)
SignalsServed == PacketsFetched /\ InterruptsAnswered

(* On time, the chain is the lossless message stream of MessageStream.     *)
Stream == INSTANCE MessageStream WITH acquired <- scratch, message <- ch_data

(* The chain, read through that mapping, implements the stream and its     *)
(* fairness (the whole of PRU1, PRU0, prussdrv.c and AnalogCore.c).        *)
StreamOfMessages == Stream!FairStreamSpec

(* What main.cpp says of its check: "verify if application lost packets".  *)
(* While PRU0 has lost none, a message that does not continue the previous *)
(* one is reported.                                                        *)
LossNotified ==
    [][ /\ Host_Process /\ ~linkLate
        /\ \E i \in Slots : dbuffer[i] # ch_data[LoopsPerMsg - 1] + 1 + i
        => notified' ]_vars
=============================================================================
