------------------------- MODULE AcquisitionProofs -------------------------
(***************************************************************************)
(* Proofs about the acquisition chain, for every message length and every  *)
(* number of packets.  Three layers, each resting on the one before:       *)
(*   Positions  where PRU0 writes (unconditional): type correctness        *)
(*   EventPath  the interrupt path (unconditional): no signal is forgotten *)
(*   Timely     what the buffers hold while every deadline is met          *)
(***************************************************************************)
EXTENDS Acquisition, TLAPS

USE AcquisitionAssumption
USE DEF vars, pru1Vars, intcVars, pru0Vars, hostVars, histVars

-----------------------------------------------------------------------------
(* Positions: the loop counter and the DDR pointer of PRU0 move together.  *)

WritePosition ==
    /\ pru0pc = "raise" <=> r27 = 0
    /\ r29 = (IF loop = 1 THEN 0 ELSE LoopsPerMsg) + LoopsPerMsg - r27

Positions ==
    /\ TypeOK
    /\ WritePosition

(* The two message buffers as parts of the DDR pool.                       *)
LEMMA BufferSlots ==
    ASSUME NEW b \in {0, 1}, NEW i \in Slots
    PROVE  b * LoopsPerMsg + i \in DdrSlots
<1>1. CASE b = 0
  BY <1>1 DEF Slots, DdrSlots
<1>2. CASE b = 1
  BY <1>2 DEF Slots, DdrSlots
<1> QED
  BY <1>1, <1>2

(* The initial state satisfies Positions.                                  *)
LEMMA PositionsInit == Init => Positions
<1> SUFFICES ASSUME Init PROVE Positions
  OBVIOUS
<1>1. 0 \in Packets /\ 0 \in Slots
  BY DEF Packets, Slots
<1>2. /\ ddr \in [DdrSlots -> Packets]
      /\ dbuffer \in [Slots -> Packets]
      /\ ch_data \in [Slots -> Packets]
  BY <1>1 DEF Init
<1>3. /\ r27 \in 0 .. LoopsPerMsg /\ r27 # 0
      /\ r29 \in 0 .. 2 * LoopsPerMsg
      /\ r29 = (IF loop = 1 THEN 0 ELSE LoopsPerMsg) + LoopsPerMsg - r27
  BY DEF Init
<1>4. Flags
  BY DEF Init, Flags
<1> QED
  BY <1>1, <1>2, <1>3, <1>4 DEF Init, Positions, TypeOK, WritePosition

(* Every step keeps the flags Boolean.                                     *)
LEMMA FlagsStep == Flags /\ [Next]_vars => Flags'
<1> SUFFICES ASSUME Flags, [Next]_vars PROVE Flags'
  OBVIOUS
<1> USE DEF Flags
<1>1. CASE PRU1_Xout
  BY <1>1 DEF PRU1_Xout
<1>2. CASE Pru0
  BY <1>2 DEF Pru0, PRU0_WaitPru1, PRU0_ClearPru1, PRU0_Xin, PRU0_Store,
              PRU0_SignalHost
<1>3. CASE Host
  BY <1>3 DEF Host, Host_Connect, Host_WaitEvent, Host_ClearEvent,
              Host_EnableInterrupt, Host_Copy, Host_Process
<1>4. CASE PRU1_Signal \/ Uio_Interrupt \/ UNCHANGED vars
  BY <1>4 DEF PRU1_Signal, Uio_Interrupt
<1> QED
  BY <1>1, <1>2, <1>3, <1>4 DEF Next, Pru1, Idle

(* Every step of PRU1, PRU0, the driver and the host keeps Positions.      *)
LEMMA PositionsStep == Positions /\ [Next]_vars => Positions'
<1> SUFFICES ASSUME Positions, [Next]_vars PROVE Positions'
  OBVIOUS
<1> USE DEF Positions, TypeOK, WritePosition
<1>0. Flags'
  BY FlagsStep
<1>1. CASE PRU1_Xout
  BY <1>0, <1>1 DEF PRU1_Xout, Packets
<1>2. CASE PRU1_Signal
  BY <1>0, <1>2 DEF PRU1_Signal
<1>3. CASE PRU0_WaitPru1
  BY <1>0, <1>3 DEF PRU0_WaitPru1
<1>4. CASE PRU0_ClearPru1
  BY <1>0, <1>4 DEF PRU0_ClearPru1
<1>5. CASE PRU0_Xin
  BY <1>0, <1>5 DEF PRU0_Xin
<1>6. CASE PRU0_Store
  <2>1. r27 \in 1 .. LoopsPerMsg /\ r29 \in DdrSlots
    BY <1>6 DEF PRU0_Store, DdrSlots
  <2>2. ddr' \in [DdrSlots -> Packets]
    BY <1>6, <2>1 DEF PRU0_Store
  <2>3. /\ r27' \in 0 .. LoopsPerMsg
        /\ r29' \in 0 .. 2 * LoopsPerMsg
        /\ r29' = (IF loop = 1 THEN 0 ELSE LoopsPerMsg) + LoopsPerMsg - r27'
    BY <1>6, <2>1 DEF PRU0_Store, DdrSlots
  <2>4. pru0pc' \in {"wait", "raise"} /\ (pru0pc' = "raise" <=> r27' = 0)
    BY <1>6 DEF PRU0_Store
  <2>5. UNCHANGED <<pru1Vars, intcVars, loop, regs, uioCount, hostVars,
                    msgBase, raised, taken, linkLate>>
    BY <1>6 DEF PRU0_Store
  <2> QED
    BY <1>0, <2>2, <2>3, <2>4, <2>5
<1>7. CASE PRU0_SignalHost
  BY <1>0, <1>7 DEF PRU0_SignalHost
<1>8. CASE Uio_Interrupt
  BY <1>0, <1>8 DEF Uio_Interrupt
<1>9. CASE Host_Connect
  BY <1>0, <1>9 DEF Host_Connect
<1>10. CASE Host_WaitEvent
  BY <1>0, <1>10 DEF Host_WaitEvent
<1>11. CASE Host_ClearEvent
  BY <1>0, <1>11 DEF Host_ClearEvent
<1>12. CASE Host_EnableInterrupt
  BY <1>0, <1>12 DEF Host_EnableInterrupt
<1>13. CASE Host_Copy
  <2>1. ddr[buffer_ix * LoopsPerMsg + copied] \in Packets
    BY BufferSlots
  <2>2. dbuffer' \in [Slots -> Packets]
    BY <1>13, <2>1 DEF Host_Copy
  <2>3. copied' \in Slots
    BY <1>13 DEF Host_Copy, Slots
  <2>4. hostpc' \in {"copy", "process"} /\ buffer_ix' \in {0, 1}
        /\ taken' \in Nat
    BY <1>13 DEF Host_Copy
  <2> QED
    BY <1>0, <1>13, <2>2, <2>3, <2>4 DEF Host_Copy
<1>14. CASE Host_Process
  BY <1>0, <1>14 DEF Host_Process
<1>15. CASE UNCHANGED vars
  BY <1>0, <1>15
<1> QED
  BY <1>1, <1>2, <1>3, <1>4, <1>5, <1>6, <1>7, <1>8, <1>9, <1>10, <1>11,
     <1>12, <1>13, <1>14, <1>15 DEF Next, Pru1, Pru0, Host, Idle

(* Type correctness: PRU0 never writes outside the two message buffers and *)
(* the host never reads outside them, whatever the timing.                 *)
THEOREM TypeCorrect == Spec => []TypeOK
<1>1. Spec => []Positions
  BY PositionsInit, PositionsStep, PTL DEF Spec
<1>2. Positions => TypeOK
  BY DEF Positions
<1> QED
  BY <1>1, <1>2, PTL
-----------------------------------------------------------------------------
(* EventPath: where an interrupt of PRU0 can be between the INTC and the   *)
(* host.                                                                   *)

EventPath ==
    /\ uioCount = listener \/ uioCount = listener + 1
    /\ uioCount # listener => /\ evt19 /\ ~hostEnabled
                              /\ hostpc \notin {"clear", "enable"}
    /\ hostpc \in {"clear", "enable"} => ~hostEnabled
    /\ hostpc = "clear" => evt19
    /\ ~hostEnabled => uioCount # listener \/ hostpc \in {"clear", "enable"}

(* A packet's signal is never forgotten (pru0.asm): PRU0 clears the event  *)
(* before the XIN.  The invariant is inductive as it stands.               *)
THEOREM PacketSignalAlwaysKept == Spec => []PacketSignalKept
<1>1. Init => PacketSignalKept
  BY DEF Init, PacketSignalKept
<1>2. PacketSignalKept /\ [Next]_vars => PacketSignalKept'
  <2> SUFFICES ASSUME PacketSignalKept, [Next]_vars PROVE PacketSignalKept'
    OBVIOUS
  <2>1. CASE Pru1
    BY <2>1 DEF Pru1, PRU1_Xout, PRU1_Signal, PacketSignalKept
  <2>2. CASE Pru0
    BY <2>2 DEF Pru0, PRU0_WaitPru1, PRU0_ClearPru1, PRU0_Xin, PRU0_Store,
                PRU0_SignalHost, PacketSignalKept
  <2>3. CASE Host
    BY <2>3 DEF Host, Host_Connect, Host_WaitEvent, Host_ClearEvent,
                Host_EnableInterrupt, Host_Copy, Host_Process,
                PacketSignalKept
  <2>4. CASE Uio_Interrupt \/ UNCHANGED vars
    BY <2>4 DEF Uio_Interrupt, PacketSignalKept
  <2> QED
    BY <2>1, <2>2, <2>3, <2>4 DEF Next, Idle
<1> QED
  BY <1>1, <1>2, PTL DEF Spec

(* The interrupt path keeps EventPath: only the driver counts, only the    *)
(* host's clear-then-enable opens the interrupt again.                     *)
LEMMA EventPathStep ==
    TypeOK /\ EventPath /\ [Next]_vars => EventPath'
<1> SUFFICES ASSUME TypeOK, EventPath, [Next]_vars PROVE EventPath'
  OBVIOUS
<1> USE DEF EventPath
<1>1. CASE PRU1_Xout
  BY <1>1 DEF PRU1_Xout, TypeOK
<1>2. CASE PRU1_Signal
  BY <1>2 DEF PRU1_Signal, TypeOK
<1>3. CASE PRU0_WaitPru1
  BY <1>3 DEF PRU0_WaitPru1, TypeOK
<1>4. CASE PRU0_ClearPru1
  BY <1>4 DEF PRU0_ClearPru1, TypeOK
<1>5. CASE PRU0_Xin
  BY <1>5 DEF PRU0_Xin, TypeOK
<1>6. CASE PRU0_Store
  BY <1>6 DEF PRU0_Store, TypeOK
<1>7. CASE PRU0_SignalHost
  BY <1>7 DEF PRU0_SignalHost, TypeOK
<1>8. CASE Uio_Interrupt
  BY <1>8 DEF Uio_Interrupt, TypeOK
<1>9. CASE Host_Connect
  BY <1>9 DEF Host_Connect, TypeOK
<1>10. CASE Host_WaitEvent
  BY <1>10 DEF Host_WaitEvent, TypeOK
<1>11. CASE Host_ClearEvent
  BY <1>11 DEF Host_ClearEvent, TypeOK
<1>12. CASE Host_EnableInterrupt
  BY <1>12 DEF Host_EnableInterrupt, TypeOK
<1>13. CASE Host_Copy
  BY <1>13 DEF Host_Copy, TypeOK
<1>14. CASE Host_Process
  BY <1>14 DEF Host_Process, TypeOK
<1>15. CASE UNCHANGED vars
  BY <1>15
<1> QED
  BY <1>1, <1>2, <1>3, <1>4, <1>5, <1>6, <1>7, <1>8, <1>9, <1>10, <1>11,
     <1>12, <1>13, <1>14, <1>15 DEF Next, Pru1, Pru0, Host, Idle

(* Messages the host owes a turn for. *)
Owed == Bit(evt19) + Bit(hostpc \in {"enable", "copy"})

OwedBound == taken + Owed <= raised

(* Only PRU0 adds to what the host owes, and it counts what it adds.       *)
LEMMA OwedBoundStep ==
    TypeOK /\ EventPath /\ OwedBound /\ [Next]_vars => OwedBound'
<1> SUFFICES ASSUME TypeOK, EventPath, OwedBound, [Next]_vars
             PROVE  OwedBound'
  OBVIOUS
<1> USE DEF OwedBound, Owed, Bit, TypeOK
<1>1. CASE Pru1
  BY <1>1 DEF Pru1, PRU1_Xout, PRU1_Signal
<1>2. CASE PRU0_SignalHost
  BY <1>2 DEF PRU0_SignalHost
<1>3. CASE PRU0_WaitPru1 \/ PRU0_ClearPru1 \/ PRU0_Xin \/ PRU0_Store
  BY <1>3 DEF PRU0_WaitPru1, PRU0_ClearPru1, PRU0_Xin, PRU0_Store
<1>4. CASE Host_ClearEvent
  BY <1>4 DEF Host_ClearEvent, EventPath
<1>5. CASE Host_Copy
  BY <1>5 DEF Host_Copy
<1>6. CASE Host_Connect \/ Host_WaitEvent \/ Host_EnableInterrupt
             \/ Host_Process
  BY <1>6 DEF Host_Connect, Host_WaitEvent, Host_EnableInterrupt,
              Host_Process
<1>7. CASE Uio_Interrupt \/ UNCHANGED vars
  BY <1>7 DEF Uio_Interrupt
<1> QED
  BY <1>1, <1>2, <1>3, <1>4, <1>5, <1>6, <1>7 DEF Next, Pru0, Host, Idle

(* The two unconditional layers hold together.                             *)
LEMMA PathInvariant == Spec => [](Positions /\ EventPath /\ OwedBound)
<1>1. Init => Positions /\ EventPath /\ OwedBound
  BY PositionsInit DEF Init, EventPath, OwedBound, Owed, Bit
<1>2. Positions /\ EventPath /\ OwedBound /\ [Next]_vars
        => (Positions /\ EventPath /\ OwedBound)'
  BY PositionsStep, EventPathStep, OwedBoundStep DEF Positions
<1> QED
  BY <1>1, <1>2, PTL DEF Spec

(* An interrupt PRU0 raised is never forgotten between the INTC, the UIO   *)
(* driver and the host, whatever the timing (prussdrv_pru_wait_event,      *)
(* prussdrv_pru_clear_event).                                              *)
THEOREM HostWakeupAlwaysKept == Spec => []HostWakeupKept
<1>1. Positions /\ EventPath /\ OwedBound => HostWakeupKept
  BY DEF EventPath, HostWakeupKept
<1> QED
  BY <1>1, PathInvariant, PTL

(* The host never takes a turn PRU0 did not announce, and read() never     *)
(* shows it more than one new interrupt (DAQ_Run).                         *)
THEOREM NoTurnIsSpurious == Spec => []NoSpuriousTurn
<1>1. Positions /\ EventPath /\ OwedBound => NoSpuriousTurn
  <2> SUFFICES ASSUME Positions, EventPath, OwedBound PROVE NoSpuriousTurn
    OBVIOUS
  <2>1. uioCount - listener \in {0, 1}
    BY DEF Positions, TypeOK, EventPath
  <2>2. taken + Bit(hostpc \in {"clear", "enable", "copy"}) <= raised
    BY DEF Positions, TypeOK, EventPath, OwedBound, Owed, Bit
  <2> QED
    BY <2>1, <2>2 DEF NoSpuriousTurn
<1> QED
  BY <1>1, PathInvariant, PTL

-----------------------------------------------------------------------------
(* Timely: while every deadline is met, PRU0 takes the packets one by one, *)
(* each message buffer holds one message, and the host is less than two    *)
(* messages behind.                                                        *)

Filled == LoopsPerMsg - r27        \* packets of the current message in DDR

CurBase == IF loop = 1 THEN 0 ELSE LoopsPerMsg
OldBase == IF loop = 1 THEN LoopsPerMsg ELSE 0

PacketLink ==
    /\ scratch = regs \/ scratch = regs + 1
    /\ pru0pc = "store" => regs = msgBase + Filled + 1
    /\ pru0pc # "store" => regs = msgBase + Filled
    /\ pru1pc = "signal" => /\ scratch = regs + 1 /\ ~evt18
                            /\ pru0pc \notin {"clear", "xin"}
    /\ evt18 => scratch = regs + 1
    /\ pru0pc = "clear" => evt18
    /\ pru0pc = "xin" => scratch = regs + 1 /\ ~evt18

DdrContents ==
    /\ \A j \in Slots : j < Filled => ddr[CurBase + j] = msgBase + 1 + j
    /\ raised >= 1 =>
         \A j \in Slots : ddr[OldBase + j] = msgBase - LoopsPerMsg + 1 + j
    /\ raised >= 2 =>
         \A j \in Slots : j >= Filled =>
            ddr[CurBase + j] = msgBase - 2 * LoopsPerMsg + 1 + j

Received == IF hostpc = "process" THEN dbuffer[LoopsPerMsg - 1]
                                  ELSE ch_data[LoopsPerMsg - 1]

HostPhase ==
    /\ raised = taken + Owed
    /\ Owed = 2 => r27 = LoopsPerMsg
    /\ Owed = 1 => buffer_ix = 2 - loop
    /\ Owed # 1 => buffer_ix = loop - 1
    /\ hostpc # "copy" => copied = 0

HostData ==
    /\ Owed = 0 => Received = msgBase
    /\ Owed = 1 => Received + LoopsPerMsg = msgBase
    /\ Owed = 2 => Received + 2 * LoopsPerMsg = msgBase
    /\ hostpc = "copy" => \A j \in Slots : j < copied =>
                             dbuffer[j] = ch_data[LoopsPerMsg - 1] + 1 + j
    /\ hostpc = "process" => \A j \in Slots :
                             dbuffer[j] = ch_data[LoopsPerMsg - 1] + 1 + j

Timely == OnTime => PacketLink /\ DdrContents /\ HostPhase /\ HostData
(* A missed deadline is never forgotten.                                   *)
LEMMA LateIsFinal ==
    ASSUME Flags, [Next]_vars, OnTime'
    PROVE  OnTime
<1> USE DEF OnTime, Flags
<1>1. CASE PRU1_Xout
  BY <1>1 DEF PRU1_Xout
<1>2. CASE PRU0_Store
  BY <1>2 DEF PRU0_Store
<1>3. CASE PRU0_SignalHost
  BY <1>3 DEF PRU0_SignalHost
<1>4. CASE UNCHANGED <<linkLate, hostLate>>
  BY <1>4
<1>5. CASE PRU1_Signal \/ Uio_Interrupt \/ UNCHANGED vars
  BY <1>4, <1>5 DEF PRU1_Signal, Uio_Interrupt
<1>6. CASE PRU0_WaitPru1 \/ PRU0_ClearPru1 \/ PRU0_Xin
  BY <1>4, <1>6 DEF PRU0_WaitPru1, PRU0_ClearPru1, PRU0_Xin
<1>7. CASE Host
  <2>1. UNCHANGED <<linkLate, hostLate>>
    BY <1>7 DEF Host, Host_Connect, Host_WaitEvent, Host_ClearEvent,
                Host_EnableInterrupt, Host_Copy, Host_Process
  <2> QED
    BY <1>4, <2>1
<1> QED
  BY <1>1, <1>2, <1>3, <1>5, <1>6, <1>7 DEF Next, Pru1, Pru0, Idle

(* On time, PRU0 fetches every packet exactly once.                        *)
LEMMA PacketLinkStep ==
    ASSUME Positions, PacketLink, OnTime', [Next]_vars
    PROVE  PacketLink'
<1> USE DEF PacketLink, Filled, Positions, WritePosition, TypeOK
<1>1. CASE PRU1_Xout
  <2>1. regs = scratch
    BY <1>1 DEF PRU1_Xout, OnTime
  <2> QED
    BY <1>1, <2>1 DEF PRU1_Xout, Packets
<1>2. CASE PRU1_Signal
  BY <1>2 DEF PRU1_Signal, Packets
<1>3. CASE PRU0_WaitPru1
  BY <1>3 DEF PRU0_WaitPru1
<1>4. CASE PRU0_ClearPru1
  BY <1>4 DEF PRU0_ClearPru1
<1>5. CASE PRU0_Xin
  BY <1>5 DEF PRU0_Xin, Packets
<1>6. CASE PRU0_Store
  BY <1>6 DEF PRU0_Store, Packets
<1>7. CASE PRU0_SignalHost
  BY <1>7 DEF PRU0_SignalHost, Packets
<1>8. CASE Host
  <2>1. UNCHANGED <<pru1Vars, pru0Vars, evt18, msgBase>>
    BY <1>8 DEF Host, Host_Connect, Host_WaitEvent, Host_ClearEvent,
                Host_EnableInterrupt, Host_Copy, Host_Process
  <2> QED
    BY <2>1
<1>9. CASE Uio_Interrupt \/ UNCHANGED vars
  BY <1>9 DEF Uio_Interrupt
<1> QED
  BY <1>1, <1>2, <1>3, <1>4, <1>5, <1>6, <1>7, <1>8, <1>9
     DEF Next, Pru1, Pru0, Idle

(* On time, each buffer holds the packets of one message, in order; the    *)
(* one being filled still holds the rest of the message before the last.   *)
LEMMA DdrContentsStep ==
    ASSUME Positions, PacketLink, DdrContents, [Next]_vars
    PROVE  DdrContents'
<1> USE DEF Positions, TypeOK
<1>1. CASE PRU0_Store
  <2>1. /\ r29 = CurBase + Filled /\ Filled \in Slots
        /\ Filled' = Filled + 1
        /\ UNCHANGED <<CurBase, OldBase, raised, msgBase>>
    BY <1>1 DEF PRU0_Store, Filled, CurBase, OldBase, WritePosition, Slots
  <2>2. \A j \in Slots : /\ CurBase + j \in DdrSlots
                         /\ OldBase + j \in DdrSlots
                         /\ OldBase + j # r29
                         /\ CurBase + j = r29 <=> j = Filled
    BY <2>1 DEF CurBase, OldBase, Slots, DdrSlots
  <2>3. regs = msgBase + Filled + 1
    BY <1>1 DEF PRU0_Store, PacketLink
  <2>4. \A s \in DdrSlots : ddr'[s] = IF s = r29 THEN regs ELSE ddr[s]
    BY <1>1 DEF PRU0_Store
  <2>5. \A j \in Slots : /\ ddr'[OldBase + j] = ddr[OldBase + j]
                         /\ ddr'[CurBase + j] =
                              IF j = Filled THEN regs ELSE ddr[CurBase + j]
    BY <2>2, <2>4
  <2>6. \A j \in Slots : j < Filled' => ddr'[CurBase' + j] = msgBase' + 1 + j
    <3> SUFFICES ASSUME NEW j \in Slots, j < Filled + 1
                 PROVE  ddr'[CurBase + j] = msgBase + 1 + j
      BY <2>1
    <3>1. CASE j = Filled
      BY <2>3, <2>5, <3>1 DEF Slots
    <3>2. CASE j # Filled
      <4>1. j < Filled
        BY <2>1, <3>2 DEF Slots
      <4> QED
        BY <2>5, <3>2, <4>1 DEF DdrContents
    <3> QED
      BY <3>1, <3>2
  <2>7. raised' >= 1 => \A j \in Slots :
          ddr'[OldBase' + j] = msgBase' - LoopsPerMsg + 1 + j
    BY <2>1, <2>5 DEF DdrContents
  <2>8. raised' >= 2 => \A j \in Slots : j >= Filled' =>
          ddr'[CurBase' + j] = msgBase' - 2 * LoopsPerMsg + 1 + j
    BY <2>1, <2>5 DEF DdrContents, Slots
  <2> QED
    BY <2>6, <2>7, <2>8 DEF DdrContents
<1>2. CASE PRU0_SignalHost
  <2>1. /\ Filled = LoopsPerMsg /\ Filled' = 0
        /\ CurBase' = OldBase /\ OldBase' = CurBase
        /\ msgBase' = msgBase + LoopsPerMsg /\ raised' = raised + 1
        /\ ddr' = ddr
    BY <1>2 DEF PRU0_SignalHost, Filled, CurBase, OldBase, WritePosition
  <2> QED
    BY <2>1 DEF DdrContents, Slots
<1>3. CASE UNCHANGED <<ddr, r27, loop, msgBase, raised>>
  BY <1>3 DEF DdrContents, Filled, CurBase, OldBase
<1>4. CASE Pru1 \/ Uio_Interrupt
  BY <1>3, <1>4 DEF Pru1, PRU1_Xout, PRU1_Signal, Uio_Interrupt
<1>5. CASE Host
  BY <1>3, <1>5 DEF Host, Host_Connect, Host_WaitEvent, Host_ClearEvent,
                    Host_EnableInterrupt, Host_Copy, Host_Process
<1>6. CASE PRU0_WaitPru1 \/ PRU0_ClearPru1 \/ PRU0_Xin
  BY <1>3, <1>6 DEF PRU0_WaitPru1, PRU0_ClearPru1, PRU0_Xin
<1> QED
  BY <1>1, <1>2, <1>3, <1>4, <1>5, <1>6 DEF Next, Pru0, Idle

(* The host owes two messages at most: one announced, one being copied.    *)
LEMMA OwedRange == Owed \in {0, 1, 2}
BY DEF Owed, Bit

(* Steps that neither announce nor take a message leave the host's turn    *)
(* and what it has received as they are.                                   *)
LEMMA QuietStep ==
    ASSUME Positions, HostPhase, HostData,
           UNCHANGED <<raised, taken, r27, loop, msgBase, buffer_ix, copied,
                       dbuffer, ch_data>>,
           Owed' = Owed, Received' = Received,
           hostpc' = "copy" => hostpc = "copy" \/ copied = 0,
           hostpc' # "copy" => hostpc # "copy",
           hostpc' = "process" => hostpc = "process"
    PROVE  HostPhase' /\ HostData'
<1>1. HostPhase'
  BY DEF HostPhase
<1>2. HostData'
  BY DEF HostData, Slots
<1> QED
  BY <1>1, <1>2

(* PRU0 announces a message on time: the host owed one at most.            *)
LEMMA AnnounceStep ==
    ASSUME Positions, HostPhase, HostData, OnTime', PRU0_SignalHost
    PROVE  HostPhase' /\ HostData'
<1>1. ~evt19
  BY DEF PRU0_SignalHost, OnTime
<1>2. Owed' = Owed + 1 /\ Owed \in {0, 1}
  BY <1>1 DEF PRU0_SignalHost, Owed, Bit
<1>3. /\ UNCHANGED <<taken, buffer_ix, copied, dbuffer, ch_data, hostpc>>
      /\ raised' = raised + 1 /\ loop' = 3 - loop /\ r27' = LoopsPerMsg
      /\ msgBase' = msgBase + LoopsPerMsg
  BY DEF PRU0_SignalHost
<1>4. Received' = Received /\ Received \in Nat
  BY <1>3 DEF Received, Positions, TypeOK, Slots, Packets
<1>5. HostPhase'
  BY <1>2, <1>3 DEF HostPhase, Positions, TypeOK
<1>6. HostData'
  BY <1>2, <1>3, <1>4 DEF HostData, Positions, TypeOK
<1> QED
  BY <1>5, <1>6

(* memcpy on time: the buffer the host reads holds the next message, and   *)
(* PRU0 has not begun to overwrite it.                                     *)
LEMMA CopyStep ==
    ASSUME Positions, DdrContents, HostPhase, HostData, Host_Copy
    PROVE  HostPhase' /\ HostData'
<1> USE DEF Positions, TypeOK
<1> DEFINE last == ch_data[LoopsPerMsg - 1]
<1>1. /\ hostpc = "copy" /\ copied \in Slots /\ last \in Nat
      /\ Received = last /\ Owed \in {1, 2}
  BY DEF Host_Copy, Received, Owed, Bit, Slots, Packets
<1>2. ddr[buffer_ix * LoopsPerMsg + copied] = last + 1 + copied
  <2>1. CASE Owed = 1
    <3>1. buffer_ix * LoopsPerMsg = OldBase
      BY <2>1 DEF HostPhase, OldBase
    <3>2. raised >= 1 /\ last + LoopsPerMsg = msgBase
      BY <1>1, <2>1 DEF HostPhase, HostData
    <3>3. ddr[OldBase + copied] = msgBase - LoopsPerMsg + 1 + copied
      BY <1>1, <3>2 DEF DdrContents
    <3>4. msgBase - LoopsPerMsg + 1 + copied = last + 1 + copied
      BY <1>1, <3>2 DEF Slots
    <3> QED
      BY <3>1, <3>3, <3>4
  <2>2. CASE Owed = 2
    <3>1. buffer_ix * LoopsPerMsg = CurBase
      BY <2>2 DEF HostPhase, CurBase
    <3>2. /\ raised >= 2 /\ last + 2 * LoopsPerMsg = msgBase
          /\ Filled = 0
      BY <1>1, <2>2 DEF HostPhase, HostData, Filled
    <3>3. copied >= Filled
      BY <1>1, <3>2 DEF Slots
    <3>4. ddr[CurBase + copied] = msgBase - 2 * LoopsPerMsg + 1 + copied
      BY <1>1, <3>2, <3>3 DEF DdrContents
    <3>5. msgBase - 2 * LoopsPerMsg + 1 + copied = last + 1 + copied
      BY <1>1, <3>2 DEF Slots
    <3> QED
      BY <3>1, <3>4, <3>5
  <2> QED
    BY <1>1, <2>1, <2>2
<1>3. /\ \A j \in Slots : dbuffer'[j] =
             IF j = copied THEN last + 1 + copied ELSE dbuffer[j]
      /\ UNCHANGED <<ch_data, raised, msgBase, loop, r27, evt19>>
  BY <1>1, <1>2 DEF Host_Copy
<1>4. \A j \in Slots : j < copied + 1 => dbuffer'[j] = last + 1 + j
  <2> SUFFICES ASSUME NEW j \in Slots, j < copied + 1
               PROVE  dbuffer'[j] = last + 1 + j
    OBVIOUS
  <2>1. j = copied \/ j < copied
    BY <1>1 DEF Slots
  <2> QED
    BY <1>1, <1>3, <2>1 DEF HostData
<1>5. CASE copied + 1 < LoopsPerMsg
  <2>1. UNCHANGED <<hostpc, buffer_ix, taken>> /\ copied' = copied + 1
    BY <1>5 DEF Host_Copy
  <2>2. Owed' = Owed /\ Received' = Received
    BY <1>1, <1>3, <2>1 DEF Owed, Received
  <2>3. HostPhase'
    BY <1>1, <1>3, <2>1, <2>2 DEF HostPhase
  <2>4. HostData'
    BY <1>1, <1>3, <1>4, <2>1, <2>2 DEF HostData
  <2> QED
    BY <2>3, <2>4
<1>6. CASE ~(copied + 1 < LoopsPerMsg)
  <2>1. /\ hostpc' = "process" /\ buffer_ix' = 1 - buffer_ix
        /\ taken' = taken + 1 /\ copied' = 0
    BY <1>6 DEF Host_Copy
  <2>2. copied = LoopsPerMsg - 1
    BY <1>1, <1>6 DEF Slots
  <2>3. Owed' = Owed - 1
    BY <1>1, <1>3, <2>1 DEF Owed, Bit
  <2>4. Received' = last + LoopsPerMsg
    BY <1>1, <1>4, <2>1, <2>2 DEF Received, Slots
  <2>5. HostPhase'
    BY <1>1, <1>3, <2>1, <2>3 DEF HostPhase
  <2>6. \A j \in Slots : dbuffer'[j] = last + 1 + j
    BY <1>4, <2>2 DEF Slots
  <2>7. HostData'
    BY <1>1, <1>3, <2>1, <2>3, <2>4, <2>6 DEF HostData
  <2> QED
    BY <2>5, <2>7
<1> QED
  BY <1>5, <1>6

(* On time, the host is less than two messages behind and turns the        *)
(* buffers over in step with PRU0.                                         *)
LEMMA HostTurnStep ==
    ASSUME Positions, EventPath, DdrContents, HostPhase, HostData,
           OnTime', [Next]_vars
    PROVE  HostPhase' /\ HostData'
<1>1. CASE PRU0_Store
  <2>1. ~(raised > taken + 1)
    BY <1>1 DEF PRU0_Store, OnTime
  <2>2. /\ UNCHANGED <<raised, taken, loop, msgBase, buffer_ix, copied,
                       dbuffer, ch_data, hostpc, evt19>>
    BY <1>1 DEF PRU0_Store
  <2>3. Owed' = Owed /\ Received' = Received
    BY <2>2 DEF Owed, Received
  <2>4. Owed # 2
    BY <2>1, OwedRange DEF HostPhase, Positions, TypeOK
  <2>5. HostPhase'
    BY <2>2, <2>3, <2>4 DEF HostPhase
  <2>6. HostData'
    BY <2>2, <2>3 DEF HostData
  <2> QED
    BY <2>5, <2>6
<1>2. CASE PRU0_SignalHost
  BY <1>2, AnnounceStep
<1>3. CASE Host_Copy
  BY <1>3, CopyStep
<1>4. CASE Host_Process
  <2>1. /\ hostpc = "process" /\ hostpc' = "wait" /\ ch_data' = dbuffer
        /\ UNCHANGED <<raised, taken, r27, loop, msgBase, buffer_ix, copied,
                       evt19>>
    BY <1>4 DEF Host_Process
  <2>2. Owed' = Owed /\ Received' = Received
    BY <2>1 DEF Owed, Received
  <2>3. HostPhase'
    BY <2>1, <2>2 DEF HostPhase
  <2>4. HostData'
    BY <2>1, <2>2 DEF HostData
  <2> QED
    BY <2>3, <2>4
<1>5. CASE Host_ClearEvent
  <2>1. Owed' = Owed /\ Received' = Received
    BY <1>5 DEF Host_ClearEvent, Owed, Received, Bit, EventPath
  <2> QED
    BY <1>5, <2>1, QuietStep DEF Host_ClearEvent
<1>6. CASE Host_Connect \/ Host_WaitEvent \/ Host_EnableInterrupt
  <2>1. Owed' = Owed /\ Received' = Received
    BY <1>6 DEF Host_Connect, Host_WaitEvent, Host_EnableInterrupt, Owed,
                Received
  <2>2. hostpc # "copy" => copied = 0
    BY DEF HostPhase
  <2> QED
    BY <1>6, <2>1, <2>2, QuietStep
       DEF Host_Connect, Host_WaitEvent, Host_EnableInterrupt
<1>7. CASE UNCHANGED <<raised, taken, r27, loop, msgBase, buffer_ix, copied,
                       dbuffer, ch_data, hostpc, evt19>>
  <2>1. Owed' = Owed /\ Received' = Received
    BY <1>7 DEF Owed, Received
  <2> QED
    BY <1>7, <2>1, QuietStep
<1>8. CASE Pru1 \/ Uio_Interrupt \/ UNCHANGED vars
  BY <1>7, <1>8 DEF Pru1, PRU1_Xout, PRU1_Signal, Uio_Interrupt
<1>9. CASE PRU0_WaitPru1 \/ PRU0_ClearPru1 \/ PRU0_Xin
  BY <1>7, <1>9 DEF PRU0_WaitPru1, PRU0_ClearPru1, PRU0_Xin
<1> QED
  BY <1>1, <1>2, <1>3, <1>4, <1>5, <1>6, <1>8, <1>9
     DEF Next, Pru0, Host, Idle

-----------------------------------------------------------------------------
(* The three layers together.                                              *)

ChainInv == Positions /\ EventPath /\ Timely

(* The invariant holds initially.                                          *)
LEMMA ChainInit == Init => ChainInv
<1> SUFFICES ASSUME Init PROVE ChainInv
  OBVIOUS
<1>1. Positions /\ EventPath
  BY PositionsInit DEF Init, EventPath
<1>2. Filled = 0 /\ Owed = 0
  BY DEF Init, Filled, Owed, Bit
<1>3. PacketLink
  BY <1>2 DEF Init, PacketLink
<1>4. DdrContents
  BY <1>2 DEF Init, DdrContents, Slots
<1>5. HostPhase
  BY <1>2 DEF Init, HostPhase
<1>6. Received = 0
  BY DEF Init, Received, Slots
<1>7. HostData
  BY <1>2, <1>6 DEF Init, HostData
<1> QED
  BY <1>1, <1>3, <1>4, <1>5, <1>7 DEF ChainInv, Timely

(* Every step keeps it.                                                    *)
LEMMA ChainStep == ChainInv /\ [Next]_vars => ChainInv'
<1> SUFFICES ASSUME ChainInv, [Next]_vars PROVE ChainInv'
  OBVIOUS
<1>1. Positions' /\ EventPath'
  BY PositionsStep, EventPathStep DEF ChainInv, Positions
<1>2. ASSUME OnTime'
      PROVE  (PacketLink /\ DdrContents /\ HostPhase /\ HostData)'
  <2>1. OnTime
    BY <1>2, LateIsFinal DEF ChainInv, Positions, TypeOK
  <2>2. PacketLink /\ DdrContents /\ HostPhase /\ HostData
    BY <2>1 DEF ChainInv, Timely
  <2>3. PacketLink'
    BY <1>2, <2>2, PacketLinkStep DEF ChainInv
  <2>4. DdrContents'
    BY <2>2, DdrContentsStep DEF ChainInv
  <2>5. HostPhase' /\ HostData'
    BY <1>2, <2>2, HostTurnStep DEF ChainInv
  <2> QED
    BY <2>3, <2>4, <2>5
<1> QED
  BY <1>1, <1>2 DEF ChainInv, Timely

(* It is an invariant of the chain.                                        *)
LEMMA ChainInvariant == Spec => []ChainInv
BY ChainInit, ChainStep, PTL DEF Spec

(* On time, every announced message is taken, announced or being copied:   *)
(* no interrupt of PRU0 is merged with another.                            *)
THEOREM MessagesAccounted == Spec => []EveryMessageAccounted
<1>1. ChainInv => EveryMessageAccounted
  <2> SUFFICES ASSUME ChainInv, OnTime PROVE raised = taken + Owed
    <3>1. Positions => taken + Owed = taken + Bit(evt19)
                                + Bit(hostpc \in {"enable", "copy"})
      BY DEF Positions, TypeOK, Owed, Bit
    <3> QED
      BY <3>1 DEF EveryMessageAccounted, ChainInv
  <2> QED
    BY DEF ChainInv, Timely, HostPhase
<1> QED
  BY <1>1, ChainInvariant, PTL

(* On time, PRU0 never writes the buffer the host is copying (DAQ_Run).    *)
THEOREM BuffersStayApart == Spec => []BuffersApart
<1>1. ChainInv => BuffersApart
  <2> SUFFICES ASSUME ChainInv, OnTime, hostpc = "copy",
                      buffer_ix = loop - 1
               PROVE  r27 = LoopsPerMsg
    BY DEF BuffersApart
  <2>1. Owed \in {1, 2}
    BY DEF Owed, Bit
  <2>2. Owed # 1
    BY DEF ChainInv, Timely, HostPhase, Positions, TypeOK
  <2> QED
    BY <2>1, <2>2 DEF ChainInv, Timely, HostPhase
<1> QED
  BY <1>1, ChainInvariant, PTL

(* On time, the host processes whole messages: each is the LoopsPerMsg     *)
(* packets after the previous one, in order (AnalogCore_GetSamples).       *)
THEOREM MessagesWhole == Spec => []WholeMessage
<1>1. ChainInv => WholeMessage
  BY DEF ChainInv, Timely, HostData, WholeMessage
<1> QED
  BY <1>1, ChainInvariant, PTL

(* On time, the chain implements the lossless message stream: a step of it *)
(* is an Acquire, a Deliver or changes neither the newest packet nor the   *)
(* message of the metrology code.                                          *)
THEOREM ImplementsStream ==
    Init /\ [][TimelyNext]_vars => Stream!StreamSpec
<1>1. Init => Stream!StreamInit
  BY DEF Init, Stream!StreamInit, Slots, Stream!Slots
<1>2. ChainInv /\ OnTime /\ [TimelyNext]_vars
        => [Stream!StreamNext]_(Stream!streamVars)
  <2> SUFFICES ASSUME ChainInv, OnTime, [TimelyNext]_vars
               PROVE  [Stream!StreamNext]_(Stream!streamVars)
    OBVIOUS
  <2> USE DEF Stream!streamVars
  <2>1. CASE PRU1_Xout
    BY <2>1 DEF PRU1_Xout, Stream!StreamNext, Stream!Acquire
  <2>2. CASE Host_Process
    <3>1. \A j \in Slots : dbuffer[j] = ch_data[LoopsPerMsg - 1] + 1 + j
      BY <2>2 DEF Host_Process, ChainInv, Timely, HostData
    <3>2. /\ dbuffer \in [Slots -> Packets]
          /\ LoopsPerMsg - 1 \in Slots
          /\ ch_data[LoopsPerMsg - 1] \in Nat
      BY DEF ChainInv, Positions, TypeOK, Slots, Packets
    <3>3. dbuffer = [i \in Slots |-> ch_data[LoopsPerMsg - 1] + 1 + i]
      BY <3>1, <3>2
    <3>4. Received = ch_data[LoopsPerMsg - 1] + LoopsPerMsg
      BY <2>2, <3>1, <3>2 DEF Host_Process, Received, Slots
    <3>5. Received <= msgBase
      BY <3>2, <3>4, OwedRange
         DEF ChainInv, Timely, HostData, Positions, TypeOK
    <3>6. msgBase <= scratch
      BY DEF ChainInv, Timely, PacketLink, Filled, Positions, TypeOK, Packets
    <3>7. ch_data[LoopsPerMsg - 1] + LoopsPerMsg <= scratch
      BY <3>2, <3>4, <3>5, <3>6 DEF ChainInv, Positions, TypeOK, Packets
    <3> QED
      BY <2>2, <3>3, <3>7 DEF Host_Process, Stream!StreamNext,
         Stream!Deliver, Stream!delivered, Stream!Slots, Slots
  <2>3. CASE UNCHANGED <<scratch, ch_data>>
    BY <2>3
  <2>4. CASE PRU1_Signal \/ Uio_Interrupt \/ UNCHANGED vars
    BY <2>3, <2>4 DEF PRU1_Signal, Uio_Interrupt
  <2>5. CASE Pru0
    BY <2>3, <2>5 DEF Pru0, PRU0_WaitPru1, PRU0_ClearPru1, PRU0_Xin,
                      PRU0_Store, PRU0_SignalHost
  <2>6. CASE Host_Connect \/ Host_WaitEvent \/ Host_ClearEvent
               \/ Host_EnableInterrupt \/ Host_Copy
    BY <2>3, <2>6 DEF Host_Connect, Host_WaitEvent, Host_ClearEvent,
                      Host_EnableInterrupt, Host_Copy
  <2> QED
    BY <2>1, <2>2, <2>4, <2>5, <2>6 DEF TimelyNext, Next, Pru1, Host, Idle
<1>3. Init /\ [][TimelyNext]_vars => [](ChainInv /\ OnTime)
  <2>1. Init => ChainInv /\ OnTime
    BY ChainInit DEF Init, OnTime
  <2>2. ChainInv /\ OnTime /\ [TimelyNext]_vars => (ChainInv /\ OnTime)'
    BY ChainStep DEF TimelyNext, OnTime
  <2> QED
    BY <2>1, <2>2, PTL
<1> QED
  BY <1>1, <1>2, <1>3, PTL DEF Stream!StreamSpec
=============================================================================
