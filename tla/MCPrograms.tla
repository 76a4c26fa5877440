------------------------------ MODULE MCPrograms ------------------------------
(***************************************************************************)
(* The parts that are sequential programs: one of them takes all the steps *)
(* of a behaviour.                                                         *)
(***************************************************************************)
EXTENDS MAF, MeterLoop, PacketLayout, CPT, Waveform, PruDriver

VARIABLE part
programVars == <<part, mafVars, meterVars, layoutVars, cptVars, waveVars, drvVars>>

-----------------------------------------------------------------------------
(* MAF: a window of three, inputs of both signs, which P_maf and W_maf     *)
(* see, and enough updates to wrap around more than twice.                 *)
MCInputs == {-2, 0, 3}

(* MeterLoop at reduced rates: 4 samples a cycle, 6 cycles a second and 4  *)
(* rows of 6 samples.  As with 256 and 384, a row spans one and a half     *)
(* cycles, so that rows and cycles end together only now and then; the     *)
(* filters wrap around once a second, as at 60 Hz.                         *)

(* PacketLayout: four channels (three registers a conversion), two         *)
(* conversions a packet and two packets, bytes of four values.  The codes  *)
(* are the most negative one, where the sign extension turns over, and 6,  *)
(* whose three bytes 0, 1, 2 differ, so that any two exchanged bytes show. *)
MCCodes == {-Half, 6}

(* CPT: one phase, for which the filters do not fit, and three.            *)

(* Waveform: windows of two cycles of four samples, as 512 of 256, of      *)
(* every wave of signs, differences from signatures with as many samples   *)
(* to spare or half a cycle more, three cycles a second and copies that    *)
(* lie before, across, within and behind it.                               *)
MCSpare == {0, 2}
MCVoltages == {[k \in 0 .. 7 |-> wave[k % 4]] : wave \in [0 .. 3 -> {-1, 0, 1}]}
MCOffsets == -5 .. 17

(* PruDriver: events of two hosts, of which one is enabled, or one out of  *)
(* range; a file whose last word is cut short and fills the memory of the  *)
(* AM33XX (it is too long for the AM18XX and is cut there), one that is    *)
(* too long for the library and one that cannot be opened; and a block of  *)
(* one word, which patches a program or is one.                            *)
MCSettings ==
    [sysevts_enabled |-> <<19>>,
     sysevt_to_channel_map |-> <<<<19, 2>>, <<22, 1>>>>,
     channel_to_host_map |-> <<<<1, 1>>, <<2, 2>>>>,
     host_enable_bitmask |-> {2}]
MCOutOfRange ==
    [MCSettings EXCEPT !.sysevts_enabled = <<64>>,
                       !.sysevt_to_channel_map = <<<<19, 0>>>>,
                       !.channel_to_host_map = <<<<0, 2>>>>]
MCIntcData == {MCSettings, MCOutOfRange}
MCSent == {<<19, 0>>}
MCFiles == [full |-> 8191, large |-> 8193, absent |-> -1]
MCBlocks == [word |-> 3]

-----------------------------------------------------------------------------
ProgramInit ==
    /\ part \in {"maf", "meter", "layout", "cpt", "waveform", "driver"}
    /\ MovingAverageFilter_Init /\ MeterInit /\ LayoutInit
    /\ CPTInit /\ WaveInit /\ DrvInit
    /\ part # "maf" => Threshold_Enabled = 0
    /\ part # "driver" => device = CHOOSE d \in Devices : TRUE

(* The bound of samples is reached or the program ends; a difference or a  *)
(* copy is made.                                                           *)
CPTRest == \/ step \in {"failed", "crashed"}
           \/ step = "ready" /\ sample = MaxSamples
WaveRest == Head(job) \in {"diff", "copied", "error"}

ProgramNext ==
    /\ UNCHANGED part
    /\ \/ /\ part = "maf" /\ MAFNext
          /\ UNCHANGED <<meterVars, layoutVars, cptVars, waveVars, drvVars>>
       \/ /\ part = "meter" /\ MeterNext
          /\ UNCHANGED <<mafVars, layoutVars, cptVars, waveVars, drvVars>>
       \/ /\ part = "layout" /\ LayoutNext
          /\ UNCHANGED <<mafVars, meterVars, cptVars, waveVars, drvVars>>
       \/ /\ part = "cpt" /\ (CPTNext \/ (CPTRest /\ UNCHANGED cptVars))
          /\ UNCHANGED <<mafVars, meterVars, layoutVars, waveVars, drvVars>>
       \/ /\ part = "waveform" /\ (WaveNext \/ (WaveRest /\ UNCHANGED waveVars))
          /\ UNCHANGED <<mafVars, meterVars, layoutVars, cptVars, drvVars>>
       \/ /\ part = "driver" /\ DrvNext
          /\ UNCHANGED <<mafVars, meterVars, layoutVars, cptVars, waveVars>>

ProgramSpec == ProgramInit /\ [][ProgramNext]_programVars

(* Windows, rows, bytes and floats stay within their arrays and ranges.    *)
ProgramTypeOK == MAFTypeOK /\ MeterTypeOK /\ LayoutTypeOK
=============================================================================
