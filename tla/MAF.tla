-------------------------------- MODULE MAF --------------------------------
(***************************************************************************)
(* The moving average filter of MAF.c: a circular buffer and a running sum *)
(* that is corrected by the input that leaves the window.  CPT.c keeps 35  *)
(* of them, 256 samples long, main.cpp 33 more, 60 values long.            *)
(*                                                                         *)
(* Inputs are integers, so that sums are exact: the rounding of doubles is *)
(* not modelled.  MeanValue, the threshold and the minimum are counted in  *)
(* units of 1/Length: the division of the code is a change of unit.        *)
(***************************************************************************)
EXTENDS Integers, Sequences

CONSTANTS Length,            \* Buffer.Length
          Inputs,            \* values of inputData
          Threshold_Value,   \* cmp * Length
          min,               \* min * Length
          MaxUpdates         \* bound on the calls of Update

ASSUME MAFAssumption == /\ Length \in Nat \ {0}
                        /\ Inputs \subseteq Int
                        /\ Threshold_Value \in Int /\ min \in Int
                        /\ MaxUpdates \in Nat

VARIABLES Data,               \* Buffer.Data
          head,
          Accumulator,
          MeanValue,
          Threshold_Enabled,
          count,              \* history: calls of Update so far
          totals              \* history: sum of the first n inputs

mafVars == <<Data, head, Accumulator, MeanValue, Threshold_Enabled, count,
             totals>>

Slots == 0 .. Length - 1

(* Every variable keeps its type; head stays inside the buffer. *)
MAFTypeOK ==
    /\ Data \in [Slots -> Int]
    /\ head \in Slots
    /\ Accumulator \in Int
    /\ MeanValue \in Int
    /\ Threshold_Enabled \in {0, 1}
    /\ count \in 0 .. MaxUpdates
    /\ totals \in [0 .. MaxUpdates -> Int]

-----------------------------------------------------------------------------
(* MovingAverageFilter_Init with or without a threshold. *)
MovingAverageFilter_Init ==
    /\ Data = [k \in Slots |-> 0]
    /\ head = 0
    /\ Accumulator = 0
    /\ MeanValue = 0
    /\ Threshold_Enabled \in {0, 1}
    /\ count = 0
    /\ totals = [n \in 0 .. MaxUpdates |-> 0]

Limited(mean) ==
    IF Threshold_Enabled = 1 /\ mean <= Threshold_Value THEN min ELSE mean

(* Slip: head runs one past the end of the buffer. *)
Long_NextHead == IF head + 1 > Length THEN 0 ELSE head + 1

NextHead == IF head + 1 >= Length THEN 0 ELSE head + 1

Record(inputData) ==
    /\ count < MaxUpdates
    /\ count' = count + 1
    /\ totals' = [totals EXCEPT ![count + 1] = totals[count] + inputData]

(* Slip: the threshold acts on the running sum, as in the lines of MAF.c   *)
(* that are commented out.                                                 *)
Clamped_MovingAverageFilter_Update(inputData) ==
    /\ Accumulator' = Limited(Accumulator - Data[head] + inputData)
    /\ Data' = [Data EXCEPT ![head] = inputData]
    /\ head' = NextHead
    /\ MeanValue' = Limited(Accumulator')
    /\ Record(inputData)
    /\ UNCHANGED Threshold_Enabled

(* Slip: the value that leaves the window is read after head has moved. *)
Moved_MovingAverageFilter_Update(inputData) ==
    /\ Accumulator' = Accumulator - Data[NextHead] + inputData
    /\ Data' = [Data EXCEPT ![head] = inputData]
    /\ head' = NextHead
    /\ MeanValue' = Limited(Accumulator')
    /\ Record(inputData)
    /\ UNCHANGED Threshold_Enabled

MovingAverageFilter_Update(inputData) ==
    /\ Accumulator' = Accumulator - Data[head] + inputData
    /\ Data' = [Data EXCEPT ![head] = inputData]
    /\ head' = NextHead
    /\ MeanValue' = Limited(Accumulator')
    /\ Record(inputData)
    /\ UNCHANGED Threshold_Enabled

(* The bound has been reached. *)
Done == count = MaxUpdates /\ UNCHANGED mafVars

MAFNext == (\E x \in Inputs : MovingAverageFilter_Update(x)) \/ Done

MAFSpec == MovingAverageFilter_Init /\ [][MAFNext]_mafVars

-----------------------------------------------------------------------------
(* Properties                                                              *)

(* The sum of the last Length inputs. *)
WindowTotal == totals[count] - (IF count >= Length
                                  THEN totals[count - Length] ELSE 0)

(* The running sum is the sum of the last Length inputs, whatever came     *)
(* before them and however often the buffer has wrapped around, and the    *)
(* mean shows that sum, or the minimum in place of one at the threshold.   *)
WindowMean ==
    /\ Accumulator = WindowTotal
    /\ count > 0 => MeanValue = Limited(WindowTotal)

(* The circular buffer read from head on is the window, oldest input       *)
(* first, and the running sum is its sum.                                  *)
WindowNow == [i \in 1 .. Length |-> Data[(head + i - 1) % Length]]
Window == INSTANCE SlidingWindow
            WITH window <- WindowNow, sum <- Accumulator, updates <- count

(* The filter of MAF.c implements the sliding window: no update sees any   *)
(* input but the last Length ones.                                         *)
SlidesOverInputs == Window!WindowSpec
=============================================================================
