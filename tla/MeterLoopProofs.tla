-------------------------- MODULE MeterLoopProofs --------------------------
(***************************************************************************)
(* The counters of the sample loop, for all rates whose divisions are      *)
(* exact: what is sent are the means of one second, what is logged are the *)
(* rows of whole seconds.                                                  *)
(***************************************************************************)
EXTENDS MeterLoop, TLAPS

(* What the exact divisions of Board.h and main.cpp give. *)
LEMMA RateFacts ==
    /\ SampleRate \in Nat \ {0}
    /\ SampleRate = Freq * SamplesPerCycle
    /\ SampleRate = RawFreq * RawCount
    /\ RawCount <= SampleRate
    /\ SamplesPerCycle \in Nat \ {0} /\ Freq \in Nat \ {0}
    /\ RawFreq \in Nat \ {0} /\ RawCount \in Nat \ {0} /\ MaxSeconds \in Nat
<1>1. /\ SamplesPerCycle \in Nat \ {0} /\ Freq \in Nat \ {0}
      /\ RawFreq \in Nat \ {0} /\ RawCount \in Nat \ {0} /\ MaxSeconds \in Nat
      /\ RawCount * RawFreq = SampleRate
  BY RatesAssumption
<1>2. SampleRate \in Nat \ {0} /\ SampleRate = Freq * SamplesPerCycle
  BY <1>1 DEF SampleRate
<1>3. SampleRate = RawFreq * RawCount
  BY <1>1
<1>4. RawCount <= RawFreq * RawCount
  BY <1>1
<1>5. QED
  BY <1>1, <1>2, <1>3, <1>4

(* One more period. *)
LEMMA NextPeriod ==
    ASSUME NEW a \in Nat, NEW b \in Nat
    PROVE  (a + 1) * b = a * b + b
  OBVIOUS

(* Where the samples of a second begin. *)
LEMMA BaseFacts ==
    ASSUME NEW s \in Nat
    PROVE  /\ Base(s) \in Int
           /\ Base(s + 1) = s * SampleRate
           /\ Base(s) + SampleRate = s * SampleRate
           /\ s * SampleRate \in Nat
  BY RateFacts DEF Base

-----------------------------------------------------------------------------
(* Where the loop stands within the second: the CPT has consumed all       *)
(* earlier seconds and idx samples of this one; the counters m and heads    *)
(* are the remainder and the quotient of idx by the cycle, n and offset by *)
(* the row, and what lies below heads and offset is of this second.         *)
Busy == pc # "get"

Consumed == cpt = IF Busy THEN Base(second) + idx ELSE second * SampleRate

CycleCount ==
    IF idx = SampleRate \/ ~Busy
      THEN heads = 0 /\ m = 0
      ELSE idx = heads * SamplesPerCycle + m

CycleValues ==
    Busy => \A k \in Cycles :
              k < heads \/ idx = SampleRate =>
                means[k] = Base(second) + (k + 1) * SamplesPerCycle

RowCount == Busy => idx = offset * RawCount + n

RowValues ==
    Busy => \A r \in Rows :
              r < offset => params[r] = Base(second) + (r + 1) * RawCount

Ends ==
    /\ Busy => second >= 1
    /\ pc \in {"send", "log", "killed"} => idx = SampleRate

Place == Consumed /\ CycleCount /\ CycleValues /\ RowCount /\ RowValues /\ Ends

(* Rows of a later block are of later samples. *)
LogAscends ==
    \A a, b \in 1 .. Len(log) : \A r \in Kept(log[a]), q \in Kept(log[b]) :
      a < b => log[a][r] < log[b][q]

(* Every block is of a second. *)
LogOfOne == \A b \in 1 .. Len(log) : \E s \in 1 .. second : OfSecond(log[b], s)

(* The file holds rows of seconds before this one. *)
Logged ==
    /\ LogOfOne
    /\ \A b \in 1 .. Len(log) : \A r \in Kept(log[b]) :
         log[b][r] <= IF Busy THEN Base(second) ELSE second * SampleRate
    /\ LogAscends

MeterInv == MeterTypeOK /\ Place /\ Logged

-----------------------------------------------------------------------------
LEMMA MeterInvInit == MeterInit => MeterInv
<1> SUFFICES ASSUME MeterInit PROVE MeterInv
  OBVIOUS
<1> USE RateFacts
<1>1. MeterTypeOK
  BY DEF MeterInit, MeterTypeOK, Rows, Cycles
<1>2. Place
  BY DEF MeterInit, Place, Consumed, CycleCount, CycleValues, RowCount,
       RowValues, Ends, Busy
<1>3. Logged
  BY DEF MeterInit, Logged, LogOfOne, LogAscends
<1>4. QED
  BY <1>1, <1>2, <1>3 DEF MeterInv

(* What is in the file stays of its second. *)
LEMMA LogOfOneKept ==
    LogOfOne /\ log' = log /\ second \in Nat /\ second' \in {second, second + 1}
      => LogOfOne'
<1> SUFFICES ASSUME LogOfOne, log' = log, second \in Nat, second' \in {second, second + 1},
                    NEW b \in 1 .. Len(log')
             PROVE  \E s \in 1 .. second' : OfSecond(log'[b], s)
  BY DEF LogOfOne, OfSecond, RowsOf, Rows, Base
<1>1. PICK s \in 1 .. second : OfSecond(log[b], s)
  BY DEF LogOfOne
<1>2. s \in 1 .. second' /\ OfSecond(log'[b], s)
  BY <1>1
<1>3. QED
  BY <1>2

(* A new second. *)
LEMMA GetSamplesStep == MeterInv /\ GetSamples => MeterInv'
<1> SUFFICES ASSUME MeterInv, GetSamples PROVE MeterInv'
  OBVIOUS
<1> USE RateFacts
<1>1. MeterTypeOK /\ Place /\ Logged
  BY DEF MeterInv
<1>2. /\ pc = "get" /\ pc' = "loop" /\ second \in Nat /\ second < MaxSeconds
      /\ second' = second + 1
      /\ idx' = 0 /\ m' = 0 /\ n' = 0 /\ offset' = 0
      /\ UNCHANGED <<cpt, means, heads, params, log>>
  BY <1>1 DEF GetSamples, MeterTypeOK
<1>3. ~Busy /\ Busy'
  BY <1>2 DEF Busy
<1>4. Base(second') = second * SampleRate /\ second * SampleRate \in Nat
  BY <1>2, BaseFacts
<1>5. MeterTypeOK'
  BY <1>1, <1>2 DEF MeterTypeOK, Rows, Cycles
<1>6. Consumed' /\ Ends'
  BY <1>1, <1>2, <1>3, <1>4 DEF Place, Consumed, Ends
<1>7. heads = 0 /\ m = 0
  BY <1>1, <1>3 DEF Place, CycleCount
<1>8. CycleCount'
  <2>1. heads' = 0 /\ 0 * SamplesPerCycle = 0
    BY <1>2, <1>7
  <2>2. QED
    BY <2>1, <1>2 DEF CycleCount
<1>9. CycleValues'
  <2>1. \A k \in Cycles : ~(k < heads' \/ idx' = SampleRate)
    BY <1>2, <1>7 DEF Cycles
  <2>2. QED
    BY <2>1 DEF CycleValues, Cycles
<1>10. RowCount' /\ RowValues'
  <2>1. 0 * RawCount = 0
    BY SMT
  <2>2. RowCount'
    BY <2>1, <1>2 DEF RowCount
  <2>3. \A r \in Rows : ~(r < offset')
    BY <1>2 DEF Rows
  <2>4. RowValues'
    BY <2>3 DEF RowValues, Rows
  <2>5. QED
    BY <2>2, <2>4
<1>11. Logged'
  <2>1. LogOfOne'
    BY <1>1, <1>2, LogOfOneKept DEF Logged
  <2>2. \A b \in 1 .. Len(log) : \A r \in Kept(log[b]) : log[b][r] <= Base(second')
    BY <1>1, <1>3, <1>4 DEF Logged
  <2>3. LogAscends'
    BY <1>1, <1>2 DEF Logged, LogAscends
  <2>4. QED
    BY <2>1, <2>2, <2>3, <1>2, <1>3 DEF Logged
<1>12. QED
  BY <1>5, <1>6, <1>8, <1>9, <1>10, <1>11 DEF MeterInv, Place

-----------------------------------------------------------------------------
(* The cycles: m and heads after a sample. *)
LEMMA SampleCycles ==
    MeterInv /\ Sample => CycleCount' /\ CycleValues' /\ m' \in 0 .. SamplesPerCycle - 1
                          /\ heads' \in Cycles /\ means' \in [Cycles -> Nat]
<1> SUFFICES ASSUME MeterInv, Sample
             PROVE  CycleCount' /\ CycleValues' /\ m' \in 0 .. SamplesPerCycle - 1
                    /\ heads' \in Cycles /\ means' \in [Cycles -> Nat]
  OBVIOUS
<1> USE RateFacts
<1> DEFINE done == heads * SamplesPerCycle
<1>1. MeterTypeOK /\ Place
  BY DEF MeterInv
<1>2. /\ pc = "loop" /\ pc' = "loop" /\ second' = second
      /\ idx < SampleRate /\ idx' = idx + 1
      /\ idx \in Nat /\ m \in 0 .. SamplesPerCycle - 1 /\ heads \in 0 .. Freq - 1
      /\ means \in [Cycles -> Nat] /\ cpt \in Nat /\ second \in Nat
  BY <1>1 DEF Sample, MeterTypeOK, Cycles
<1>3. Busy /\ Busy'
  BY <1>2 DEF Busy
<1>4. idx = done + m /\ cpt = Base(second) + idx /\ Base(second) \in Int
  BY <1>1, <1>2, <1>3, BaseFacts DEF Place, CycleCount, Consumed
<1>5. done \in Nat /\ (heads + 1) * SamplesPerCycle = done + SamplesPerCycle
  BY <1>2, NextPeriod
<1>6. \A k \in Cycles : k < heads => means[k] = Base(second) + (k + 1) * SamplesPerCycle
  BY <1>1, <1>3 DEF Place, CycleValues
<1>7. ASSUME heads + 1 < Freq
      PROVE  done + SamplesPerCycle < SampleRate
  <2>1. Freq - (heads + 1) \in Nat \ {0}
    BY <1>2, <1>7
  <2>2. (Freq - (heads + 1)) * SamplesPerCycle > 0
    BY <2>1
  <2>3. (Freq - (heads + 1)) * SamplesPerCycle
          = Freq * SamplesPerCycle - (heads + 1) * SamplesPerCycle
    BY <1>2
  <2>4. QED
    BY <2>2, <2>3, <1>5, <1>2
<1>8. ASSUME heads + 1 >= Freq
      PROVE  done + SamplesPerCycle = SampleRate
  <2>1. heads + 1 = Freq
    BY <1>2, <1>8
  <2>2. QED
    BY <2>1, <1>5
<1> HIDE DEF done
<1>9. CASE CycleEnds
  <2>1. /\ m + 1 = SamplesPerCycle /\ m' = 0
        /\ means' = [means EXCEPT ![heads] = cpt + 1]
        /\ heads' = IF heads + 1 >= Freq THEN 0 ELSE heads + 1
    BY <1>2, <1>9 DEF Sample, CycleEnds, update_mean_values
  <2>2. idx' = done + SamplesPerCycle
    BY <2>1, <1>2, <1>4, <1>5
  <2>3. cpt + 1 = Base(second) + (heads + 1) * SamplesPerCycle
    BY <2>2, <1>2, <1>4, <1>5
  <2>4. \A k \in Cycles : k <= heads =>
           means'[k] = Base(second) + (k + 1) * SamplesPerCycle
    <3> SUFFICES ASSUME NEW k \in Cycles, k <= heads
                 PROVE  means'[k] = Base(second) + (k + 1) * SamplesPerCycle
      OBVIOUS
    <3>1. CASE k = heads
      BY <3>1, <2>1, <2>3, <1>2
    <3>2. CASE k < heads
      <4>1. means'[k] = means[k]
        BY <3>2, <2>1, <1>2
      <4>2. QED
        BY <4>1, <3>2, <1>6
    <3>3. QED
      BY <3>1, <3>2, <1>2 DEF Cycles
  <2>5. m' \in 0 .. SamplesPerCycle - 1 /\ heads' \in Cycles /\ means' \in [Cycles -> Nat]
    BY <2>1, <1>2 DEF Cycles
  <2>6. CASE heads + 1 >= Freq
    <3>1. idx' = SampleRate /\ heads' = 0
      BY <2>6, <2>1, <2>2, <1>8
    <3>2. CycleCount'
      BY <3>1, <2>1 DEF CycleCount
    <3>3. \A k \in Cycles : k <= heads
      BY <2>6, <1>2 DEF Cycles
    <3>4. CycleValues'
      BY <3>3, <2>4, <1>2 DEF CycleValues, Cycles, Base
    <3>5. QED
      BY <3>2, <3>4, <2>5
  <2>7. CASE heads + 1 < Freq
    <3>1. idx' # SampleRate /\ heads' = heads + 1
      BY <2>7, <2>1, <2>2, <1>7, <1>2, <1>5
    <3>2. idx' = heads' * SamplesPerCycle + m'
      BY <3>1, <2>1, <2>2, <1>5
    <3>3. CycleCount'
      BY <3>1, <3>2, <1>3 DEF CycleCount
    <3>4. \A k \in Cycles : k < heads' \/ idx' = SampleRate => k <= heads
      BY <3>1, <1>2 DEF Cycles
    <3>5. CycleValues'
      BY <3>4, <2>4, <1>2 DEF CycleValues, Cycles, Base
    <3>6. QED
      BY <3>3, <3>5, <2>5
  <2>8. QED
    BY <2>6, <2>7, <1>2
<1>10. CASE ~CycleEnds
  <2>1. m + 1 < SamplesPerCycle /\ m' = m + 1 /\ means' = means /\ heads' = heads
    BY <1>2, <1>10 DEF Sample, CycleEnds
  <2>2. idx' = done + m'
    BY <2>1, <1>2, <1>4, <1>5
  <2>3. idx' < SampleRate
    BY <2>1, <2>2, <1>2, <1>4, <1>5, <1>7, <1>8
  <2>4. CycleCount'
    BY <2>1, <2>2, <2>3, <1>2, <1>3 DEF CycleCount, done
  <2>5. \A k \in Cycles : k < heads' \/ idx' = SampleRate => k < heads
    BY <2>1, <2>3, <1>2
  <2>6. CycleValues'
    BY <2>5, <2>1, <1>2, <1>6 DEF CycleValues, Cycles, Base
  <2>7. QED
    BY <2>1, <2>4, <2>6, <1>2 DEF Cycles
<1>11. QED
  BY <1>9, <1>10

(* The rows: n and offset after a sample. *)
LEMMA SampleRows ==
    MeterInv /\ Sample => RowCount' /\ RowValues' /\ n' \in 0 .. RawCount - 1
                          /\ offset' \in 0 .. RawFreq /\ params' \in [Rows -> Nat]
<1> SUFFICES ASSUME MeterInv, Sample
             PROVE  RowCount' /\ RowValues' /\ n' \in 0 .. RawCount - 1
                    /\ offset' \in 0 .. RawFreq /\ params' \in [Rows -> Nat]
  OBVIOUS
<1> USE RateFacts
<1> DEFINE done == offset * RawCount
<1>1. MeterTypeOK /\ Place
  BY DEF MeterInv
<1>2. /\ pc = "loop" /\ pc' = "loop" /\ second' = second
      /\ idx < SampleRate /\ idx' = idx + 1
      /\ idx \in Nat /\ n \in 0 .. RawCount - 1 /\ offset \in 0 .. RawFreq
      /\ params \in [Rows -> Nat] /\ cpt \in Nat /\ second \in Nat
  BY <1>1 DEF Sample, MeterTypeOK
<1>3. Busy /\ Busy'
  BY <1>2 DEF Busy
<1>4. idx = done + n /\ cpt = Base(second) + idx /\ Base(second) \in Int
  BY <1>1, <1>2, <1>3, BaseFacts DEF Place, RowCount, Consumed
<1>5. done \in Nat /\ (offset + 1) * RawCount = done + RawCount
  BY <1>2, NextPeriod
<1>6. \A r \in Rows : r < offset => params[r] = Base(second) + (r + 1) * RawCount
  BY <1>1, <1>3 DEF Place, RowValues
<1>7. offset < RawFreq
  <2>1. offset = RawFreq => done = SampleRate
    OBVIOUS
  <2>2. done <= idx
    BY <1>2, <1>4, <1>5
  <2>3. QED
    BY <2>1, <2>2, <1>2
<1> HIDE DEF done
<1>8. CASE RowDue
  <2>1. /\ n + 1 = RawCount /\ n' = 0 /\ offset' = offset + 1
        /\ params' = [params EXCEPT ![offset] = cpt + 1]
    BY <1>2, <1>8 DEF Sample, RowDue, update_raw_values
  <2>2. idx' = offset' * RawCount + n'
    BY <2>1, <1>2, <1>4, <1>5
  <2>3. cpt + 1 = Base(second) + (offset + 1) * RawCount
    BY <2>1, <2>2, <1>2, <1>4, <1>5
  <2>4. \A r \in Rows : r < offset' =>
           params'[r] = Base(second) + (r + 1) * RawCount
    <3> SUFFICES ASSUME NEW r \in Rows, r < offset'
                 PROVE  params'[r] = Base(second) + (r + 1) * RawCount
      OBVIOUS
    <3>1. CASE r = offset
      BY <3>1, <2>1, <2>3, <1>2
    <3>2. CASE r < offset
      <4>1. params'[r] = params[r]
        BY <3>2, <2>1, <1>2
      <4>2. QED
        BY <4>1, <3>2, <1>6
    <3>3. QED
      BY <3>1, <3>2, <2>1, <1>2 DEF Rows
  <2>5. n' \in 0 .. RawCount - 1 /\ offset' \in 0 .. RawFreq /\ params' \in [Rows -> Nat]
    BY <2>1, <1>2, <1>7 DEF Rows
  <2>6. RowCount' /\ RowValues'
    BY <2>2, <2>4, <1>2 DEF RowCount, RowValues, Rows, Base
  <2>7. QED
    BY <2>5, <2>6
<1>9. CASE ~RowDue
  <2>1. n + 1 < RawCount /\ n' = n + 1 /\ params' = params /\ offset' = offset
    BY <1>2, <1>9 DEF Sample, RowDue
  <2>2. idx' = done + n'
    BY <2>1, <1>2, <1>4, <1>5
  <2>3. RowCount'
    BY <2>1, <2>2 DEF RowCount, done
  <2>4. RowValues'
    BY <2>1, <1>2, <1>6 DEF RowValues, Rows, Base
  <2>5. QED
    BY <2>1, <2>3, <2>4, <1>2
<1>10. QED
  BY <1>8, <1>9

(* A sample. *)
LEMMA SampleStep == MeterInv /\ Sample => MeterInv'
<1> SUFFICES ASSUME MeterInv, Sample PROVE MeterInv'
  OBVIOUS
<1> USE RateFacts
<1>1. MeterTypeOK /\ Place /\ Logged
  BY DEF MeterInv
<1>2. /\ pc = "loop" /\ pc' = "loop" /\ second' = second /\ log' = log
      /\ idx < SampleRate /\ idx' = idx + 1 /\ cpt' = cpt + 1
      /\ idx \in Nat /\ cpt \in Nat /\ second \in Nat
  BY <1>1 DEF Sample, MeterTypeOK
<1>3. Busy /\ Busy'
  BY <1>2 DEF Busy
<1>4. Consumed' /\ Ends'
  <2>1. cpt = Base(second) + idx /\ Base(second) \in Int
    BY <1>1, <1>2, <1>3, BaseFacts DEF Place, Consumed
  <2>2. cpt' = Base(second') + idx'
    BY <2>1, <1>2 DEF Base
  <2>3. QED
    BY <2>2, <1>1, <1>2, <1>3 DEF Consumed, Ends, Place
<1>5. MeterTypeOK'
  BY <1>1, <1>2, SampleCycles, SampleRows DEF MeterTypeOK
<1>6. Logged'
  BY <1>1, <1>2, <1>3, LogOfOneKept DEF Logged, LogAscends, MeterTypeOK, Base
<1>7. QED
  BY <1>4, <1>5, <1>6, SampleCycles, SampleRows DEF MeterInv, Place

(* The end of the for loop, and send_data. *)
LEMMA SendStep == MeterInv /\ (LoopEnds \/ SendData) => MeterInv'
<1> SUFFICES ASSUME MeterInv, LoopEnds \/ SendData PROVE MeterInv'
  OBVIOUS
<1> USE RateFacts
<1>1. MeterTypeOK /\ Place /\ Logged
  BY DEF MeterInv
<1>2. /\ UNCHANGED <<idx, m, n, offset, cpt, means, heads, params, log, second>>
      /\ pc \in {"loop", "send"} /\ pc' \in {"send", "log", "killed"}
  BY DEF LoopEnds, SendData, loopVars
<1>3. idx = SampleRate
  BY <1>1 DEF LoopEnds, SendData, Place, Ends, MeterTypeOK
<1>4. Busy /\ Busy'
  BY <1>2 DEF Busy
<1>5. MeterTypeOK'
  BY <1>1, <1>2 DEF MeterTypeOK
<1>6. Consumed' /\ CycleCount' /\ RowCount' /\ Ends'
  BY <1>1, <1>2, <1>3, <1>4 DEF Place, Consumed, CycleCount, RowCount, Ends, Base
<1>7. CycleValues'
  BY <1>1, <1>2, <1>4 DEF Place, CycleValues, Cycles, Base
<1>8. RowValues'
  BY <1>1, <1>2, <1>4 DEF Place, RowValues, Rows, Base
<1>9. Logged'
  BY <1>1, <1>2, <1>4, LogOfOneKept DEF Logged, LogAscends, MeterTypeOK, Base
<1>10. QED
  BY <1>5, <1>6, <1>7, <1>8, <1>9 DEF MeterInv, Place

(* At the end of the loop params holds all rows of the second. *)
LEMMA RowsComplete ==
    MeterInv /\ pc = "log" => params = RowsOf(second) /\ second >= 1
<1> SUFFICES ASSUME MeterInv, pc = "log"
             PROVE  params = RowsOf(second) /\ second >= 1
  OBVIOUS
<1> USE RateFacts
<1>1. MeterTypeOK /\ Place /\ Busy
  BY DEF MeterInv, Busy
<1>2. idx = SampleRate /\ idx = offset * RawCount + n
  BY <1>1 DEF Place, Ends, RowCount
<1>3. offset \in 0 .. RawFreq /\ n \in 0 .. RawCount - 1 /\ second \in Nat
      /\ params \in [Rows -> Nat] /\ cpt \in Nat
  BY <1>1 DEF MeterTypeOK
<1>4. offset = RawFreq
  <2>1. SUFFICES ASSUME offset < RawFreq PROVE FALSE
    BY <1>3
  <2>2. RawFreq - (offset + 1) \in Nat
    BY <1>3, <2>1
  <2>3. (RawFreq - (offset + 1)) * RawCount >= 0
    BY <2>2
  <2>4. (RawFreq - (offset + 1)) * RawCount
          = RawFreq * RawCount - (offset + 1) * RawCount
    BY <1>3
  <2>5. (offset + 1) * RawCount = offset * RawCount + RawCount
    BY <1>3, NextPeriod
  <2>6. offset * RawCount \in Nat
    BY <1>3
  <2>7. QED
    BY <2>3, <2>4, <2>5, <2>6, <1>2, <1>3
<1>5. \A r \in Rows : params[r] = Base(second) + (r + 1) * RawCount
  BY <1>1, <1>4 DEF Place, RowValues, Rows
<1>6. params = RowsOf(second)
  BY <1>3, <1>5 DEF RowsOf
<1>7. second >= 1
  BY <1>1 DEF Place, Ends
<1>8. QED
  BY <1>6, <1>7

(* The second is appended to raw.bin, or dropped. *)
LEMMA WriteLogStep == MeterInv /\ WriteLog => MeterInv'
<1> SUFFICES ASSUME MeterInv, WriteLog PROVE MeterInv'
  OBVIOUS
<1> USE RateFacts
<1> DEFINE top == second * SampleRate
<1>1. MeterTypeOK /\ Place /\ Logged
  BY DEF MeterInv
<1>2. /\ UNCHANGED <<idx, m, n, offset, cpt, means, heads, params, second>>
      /\ pc = "log" /\ pc' = "get"
  BY DEF WriteLog, loopVars
<1>3. Busy /\ ~Busy' /\ second \in Nat
  BY <1>1, <1>2 DEF Busy, MeterTypeOK
<1>4. params = RowsOf(second) /\ second >= 1
  BY <1>2, RowsComplete
<1>5. Base(second) \in Int /\ Base(second) + SampleRate = top /\ top \in Nat
  BY <1>3, BaseFacts
<1>6. params \in [Rows -> Nat] /\ log \in Seq([Rows -> Nat])
  BY <1>1 DEF MeterTypeOK
<1>7. \A r \in Rows : Base(second) < params[r] /\ params[r] <= top
  <2> SUFFICES ASSUME NEW r \in Rows
               PROVE  Base(second) < params[r] /\ params[r] <= top
    OBVIOUS
  <2>1. params[r] = Base(second) + (r + 1) * RawCount
    BY <1>4 DEF RowsOf
  <2>2. r + 1 \in 1 .. RawFreq /\ RawFreq - (r + 1) \in Nat
    BY DEF Rows
  <2>3. (r + 1) * RawCount = r * RawCount + RawCount /\ r * RawCount >= 0
    BY NextPeriod DEF Rows
  <2>4. (RawFreq - (r + 1)) * RawCount >= 0
    BY <2>2
  <2>5. (RawFreq - (r + 1)) * RawCount = RawFreq * RawCount - (r + 1) * RawCount
    BY <2>2
  <2>6. (r + 1) * RawCount \in Nat /\ (r + 1) * RawCount > 0
        /\ (r + 1) * RawCount <= SampleRate
    BY <2>2, <2>3, <2>4, <2>5
  <2>7. QED
    BY <2>1, <2>6, <1>5
<1>8. PICK kept \in SUBSET Rows : log' = Append(log, [r \in Rows |-> IF r \in kept THEN params[r] ELSE Lost])
  BY DEF WriteLog
<1> DEFINE block == [r \in Rows |-> IF r \in kept THEN params[r] ELSE Lost]
<1>9. /\ block \in [Rows -> Nat] /\ Kept(block) \subseteq Rows
      /\ \A r \in Kept(block) : block[r] = params[r]
  BY <1>6 DEF Kept, Lost
<1>10. log' = Append(log, block)
  BY <1>8
<1> HIDE DEF block
<1>11. log' \in Seq([Rows -> Nat])
  <2> DEFINE Block == [Rows -> Nat]
  <2>1. block \in Block /\ log \in Seq(Block)
    BY <1>6, <1>9
  <2> HIDE DEF Block
  <2>2. log' \in Seq(Block)
    BY <2>1, <1>10
  <2>3. QED
    BY <2>2 DEF Block
<1>12. MeterTypeOK'
  BY <1>1, <1>2, <1>11 DEF MeterTypeOK
<1>13. Place'
  <2>1. cpt = Base(second) + idx /\ idx = SampleRate /\ heads = 0 /\ m = 0
    BY <1>1, <1>2, <1>3 DEF Place, Consumed, Ends, CycleCount
  <2>2. Consumed'
    BY <2>1, <1>2, <1>3, <1>5 DEF Consumed
  <2>3. CycleCount'
    BY <2>1, <1>2 DEF CycleCount
  <2>4. CycleValues' /\ RowCount' /\ RowValues' /\ Ends'
    BY <1>2, <1>3 DEF CycleValues, RowCount, RowValues, Ends
  <2>5. QED
    BY <2>2, <2>3, <2>4 DEF Place
<1> HIDE DEF top
<1>14. /\ LogOfOne
       /\ \A b \in 1 .. Len(log) : \A r \in Kept(log[b]) : log[b][r] <= Base(second)
       /\ LogAscends
       /\ \A b \in 1 .. Len(log) : \A r \in Kept(log[b]) : log[b][r] \in Nat
  <2>1. \A b \in 1 .. Len(log) : \A r \in Kept(log[b]) : log[b][r] \in Nat
    <3>1. \A b \in 1 .. Len(log) : log[b] \in [Rows -> Nat]
      BY <1>6
    <3>2. \A b \in 1 .. Len(log) : Kept(log[b]) \subseteq Rows
      BY DEF Kept
    <3>3. QED
      BY <3>1, <3>2
  <2>2. QED
    BY <2>1, <1>1, <1>3 DEF Logged
<1>15. /\ Len(log') = Len(log) + 1 /\ log'[Len(log) + 1] = block
       /\ \A b \in 1 .. Len(log) : log'[b] = log[b]
       /\ Len(log) \in Nat
  BY <1>6, <1>10
<1>16. \A b \in 1 .. Len(log') : b \in 1 .. Len(log) \/ b = Len(log) + 1
  BY <1>15
<1>17. \A r \in Kept(block) : /\ Base(second) < block[r] /\ block[r] <= top
                               /\ block[r] = RowsOf(second)[r] /\ block[r] \in Nat
  BY <1>4, <1>6, <1>7, <1>9
<1>18. /\ \A b \in 1 .. Len(log') : \A r \in Kept(log'[b]) : log'[b][r] <= top
       /\ LogOfOne'
       /\ LogAscends'
  <2>1. \A b \in 1 .. Len(log') : \A r \in Kept(log'[b]) : log'[b][r] <= top
    <3>1. \A b \in 1 .. Len(log) : \A r \in Kept(log[b]) : log[b][r] <= top
      BY <1>5, <1>14
    <3>2. QED
      BY <3>1, <1>15, <1>16, <1>17
  <2>2. LogOfOne'
    <3> SUFFICES ASSUME NEW b \in 1 .. Len(log')
                 PROVE  \E s \in 1 .. second : OfSecond(log'[b], s)
      BY <1>2 DEF LogOfOne, OfSecond, RowsOf, Rows, Base
    <3>1. CASE b \in 1 .. Len(log)
      BY <3>1, <1>14, <1>15 DEF LogOfOne
    <3>2. CASE b = Len(log) + 1
      <4>1. OfSecond(block, second) /\ second \in 1 .. second
        BY <1>3, <1>4, <1>17 DEF OfSecond
      <4>2. QED
        BY <4>1, <3>2, <1>15
    <3>3. QED
      BY <3>1, <3>2, <1>16
  <2>3. LogAscends'
    <3> SUFFICES ASSUME NEW a \in 1 .. Len(log'), NEW b \in 1 .. Len(log'), a < b,
                        NEW r \in Kept(log'[a]), NEW q \in Kept(log'[b])
                 PROVE  log'[a][r] < log'[b][q]
      BY DEF LogAscends
    <3>1. a \in 1 .. Len(log) /\ log'[a] = log[a]
      BY <1>15, <1>16
    <3>2. CASE b \in 1 .. Len(log)
      BY <3>1, <3>2, <1>14, <1>15 DEF LogAscends
    <3>3. CASE b = Len(log) + 1
      <4>1. log[a][r] <= Base(second) /\ log[a][r] \in Nat
        BY <3>1, <1>14
      <4>2. Base(second) < log'[b][q] /\ log'[b][q] \in Nat
        BY <3>3, <1>15, <1>17
      <4>3. QED
        BY <4>1, <4>2, <3>1, <1>5
    <3>4. QED
      BY <3>2, <3>3, <1>16
  <2>4. QED
    BY <2>1, <2>2, <2>3
<1>19. Logged'
  BY <1>18, <1>2, <1>3 DEF Logged, top
<1>20. QED
  BY <1>12, <1>13, <1>19 DEF MeterInv

LEMMA MeterInvStep == MeterInv /\ [MeterNext]_meterVars => MeterInv'
<1> SUFFICES ASSUME MeterInv, [MeterNext]_meterVars PROVE MeterInv'
  OBVIOUS
<1>1. CASE UNCHANGED meterVars
  <2>1. UNCHANGED <<pc, idx, m, n, offset, cpt, means, heads, params, log, second>>
    BY <1>1 DEF meterVars, loopVars
  <2>2. MeterTypeOK'
    BY <2>1 DEF MeterInv, MeterTypeOK
  <2>3. Place'
    BY <2>1 DEF MeterInv, Place, Consumed, CycleCount, CycleValues, RowCount,
         RowValues, Ends, Busy, Base, Cycles, Rows
  <2>4. Logged'
    BY <2>1, LogOfOneKept DEF MeterInv, MeterTypeOK, Logged, LogAscends, Kept, Rows, Busy, Base
  <2>5. QED
    BY <2>2, <2>3, <2>4 DEF MeterInv
<1>2. QED
  BY <1>1, GetSamplesStep, SampleStep, SendStep, WriteLogStep
     DEF MeterNext, Stopped

-----------------------------------------------------------------------------
(* No row is ever taken outside params, at any rates whose divisions are   *)
(* exact: the type invariant of the loop.                                  *)
THEOREM RowsStayInside == MeterSpec => []MeterTypeOK
<1>1. MeterInv => MeterTypeOK
  BY DEF MeterInv
<1>2. QED
  BY <1>1, MeterInvInit, MeterInvStep, PTL DEF MeterSpec

(* What send_data sends are the means over the cycles of the second just   *)
(* processed, all of them and no other.                                    *)
THEOREM SendsMeansOfSecond == MeterSpec => []MeansOfSecond
<1>1. MeterInv => MeansOfSecond
  BY DEF MeterInv, Place, Ends, CycleValues, Busy, MeansOfSecond
<1>2. QED
  BY <1>1, MeterInvInit, MeterInvStep, PTL DEF MeterSpec

(* raw.bin holds rows of one second at a time in ascending order,          *)
(* whichever turns failed to send, to open the file or to write all rows.  *)
THEOREM LogHoldsSeconds == MeterSpec => []LogOfSeconds
<1>1. MeterInv => LogOfSeconds
  BY DEF MeterInv, Logged, LogOfOne, LogAscends, LogOfSeconds
<1>2. QED
  BY <1>1, MeterInvInit, MeterInvStep, PTL DEF MeterSpec
=============================================================================
