----------------------------- MODULE MeterLoop -----------------------------
(***************************************************************************)
(* One turn of the loop of main(): a message of SampleRate samples goes    *)
(* through the CPT; at the end of every cycle the filters of the wire      *)
(* message are updated, at every RawCount-th sample a row of raw.bin is    *)
(* taken; then the means are sent and the rows appended to the file.       *)
(*                                                                         *)
(* The state of the CPT, and every value read from it, is represented by   *)
(* the number of samples it has consumed.  The 33 filters of main() move   *)
(* together and are represented by one buffer.                             *)
(***************************************************************************)
EXTENDS Integers, Sequences

CONSTANTS SamplesPerCycle,   \* ENERGY_METER_SAMPLES_PER_CYCLE
          Freq,              \* ENERGY_METER_FREQ, length of the filters
          RawFreq,           \* RAW_PARAM_FREQ, rows of params
          RawCount,          \* RAW_PARAM_FREQ_COUNT
          MaxSeconds         \* bound on the messages processed

SampleRate == SamplesPerCycle * Freq      \* ENERGY_METER_SAMPLE_RATE

(* The rates of Board.h and main.cpp: 256 * 60 = 384 * 40 = 15360.  The    *)
(* loop relies on both divisions being exact.                              *)
ASSUME RatesAssumption ==
    /\ SamplesPerCycle \in Nat \ {0} /\ Freq \in Nat \ {0}
    /\ RawFreq \in Nat \ {0} /\ RawCount \in Nat \ {0}
    /\ RawCount * RawFreq = SampleRate
    /\ MaxSeconds \in Nat

VARIABLES
  pc,          \* "get", "loop", "send", "log" or "killed"
  idx, m, n,   \* the counters of the for loop
  offset,      \* next row of params, in units of PARAMS_LEN
  cpt,         \* samples the CPT has consumed
  means,       \* the values in the filters' buffers
  heads,       \* their common Head
  params,      \* the rows of the second, by the value they were taken at
  log,         \* raw.bin: of each second, its rows or Lost
  second       \* history: messages fetched

loopVars == <<idx, m, n, offset, cpt, means, heads, params>>
meterVars == <<pc, loopVars, log, second>>

Rows == 0 .. RawFreq - 1
Cycles == 0 .. Freq - 1

(* A row that did not get into the file; the CPT has consumed a sample     *)
(* before any row is taken.                                                *)
Lost == 0

(* Every variable keeps its type; in particular every row taken lies       *)
(* inside params.                                                          *)
MeterTypeOK ==
    /\ pc \in {"get", "loop", "send", "log", "killed"}
    /\ idx \in 0 .. SampleRate
    /\ m \in 0 .. SamplesPerCycle - 1
    /\ n \in 0 .. RawCount - 1
    /\ offset \in 0 .. RawFreq
    /\ cpt \in Nat
    /\ means \in [Cycles -> Nat]
    /\ heads \in Cycles
    /\ params \in [Rows -> Nat]
    /\ log \in Seq([Rows -> Nat])
    /\ second \in 0 .. MaxSeconds

(* CPT_Config, MovingAverageFilter_Init and connect() have succeeded. *)
MeterInit ==
    /\ pc = "get"
    /\ idx = 0 /\ m = 0 /\ n = 0 /\ offset = 0
    /\ cpt = 0
    /\ means = [k \in Cycles |-> 0] /\ heads = 0
    /\ params = [r \in Rows |-> 0]
    /\ log = <<>>
    /\ second = 0

-----------------------------------------------------------------------------
(* Slips the properties must notice                                        *)

(* a cycle is one sample short *)
Short_CycleEnds == m + 1 >= SamplesPerCycle - 1

(* the row is taken before the sample has gone through the CPT *)
Behind_update_raw_values(value) == params' = [params EXCEPT ![offset] = value - 1]

-----------------------------------------------------------------------------
(* AnalogCore_GetSamples, MetrologyCore_Scale and the head of the for loop *)
GetSamples ==
    /\ pc = "get" /\ second < MaxSeconds
    /\ second' = second + 1
    /\ idx' = 0 /\ m' = 0 /\ n' = 0 /\ offset' = 0
    /\ pc' = "loop"
    /\ UNCHANGED <<cpt, means, heads, params, log>>

CycleEnds == m + 1 >= SamplesPerCycle
RowDue == n + 1 >= RawCount

(* All 33 filters take a value and move their heads. *)
update_mean_values(value) ==
    /\ means' = [means EXCEPT ![heads] = value]
    /\ heads' = IF heads + 1 >= Freq THEN 0 ELSE heads + 1

(* A row of params is overwritten. *)
update_raw_values(value) == params' = [params EXCEPT ![offset] = value]

(* The body of the for loop. *)
Sample ==
    /\ pc = "loop" /\ idx < SampleRate
    /\ cpt' = cpt + 1
    /\ IF CycleEnds THEN m' = 0 /\ update_mean_values(cpt + 1)
                    ELSE m' = m + 1 /\ UNCHANGED <<means, heads>>
    /\ IF RowDue THEN n' = 0 /\ update_raw_values(cpt + 1) /\ offset' = offset + 1
                 ELSE n' = n + 1 /\ UNCHANGED <<params, offset>>
    /\ idx' = idx + 1
    /\ UNCHANGED <<pc, log, second>>

LoopEnds ==
    /\ pc = "loop" /\ idx >= SampleRate
    /\ pc' = "send"
    /\ UNCHANGED <<loopVars, log, second>>

(* send_data: a failure is printed and forgotten; on a connection the      *)
(* logger has reset, SIGPIPE ends the process.                             *)
SendData ==
    /\ pc = "send"
    /\ pc' \in {"log", "killed"}
    /\ UNCHANGED <<loopVars, log, second>>

(* WriteLog: without the file no row is kept; results of fwrite and fclose *)
(* are ignored, so that any of the rows may be missing.  A row written in  *)
(* part is not kept; the bytes it leaves in the file are not modelled.     *)
WriteLog ==
    /\ pc = "log"
    /\ \E kept \in SUBSET Rows :
         log' = Append(log, [r \in Rows |-> IF r \in kept THEN params[r] ELSE Lost])
    /\ pc' = "get"
    /\ UNCHANGED <<loopVars, second>>

(* The bound has been reached, or the process is gone. *)
Stopped ==
    /\ pc = "killed" \/ (pc = "get" /\ second = MaxSeconds)
    /\ UNCHANGED meterVars

MeterNext == GetSamples \/ Sample \/ LoopEnds \/ SendData \/ WriteLog \/ Stopped

MeterSpec == MeterInit /\ [][MeterNext]_meterVars

-----------------------------------------------------------------------------
(* Properties                                                              *)

(* The sample before the first one of second s. *)
Base(s) == (s - 1) * SampleRate

(* What params must hold at the end of second s: row r was taken at the    *)
(* end of the r-th period of RawCount samples of that second.              *)
RowsOf(s) == [r \in Rows |-> Base(s) + (r + 1) * RawCount]

(* The means sent are means over this second's cycles, all of them, each   *)
(* taken at its last sample, and over no value of an earlier second.       *)
MeansOfSecond ==
    pc = "send" => \A k \in Cycles :
                     means[k] = Base(second) + (k + 1) * SamplesPerCycle

(* The rows of a block that are in the file. *)
Kept(block) == {r \in Rows : block[r] # Lost}

(* They are those of second s in their places. *)
OfSecond(block, s) == \A r \in Kept(block) : block[r] = RowsOf(s)[r]

(* raw.bin is made of rows of one second at a time, in ascending order: no *)
(* block mixes two seconds and no row is there twice, whatever was sent,   *)
(* dropped or lost by a write in between.                                  *)
LogOfSeconds ==
    /\ \A b \in 1 .. Len(log) : \E s \in 1 .. second : OfSecond(log[b], s)
    /\ \A a, b \in 1 .. Len(log) : \A r \in Kept(log[a]), q \in Kept(log[b]) :
         a < b => log[a][r] < log[b][q]
=============================================================================
