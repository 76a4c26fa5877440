------------------------------ MODULE Waveform ------------------------------
(***************************************************************************)
(* Windows of samples: the difference of two signatures aligned at a zero  *)
(* of their voltages, the copy of the samples around an offset, the scale  *)
(* of a second and its odd harmonics by the Goertzel filter.               *)
(*                                                                         *)
(* A sample is the place it comes from, and a harmonic its bin and the     *)
(* places it is computed over; of the voltages FindZero looks at, the sign *)
(* is kept.  Nothing in the repository calls WaveformDiff, CopyWaveform    *)
(* and CalculateHarmonics, so no caller bounds what they are given.        *)
(***************************************************************************)
EXTENDS Integers, Sequences, FiniteSetsExt

CONSTANTS HalfWindow,     \* 256: a copy is twice as long, FindZero looks at as many
          OutSamples,     \* samples of a difference
          Spare,          \* samples of a signature beyond OutSamples and a window
          Voltages,       \* signs of the windows of voltage FindZero may be given
          Offsets,        \* offsets CopyWaveform may be given
          Points,         \* ENERGY_METER_SAMPLES_PER_CYCLE
          Fsample,        \* ENERGY_METER_SAMPLE_RATE
          Fdtm,           \* ENERGY_METER_FREQ
          DftPoints,      \* DFT_POINTS
          Inputs_I        \* I_INPUTS

ASSUME WaveformAssumption ==
    /\ HalfWindow \in Nat \ {0} /\ OutSamples \in Nat /\ Spare \subseteq Nat
    /\ Points \in Nat \ {0} /\ Fdtm \in Nat \ {0} /\ Fsample = Points * Fdtm
    /\ DftPoints \in Nat \ {0} /\ 2 * DftPoints <= Points
    /\ Inputs_I \in Nat \ {0}

WindowLength == 2 * HalfWindow
WindowAt == 0 .. WindowLength - 1

ASSUME WindowAssumption ==
    Voltages \subseteq [WindowAt -> {-1, 0, 1}] /\ Offsets \subseteq Int

VARIABLES job,            \* function and loop that is running
          wf,             \* signs of the V_Waveform of the prior and the current
          zero,           \* k of FindZero in each
          out,            \* result of WaveformDiff or CopyWaveform
          coeff,          \* coefficients: bin each one stands for
          samples,        \* of a channel: times each one has been scaled
          dft             \* harmonics of channel and cycle
waveVars == <<job, wf, zero, out, coeff, samples, dft>>

WaveInit ==
    /\ job = <<"idle">> /\ wf = <<>> /\ zero = <<0, 0>> /\ out = <<>>
    /\ coeff = <<>> /\ samples = <<>> /\ dft = <<>>

-----------------------------------------------------------------------------
(* WaveformDiff.  The pointer into a waveform moves with k.                *)

(* Slip: the sign of the first sample is not looked at. *)
Above_Loop(s, w) == <<"above", s>>
Loop(s, w) == <<IF w[0] < 0 THEN "below" ELSE "above", s>>

WaveformDiff(prior, current) ==
    /\ job = <<"idle">>
    /\ wf' = <<prior, current>> /\ zero' = <<0, 0>>
    /\ job' = Loop(1, prior)
    /\ UNCHANGED <<out, coeff, samples, dft>>

(* The sample at which the first loop stops is read again by the second.   *)
FindZeroBelow(s) ==
    /\ job = <<"below", s>>
    /\ IF wf[s][zero[s]] < 0 /\ zero[s] + 1 < WindowLength
         THEN zero' = [zero EXCEPT ![s] = @ + 1] /\ UNCHANGED job
         ELSE job' = <<"above", s>> /\ UNCHANGED zero
    /\ UNCHANGED <<wf, out, coeff, samples, dft>>

FindZeroAbove(s) ==
    /\ job = <<"above", s>>
    /\ IF wf[s][zero[s]] > 0 /\ zero[s] + 1 < WindowLength
         THEN zero' = [zero EXCEPT ![s] = @ + 1] /\ UNCHANGED job
         ELSE /\ UNCHANGED zero
              /\ job' = IF s = 1 THEN Loop(2, wf[2]) ELSE <<"copy">>
    /\ UNCHANGED <<wf, out, coeff, samples, dft>>

(* Currents and voltage of the difference, from the start or the end of    *)
(* signatures with spare[s] samples more than it and a window need.        *)
DiffSamples(spare, offset12, start_end) ==
    LET first == [s \in 1 .. 2 |-> zero[s] + (IF start_end = 1 THEN spare[s] ELSE 0)]
        V == IF offset12 = 2 THEN 2 ELSE 1
    IN  /\ job = <<"copy">> /\ job' = <<"diff">>
        /\ out' = [k \in 0 .. OutSamples - 1 |->
                     [I |-> [s \in 1 .. 2 |-> first[s] + k], V |-> first[V] + k,
                      of |-> V, spare |-> spare, end |-> start_end]]
        /\ UNCHANGED <<wf, zero, coeff, samples, dft>>

(* Two loops of half a window, before and from offset on. *)
CopyWaveform(offset) ==
    /\ job = <<"idle">> /\ job' = <<"copied", offset>>
    /\ out' = [i \in WindowAt |-> IF i < HalfWindow THEN offset - HalfWindow + i
                                                   ELSE offset + (i - HalfWindow)]
    /\ UNCHANGED <<wf, zero, coeff, samples, dft>>

-----------------------------------------------------------------------------
(* Goertzel and MetrologyCore                                              *)

(* floor(0.5 + Points * Fdtm * j / Fsample) *)
Bin(j) == (2 * Points * Fdtm * j + Fsample) \div (2 * Fsample)

Goertzel_EvaluateCoefficients == [j \in 0 .. Points - 1 |-> Bin(j)]

(* coeff may not be allocated. *)
MetrologyCore_Init ==
    /\ job = <<"idle">>
    /\ \/ job' = <<"error">> /\ UNCHANGED coeff
       \/ job' = <<"ready">> /\ coeff' = Goertzel_EvaluateCoefficients
    /\ UNCHANGED <<wf, zero, out, samples, dft>>

(* The samples of the next second replace those scaled in place. *)
NextSecond ==
    /\ job = <<"ready">> /\ job' = <<"sampled">>
    /\ samples' = [channel \in 0 .. Inputs_I - 1 |-> [i \in 0 .. Fsample - 1 |-> 0]]
    /\ UNCHANGED <<wf, zero, out, coeff, dft>>

(* The offset subtracted stays 0: CalculateOffset is not called. *)
MetrologyCore_Scale ==
    /\ job = <<"sampled">> /\ job' = <<"harmonics", 0, 0>>
    /\ samples' = [channel \in DOMAIN samples |->
                     [i \in DOMAIN samples[channel] |-> samples[channel][i] + 1]]
    /\ dft' = [channel \in DOMAIN samples |-> <<>>]
    /\ UNCHANGED <<wf, zero, out, coeff>>

(* Harmonics 1, 3, ... over the Points samples from base on. *)
Goertzel_CalculateOdd(input, base) ==
    [k \in 0 .. DftPoints - 1 |->
       [bin |-> coeff[2 * k + 1],
        over |-> {base + i : i \in 0 .. Points - 1},
        scaled |-> {input[base + i] : i \in 0 .. Points - 1}]]

MetrologyCore_CalculateHarmonics(channel, i) ==
    /\ job = <<"harmonics", channel, i>>
    /\ dft' = [dft EXCEPT ![channel] =
                 Append(@, Goertzel_CalculateOdd(samples[channel], i * Points))]
    /\ job' = IF i + 1 < Fdtm THEN <<"harmonics", channel, i + 1>>
              ELSE IF channel + 1 < Inputs_I THEN <<"harmonics", channel + 1, 0>>
              ELSE <<"ready">>
    /\ UNCHANGED <<wf, zero, out, coeff, samples>>

WaveNext ==
    \/ job = <<"idle">> /\ \E prior, current \in Voltages : WaveformDiff(prior, current)
    \/ \E s \in 1 .. 2 : FindZeroBelow(s) \/ FindZeroAbove(s)
    \/ \E spare \in [1 .. 2 -> Spare], offset12 \in 1 .. 2, start_end \in 0 .. 1 :
          DiffSamples(spare, offset12, start_end)
    \/ \E offset \in Offsets : CopyWaveform(offset)
    \/ MetrologyCore_Init \/ NextSecond \/ MetrologyCore_Scale
    \/ \E channel \in 0 .. Inputs_I - 1, i \in 0 .. Fdtm - 1 :
          MetrologyCore_CalculateHarmonics(channel, i)

WaveSpec == WaveInit /\ [][WaveNext]_waveVars

-----------------------------------------------------------------------------
(* Properties                                                              *)

(* The voltages are one wave of T samples that comes down through zero     *)
(* once, the current one read from d samples after the prior one.          *)
Falls(w, T, k) == w[k] > 0 /\ w[(k + 1) % T] <= 0
OneWave(T, d) ==
    /\ \A s \in 1 .. 2, k \in WindowAt : wf[s][k] = wf[s][k % T]
    /\ \A k \in 0 .. T - 1 : wf[2][k] = wf[1][(k + d) % T]
    /\ \E k \in 0 .. T - 1 : \A j \in 0 .. T - 1 : Falls(wf[1], T, j) <=> j = k

(* A search ended on a sample of exactly 0 that no positive one precedes:  *)
(* the wave may be on its way up there.                                    *)
StoppedRising(s, T) == wf[s][zero[s]] = 0 /\ wf[s][(zero[s] + T - 1) % T] <= 0

(* Samples of one wave that are subtracted have the same phase, unless a   *)
(* search stopped at a rise; taken from the end of the signatures, when    *)
(* their lengths differ by whole waves, and then only.                     *)
SamePhase ==
    job = <<"diff">> =>
       \A T \in 1 .. WindowLength - 1 : \A d \in 0 .. T - 1, k \in DOMAIN out :
          OneWave(T, d) =>
             \/ \E s \in 1 .. 2 : StoppedRising(s, T)
             \/ LET o == out[k] IN
                   (o.I[2] + d - o.I[1]) % T = 0
                      <=> o.end = 0 \/ (o.spare[2] - o.spare[1]) % T = 0

(* The voltage of a difference is that of the current it stands beside,    *)
(* and no sample is read behind the end of a signature.                    *)
DifferenceWithin ==
    job = <<"diff">> =>
       \A k \in DOMAIN out : LET o == out[k] IN
          /\ o.V = o.I[o.of]
          /\ \A s \in 1 .. 2 : o.I[s] < o.spare[s] + OutSamples + WindowLength

(* The two halves of a copy are one window around the offset; it lies      *)
(* within the channel for the offsets at which a caller may use it, and    *)
(* for no other.                                                           *)
CopyAround ==
    \A offset \in Offsets : job = <<"copied", offset>> =>
       /\ \A i \in DOMAIN out : out[i] = offset - HalfWindow + i
       /\ (\A i \in DOMAIN out : out[i] \in 0 .. Fsample - 1)
             <=> offset \in HalfWindow .. Fsample - HalfWindow

(* Harmonic 2 k + 1 of every cycle is computed over the samples of that    *)
(* cycle, each scaled once; the cycles cover the second.                   *)
HarmonicsOfSecond ==
    job = <<"ready">> /\ dft # <<>> =>
       \A channel \in DOMAIN dft :
          /\ \A i \in 1 .. Fdtm, k \in 0 .. DftPoints - 1 :
                dft[channel][i][k] = [bin |-> 2 * k + 1,
                                      over |-> Points * (i - 1) .. Points * i - 1,
                                      scaled |-> {1}]
          /\ UNION {dft[channel][i][0].over : i \in 1 .. Fdtm} = 0 .. Fsample - 1

(* What the functions on windows of samples promise. *)
WindowsOfSamples == SamePhase /\ DifferenceWithin /\ CopyAround /\ HarmonicsOfSecond
=============================================================================
