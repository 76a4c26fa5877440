-------------------------------- MODULE CPT --------------------------------
(***************************************************************************)
(* The conservative power theory: from the voltages and currents of a      *)
(* sample to currents, powers and factors of three phases and of all       *)
(* together, through moving average filters.                               *)
(*                                                                         *)
(* Numbers are abstracted to what tells formulas apart: the unit of a      *)
(* value, the sample it is of and the phases it depends on.  Signs and     *)
(* magnitudes are left out: RMS_Evaluate and the floor of P_avg keep every *)
(* divisor of the code above 0, so that each of its guards is true.        *)
(***************************************************************************)
EXTENDS Integers, FiniteSets

CONSTANTS Ns,             \* phases CPT_Config is called with
          MaxSamples      \* bound on the samples of a behaviour

VARIABLES me_n,           \* phases: 0 before CPT_Config
          step,           \* "ready", the next function of CPT_Update, or an end
          sample,         \* number of the sample in pac
          phase,          \* Phase[i]
          me,             \* collective values
          maf,            \* filters of phase i, and collective ones (0)
          buffer          \* their buffers

cptVars == <<me_n, step, sample, phase, me, maf, buffer>>

-----------------------------------------------------------------------------
(* Values                                                                  *)

(* Exponents of volt, ampere and second. *)
Quantity(v, i, s, at, of) == [ok |-> TRUE, v |-> v, i |-> i, s |-> s, at |-> at, of |-> of]
Wrong == [Quantity(0, 0, 0, 0, {}) EXCEPT !.ok = FALSE]

Unit(x) == <<x.v, x.i, x.s>>
Good(x, y) == x.ok /\ y.ok /\ x.at = y.at
Times(x, y) == IF Good(x, y)
                 THEN Quantity(x.v + y.v, x.i + y.i, x.s + y.s, x.at, x.of \union y.of)
                 ELSE Wrong
Over(x, y) == IF Good(x, y)
                THEN Quantity(x.v - y.v, x.i - y.i, x.s - y.s, x.at, x.of \union y.of)
                ELSE Wrong
Plus(x, y) == IF Good(x, y) /\ Unit(x) = Unit(y)
                THEN Quantity(x.v, x.i, x.s, x.at, x.of \union y.of)
                ELSE Wrong
Minus(x, y) == Plus(x, y)
Square(x) == Times(x, x)
(* RMS_Evaluate and sqrt *)
RMS_Evaluate(x) == IF x.ok /\ \A e \in {x.v, x.i, x.s} : e % 2 = 0
                     THEN Quantity(x.v \div 2, x.i \div 2, x.s \div 2, x.at, x.of)
                     ELSE Wrong
(* The trapezoid between the last input and x is added to the integral.    *)
Integrate(sum, last, x) ==
    IF Good(sum, last) /\ sum.at = x.at - 1 /\ Unit(sum) = <<x.v, x.i, x.s + 1>>
      THEN Quantity(sum.v, sum.i, sum.s, x.at, sum.of) ELSE Wrong
Sum(f) == LET upTo[i \in 1 .. me_n] == IF i = 1 THEN f[1] ELSE Plus(upTo[i - 1], f[i])
          IN  upTo[me_n]

(* MovingAverageFilter_Update: a mean of values of one kind. *)
Kind(x) == <<Unit(x), x.of>>
NoKind == <<<<0, 0, 0>>, {}>>
Mean(f, x) == IF maf[f].kind \in {NoKind, Kind(x)} THEN x ELSE Wrong
Feed(in) ==
    maf' = [f \in DOMAIN maf |->
              IF f \in DOMAIN in THEN [kind |-> Kind(in[f]), fed |-> maf[f].fed + 1]
                                 ELSE maf[f]]
Rms(f, x) == RMS_Evaluate(Mean(f, x))

Phases == 1 .. me_n
V(i) == Quantity(1, 0, 0, sample, {i})
I(i) == Quantity(0, 1, 0, sample, {i})

-----------------------------------------------------------------------------
PhaseFilters == <<"V", "I", "P", "W", "UI", "INT", "Iba", "Ibr", "Iv">>
CptFilters == <<"Iba", "Iua", "Ibr", "Iur", "Iv", "I", "V", "UI">>

PhaseFields == {"V_pow2", "V_rms", "I_pow2", "I_rms", "Integral", "Integral_lastInput",
                "UnbiasedIntegral", "UnbiasedIntegral_pow2", "UnbiasedIntegral_rms",
                "W_avg", "P_avg", "Q", "Ia", "Iba", "Iua", "Ir", "Ibr", "Iur", "Iv", "Iu",
                "Iba_rms", "Iua_rms", "Ibr_rms", "Iur_rms", "Iv_rms",
                "A", "Na", "Nr", "N", "V", "PF", "NF", "QF", "VF"}
CptFields == {"Iba_rms", "Iua_rms", "Ibr_rms", "Iur_rms", "Iv_rms", "V_rms", "I_rms",
              "UI_rms", "P_avg", "W_avg", "A", "Q", "Na", "Nr", "N", "V",
              "PF", "NF", "QF", "VF"}

CPTInit ==
    /\ me_n = 0 /\ step = "config" /\ sample = 0
    /\ phase = <<>> /\ me = <<>> /\ maf = <<>> /\ buffer = <<>>

(* Memory of malloc is Wrong until it is assigned; Phase_Init sets 0,      *)
(* which is of any unit.                                                   *)
Phase_Init(i) ==
    [x \in PhaseFields |->
       CASE x = "Integral" -> Quantity(1, 0, 1, 0, {i})
         [] x = "Integral_lastInput" -> Quantity(1, 0, 0, 0, {i})
         [] OTHER -> Wrong]

(* The filters of three phases, and the buffer of one: that of filter f of *)
(* PhaseFilters is number 9 * (i - 1) + f - 1 of one array, a collective   *)
(* filter has its own of the other.                                        *)
ConfigFilters == {<<i, PhaseFilters[k]>> : i \in 1 .. 3, k \in 1 .. 9}
                 \union {<<0, CptFilters[k]>> : k \in 1 .. 8}
Position(filters, name) == (CHOOSE k \in DOMAIN filters : filters[k] = name) - 1
BufferOf(f) == IF f[1] = 0 THEN <<"CPT", Position(CptFilters, f[2])>>
               ELSE <<"Phase", 9 * (f[1] - 1) + Position(PhaseFilters, f[2])>>

(* An allocation fails, or Phase[1] is NULL, because the filters of three  *)
(* phases are set up, or all is.                                           *)
CPT_Config(phases) ==
    /\ step = "config" /\ UNCHANGED sample
    /\ \/ step' = "failed" /\ UNCHANGED <<me_n, phase, me, maf, buffer>>
       \/ phases < 3 /\ step' = "crashed" /\ UNCHANGED <<me_n, phase, me, maf, buffer>>
       \/ /\ phases = 3 /\ step' = "ready" /\ me_n' = 3
          /\ phase' = [i \in 1 .. 3 |-> Phase_Init(i)]
          /\ me' = [x \in CptFields |-> Wrong]
          /\ maf' = [f \in ConfigFilters |-> [kind |-> NoKind, fed |-> 0]]
          /\ buffer' = [f \in ConfigFilters |-> BufferOf(f)]

(* Slip: the powers of the phases are computed after their sum. *)
Late_CallOrder == <<"voltages", "collective", "power", "currents", "powers", "factors">>
(* The functions CPT_Update calls, in this order. *)
CallOrder == <<"voltages", "power", "collective", "currents", "powers", "factors">>
Function(name) == /\ step = name
                  /\ \E k \in DOMAIN CallOrder :
                        /\ CallOrder[k] = name
                        /\ step' = IF k = 6 THEN "ready" ELSE CallOrder[k + 1]
                  /\ UNCHANGED <<me_n, sample, buffer>>

(* The next sample is put in pac and CPT_Update called. *)
CPT_Update ==
    /\ step = "ready" /\ sample < MaxSamples
    /\ sample' = sample + 1 /\ step' = CallOrder[1]
    /\ UNCHANGED <<me_n, phase, me, maf, buffer>>

Filters(names) == Phases \X names

CPT_UpdateVoltagesAndCurrents ==
    LET integral == [i \in Phases |->
                       Integrate(phase[i].Integral, phase[i].Integral_lastInput, V(i))]
        unbiased == [i \in Phases |-> Minus(integral[i], Mean(<<i, "INT">>, integral[i]))]
        In(f) == CASE f[2] = "V" -> Square(V(f[1]))
                   [] f[2] = "I" -> Square(I(f[1]))
                   [] f[2] = "INT" -> integral[f[1]]
                   [] f[2] = "UI" -> Square(unbiased[f[1]])
    IN  /\ Function("voltages")
        /\ phase' = [i \in Phases |->
             [phase[i] EXCEPT
                !.V_pow2 = In(<<i, "V">>), !.V_rms = Rms(<<i, "V">>, In(<<i, "V">>)),
                !.I_pow2 = In(<<i, "I">>), !.I_rms = Rms(<<i, "I">>, In(<<i, "I">>)),
                !.Integral = integral[i], !.Integral_lastInput = V(i),
                !.UnbiasedIntegral = unbiased[i],
                !.UnbiasedIntegral_pow2 = In(<<i, "UI">>),
                !.UnbiasedIntegral_rms = Rms(<<i, "UI">>, In(<<i, "UI">>))]]
        /\ Feed([f \in Filters({"V", "I", "INT", "UI"}) |-> In(f)])
        /\ UNCHANGED me

CPT_UpdatePowerAndEnergy ==
    LET In(f) == IF f[2] = "P" THEN Times(V(f[1]), I(f[1]))
                               ELSE Times(phase[f[1]].UnbiasedIntegral, I(f[1]))
    IN  /\ Function("power")
        /\ phase' = [i \in Phases |->
             LET W == Mean(<<i, "W">>, In(<<i, "W">>))
             IN  [phase[i] EXCEPT
                    !.P_avg = Mean(<<i, "P">>, In(<<i, "P">>)), !.W_avg = W,
                    !.Q = Times(W, Over(phase[i].V_rms, phase[i].UnbiasedIntegral_rms))]]
        /\ Feed([f \in Filters({"P", "W"}) |-> In(f)])
        /\ UNCHANGED me

CPT_UpdateCollectiveValues ==
    LET Of(x) == Sum([i \in Phases |-> phase[i][x]])
        In(f) == CASE f[2] = "V" -> Of("V_pow2")
                   [] f[2] = "I" -> Of("I_pow2")
                   [] f[2] = "UI" -> Of("UnbiasedIntegral_pow2")
    IN  /\ Function("collective")
        /\ me' = [me EXCEPT !.P_avg = Of("P_avg"), !.W_avg = Of("W_avg"),
                     !.V_rms = Rms(<<0, "V">>, In(<<0, "V">>)),
                     !.I_rms = Rms(<<0, "I">>, In(<<0, "I">>)),
                     !.UI_rms = Rms(<<0, "UI">>, In(<<0, "UI">>))]
        /\ Feed([f \in {0} \X {"V", "I", "UI"} |-> In(f)])
        /\ UNCHANGED phase

(* Active and reactive, balanced and unbalanced and void currents.  Of the *)
(* unbalanced ones a phase keeps the squares, without mean and root.       *)
CPT_CurrentDecomposition ==
    LET current == [i \in Phases |->
            LET p == phase[i]
                UI == p.UnbiasedIntegral
                Ia == Times(Over(p.P_avg, Square(p.V_rms)), V(i))
                Ir == Times(Over(p.W_avg, Square(p.UnbiasedIntegral_rms)), UI)
                Iba == Times(Over(me.P_avg, Square(me.V_rms)), V(i))
                Ibr == Times(Over(me.W_avg, Square(me.UI_rms)), UI)
            IN  [Ia |-> Ia, Ir |-> Ir, Iv |-> Minus(Minus(I(i), Ia), Ir),
                 Iba |-> Iba, Ibr |-> Ibr, Iua |-> Minus(Ia, Iba), Iur |-> Minus(Ir, Ibr)]]
        In(f) == IF f[1] = 0 THEN Sum([i \in Phases |-> Square(current[i][f[2]])])
                             ELSE Square(current[f[1]][f[2]])
        R(i, x) == Rms(<<i, x>>, In(<<i, x>>))
    IN  /\ Function("currents")
        /\ phase' = [i \in Phases |->
             LET c == current[i]
             IN  [phase[i] EXCEPT
                    !.Ia = c.Ia, !.Ir = c.Ir, !.Iv = c.Iv, !.Iba = c.Iba, !.Ibr = c.Ibr,
                    !.Iua = c.Iua, !.Iur = c.Iur, !.Iu = Plus(c.Iua, c.Iur),
                    !.Iv_rms = R(i, "Iv"), !.Iba_rms = R(i, "Iba"), !.Ibr_rms = R(i, "Ibr"),
                    !.Iua_rms = In(<<i, "Iua">>), !.Iur_rms = In(<<i, "Iur">>)]]
        /\ me' = [me EXCEPT !.Iv_rms = R(0, "Iv"), !.Iba_rms = R(0, "Iba"),
                     !.Ibr_rms = R(0, "Ibr"), !.Iua_rms = R(0, "Iua"),
                     !.Iur_rms = R(0, "Iur")]
        /\ Feed([f \in Filters({"Iv", "Iba", "Ibr"})
                       \union ({0} \X {"Iv", "Iba", "Ibr", "Iua", "Iur"}) |-> In(f)])

(* Of a phase and of all phases together. *)
Powers(x) ==
    LET Na == Times(x.V_rms, x.Iua_rms)
        Nr == Times(x.V_rms, x.Iur_rms)
    IN  [x EXCEPT !.A = Times(x.V_rms, x.I_rms), !.Q = Times(x.V_rms, x.Ibr_rms),
                  !.Na = Na, !.Nr = Nr, !.V = Times(x.V_rms, x.Iv_rms),
                  !.N = RMS_Evaluate(Plus(Square(Na), Square(Nr)))]

CPT_PowerDecomposition ==
    /\ Function("powers")
    /\ phase' = [i \in Phases |-> Powers(phase[i])]
    /\ me' = Powers(me)
    /\ UNCHANGED maf

Factors(x) ==
    LET PQ == Plus(Square(x.P_avg), Square(x.Q))
    IN  [x EXCEPT !.PF = Over(x.P_avg, x.A), !.VF = Over(x.V, x.A),
                  !.QF = Over(x.Q, RMS_Evaluate(PQ)),
                  !.NF = Over(x.N, RMS_Evaluate(Plus(PQ, Square(x.N))))]

CPT_EvaluateFactors ==
    /\ Function("factors")
    /\ phase' = [i \in Phases |-> Factors(phase[i])]
    /\ me' = Factors(me)
    /\ UNCHANGED maf

CPTNext ==
    \/ \E phases \in Ns : CPT_Config(phases)
    \/ CPT_Update \/ CPT_UpdateVoltagesAndCurrents \/ CPT_UpdatePowerAndEnergy
    \/ CPT_UpdateCollectiveValues \/ CPT_CurrentDecomposition
    \/ CPT_PowerDecomposition \/ CPT_EvaluateFactors

-----------------------------------------------------------------------------
(* Properties                                                              *)

UnitOf(x) == CASE x \in {"V_rms"} -> <<1, 0, 0>>
               [] x \in {"I_rms", "Ia", "Iba", "Iua", "Ir", "Ibr", "Iur", "Iv", "Iu",
                         "Iba_rms", "Iua_rms", "Ibr_rms", "Iur_rms", "Iv_rms"} -> <<0, 1, 0>>
               [] x \in {"P_avg", "A", "Q", "Na", "Nr", "N", "V"} -> <<1, 1, 0>>
               [] x = "W_avg" -> <<1, 1, 1>>
               [] x = "UI_rms" -> <<1, 0, 1>>
               [] x \in {"PF", "NF", "QF", "VF"} -> <<0, 0, 0>>
(* Values of one phase that depend on the others. *)
Balanced == {"Iba", "Ibr", "Iua", "Iur", "Iu", "Iba_rms", "Ibr_rms", "Q", "QF"}
(* Values a phase computes from a mean current it does not have. *)
Unrooted == {"Iua_rms", "Iur_rms", "Na", "Nr", "N", "NF"}
Internal == {"V_pow2", "I_pow2", "Integral", "Integral_lastInput", "UnbiasedIntegral",
             "UnbiasedIntegral_pow2", "UnbiasedIntegral_rms"}

(* After CPT_Update every current, power and factor has its unit, is of    *)
(* this sample, and is of its phase alone unless it is a balanced or an    *)
(* unbalanced one; each of the 35 filters has had one input of one kind    *)
(* per sample and has a buffer of its own.  The unbalanced mean currents   *)
(* of a phase are excepted.                                                *)
DecompositionOfSample ==
    step = "ready" /\ sample > 0 =>
       /\ \A x \in CptFields :
             me[x].ok /\ Kind(me[x]) = <<UnitOf(x), Phases>> /\ me[x].at = sample
       /\ \A i \in Phases, x \in PhaseFields \ (Internal \union Unrooted) :
             /\ phase[i][x].ok /\ phase[i][x].at = sample
             /\ Kind(phase[i][x]) = <<UnitOf(x), IF x \in Balanced THEN Phases ELSE {i}>>
       /\ \A f, g \in DOMAIN maf :
             maf[f].fed = sample /\ (buffer[f] = buffer[g] => f = g)
=============================================================================
