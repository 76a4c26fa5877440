----------------------------- MODULE PasmProofs -----------------------------
(***************************************************************************)
(* The assembler for all command lines and texts: the outputs are what was *)
(* asked for (PasmOutput), the image written is the program that the text  *)
(* describes (Pasm), and the files included are those that the line of the *)
(* #include says (PasmPath).                                               *)
(***************************************************************************)
EXTENDS PasmOutput, Pasm, PasmPath, FiniteSetTheorems, WellFoundedInduction, TLAPS

(* A set of numbers that is not empty has a least one.                     *)
LEMMA LeastOf ==
    ASSUME NEW S \in SUBSET Nat, S # {}
    PROVE  \E i \in S : \A k \in S : i <= k
<1> DEFINE R == OpToRel(<, Nat)
<1>1. IsWellFoundedOn(R, Nat)
  BY NatLessThanWellFounded
<1>2. \A i, k \in Nat : <<i, k>> \in R <=> i < k
  BY DEF OpToRel
<1> HIDE DEF R
<1>3. PICK i \in S : \A k \in S : ~(<<k, i>> \in R)
  BY <1>1, WFMin
<1>4. ASSUME NEW k \in S PROVE i <= k
  <2>1. i \in Nat /\ k \in Nat /\ ~(<<k, i>> \in R)
    BY <1>3
  <2>2. ~(k < i)
    BY <1>2, <2>1
  <2> QED
    BY <2>1, <2>2
<1> QED
  BY <1>4

-----------------------------------------------------------------------------
(* PasmOutput: the flags of one argument                                   *)

(* The settings a flag changes, and the flags that take what follows.      *)
Settings == [options : SUBSET Plain, core : NoCore .. 3,
             equates : 0 .. MAX_CMD_EQUATE, bad : BOOLEAN, rest : BOOLEAN]
Taker == {"I", "D", "C"}

(* Flag k of word is read and names a core.                                *)
Names(word, k) == word[k] \in CoreFlags /\ \A n \in 1 .. k : word[n] \notin Taker

(* What one flag does to the settings.                                     *)
LEMMA FlagIs ==
    ASSUME NEW s \in Settings, NEW flag \in STRING
    PROVE  /\ Flag(s, flag) \in Settings
           /\ ~Flag(s, flag).bad => ~s.bad
           /\ s.rest => Flag(s, flag) = s
           /\ ~s.rest /\ ~Flag(s, flag).bad =>
                 /\ flag \in CoreFlags => /\ s.core = NoCore /\ ~Flag(s, flag).rest
                                          /\ Flag(s, flag).core # NoCore
                 /\ flag \notin CoreFlags => Flag(s, flag).core = s.core
                 /\ Flag(s, flag).rest <=> flag \in Taker
<1> DEFINE t == Flag(s, flag)
<1>1. MAX_CMD_EQUATE \in Nat /\ NoCore = -1
  BY OutputAssumption DEF NoCore
<1>2. CASE s.bad \/ s.rest
  <2>1. t = s
    BY <1>2 DEF Flag
  <2> QED
    BY <1>2, <2>1
<1>3. CASE ~(s.bad \/ s.rest) /\ flag \in CoreFlags
  <2>1. t = IF s.core # NoCore THEN [s EXCEPT !.bad = TRUE]
            ELSE [s EXCEPT !.core = CoreOf(flag)]
    BY <1>3 DEF Flag, CoreFlags, Plain, Formats, Outputs
  <2>2. CoreOf(flag) \in 0 .. 3
    BY <1>3 DEF CoreOf, CoreFlags
  <2>3. flag \notin Taker
    BY <1>3 DEF CoreFlags, Taker
  <2>4. CASE s.core # NoCore
    <3>1. t = [s EXCEPT !.bad = TRUE]
      BY <2>1, <2>4
    <3>2. t \in Settings /\ t.bad
      BY <3>1 DEF Settings
    <3> HIDE DEF t
    <3> QED
      BY <1>3, <3>2 DEF t
  <2>5. CASE s.core = NoCore
    <3>1. t = [s EXCEPT !.core = CoreOf(flag)]
      BY <2>1, <2>5
    <3>2. CoreOf(flag) \in NoCore .. 3 /\ CoreOf(flag) # NoCore
      <4>1. \A k \in 0 .. 3 : k \in NoCore .. 3 /\ k # NoCore
        BY <1>1
      <4> QED
        BY <2>2, <4>1
    <3>3. t \in Settings /\ t.core = CoreOf(flag) /\ t.rest = s.rest
      BY <3>1, <3>2 DEF Settings
    <3> HIDE DEF t
    <3> QED
      BY <1>3, <2>3, <2>5, <3>2, <3>3 DEF t
  <2> QED
    BY <2>4, <2>5
<1>4. CASE ~(s.bad \/ s.rest) /\ flag \notin CoreFlags /\ flag = "D"
  <2>1. t = IF s.equates = MAX_CMD_EQUATE THEN [s EXCEPT !.bad = TRUE]
            ELSE [s EXCEPT !.equates = @ + 1, !.rest = TRUE]
    BY <1>4 DEF Flag, CoreFlags, Plain, Formats, Outputs
  <2>2. CASE s.equates = MAX_CMD_EQUATE
    <3>1. t = [s EXCEPT !.bad = TRUE]
      BY <2>1, <2>2
    <3>2. t \in Settings /\ t.bad
      BY <3>1 DEF Settings
    <3> HIDE DEF t
    <3> QED
      BY <1>4, <3>2 DEF t
  <2>3. CASE s.equates # MAX_CMD_EQUATE
    <3>1. t = [s EXCEPT !.equates = s.equates + 1, !.rest = TRUE]
      BY <2>1, <2>3
    <3>2. s.equates + 1 \in 0 .. MAX_CMD_EQUATE
      BY <1>1, <2>3 DEF Settings
    <3>3. t \in Settings /\ t.core = s.core /\ t.rest
      BY <3>1, <3>2 DEF Settings
    <3> HIDE DEF t
    <3> QED
      BY <1>4, <3>3 DEF t, Taker
  <2> QED
    BY <2>2, <2>3
<1>5. CASE ~(s.bad \/ s.rest) /\ flag \notin CoreFlags /\ flag \in {"I", "C"}
  <2>1. t = [s EXCEPT !.rest = TRUE]
    BY <1>5 DEF Flag, CoreFlags, Plain, Formats, Outputs
  <2>2. t \in Settings /\ t.core = s.core /\ t.rest
    BY <2>1 DEF Settings
  <2> HIDE DEF t
  <2> QED
    BY <1>5, <2>2 DEF t, Taker
<1>6. CASE ~(s.bad \/ s.rest) /\ flag \notin CoreFlags /\ flag \notin Taker
  <2>1. t = IF flag \in Plain THEN [s EXCEPT !.options = s.options \cup {flag}]
            ELSE [s EXCEPT !.bad = TRUE]
    BY <1>6 DEF Flag, Taker
  <2>2. t \in Settings /\ t.core = s.core /\ t.rest = s.rest
    <3>1. CASE flag \in Plain
      <4>1. t = [s EXCEPT !.options = s.options \cup {flag}]
        BY <2>1, <3>1
      <4>2. s.options \cup {flag} \in SUBSET Plain
        BY <3>1 DEF Settings
      <4> QED
        BY <4>1, <4>2 DEF Settings
    <3>2. CASE flag \notin Plain
      <4>1. t = [s EXCEPT !.bad = TRUE]
        BY <2>1, <3>2
      <4> QED
        BY <4>1 DEF Settings
    <3> QED
      BY <3>1, <3>2
  <2> HIDE DEF t
  <2> QED
    BY <1>6, <2>2 DEF t
<1> QED
  BY <1>2, <1>3, <1>4, <1>5, <1>6 DEF Taker

(* The settings after each flag of a word exist.                           *)
LEMMA FlagsExist ==
    ASSUME NEW word, NEW start, NEW n \in Nat
    PROVE  \E u : u = [i \in 0 .. n |-> IF i = 0 THEN start ELSE Flag(u[i - 1], word[i])]
<1> DEFINE P(u, m) == u = [i \in 0 .. m |-> IF i = 0 THEN start
                                            ELSE Flag(u[i - 1], word[i])]
           without == {m \in Nat : ~ \E u : P(u, m)}
<1> SUFFICES ASSUME without # {} PROVE FALSE
  OBVIOUS
<1>1. PICK m \in without : \A k \in without : m <= k
  <2>1. without \in SUBSET Nat
    OBVIOUS
  <2> HIDE DEF without
  <2> QED
    BY <2>1, LeastOf
<1>2. CASE m = 0
  <2> DEFINE u == [i \in 0 .. 0 |-> start]
  <2>1. P(u, 0)
    OBVIOUS
  <2> QED
    BY <1>1, <1>2, <2>1
<1>3. CASE m # 0
  <2>1. m \in Nat \ {0} /\ m - 1 \in Nat /\ m - 1 \notin without
    <3>1. m \in Nat \ {0} /\ m - 1 \in Nat /\ ~(m <= m - 1)
      BY <1>1, <1>3
    <3> HIDE DEF without
    <3> QED
      BY <1>1, <3>1
  <2>2. PICK u : P(u, m - 1)
    BY <2>1
  <2> DEFINE last == Flag(u[m - 1], word[m])
             h == [i \in 0 .. m |-> IF i = m THEN last ELSE u[i]]
  <2>3. ASSUME NEW i \in 0 .. m
        PROVE  h[i] = IF i = 0 THEN start ELSE Flag(h[i - 1], word[i])
    <3>1. CASE i = m
      <4>1. i - 1 \in 0 .. m /\ i - 1 # m /\ i # 0
        BY <1>3, <3>1
      <4>2. h[i - 1] = u[m - 1]
        BY <3>1, <4>1
      <4>3. h[i] = last
        BY <3>1
      <4> HIDE DEF h
      <4> QED
        BY <3>1, <4>1, <4>2, <4>3
    <3>2. CASE i # m
      <4>1. i \in 0 .. m - 1 /\ h[i] = u[i]
        BY <2>1, <3>2
      <4> DEFINE e(k) == IF k = 0 THEN start ELSE Flag(u[k - 1], word[k])
      <4>2. u[i] = e(i)
        <5>1. u = [k \in 0 .. m - 1 |-> e(k)]
          BY <2>2
        <5> HIDE DEF e
        <5> QED
          BY <4>1, <5>1
      <4>3. i # 0 => h[i - 1] = u[i - 1]
        BY <2>1, <4>1
      <4> HIDE DEF h
      <4> QED
        BY <4>1, <4>2, <4>3
    <3> QED
      BY <3>1, <3>2
  <2>4. P(h, m)
    <3> DEFINE e(k) == IF k = 0 THEN start ELSE Flag(h[k - 1], word[k])
    <3>1. h = [k \in 0 .. m |-> h[k]]
      OBVIOUS
    <3>2. \A k \in 0 .. m : h[k] = e(k)
      BY <2>3
    <3> HIDE DEF h, e
    <3>3. h = [k \in 0 .. m |-> e(k)]
      BY <3>1, <3>2
    <3> QED
      BY <3>3 DEF e
  <2> QED
    BY <1>1, <2>4
<1> QED
  BY <1>2, <1>3

(* What the flags of a word have done after the first i of them.           *)
Told(word, start, i, s) ==
    /\ s \in Settings
    /\ ~s.bad =>
          /\ s.rest <=> \E n \in 1 .. i : word[n] \in Taker
          /\ s.core = NoCore => start.core = NoCore /\ \A k \in 1 .. i : ~Names(word, k)
          /\ \A k \in 1 .. i : Names(word, k) =>
                start.core = NoCore /\ \A m \in 1 .. i : Names(word, m) => m = k

(* One more flag.                                                          *)
LEMMA ToldOneMore ==
    ASSUME NEW word \in Seq(STRING), NEW start, NEW i \in 1 .. Len(word),
           NEW s, Told(word, start, i - 1, s)
    PROVE  Told(word, start, i, Flag(s, word[i]))
<1> DEFINE t == Flag(s, word[i])
<1>1. /\ word[i] \in STRING /\ i \in Nat \ {0} /\ s \in Settings
      /\ 1 .. i = (1 .. i - 1) \cup {i}
  BY DEF Told
<1>2. /\ t \in Settings /\ (~t.bad => ~s.bad) /\ (s.rest => t = s)
      /\ ~s.rest /\ ~t.bad =>
            /\ word[i] \in CoreFlags => /\ s.core = NoCore /\ ~t.rest
                                        /\ t.core # NoCore
            /\ word[i] \notin CoreFlags => t.core = s.core
            /\ t.rest <=> word[i] \in Taker
  BY <1>1, FlagIs
<1> HIDE DEF t
<1> SUFFICES ASSUME ~t.bad
             PROVE  /\ t.rest <=> \E n \in 1 .. i : word[n] \in Taker
                    /\ t.core = NoCore => /\ start.core = NoCore
                                          /\ \A k \in 1 .. i : ~Names(word, k)
                    /\ \A k \in 1 .. i : Names(word, k) =>
                          start.core = NoCore /\ \A m \in 1 .. i : Names(word, m) => m = k
  BY <1>2 DEF Told, t
<1>3. /\ s.rest <=> \E n \in 1 .. i - 1 : word[n] \in Taker
      /\ s.core = NoCore => start.core = NoCore /\ \A k \in 1 .. i - 1 : ~Names(word, k)
      /\ \A k \in 1 .. i - 1 : Names(word, k) =>
            start.core = NoCore /\ \A m \in 1 .. i - 1 : Names(word, m) => m = k
  BY <1>2 DEF Told
<1>4. CASE s.rest
  <2>1. ~Names(word, i)
    BY <1>1, <1>3, <1>4 DEF Names
  <2>2. t = s
    BY <1>2, <1>4
  <2> QED
    BY <1>1, <1>3, <1>4, <2>1, <2>2
<1>5. CASE ~s.rest /\ word[i] \in CoreFlags
  <2>1. s.core = NoCore /\ ~t.rest /\ t.core # NoCore /\ word[i] \notin Taker
    BY <1>2, <1>5
  <2>2. \A k \in 1 .. i - 1 : ~Names(word, k)
    BY <1>3, <2>1
  <2> QED
    BY <1>1, <1>3, <1>5, <2>1, <2>2
<1>6. CASE ~s.rest /\ word[i] \notin CoreFlags
  <2>1. t.core = s.core /\ ~Names(word, i)
    BY <1>2, <1>6 DEF Names
  <2>2. t.rest <=> word[i] \in Taker
    BY <1>2, <1>6
  <2> QED
    BY <1>1, <1>3, <1>6, <2>1, <2>2
<1> QED
  BY <1>4, <1>5, <1>6

(* What the flags of a whole word do.                                      *)
LEMMA FlagsTold ==
    ASSUME NEW word \in Seq(STRING), Options \in SUBSET Plain,
           outCore \in NoCore .. 3, equates \in 0 .. MAX_CMD_EQUATE
    PROVE  Told(word, [core |-> outCore], Len(word), Flags(word))
<1> DEFINE start == [options |-> Options, core |-> outCore,
                     equates |-> equates, bad |-> FALSE, rest |-> FALSE]
           Adds(h) == h = [i \in 0 .. Len(word) |->
                             IF i = 0 THEN start ELSE Flag(h[i - 1], word[i])]
           u == CHOOSE h : Adds(h)
           wrong == {i \in 0 .. Len(word) : ~Told(word, [core |-> outCore], i, u[i])}
<1>1. Flags(word) = u[Len(word)]
  BY DEF Flags
<1>2. Adds(u)
  <2>1. Len(word) \in Nat
    OBVIOUS
  <2>2. \E h : Adds(h)
    <3> HIDE DEF start
    <3>1. \A st : \A n \in Nat : \E h : h = [i \in 0 .. n |->
                IF i = 0 THEN st ELSE Flag(h[i - 1], word[i])]
      BY FlagsExist, Zenon
    <3> QED
      BY <2>1, <3>1, Zenon
  <2> QED
    BY <2>2
<1>3. /\ start \in Settings /\ start.core = outCore /\ ~start.bad /\ ~start.rest
  BY DEF Settings
<1> HIDE DEF u, start
<1>4. \A i \in 0 .. Len(word) : u[i] = IF i = 0 THEN start ELSE Flag(u[i - 1], word[i])
  <2> TAKE i \in 0 .. Len(word)
  <2> DEFINE e(k) == IF k = 0 THEN start ELSE Flag(u[k - 1], word[k])
  <2>1. u = [k \in 0 .. Len(word) |-> e(k)]
    BY <1>2
  <2> HIDE DEF e
  <2>2. u[i] = e(i)
    BY <2>1
  <2> QED
    BY <2>2 DEF e
<1> HIDE DEF Adds
<1>5. wrong = {}
  <2> SUFFICES ASSUME wrong # {} PROVE FALSE
    OBVIOUS
  <2>1. PICK i \in wrong : \A k \in wrong : i <= k
    <3>1. wrong \in SUBSET Nat
      OBVIOUS
    <3> HIDE DEF wrong
    <3> QED
      BY <3>1, LeastOf
  <2>2. i \in 0 .. Len(word) /\ ~Told(word, [core |-> outCore], i, u[i])
    BY <2>1
  <2>3. i # 0
    <3>1. u[0] = start
      BY <1>4
    <3>2. Told(word, [core |-> outCore], 0, start)
      BY <1>3 DEF Told
    <3> QED
      BY <2>2, <3>1, <3>2
  <2>4. i \in 1 .. Len(word) /\ i - 1 \in 0 .. Len(word) /\ ~(i <= i - 1)
    BY <2>2, <2>3
  <2>5. Told(word, [core |-> outCore], i - 1, u[i - 1])
    BY <2>1, <2>4
  <2>6. Told(word, [core |-> outCore], i, Flag(u[i - 1], word[i]))
    BY <2>4, <2>5, ToldOneMore
  <2>7. u[i] = Flag(u[i - 1], word[i])
    BY <1>4, <2>2, <2>3
  <2> QED
    BY <2>2, <2>6, <2>7
<1>6. Len(word) \in 0 .. Len(word)
  OBVIOUS
<1> QED
  BY <1>1, <1>5, <1>6

-----------------------------------------------------------------------------
(* PasmOutput: the command line and the files                              *)

(* Types.                                                                  *)
OutTypes ==
    /\ step \in {"argv", "flags", "passes", "outputs", "exit"}
    /\ argv \in Seq(Arguments) /\ argi \in Nat \ {0}
    /\ Options \in SUBSET Plain /\ outCore \in NoCore .. 3
    /\ equates \in 0 .. MAX_CMD_EQUATE
    /\ outErrors \in Nat /\ labelCount \in Nat
    /\ image \in Seq(Positions \cup {Unwritten})

(* Of the first n arguments one flag at most names a core.                 *)
OneOf(n) ==
    \A i, j \in 1 .. n :
       \A k \in DOMAIN argv[i].flags, m \in DOMAIN argv[j].flags :
          Names(argv[i].flags, k) /\ Names(argv[j].flags, m) => <<i, k>> = <<j, m>>
(* None of them does.                                                      *)
NoneOf(n) == \A i \in 1 .. n : \A k \in DOMAIN argv[i].flags : ~Names(argv[i].flags, k)

(* The core is known as soon as a flag has named it.                       *)
CoreInv ==
    /\ step = "argv" => argi = 1 /\ outCore = NoCore
    /\ step = "flags" => /\ argi \in 1 .. Len(argv) + 1 /\ OneOf(argi - 1)
                         /\ outCore = NoCore => NoneOf(argi - 1)
    /\ step \in {"passes", "outputs"} => OneOf(Len(argv)) /\ outCore \in 0 .. 3

(* The names of the files written, and of the outputs before one.          *)
NamesWritten == {w.name : w \in written}
Before(n) == {Outputs[i] : i \in 1 .. n - 1}

(* A write of the debug file was short.                                    *)
ShortWrite(w) == w.name = "d" /\ w.lost = "fwrite"
Short == \E w \in written : ShortWrite(w)

(* The outputs before argi are written, or one of them failed.             *)
FilesInv ==
    /\ step \in {"argv", "flags", "passes"} => written = {} /\ outErrors = 0
    /\ step = "passes" => Options \cap (Formats \ {"L"}) # {}
    /\ step = "outputs" =>
          /\ argi \in 1 .. Len(Outputs) + 1 /\ NamesWritten \subseteq Options
          /\ image = <<>> => Options = {}
          /\ NamesWritten \subseteq Before(argi)
          /\ outErrors = 0 => /\ NamesWritten = Options \cap Before(argi) /\ ~Short
                              /\ image # <<>> => Options \cap (Formats \ {"L"}) # {}
          /\ outErrors > 0 => \/ Options = {} \/ Short
                              \/ (Options \cap Before(argi)) \ NamesWritten # {}
    /\ ExitTellsOutputs
    /\ written # {} => image # <<>>

(* Files say of the image what they would say of it now.                   *)
ContentsRight ==
    \A w \in written : \E found \in SUBSET Sources : w.content = Content(w.name, found)

(* The inductive invariant.                                                *)
OutInv == OutTypes /\ CoreInv /\ FilesInv /\ ContentsRight

(* The options that write a file, each once.                               *)
LEMMA OutputsAre ==
    /\ Len(Outputs) = 7
    /\ \A i, k \in 1 .. 7 : Outputs[i] = Outputs[k] => i = k
    /\ Formats = {Outputs[i] : i \in 1 .. 7}
    /\ Formats \subseteq Plain /\ "c" \in Formats /\ "L" \in Formats /\ "c" # "L"
<1>1. Len(Outputs) = 7 /\ DOMAIN Outputs = 1 .. 7
  BY DEF Outputs
<1>3. \A i, k \in 1 .. 7 : Outputs[i] = Outputs[k] => i = k
  BY DEF Outputs
<1>4. Formats = {Outputs[i] : i \in 1 .. 7}
  BY <1>1 DEF Formats
<1>5. "c" \in Formats /\ "L" \in Formats
  <2>1. Outputs[1] = "c" /\ Outputs[5] = "L"
    BY DEF Outputs
  <2> QED
    BY <1>4, <2>1
<1>6. Formats \subseteq Plain
  BY DEF Plain
<1> QED
  BY <1>1, <1>3, <1>4, <1>5, <1>6

(* Arguments as the assumption has them.                                   *)
LEMMA ArgumentIs ==
    ASSUME OutTypes, NEW i \in 1 .. Len(argv)
    PROVE  argv[i] \in Arguments /\ argv[i].flags \in Seq(STRING)
  BY OutputAssumption DEF OutTypes

(* Before the passes nothing is written.                                   *)
LEMMA OutInvInit == OutInit => OutInv
<1> SUFFICES ASSUME OutInit PROVE OutInv
  OBVIOUS
<1>1. OutTypes
  BY OutputAssumption DEF OutInit, OutTypes, NoCore, Plain
<1>2. CoreInv
  BY DEF OutInit, CoreInv
<1>3. FilesInv
  BY DEF OutInit, FilesInv, ExitTellsOutputs
<1>4. ContentsRight
  BY DEF OutInit, ContentsRight
<1> QED
  BY <1>1, <1>2, <1>3, <1>4 DEF OutInv

(* An exit with nothing written, or a step that writes nothing yet.        *)
LEMMA NothingWritten ==
    ASSUME OutInv, UNCHANGED <<outErrors, image, labelCount, written>>,
           step \in {"argv", "flags", "passes"},
           step' \in {"argv", "flags", "passes"} \/ (step' = "exit" /\ exitCode' # "success"),
           step' = "passes" => Options' \cap (Formats \ {"L"}) # {}
    PROVE  FilesInv' /\ ContentsRight'
<1>1. written = {} /\ outErrors = 0 /\ written' = {} /\ outErrors' = 0
  BY DEF OutInv, FilesInv
<1>2. FilesInv'
  BY <1>1 DEF FilesInv, ExitTellsOutputs
<1>3. ContentsRight'
  BY <1>1 DEF ContentsRight
<1> QED
  BY <1>2, <1>3

(* The user types one more argument.                                       *)
LEMMA TypeStep ==
    ASSUME OutInv, NEW a \in Arguments, Type(a) PROVE OutInv'
<1>1. OutTypes'
  BY DEF OutInv, OutTypes, Type, Engine
<1>2. CoreInv'
  BY DEF OutInv, CoreInv, Type, Engine
<1>3. FilesInv' /\ ContentsRight'
  BY NothingWritten DEF Type, Engine
<1> QED
  BY <1>1, <1>2, <1>3 DEF OutInv

(* The names are taken.                                                    *)
LEMMA NamesStep ==
    ASSUME OutInv, GetNames PROVE OutInv'
<1>1. OutTypes'
  BY DEF OutInv, OutTypes, GetNames, Engine, Exit
<1>2. CoreInv'
  <2>1. /\ step' \in {"flags", "exit"} /\ UNCHANGED <<argv, argi, outCore>>
        /\ argi = 1 /\ outCore = NoCore /\ argv \in Seq(Arguments)
    BY DEF OutInv, OutTypes, CoreInv, GetNames, Exit
  <2> QED
    BY <2>1 DEF CoreInv, OneOf, NoneOf
<1>3. FilesInv' /\ ContentsRight'
  BY NothingWritten DEF GetNames, Engine, Exit
<1> QED
  BY <1>1, <1>2, <1>3 DEF OutInv

(* One more argument: a second core is refused.                            *)
LEMMA FlagsStep ==
    ASSUME OutInv, GetFlags PROVE OutInv'
<1> DEFINE word == argv[argi].flags
           s == Flags(word)
           base == [core |-> outCore]
<1>1. /\ argi \in 1 .. Len(argv) /\ word \in Seq(STRING) /\ argi \in Nat \ {0}
      /\ step = "flags" /\ argi' = argi + 1 /\ argv' = argv
      /\ OneOf(argi - 1) /\ (outCore = NoCore => NoneOf(argi - 1))
  <2>1. argi \in 1 .. Len(argv)
    BY DEF OutInv, OutTypes, GetFlags
  <2> QED
    BY <2>1, ArgumentIs DEF OutInv, OutTypes, CoreInv, GetFlags
<1>2. Told(word, base, Len(word), s)
  BY <1>1, FlagsTold DEF OutInv, OutTypes
<1>3. /\ Options' = s.options /\ outCore' = s.core /\ equates' = s.equates
      /\ s.bad => step' = "exit" /\ exitCode' = "usage"
      /\ ~s.bad => step' = "flags"
      /\ UNCHANGED <<outErrors, image, labelCount, written>>
  BY <1>1 DEF GetFlags, Exit, Engine
<1> HIDE DEF s
<1>4. OutTypes'
  BY <1>1, <1>2, <1>3 DEF OutInv, OutTypes, Told, Settings
<1>5. CoreInv'
  <2>1. CASE s.bad
    BY <1>3, <2>1 DEF CoreInv
  <2>2. CASE ~s.bad
    <3>1. /\ s.core = NoCore => outCore = NoCore /\ \A k \in 1 .. Len(word) : ~Names(word, k)
          /\ \A k \in 1 .. Len(word) : Names(word, k) =>
                outCore = NoCore /\ \A m \in 1 .. Len(word) : Names(word, m) => m = k
      BY <1>2, <2>2 DEF Told
    <3>2. DOMAIN word = 1 .. Len(word)
      BY <1>1
    <3>3. 1 .. (argi + 1) - 1 = (1 .. argi - 1) \cup {argi}
      BY <1>1
    <3>4. OneOf((argi + 1) - 1)
      <4> SUFFICES ASSUME NEW i \in (1 .. argi - 1) \cup {argi},
                          NEW j \in (1 .. argi - 1) \cup {argi},
                          NEW k \in DOMAIN argv[i].flags, NEW m \in DOMAIN argv[j].flags,
                          Names(argv[i].flags, k), Names(argv[j].flags, m)
                   PROVE  <<i, k>> = <<j, m>>
        BY <3>3 DEF OneOf
      <4>1. CASE i # argi /\ j # argi
        BY <1>1, <4>1 DEF OneOf
      <4>2. CASE i = argi /\ j = argi
        BY <3>1, <3>2, <4>2
      <4>3. CASE i = argi /\ j # argi
        <5>1. outCore = NoCore
          BY <3>1, <3>2, <4>3
        <5> QED
          BY <1>1, <4>3, <5>1 DEF NoneOf
      <4>4. CASE i # argi /\ j = argi
        <5>1. outCore = NoCore
          BY <3>1, <3>2, <4>4
        <5> QED
          BY <1>1, <4>4, <5>1 DEF NoneOf
      <4> QED
        BY <4>1, <4>2, <4>3, <4>4
    <3>5. s.core = NoCore => NoneOf((argi + 1) - 1)
      <4> SUFFICES ASSUME s.core = NoCore, NEW i \in (1 .. argi - 1) \cup {argi},
                          NEW k \in DOMAIN argv[i].flags
                   PROVE  ~Names(argv[i].flags, k)
        BY <3>3 DEF NoneOf
      <4>1. CASE i # argi
        BY <1>1, <3>1, <4>1 DEF NoneOf
      <4>2. CASE i = argi
        BY <3>1, <3>2, <4>2
      <4> QED
        BY <4>1, <4>2
    <3>6. argi' \in 1 .. Len(argv') + 1
      BY <1>1
    <3>7. OneOf(argi - 1)' /\ (outCore' = NoCore => NoneOf(argi - 1)')
      BY <1>1, <1>3, <3>4, <3>5 DEF OneOf, NoneOf
    <3> QED
      BY <1>3, <2>2, <3>6, <3>7 DEF CoreInv
  <2> QED
    BY <2>1, <2>2
<1>6. FilesInv' /\ ContentsRight'
  BY <1>1, <1>3, NothingWritten
<1> QED
  BY <1>4, <1>5, <1>6 DEF OutInv

(* The defaults: without a file to write the C array is; core 1.           *)
LEMMA PrepareStep ==
    ASSUME OutInv, NEW isOpen \in BOOLEAN, Prepare(isOpen) PROVE OutInv'
<1>1. /\ step = "flags" /\ argi = Len(argv) + 1 /\ argv' = argv
      /\ OneOf(Len(argv)) /\ outCore' = IF outCore = NoCore THEN 1 ELSE outCore
      /\ Options \in SUBSET Plain
  <2>1. argi = Len(argv) + 1
    BY DEF OutInv, OutTypes, CoreInv, Prepare
  <2>2. argi - 1 = Len(argv)
    BY <2>1 DEF OutInv, OutTypes
  <2> QED
    BY <2>1, <2>2 DEF OutInv, OutTypes, CoreInv, Prepare
<1>2. /\ step' \in {"passes", "exit"} /\ (step' = "exit" => exitCode' # "success")
      /\ Options' \in {Options, Options \cup {"c"}}
      /\ step' = "passes" =>
            Options' = IF Options \cap (Formats \ {"L"}) = {} THEN Options \cup {"c"} ELSE Options
      /\ UNCHANGED <<outErrors, image, labelCount, written, equates, argi>>
  BY DEF Prepare, Exit, Engine
<1>3. outCore' \in 0 .. 3 /\ 0 .. 3 \subseteq NoCore .. 3
  BY <1>1 DEF OutInv, OutTypes, NoCore
<1>4. OutTypes'
  <2>1. Options' \in SUBSET Plain
    BY <1>1, <1>2, OutputsAre
  <2>2. outCore' \in NoCore .. 3
    BY <1>3
  <2> QED
    BY <1>1, <1>2, <2>1, <2>2 DEF OutInv, OutTypes
<1>5. CoreInv'
  BY <1>1, <1>2, <1>3 DEF CoreInv, OneOf
<1>6. step' = "passes" => Options' \cap (Formats \ {"L"}) # {}
  BY <1>2, OutputsAre
<1>7. FilesInv' /\ ContentsRight'
  BY <1>1, <1>2, <1>6, NothingWritten
<1> QED
  BY <1>4, <1>5, <1>7 DEF OutInv

(* After errors, or without a word, no output is left.                     *)
LEMMA PassesStep ==
    ASSUME OutInv, NEW e \in 0 .. 1, NEW im \in Images, NEW n \in LabelRecords,
           Passes(e, im, n)
    PROVE  OutInv'
<1>1. /\ step = "passes" /\ step' = "outputs" /\ argi' = 1 /\ UNCHANGED <<argv, outCore>>
      /\ outErrors' = e /\ image' = im /\ labelCount' = n /\ written' = {}
      /\ Options' = IF e > 0 \/ Len(im) = 0 THEN {} ELSE Options
      /\ UNCHANGED equates
      /\ im \in Seq(Positions \cup {Unwritten}) /\ n \in Nat
      /\ Options \cap (Formats \ {"L"}) # {}
  BY OutputAssumption DEF OutInv, FilesInv, Passes
<1>2. OutTypes'
  BY <1>1 DEF OutInv, OutTypes
<1>3. CoreInv'
  BY <1>1 DEF OutInv, CoreInv, OneOf
<1>4. im = <<>> <=> Len(im) = 0
  BY <1>1
<1>5. Before(argi)' = {} /\ NamesWritten' = {} /\ ~Short'
  BY <1>1 DEF Before, NamesWritten, Short
<1>6. FilesInv'
  <2>1. argi' \in 1 .. Len(Outputs) + 1
    BY <1>1, OutputsAre
  <2>2. image' = <<>> => Options' = {}
    BY <1>1, <1>4
  <2>3. outErrors' = 0 /\ image' # <<>> => Options' \cap (Formats \ {"L"}) # {}
    BY <1>1, <1>4
  <2>4. outErrors' > 0 => Options' = {}
    BY <1>1
  <2> QED
    BY <1>1, <1>5, <2>1, <2>2, <2>3, <2>4 DEF FilesInv, ExitTellsOutputs
<1>7. ContentsRight'
  BY <1>1 DEF ContentsRight
<1> QED
  BY <1>2, <1>3, <1>6, <1>7 DEF OutInv

(* What is said of an image stays while the image does.                    *)
LEMMA ContentKept ==
    ASSUME UNCHANGED <<image, labelCount>>, NEW g, NEW found
    PROVE  Content(g, found)' = Content(g, found)
  BY DEF Content, Words, BinBytes, BibBytes, DbgFile, ListFile, At, Has, Info, CodeOffset

(* The names of the files, and their short writes, with one more.          *)
LEMMA OneMoreName ==
    ASSUME NEW S, NEW n, NEW lost, NEW text,
           NEW r, r = [name |-> n, lost |-> lost, content |-> text]
    PROVE  /\ {w.name : w \in S \cup {r}} = {w.name : w \in S} \cup {n}
           /\ (\E w \in S \cup {r} : ShortWrite(w))
                 <=> (\E w \in S : ShortWrite(w)) \/ (n = "d" /\ lost = "fwrite")
<1>1. r.name = n /\ r.lost = lost
  OBVIOUS
<1>2. ShortWrite(r) <=> n = "d" /\ lost = "fwrite"
  BY <1>1 DEF ShortWrite
<1>3. {w.name : w \in S \cup {r}} = {w.name : w \in S} \cup {n}
  BY <1>1
<1>4. (\E w \in S \cup {r} : ShortWrite(w)) <=> (\E w \in S : ShortWrite(w)) \/ ShortWrite(r)
  OBVIOUS
<1> QED
  BY <1>2, <1>3, <1>4

(* One more output is written, fails, or is not asked for.                 *)
LEMMA WriteStep ==
    ASSUME OutInv, NEW isOpen \in BOOLEAN, NEW lost \in Losses,
           NEW found \in SUBSET Sources, WriteOutput(isOpen, lost, found)
    PROVE  OutInv'
<1> DEFINE name == Outputs[argi]
           file == [name |-> name, lost |-> lost, content |-> Content(name, found)]
<1>1. /\ step = "outputs" /\ step' = "outputs" /\ argi \in 1 .. 7 /\ argi' = argi + 1
      /\ UNCHANGED <<argv, outCore, Options, equates, image, labelCount>>
      /\ NamesWritten \subseteq Options /\ NamesWritten \subseteq Before(argi)
      /\ (image = <<>> => Options = {})
      /\ outErrors = 0 => /\ NamesWritten = Options \cap Before(argi) /\ ~Short
                          /\ image # <<>> => Options \cap (Formats \ {"L"}) # {}
      /\ outErrors > 0 => \/ Options = {} \/ Short
                          \/ (Options \cap Before(argi)) \ NamesWritten # {}
  BY OutputsAre DEF OutInv, OutTypes, FilesInv, WriteOutput
<1>2. Before(argi + 1) = Before(argi) \cup {name} /\ name \notin Before(argi)
  <2>1. /\ 1 .. (argi + 1) - 1 = (1 .. argi - 1) \cup {argi}
        /\ \A i \in 1 .. argi - 1 : i \in 1 .. 7 /\ i # argi
    BY <1>1
  <2>2. Before(argi + 1) = Before(argi) \cup {name}
    <3>1. Before(argi + 1) = {Outputs[i] : i \in (1 .. argi - 1) \cup {argi}}
      BY <2>1 DEF Before
    <3> QED
      BY <3>1 DEF Before
  <2>3. \A i \in 1 .. argi - 1 : Outputs[i] # Outputs[argi]
    BY <1>1, <2>1, OutputsAre
  <2>4. name \notin Before(argi)
    BY <2>3 DEF Before
  <2> QED
    BY <2>2, <2>4
<1>3. outErrors \in Nat
  BY DEF OutInv, OutTypes
<1>4. \/ /\ name \notin Options /\ UNCHANGED <<written, outErrors>>
      \/ /\ name \in Options /\ outErrors' = outErrors + 1 /\ UNCHANGED written
      \/ /\ name \in Options /\ written' = written \cup {file}
         /\ outErrors' = outErrors + IF ShortWrite(file) THEN 1 ELSE 0
  BY DEF WriteOutput, WriteFile, ShortWrite
<1>12. file.name = name /\ file.content = Content(name, found)
  OBVIOUS
<1>13. file = [name |-> name, lost |-> lost, content |-> Content(name, found)]
  OBVIOUS
<1>14. ShortWrite(file) <=> name = "d" /\ lost = "fwrite"
  BY DEF ShortWrite
<1> HIDE DEF name, file
<1>5. OutTypes'
  BY <1>1, <1>3, <1>4 DEF OutInv, OutTypes
<1>6. CoreInv'
  BY <1>1 DEF OutInv, CoreInv, OneOf
<1>7. ContentsRight'
  <2>1. \A g, h : Content(g, h)' = Content(g, h)
    BY <1>1, ContentKept
  <2>2. \A w \in written \cup {file} :
           \E h \in SUBSET Sources : w.content = Content(w.name, h)
    BY <1>12 DEF OutInv, ContentsRight
  <2>3. written' \subseteq written \cup {file}
    BY <1>4
  <2>4. \A w \in written' : \E h \in SUBSET Sources : w.content = Content(w.name, h)'
    BY <2>1, <2>2, <2>3
  <2> QED
    BY <2>4 DEF ContentsRight, Sources
<1>8. Before(argi)' = Before(argi) \cup {name}
  BY <1>1, <1>2 DEF Before
<1>9. argi' \in 1 .. 8
  BY <1>1
<1>10. \/ /\ UNCHANGED <<NamesWritten, Short>>
          /\ name \in Options => outErrors' = outErrors + 1
          /\ name \notin Options => outErrors' = outErrors
       \/ /\ name \in Options /\ NamesWritten' = NamesWritten \cup {name}
          /\ outErrors' = outErrors => Short' = Short
          /\ outErrors' # outErrors => Short'
          /\ Short => Short'
          /\ outErrors' >= outErrors
  <2>1. CASE /\ UNCHANGED written
             /\ name \in Options => outErrors' = outErrors + 1
             /\ name \notin Options => outErrors' = outErrors
    BY <2>1 DEF NamesWritten, Short
  <2>2. CASE /\ name \in Options /\ written' = written \cup {file}
             /\ outErrors' = outErrors + IF ShortWrite(file) THEN 1 ELSE 0
    <3>1. /\ NamesWritten' = NamesWritten \cup {name}
          /\ Short' <=> Short \/ ShortWrite(file)
      BY <1>13, <1>14, <2>2, OneMoreName DEF NamesWritten, Short
    <3>2. CASE ShortWrite(file)
      <4>1. outErrors' = outErrors + 1
        BY <2>2, <3>2
      <4>2. outErrors' # outErrors /\ outErrors' >= outErrors
        BY <1>3, <4>1
      <4> QED
        BY <2>2, <3>1, <3>2, <4>2, Zenon
    <3>3. CASE ~ShortWrite(file)
      <4>1. outErrors' = outErrors + 0
        BY <2>2, <3>3
      <4>2. outErrors' = outErrors /\ outErrors' >= outErrors
        BY <1>3, <4>1
      <4>3. Short' = Short
        BY <3>1, <3>3 DEF Short
      <4> QED
        BY <2>2, <4>2, <4>3, <3>1, Zenon
    <3> QED
      BY <3>2, <3>3
  <2> QED
    BY <1>4, <2>1, <2>2
<1>11. FilesInv'
  <2>1. NamesWritten' \subseteq Options' /\ NamesWritten' \subseteq Before(argi)'
    BY <1>1, <1>8, <1>10
  <2>2. outErrors' = 0 => /\ NamesWritten' = Options' \cap Before(argi)' /\ ~Short'
                          /\ image' # <<>> => Options' \cap (Formats \ {"L"}) # {}
    <3> SUFFICES ASSUME outErrors' = 0
                 PROVE  /\ NamesWritten' = Options' \cap Before(argi)' /\ ~Short'
                        /\ image' # <<>> => Options' \cap (Formats \ {"L"}) # {}
      OBVIOUS
    <3>1. outErrors = 0 /\ outErrors' = outErrors
      BY <1>3, <1>10
    <3> QED
      BY <1>1, <1>2, <1>8, <1>10, <3>1
  <2>3. outErrors' > 0 => \/ Options' = {} \/ Short'
                          \/ (Options' \cap Before(argi)') \ NamesWritten' # {}
    <3>1. CASE outErrors' = outErrors
      BY <1>1, <1>2, <1>8, <1>10, <3>1
    <3>2. CASE Short'
      BY <3>2
    <3>3. CASE outErrors' # outErrors /\ ~Short'
      <4>1. /\ name \in Options /\ UNCHANGED NamesWritten
            /\ name \notin NamesWritten' /\ name \in Before(argi)'
        BY <1>1, <1>2, <1>8, <1>10, <3>3
      <4> QED
        BY <1>1, <4>1
    <3> QED
      BY <3>1, <3>2, <3>3
  <2>4. image' = <<>> => Options' = {}
    BY <1>1
  <2>5. written' # {} => image' # <<>>
    BY <1>1, <1>4 DEF OutInv, FilesInv
  <2> QED
    BY <1>1, <1>9, <2>1, <2>2, <2>3, <2>4, <2>5, OutputsAre DEF FilesInv, ExitTellsOutputs
<1> QED
  BY <1>5, <1>6, <1>7, <1>11 DEF OutInv

(* The exit code.                                                          *)
LEMMA ReturnStep ==
    ASSUME OutInv, Return PROVE OutInv'
<1>1. /\ step = "outputs" /\ step' = "exit" /\ argi = 8
      /\ exitCode' = IF outErrors > 0 \/ CodeOffset = 0 THEN "error" ELSE "success"
      /\ UNCHANGED <<argv, outCore, Options, equates, argi, outErrors, image, labelCount,
                     written>>
  BY OutputsAre DEF OutInv, FilesInv, Return, Exit, Engine
<1>2. OutTypes' /\ CoreInv'
  BY <1>1 DEF OutInv, OutTypes, CoreInv
<1>3. ContentsRight'
  <2>1. \A g, h : Content(g, h)' = Content(g, h)
    BY <1>1, ContentKept
  <2> QED
    BY <1>1, <2>1 DEF OutInv, ContentsRight, Sources
<1>4. Before(argi) = Formats
  BY <1>1, OutputsAre DEF Before
<1>5. outErrors \in Nat /\ (CodeOffset = 0 <=> image = <<>>)
  BY DEF OutInv, OutTypes, CodeOffset
<1>6. ExitTellsOutputs'
  <2>1. UNCHANGED <<NamesWritten, Short>>
    BY <1>1 DEF NamesWritten, Short
  <2>2. /\ NamesWritten \subseteq Options
        /\ exitCode' = "success" => /\ NamesWritten = Options \cap Formats /\ ~Short
                                    /\ NamesWritten \ {"L"} # {} /\ image # <<>>
        /\ exitCode' # "usage"
        /\ exitCode' = "error" /\ NamesWritten # {} =>
              NamesWritten # Options \cap Formats \/ Short
    BY <1>1, <1>4, <1>5 DEF OutInv, FilesInv
  <2> QED
    BY <1>1, <2>2 DEF ExitTellsOutputs, NamesWritten, Short, ShortWrite
<1>7. FilesInv'
  BY <1>1, <1>6 DEF OutInv, FilesInv
<1> QED
  BY <1>2, <1>3, <1>7 DEF OutInv

(* Every step keeps the invariant.                                         *)
LEMMA OutInvStep == OutInv /\ [OutNext]_outVars => OutInv'
<1> SUFFICES ASSUME OutInv, [OutNext]_outVars PROVE OutInv'
  OBVIOUS
<1>1. CASE UNCHANGED outVars
  <2>1. \A g, h : Content(g, h)' = Content(g, h)
    BY <1>1, ContentKept DEF outVars
  <2>2. OutTypes' /\ CoreInv'
    BY <1>1 DEF OutInv, OutTypes, CoreInv, OneOf, NoneOf, outVars
  <2>4. UNCHANGED <<NamesWritten, Short, Before(argi), ExitTellsOutputs>>
    BY <1>1 DEF NamesWritten, Short, Before, ExitTellsOutputs, outVars
  <2>5. FilesInv'
    BY <1>1, <2>4 DEF OutInv, FilesInv, outVars
  <2>3. ContentsRight'
    BY <1>1, <2>1 DEF OutInv, ContentsRight, Sources, outVars
  <2> QED
    BY <2>2, <2>3, <2>5 DEF OutInv
<1>2. CASE OutNext
  BY <1>2, TypeStep, NamesStep, FlagsStep, PrepareStep, PassesStep, WriteStep, ReturnStep
     DEF OutNext
<1> QED
  BY <1>1, <1>2

-----------------------------------------------------------------------------
(* PasmOutput: the debug file and the listing                              *)

(* The number of elements of an interval.                                  *)
LEMMA IntervalHas ==
    ASSUME NEW a \in Nat, NEW b \in Nat
    PROVE  IsFiniteSet(a + 1 .. b) /\ (a <= b => Cardinality(a + 1 .. b) = b - a)
<1>1. a + 1 \in Int /\ b \in Int
  OBVIOUS
<1>2. /\ IsFiniteSet(a + 1 .. b)
      /\ Cardinality(a + 1 .. b) = IF a + 1 > b THEN 0 ELSE b - (a + 1) + 1
  BY <1>1, FS_Interval
<1> QED
  BY <1>2

(* The elements of a concatenation.                                        *)
LEMMA ConcatIs ==
    ASSUME NEW S, NEW u \in Seq(S), NEW v \in Seq(S)
    PROVE  /\ u \o v \in Seq(S) /\ Len(u \o v) = Len(u) + Len(v)
           /\ \A r \in 1 .. Len(u) + Len(v) :
                 (u \o v)[r] = IF r <= Len(u) THEN u[r] ELSE v[r - Len(u)]
  OBVIOUS

(* Three runs of records behind each other.                                *)
LEMMA ThreeRuns ==
    ASSUME NEW a \in Nat, NEW b \in Nat, NEW n \in Nat, NEW x, NEW y, NEW z, NEW t,
           t = [r \in 1 .. a |-> x] \o [r \in 1 .. b |-> y] \o [r \in 1 .. n |-> z]
    PROVE  /\ DOMAIN t = 1 .. a + b + n
           /\ \A r \in 1 .. a + b + n :
                 t[r] = IF r <= a THEN x ELSE IF r <= a + b THEN y ELSE z
<1> DEFINE S == {x, y, z}
           p == [r \in 1 .. a |-> x]
           q == [r \in 1 .. b |-> y]
           s == [r \in 1 .. n |-> z]
<1>1. /\ p \in Seq(S) /\ Len(p) = a /\ \A r \in 1 .. a : p[r] = x
      /\ q \in Seq(S) /\ Len(q) = b /\ \A r \in 1 .. b : q[r] = y
      /\ s \in Seq(S) /\ Len(s) = n /\ \A r \in 1 .. n : s[r] = z
  OBVIOUS
<1> HIDE DEF p, q, s, S
<1>2. /\ p \o q \in Seq(S) /\ Len(p \o q) = a + b
      /\ \A r \in 1 .. a + b : (p \o q)[r] = IF r <= a THEN x ELSE y
  <2>1. /\ p \o q \in Seq(S) /\ Len(p \o q) = Len(p) + Len(q)
        /\ \A r \in 1 .. Len(p) + Len(q) :
              (p \o q)[r] = IF r <= Len(p) THEN p[r] ELSE q[r - Len(p)]
    BY <1>1, ConcatIs
  <2> DEFINE pq == p \o q
  <2> HIDE DEF pq
  <2>2. pq \in Seq(S) /\ Len(pq) = a + b /\ \A r \in 1 .. a + b :
           pq[r] = IF r <= a THEN p[r] ELSE q[r - a]
    BY <1>1, <2>1 DEF pq
  <2>4. \A r \in 1 .. a + b : pq[r] = IF r <= a THEN p[r] ELSE q[r - a]
    BY <2>2
  <2>3. ASSUME NEW r \in 1 .. a + b PROVE pq[r] = IF r <= a THEN x ELSE y
    <3>1. CASE r <= a
      <4>1. r \in 1 .. a
        BY <3>1
      <4>2. pq[r] = p[r]
        BY <2>4, <3>1
      <4>3. \A k \in 1 .. a : p[k] = x
        BY <1>1
      <4> QED
        BY <3>1, <4>1, <4>2, <4>3
    <3>2. CASE ~(r <= a)
      <4>1. r - a \in 1 .. b /\ pq[r] = q[r - a]
        BY <2>4, <3>2
      <4>2. \A l \in 1 .. b : q[l] = y
        BY <1>1
      <4> QED
        BY <3>2, <4>1, <4>2
    <3> QED
      BY <3>1, <3>2
  <2> QED
    BY <2>2, <2>3 DEF pq
<1> DEFINE pq == p \o q
<1>3. pq \in Seq(S) /\ Len(pq) = a + b /\ \A r \in 1 .. a + b : pq[r] = IF r <= a THEN x ELSE y
  BY <1>2
<1>4. t = pq \o s
  BY DEF p, q, s
<1> HIDE DEF pq
<1>5. /\ t \in Seq(S) /\ Len(t) = a + b + n
      /\ \A r \in 1 .. a + b + n :
            t[r] = IF r <= a + b THEN pq[r] ELSE s[r - (a + b)]
  BY <1>1, <1>3, <1>4, ConcatIs
<1>6. DOMAIN t = 1 .. a + b + n
  BY <1>5
<1>7. \A r \in 1 .. a + b + n :
         t[r] = IF r <= a THEN x ELSE IF r <= a + b THEN y ELSE z
  <2> TAKE r \in 1 .. a + b + n
  <2>3. t[r] = IF r <= a + b THEN pq[r] ELSE s[r - (a + b)]
    BY <1>5
  <2>1. CASE r <= a + b
    <3>1. r \in 1 .. a + b /\ t[r] = pq[r]
      BY <2>1, <2>3
    <3>3. \A k \in 1 .. a + b : pq[k] = IF k <= a THEN x ELSE y
      BY <1>3
    <3>2. pq[r] = IF r <= a THEN x ELSE y
      BY <3>1, <3>3
    <3> QED
      BY <2>1, <3>1, <3>2
  <2>2. CASE ~(r <= a + b)
    <3>1. r - (a + b) \in 1 .. n /\ t[r] = s[r - (a + b)] /\ ~(r <= a)
      BY <2>2, <2>3
    <3>3. \A k \in 1 .. n : s[k] = z
      BY <1>1
    <3>2. s[r - (a + b)] = z
      BY <3>1, <3>3
    <3> QED
      BY <2>2, <3>1, <3>2
  <2> QED
    BY <2>1, <2>2
<1> QED
  BY <1>6, <1>7

(* The sections of the debug file are of its records, where the header     *)
(* says, in bytes.                                                         *)
LEMMA SectionsMeet == OutInv => DbgSectionsMeet
<1> SUFFICES ASSUME OutInv, NEW w \in written, w.name = "d"
             PROVE  LET d == w.content
                        offset(r) ==
                            LET before(k) == Cardinality({q \in 1 .. r - 1 : d.records[q] = k})
                            IN  HeaderSize + before("label") * RecordSize.label
                                + before("file") * RecordSize.file
                                + before("code") * RecordSize.code
                    IN  \A k \in {"label", "file", "code"} :
                           LET section == {r \in DOMAIN d.records : d.records[r] = k}
                           IN  /\ Cardinality(section) = d.header[k][1]
                               /\ \A r \in section : (\A q \in section : r <= q)
                                                     => offset(r) = d.header[k][2]
  BY DEF DbgSectionsMeet, Complete
<1> DEFINE d == w.content
           n == labelCount
           m == Len(FileLines)
           z == CodeOffset
           rec == d.records
           kinds == {"label", "file", "code"}
           section(k) == {r \in DOMAIN rec : rec[r] = k}
           before(r, k) == Cardinality({q \in 1 .. r - 1 : rec[q] = k})
           offset(r) == HeaderSize + before(r, "label") * RecordSize.label
                                   + before(r, "file") * RecordSize.file
                                   + before(r, "code") * RecordSize.code
<1>0. d = DbgFile
  <2>1. \A found : Content("d", found) = DbgFile
    BY DEF Content
  <2> QED
    BY <2>1 DEF OutInv, ContentsRight
<1>1. n \in Nat /\ m \in Nat /\ z \in Nat /\ DOMAIN FileLines = 1 .. m
  BY OutputAssumption DEF OutInv, OutTypes, CodeOffset
<1>2. /\ d.header["label"] = <<n, 36>>
      /\ d.header["file"] = <<m, 36 + n * 68>>
      /\ d.header["code"] = <<z, (36 + n * 68) + m * 64>>
  BY <1>0 DEF DbgFile, HeaderSize, RecordSize
<1>3. rec = [r \in 1 .. n |-> "label"] \o [r \in 1 .. m |-> "file"] \o [r \in 1 .. z |-> "code"]
  BY <1>0, <1>1 DEF DbgFile
<1> HIDE DEF d, n, m, z, rec
<1>4. /\ DOMAIN rec = 1 .. n + m + z
      /\ \A r \in 1 .. n + m + z : rec[r] = IF r <= n THEN "label"
                                            ELSE IF r <= n + m THEN "file" ELSE "code"
  BY <1>1, <1>3, ThreeRuns
<1>5. /\ section("label") = 0 + 1 .. n
      /\ section("file") = n + 1 .. n + m
      /\ section("code") = (n + m) + 1 .. n + m + z
  BY <1>1, <1>4
<1>11. /\ Cardinality(0 + 1 .. n) = n /\ Cardinality(n + 1 .. n + m) = m
       /\ Cardinality((n + m) + 1 .. n + m + z) = z
  <2>1. Cardinality(0 + 1 .. n) = n
    <3>1. 0 \in Nat /\ 0 <= n /\ n - 0 = n
      BY <1>1
    <3> QED
      BY <1>1, <3>1, IntervalHas
  <2>2. Cardinality(n + 1 .. n + m) = m
    <3>1. n + m \in Nat /\ n <= n + m /\ (n + m) - n = m
      BY <1>1
    <3>2. Cardinality(n + 1 .. n + m) = (n + m) - n
      BY <1>1, <3>1, IntervalHas
    <3> QED
      BY <3>1, <3>2
  <2>3. Cardinality((n + m) + 1 .. n + m + z) = z
    <3>1. n + m \in Nat /\ n + m + z \in Nat /\ n + m <= n + m + z /\ (n + m + z) - (n + m) = z
      BY <1>1
    <3>2. Cardinality((n + m) + 1 .. n + m + z) = (n + m + z) - (n + m)
      BY <3>1, IntervalHas
    <3> QED
      BY <3>1, <3>2
  <2> QED
    BY <2>1, <2>2, <2>3
<1>6. \A k \in kinds : Cardinality(section(k)) = d.header[k][1]
  <2>4. /\ d.header["label"][1] = n /\ d.header["file"][1] = m
        /\ d.header["code"][1] = z
    BY <1>2
  <2> HIDE DEF section
  <2> QED
    BY <1>5, <1>11, <2>4
<1>7. Cardinality({}) = 0
  BY FS_EmptySet
<1>8. HeaderSize = 36 /\ RecordSize.label = 68 /\ RecordSize.file = 64 /\ RecordSize.code = 16
  BY DEF HeaderSize, RecordSize
<1>9. ASSUME NEW k \in kinds, NEW r \in section(k), \A q \in section(k) : r <= q
      PROVE  offset(r) = d.header[k][2]
  <2>1. CASE k = "label"
    <3>1. r = 1
      BY <1>1, <1>5, <1>9, <2>1
    <3>2. /\ {q \in 1 .. r - 1 : rec[q] = "label"} = {}
          /\ {q \in 1 .. r - 1 : rec[q] = "file"} = {}
          /\ {q \in 1 .. r - 1 : rec[q] = "code"} = {}
      BY <3>1
    <3>3. offset(r) = 36 + 0 * 68 + 0 * 64 + 0 * 16
      BY <1>7, <1>8, <3>2
    <3> HIDE DEF offset
    <3> QED
      BY <1>2, <2>1, <3>3
  <2>2. CASE k = "file"
    <3>1. r = n + 1
      BY <1>1, <1>5, <1>9, <2>2
    <3>2. /\ {q \in 1 .. r - 1 : rec[q] = "label"} = 0 + 1 .. n
          /\ {q \in 1 .. r - 1 : rec[q] = "file"} = {}
          /\ {q \in 1 .. r - 1 : rec[q] = "code"} = {}
      BY <1>1, <1>4, <3>1
    <3>4. offset(r) = 36 + n * 68 + 0 * 64 + 0 * 16
      BY <1>7, <1>8, <1>11, <3>2
    <3>5. d.header[k][2] = 36 + n * 68
      BY <1>2, <2>2
    <3> HIDE DEF offset
    <3> QED
      BY <1>1, <3>4, <3>5
  <2>3. CASE k = "code"
    <3>1. r = (n + m) + 1
      BY <1>1, <1>5, <1>9, <2>3
    <3>2. /\ {q \in 1 .. r - 1 : rec[q] = "label"} = 0 + 1 .. n
          /\ {q \in 1 .. r - 1 : rec[q] = "file"} = n + 1 .. n + m
          /\ {q \in 1 .. r - 1 : rec[q] = "code"} = {}
      BY <1>1, <1>4, <3>1
    <3>4. offset(r) = 36 + n * 68 + m * 64 + 0 * 16
      BY <1>7, <1>8, <1>11, <3>2
    <3>5. d.header[k][2] = (36 + n * 68) + m * 64
      BY <1>2, <2>3
    <3> HIDE DEF offset
    <3> QED
      BY <1>1, <3>4, <3>5
  <2> QED
    BY <2>1, <2>2, <2>3
<1> HIDE DEF section, offset
<1>10. \A k \in kinds : /\ Cardinality(section(k)) = d.header[k][1]
                        /\ \A r \in section(k) : (\A q \in section(k) : r <= q)
                                              => offset(r) = d.header[k][2]
  BY <1>6, <1>9
<1> QED
  BY <1>10, Zenon DEF section, offset, rec, d

(* Where a word comes from.                                                *)
LEMMA PositionIs ==
    ASSUME OutInv, NEW a \in 0 .. CodeOffset - 1, image[a + 1] # Unwritten
    PROVE  /\ image[a + 1] = <<image[a + 1][1], image[a + 1][2]>>
           /\ image[a + 1][1] \in 0 .. Len(FileLines) - 1
           /\ FileLines[image[a + 1][1] + 1] \in Nat
           /\ image[a + 1][2] \in 1 .. FileLines[image[a + 1][1] + 1]
           /\ Info(a) = {image[a + 1]}
<1>1. a + 1 \in 1 .. Len(image) /\ image \in Seq(Positions \cup {Unwritten})
  BY DEF OutInv, OutTypes, CodeOffset
<1>2. image[a + 1] \in Positions
  BY <1>1
<1>3. PICK i \in 0 .. Len(FileLines) - 1 : image[a + 1] \in {i} \X (1 .. FileLines[i + 1])
  BY <1>2 DEF Positions
<1>4. FileLines[i + 1] \in Nat
  BY OutputAssumption
<1>5. Info(a) = {image[a + 1]}
  BY DEF Info
<1> QED
  BY <1>3, <1>4, <1>5

(* The contents of the listings.                                           *)
LEMMA ListingIs ==
    ASSUME OutInv, NEW w \in written, w.name = "L"
    PROVE  \E found \in SUBSET Sources : w.content = [f \in found |-> ListFile(f)]
<1>1. \A found : Content("L", found) = [f \in found |-> ListFile(f)]
  BY DEF Content
<1> QED
  BY <1>1 DEF OutInv, ContentsRight

(* The addresses of a line, the last line of a file, and the first of      *)
(* addresses: the operators local to ListFile.                             *)
All(f, l) == {a \in 0 .. CodeOffset - 1 : At(a, f, l)}
LastLine(f) == FileLines[f + 1] + IF EndsWithNewline THEN 1 ELSE 0
FirstOf(S) == {a \in S : \A b \in S : a <= b}

(* ListFile in their terms.                                                *)
LEMMA ListFileIs ==
    ASSUME NEW f
    PROVE  /\ ListFile(f).count = Cardinality({a \in 0 .. CodeOffset - 1 : Has(a, f)})
           /\ ListFile(f).lines = [l \in 1 .. LastLine(f) |->
                 IF l = LastLine(f) THEN FirstOf(All(f, l)) ELSE All(f, l)]
  BY DEF ListFile, All, LastLine, FirstOf

(* Every word is in its listing.                                           *)
LEMMA WordsShown == OutInv => ListingShowsWords
<1> SUFFICES ASSUME OutInv, NEW w \in written, w.name = "L",
                    NEW a \in 0 .. CodeOffset - 1, image[a + 1] # Unwritten
             PROVE  LET f == image[a + 1][1]
                        l == image[a + 1][2]
                        shown == w.content[f].lines
                    IN  /\ f \in DOMAIN w.content =>
                               a \in shown[l] \/ (l = FileLines[f + 1] /\ ~EndsWithNewline
                                                 /\ \E b \in shown[l] : b < a)
                        /\ \A g \in DOMAIN w.content : \A m \in DOMAIN w.content[g].lines :
                               a \in w.content[g].lines[m] => <<g, m>> = <<f, l>>
  BY DEF ListingShowsWords, Complete
<1> DEFINE f == image[a + 1][1]
           l == image[a + 1][2]
<1>1. /\ image[a + 1] = <<f, l>> /\ f \in 0 .. Len(FileLines) - 1
      /\ FileLines[f + 1] \in Nat /\ l \in 1 .. FileLines[f + 1]
      /\ Info(a) = {<<f, l>>} /\ CodeOffset \in Nat
  <2>1. /\ image[a + 1] = <<image[a + 1][1], image[a + 1][2]>>
        /\ image[a + 1][1] \in 0 .. Len(FileLines) - 1
        /\ FileLines[image[a + 1][1] + 1] \in Nat
        /\ image[a + 1][2] \in 1 .. FileLines[image[a + 1][1] + 1]
        /\ Info(a) = {image[a + 1]}
    BY PositionIs
  <2>2. CodeOffset \in Nat
    BY DEF OutInv, OutTypes, CodeOffset
  <2>3. Info(a) = {<<f, l>>}
    BY <2>1, Zenon
  <2> QED
    BY <2>1, <2>2, <2>3, Zenon
<1>2. PICK found \in SUBSET Sources : w.content = [g \in found |-> ListFile(g)]
  BY ListingIs
<1> HIDE DEF f, l
<1>3. \A g \in found :
         w.content[g].lines = [m \in 1 .. LastLine(g) |->
                 IF m = LastLine(g) THEN FirstOf(All(g, m)) ELSE All(g, m)]
  <2>1. \A g \in found : w.content[g] = ListFile(g)
    BY <1>2
  <2> QED
    BY <2>1, ListFileIs, Zenon
<1>4. \A g, m : a \in All(g, m) => <<g, m>> = <<f, l>>
  BY <1>1 DEF All, At
<1>5. a \in All(f, l) /\ All(f, l) \in SUBSET Nat
  BY <1>1 DEF All, At
<1>6. ASSUME NEW g \in found, NEW m \in DOMAIN w.content[g].lines,
             a \in w.content[g].lines[m]
      PROVE  <<g, m>> = <<f, l>>
  <2>1. m \in 1 .. LastLine(g)
    BY <1>3
  <2>2. a \in FirstOf(All(g, m)) \/ a \in All(g, m)
    BY <1>3, <1>6, <2>1
  <2>3. a \in All(g, m)
    BY <2>2 DEF FirstOf
  <2> QED
    BY <1>4, <2>3
<1>7. l \in 1 .. LastLine(f)
  BY <1>1 DEF LastLine
<1>8. f \in found => w.content[f].lines[l] = IF l = LastLine(f) THEN FirstOf(All(f, l)) ELSE All(f, l)
  BY <1>1, <1>3, <1>7
<1>9. ASSUME f \in found PROVE a \in w.content[f].lines[l] \/ (l = FileLines[f + 1] /\ ~EndsWithNewline
          /\ \E b \in w.content[f].lines[l] : b < a)
  <2>1. CASE l # LastLine(f)
    BY <1>5, <1>8, <1>9, <2>1
  <2>2. CASE l = LastLine(f)
    <3>1. l = FileLines[f + 1] /\ ~EndsWithNewline
      BY <1>1, <2>2, OutputAssumption DEF LastLine
    <3>2. PICK b \in All(f, l) : \A k \in All(f, l) : b <= k
      BY <1>5, LeastOf
    <3>3. b \in w.content[f].lines[l]
      BY <1>8, <1>9, <2>2, <3>2 DEF FirstOf
    <3>4. b = a \/ b < a
      BY <1>5, <3>2
    <3> QED
      BY <3>1, <3>3, <3>4
  <2> QED
    BY <2>1, <2>2
<1>10. DOMAIN w.content = found
  BY <1>2
<1> QED
  BY <1>6, <1>9, <1>10 DEF f, l

(* The numbers of words are right, but for one.                            *)
LEMMA WordsCounted == OutInv => CountsOfListing
<1> SUFFICES ASSUME OutInv, NEW w \in written, w.name = "L", NEW f \in DOMAIN w.content
             PROVE  w.content[f].count = Count(f)
                        + IF f = 0 /\ image[1] = Unwritten THEN 1 ELSE 0
  BY DEF CountsOfListing, Complete
<1> DEFINE S == {a \in 0 .. CodeOffset - 1 : image[a + 1] # Unwritten /\ image[a + 1][1] = f}
           H == {a \in 0 .. CodeOffset - 1 : Has(a, f)}
<1>1. PICK found \in SUBSET Sources : w.content = [g \in found |-> ListFile(g)]
  BY ListingIs
<1>2. w.content[f].count = Cardinality(H) /\ Count(f) = Cardinality(S)
  <2>1. w.content[f] = ListFile(f)
    BY <1>1
  <2>2. w.content[f].count = Cardinality(H)
    BY <2>1, ListFileIs
  <2> QED
    BY <2>2 DEF Count
<1>3. image # <<>> /\ CodeOffset \in Nat \ {0}
  BY DEF OutInv, OutTypes, FilesInv, CodeOffset
<1>4. IsFiniteSet(S) /\ Cardinality(S) \in Nat
  <2>1. IsFiniteSet(0 .. CodeOffset - 1)
    <3>1. 0 \in Int /\ CodeOffset - 1 \in Int
      BY <1>3
    <3> QED
      BY <3>1, FS_Interval
  <2>2. IsFiniteSet(S)
    <3>1. S \in SUBSET (0 .. CodeOffset - 1)
      OBVIOUS
    <3> HIDE DEF S
    <3> QED
      BY <2>1, <3>1, FS_Subset
  <2> HIDE DEF S
  <2> QED
    BY <2>2, FS_CardinalityType
<1>5. ASSUME NEW a \in 0 .. CodeOffset - 1
      PROVE  Has(a, f) <=> \/ image[a + 1] # Unwritten /\ image[a + 1][1] = f
                           \/ image[a + 1] = Unwritten /\ a = 0 /\ f = 0
  <2>1. CASE image[a + 1] # Unwritten
    <3>1. Info(a) = {image[a + 1]}
      BY <2>1 DEF Info
    <3> QED
      BY <2>1, <3>1 DEF Has
  <2>2. CASE image[a + 1] = Unwritten /\ a = 0
    <3>1. Info(a) = {<<0, 0>>}
      BY <2>2 DEF Info
    <3>2. <<0, 0>>[1] = 0
      OBVIOUS
    <3>3. Has(a, f) <=> f = 0
      BY <3>1, <3>2, Zenon DEF Has
    <3> QED
      BY <2>2, <3>3
  <2>3. CASE image[a + 1] = Unwritten /\ a # 0
    <3>1. Info(a) = {}
      BY <2>3 DEF Info
    <3> QED
      BY <2>3, <3>1 DEF Has
  <2> QED
    BY <2>1, <2>2, <2>3
<1>6. CASE f = 0 /\ image[1] = Unwritten
  <2>1. 0 \in 0 .. CodeOffset - 1 /\ image[0 + 1] = Unwritten
    BY <1>3, <1>6
  <2>2. H = S \cup {0} /\ 0 \notin S
    BY <1>5, <1>6, <2>1
  <2> HIDE DEF H, S
  <2>3. Cardinality(H) = Cardinality(S) + 1
    BY <1>4, <2>2, FS_AddElement
  <2> QED
    BY <1>2, <1>6, <2>3
<1>7. CASE ~(f = 0 /\ image[1] = Unwritten)
  <2>1. \A a \in 0 .. CodeOffset - 1 : ~(image[a + 1] = Unwritten /\ a = 0 /\ f = 0)
    BY <1>7
  <2>2. H = S
    BY <1>5, <2>1
  <2> HIDE DEF H, S
  <2> QED
    BY <1>2, <1>4, <1>7, <2>2
<1> QED
  BY <1>6, <1>7

(* main writes what was asked for and tells so, and what it writes about   *)
(* the image is true of it: for every command line, image and text.        *)
THEOREM OutputsTold == OutSpec => []OutputsAsAsked
<1>1. OutInv => OutputsAsAsked
  <2> SUFFICES ASSUME OutInv PROVE OutputsAsAsked
    OBVIOUS
  <2>1. OneCore
    <3>1. /\ equates <= MAX_CMD_EQUATE
          /\ step \in {"passes", "outputs"} => OneOf(Len(argv)) /\ outCore \in 0 .. 3
      BY OutputAssumption DEF OutInv, OutTypes, CoreInv
    <3>2. DOMAIN argv = 1 .. Len(argv)
      BY DEF OutInv, OutTypes
    <3> QED
      BY <3>1, <3>2, Zenon DEF OneCore, OneOf, Names, Taker
  <2>2. ExitTellsOutputs
    BY DEF OutInv, FilesInv
  <2> QED
    BY <2>1, <2>2, SectionsMeet, WordsShown, WordsCounted
       DEF OutputsAsAsked, CommandLineKept, DescriptionsMatchImage
<1> QED
  BY <1>1, OutInvInit, OutInvStep, PTL DEF OutSpec

-----------------------------------------------------------------------------
(* Pasm: the engine and what a line does to it                             *)

(* What holds of the globals of the engine at any time.                    *)
EngineOk(s) ==
    /\ DOMAIN s = {"CodeOffset", "HaveEntry", "EntryPoint", "Errors", "FatalError",
                   "labels", "image", "RetReg", "regSet", "ok"}
    /\ s.CodeOffset \in Int /\ s.CodeOffset >= -1
    /\ s.EntryPoint \in Int
    /\ s.Errors \in Nat
    /\ s.FatalError => s.Errors > 0
    /\ s.ok \/ s.Errors > 0
    /\ s.RetReg \in 0 .. 30
    /\ s.regSet \/ s.RetReg = DefaultReg
    /\ DOMAIN s.image \subseteq 0 .. MAX_PROGRAM - 1
    /\ \A l \in DOMAIN s.labels : s.labels[l] \in Int

(* Where the next word goes if the offset is c (ValidateOffset).           *)
StartAt(c) == IF c # -1 THEN c ELSE IF Core = 0 THEN 9 ELSE 8

(* The word w at a is right for the operand of line ln.                    *)
LabelKnown(e, labels) == e.label = None \/ e.label \in DOMAIN labels
ValueBy(e, labels) == e.base + IF e.label \in DOMAIN labels
                               THEN e.scale * labels[e.label] ELSE 0
WordRight(a, w, reg, labels, ln) ==
    /\ w.kind \in {"call", "return"} => w.arg = reg
    /\ w.kind = "branch" /\ w.from # -1 =>
          LabelKnown(ln.exp, labels) /\ a + w.arg = ValueBy(ln.exp, labels)

(* Word a of the image of t is one that line ln wrote from s on.           *)
NewWord(a, s, t, ln) ==
    /\ s.CodeOffset <= a /\ 0 <= a /\ a < t.CodeOffset
    /\ t.image[a].line = pos + 1 /\ t.image[a].pass = Pass
    /\ Pass = 2 => WordRight(a, t.image[a], t.RetReg, t.labels, ln)

(* From s to t, line ln only adds: errors, offsets, words above those that *)
(* are there, and labels in pass 1.                                        *)
Adds(s, t, ln) ==
    /\ s.Errors <= t.Errors
    /\ s.CodeOffset <= t.CodeOffset
    /\ Pass # 1 => t.labels = s.labels
    /\ DOMAIN s.image \subseteq DOMAIN t.image
    /\ \A a \in DOMAIN s.image : a < s.CodeOffset => t.image[a] = s.image[a]
    /\ \A a \in DOMAIN t.image :
          (a \in DOMAIN s.image /\ t.image[a] = s.image[a]) \/ NewWord(a, s, t, ln)

(* t has a word of this line that s had not, unless there was an error.    *)
Wrote(s, t) ==
    t.Errors = 0 => \E a \in DOMAIN t.image : s.CodeOffset <= a
                       /\ t.image[a].line = pos + 1 /\ t.image[a].pass = Pass

(* The labels of a line, and the offset before line i of the text.         *)
NamesOf(ln) == ({ln.label} \ {None})
               \cup IF ln.cmd = ".proc" THEN {<<ln.exp.label>>} ELSE {}
OffsetBefore(ms, i) == IF i = 1 THEN -1 ELSE ms[i - 1]
NamesUpTo(text, n) == UNION {NamesOf(text[i]) : i \in 1 .. n}

-----------------------------------------------------------------------------
(* Pasm: the inductive invariant                                           *)

PasmTypes ==
    /\ Core \in PasmCores /\ Pass \in 0 .. 2
    /\ state \in {"between", "lines", "end", "refused", "written"}
    /\ EngineOk(asm)
    /\ program \in Seq(PasmLines) /\ Len(program) <= PasmTextMax
    /\ marks \in Seq(Int) /\ Len(marks) = Len(program)
    /\ pos \in 0 .. Len(program)
    /\ moved \in BOOLEAN

(* Before pass 1 nothing is done.                                          *)
BeforePasses ==
    Pass = 0 => /\ state = "between" /\ asm = Cleared /\ program = <<>>
                /\ moved = FALSE

(* Pass 1 has created the labels of the text at the offsets it noted.      *)
LabelsNoted ==
    /\ DOMAIN asm.labels = NamesUpTo(program, Len(program))
    /\ \A i \in 1 .. Len(program) : \A l \in NamesOf(program[i]) :
          asm.labels[l] = StartAt(OffsetBefore(marks, i))

FirstPassInv ==
    Pass = 1 => /\ ~moved /\ pos = Len(program) /\ state # "written"
                /\ \A a \in DOMAIN asm.image : asm.image[a].pass # 2
                /\ asm.Errors = 0 => LabelsNoted
                                     /\ asm.CodeOffset = OffsetBefore(marks, pos + 1)

(* The words of pass 2: below the offset, of lines read, in their order,   *)
(* each as its line says; none is missing.                                 *)
WordsOrdered ==
    /\ Addresses \subseteq 0 .. asm.CodeOffset - 1
    /\ \A a \in Addresses :
          /\ asm.image[a].line \in 1 .. pos
          /\ WordRight(a, asm.image[a], asm.RetReg, asm.labels,
                       program[asm.image[a].line])
    /\ \A a, b \in Addresses : a < b => asm.image[a].line <= asm.image[b].line

NoneMissing ==
    asm.Errors = 0 => \A i \in 1 .. pos : Produces(program[i]) =>
                          \E a \in Addresses : asm.image[a].line = i

(* Unless a line changed its size, the offsets and labels are pass 1's.    *)
AsNoted ==
    /\ DOMAIN at = NamesUpTo(program, pos)
    /\ ~moved => /\ asm.CodeOffset = OffsetBefore(marks, pos + 1)
                 /\ \A l \in DOMAIN at : at[l] = asm.labels[l]

SecondPassInv ==
    Pass = 2 => /\ LabelsNoted /\ WordsOrdered /\ NoneMissing /\ AsNoted
                /\ state # "lines" /\ asm.Errors = 0 => pos = Len(program)

WrittenInv == state = "written" => Pass = 2 /\ asm.Errors = 0

PasmInv == /\ PasmTypes /\ BeforePasses /\ FirstPassInv /\ SecondPassInv
           /\ WrittenInv

-----------------------------------------------------------------------------
(* Pasm: what the parts of a line do                                       *)

(* t is s with one word more, w, at the offset.                            *)
OneWordMore(s, t, w) ==
    /\ EngineOk(t)
    /\ t.CodeOffset = s.CodeOffset + 1
    /\ t.Errors = s.Errors /\ t.ok = s.ok
    /\ t.labels = s.labels /\ t.RetReg = s.RetReg
    /\ DOMAIN t.image = DOMAIN s.image \cup {s.CodeOffset}
    /\ \A a \in DOMAIN s.image : a # s.CodeOffset => t.image[a] = s.image[a]
    /\ t.image[s.CodeOffset] = w

(* Write stores one word, within ProgramImage if the offset is.            *)
LEMMA WriteIs ==
    ASSUME NEW s, EngineOk(s), s.CodeOffset \in 0 .. MAX_PROGRAM - 1,
           NEW kind, NEW arg, NEW from
    PROVE  OneWordMore(s, Write(s, kind, arg, from),
                       [kind |-> kind, arg |-> arg, line |-> pos + 1,
                        pass |-> Pass, from |-> from])
<1> DEFINE t == Write(s, kind, arg, from)
           w == [kind |-> kind, arg |-> arg, line |-> pos + 1,
                 pass |-> Pass, from |-> from]
<1>1. /\ DOMAIN t = DOMAIN s
      /\ t.CodeOffset = s.CodeOffset + 1
      /\ t.image = With(s.image, s.CodeOffset, w)
      /\ t.Errors = s.Errors /\ t.ok = s.ok /\ t.labels = s.labels
      /\ t.RetReg = s.RetReg /\ t.regSet = s.regSet
      /\ t.FatalError = s.FatalError /\ t.EntryPoint = s.EntryPoint
  BY DEF Write, EngineOk
<1>2. /\ DOMAIN t.image = DOMAIN s.image \cup {s.CodeOffset}
      /\ t.image[s.CodeOffset] = w
      /\ \A a \in DOMAIN s.image : a # s.CodeOffset => t.image[a] = s.image[a]
  BY <1>1 DEF With
<1> HIDE DEF t
<1>3. DOMAIN t.image \subseteq 0 .. MAX_PROGRAM - 1
  BY <1>2 DEF EngineOk
<1>4. EngineOk(t)
  BY <1>1, <1>3 DEF EngineOk
<1> QED
  BY <1>1, <1>2, <1>4 DEF t, OneWordMore

(* Adding nothing, and adding twice.                                       *)
LEMMA AddsNone ==
    ASSUME NEW s, EngineOk(s), NEW t, EngineOk(t), NEW ln,
           s.Errors <= t.Errors, s.CodeOffset <= t.CodeOffset,
           t.image = s.image, Pass # 1 => t.labels = s.labels
    PROVE  Adds(s, t, ln)
BY DEF Adds

(* Additions follow each other.                                            *)
LEMMA AddsTwice ==
    ASSUME NEW s, EngineOk(s), NEW t, EngineOk(t), NEW u, EngineOk(u), NEW ln,
           Adds(s, t, ln), Adds(t, u, ln),
           u.RetReg = t.RetReg \/ u.CodeOffset < 0
    PROVE  Adds(s, u, ln)
<1>1. /\ s.Errors \in Nat /\ t.Errors \in Nat /\ u.Errors \in Nat
      /\ s.CodeOffset \in Int /\ t.CodeOffset \in Int /\ u.CodeOffset \in Int
      /\ DOMAIN s.image \subseteq Int /\ DOMAIN t.image \subseteq Int
      /\ DOMAIN u.image \subseteq Int
  BY PasmAssumption DEF EngineOk
<1>2. /\ s.Errors <= u.Errors /\ s.CodeOffset <= u.CodeOffset
      /\ s.CodeOffset <= t.CodeOffset /\ t.CodeOffset <= u.CodeOffset
      /\ DOMAIN s.image \subseteq DOMAIN u.image
      /\ Pass # 1 => u.labels = t.labels /\ u.labels = s.labels
  BY <1>1 DEF Adds
<1>3. \A a \in DOMAIN s.image : a < s.CodeOffset => u.image[a] = s.image[a]
  <2> SUFFICES ASSUME NEW a \in DOMAIN s.image, a < s.CodeOffset
               PROVE  u.image[a] = s.image[a]
    OBVIOUS
  <2>1. a \in DOMAIN t.image /\ t.image[a] = s.image[a]
    BY DEF Adds
  <2>2. a < t.CodeOffset
    BY <1>1, <1>2
  <2> QED
    BY <2>1, <2>2 DEF Adds
<1>4. ASSUME NEW a \in DOMAIN u.image
      PROVE  (a \in DOMAIN s.image /\ u.image[a] = s.image[a]) \/ NewWord(a, s, u, ln)
  <2>1. CASE NewWord(a, t, u, ln)
    <3>1. s.CodeOffset <= a
      BY <2>1, <1>1, <1>2 DEF NewWord
    <3> QED
      BY <2>1, <3>1 DEF NewWord
  <2>2. CASE a \in DOMAIN t.image /\ u.image[a] = t.image[a]
    <3>1. CASE a \in DOMAIN s.image /\ t.image[a] = s.image[a]
      BY <2>2, <3>1
    <3>2. CASE NewWord(a, s, t, ln)
      <4>1. s.CodeOffset <= a /\ 0 <= a /\ a < t.CodeOffset
        BY <3>2 DEF NewWord
      <4>2. a < u.CodeOffset /\ ~(u.CodeOffset < 0)
        BY <4>1, <1>1, <1>2
      <4>3. u.RetReg = t.RetReg
        BY <4>2
      <4>4. Pass = 2 => WordRight(a, u.image[a], u.RetReg, u.labels, ln)
        BY <3>2, <4>3, <1>2, <2>2 DEF NewWord
      <4> QED
        BY <3>2, <4>1, <4>2, <4>4, <2>2 DEF NewWord
    <3> QED
      BY <2>2, <3>1, <3>2 DEF Adds
  <2> QED
    BY <2>1, <2>2 DEF Adds
<1> QED
  BY <1>2, <1>3, <1>4 DEF Adds

(* One word at the offset, which is right for its line, is an addition.    *)
LEMMA WriteAdds ==
    ASSUME NEW s, EngineOk(s), s.CodeOffset \in 0 .. MAX_PROGRAM - 1,
           NEW kind, NEW arg, NEW from, NEW ln,
           Pass = 2 =>
              /\ kind \in {"call", "return"} => arg = s.RetReg
              /\ kind = "branch" /\ from # -1 =>
                    /\ LabelKnown(ln.exp, s.labels)
                    /\ s.CodeOffset + arg = ValueBy(ln.exp, s.labels)
    PROVE  /\ Adds(s, Write(s, kind, arg, from), ln)
           /\ Wrote(s, Write(s, kind, arg, from))
<1> DEFINE t == Write(s, kind, arg, from)
<1>1. /\ EngineOk(t)
      /\ t.CodeOffset = s.CodeOffset + 1
      /\ t.Errors = s.Errors
      /\ t.labels = s.labels /\ t.RetReg = s.RetReg
      /\ DOMAIN t.image = DOMAIN s.image \cup {s.CodeOffset}
      /\ \A a \in DOMAIN s.image : a # s.CodeOffset => t.image[a] = s.image[a]
      /\ t.image[s.CodeOffset] = [kind |-> kind, arg |-> arg,
            line |-> pos + 1, pass |-> Pass, from |-> from]
  BY WriteIs DEF OneWordMore
<1> HIDE DEF t
<1>2. s.CodeOffset \in Int /\ s.Errors \in Nat /\ s.CodeOffset >= 0
  BY PasmAssumption DEF EngineOk
<1>3. NewWord(s.CodeOffset, s, t, ln)
  <2>1. Pass = 2 => WordRight(s.CodeOffset, t.image[s.CodeOffset], t.RetReg, t.labels, ln)
    BY <1>1 DEF WordRight
  <2>2. /\ t.image[s.CodeOffset].line = pos + 1
        /\ t.image[s.CodeOffset].pass = Pass
    BY <1>1
  <2> QED
    BY <1>1, <1>2, <2>1, <2>2 DEF NewWord
<1>4. Adds(s, t, ln)
  <2>1. /\ s.Errors <= t.Errors /\ s.CodeOffset <= t.CodeOffset
        /\ Pass # 1 => t.labels = s.labels
        /\ DOMAIN s.image \subseteq DOMAIN t.image
    BY <1>1, <1>2
  <2>2. \A a \in DOMAIN s.image : a < s.CodeOffset => t.image[a] = s.image[a]
    BY <1>1, <1>2
  <2>3. \A a \in DOMAIN t.image :
           (a \in DOMAIN s.image /\ t.image[a] = s.image[a]) \/ NewWord(a, s, t, ln)
    BY <1>1, <1>3
  <2> QED
    BY <2>1, <2>2, <2>3 DEF Adds
<1>5. Wrote(s, t)
  BY <1>1, <1>2, <1>3 DEF Wrote, NewWord
<1> QED
  BY <1>4, <1>5 DEF t

(* An error changes nothing else.                                          *)
LEMMA RefuseIs ==
    ASSUME NEW s, EngineOk(s)
    PROVE  /\ EngineOk(Report(s)) /\ EngineOk(Refuse(s))
           /\ Report(s).Errors = s.Errors + 1 /\ Refuse(s).Errors = s.Errors + 1
           /\ Report(s).CodeOffset = s.CodeOffset /\ Refuse(s).CodeOffset = s.CodeOffset
           /\ Report(s).image = s.image /\ Refuse(s).image = s.image
           /\ Report(s).labels = s.labels /\ Refuse(s).labels = s.labels
           /\ Report(s).RetReg = s.RetReg /\ Refuse(s).RetReg = s.RetReg
           /\ Report(s).ok = s.ok
BY DEF Report, Refuse, EngineOk

(* ValidateOffset: the offset of the next word, or an error.               *)
LEMMA ValidateIs ==
    ASSUME NEW s, EngineOk(s), NEW ln
    PROVE  LET t == ValidateOffset(s)
           IN  /\ EngineOk(t) /\ Adds(s, t, ln)
               /\ t.CodeOffset = StartAt(s.CodeOffset) /\ t.CodeOffset >= 0
               /\ t.labels = s.labels /\ t.RetReg = s.RetReg
               /\ \/ t.Errors = s.Errors /\ t.ok = s.ok /\ t.CodeOffset < MAX_PROGRAM
                  \/ t.Errors = s.Errors + 1 /\ t.CodeOffset >= MAX_PROGRAM
<1> DEFINE v == IF s.CodeOffset # -1 THEN s
                ELSE [s EXCEPT !.CodeOffset = 8,
                               !.EntryPoint = IF @ < 0 THEN 8 ELSE @]
           u == IF s.CodeOffset = -1 /\ Core = 0 THEN Write(v, "legacy", 9, 8) ELSE v
           t == ValidateOffset(s)
<1>1. /\ EngineOk(v) /\ v.Errors = s.Errors /\ v.ok = s.ok /\ v.labels = s.labels
      /\ v.RetReg = s.RetReg /\ v.image = s.image
      /\ v.CodeOffset = IF s.CodeOffset # -1 THEN s.CodeOffset ELSE 8
  BY DEF EngineOk
<1> HIDE DEF v
<1>2. s.CodeOffset \in Int /\ s.CodeOffset >= -1 /\ s.Errors \in Nat
  BY DEF EngineOk
<1>3. Adds(s, v, ln)
  BY <1>1, <1>2, AddsNone
<1>4. /\ EngineOk(u) /\ Adds(s, u, ln) /\ u.CodeOffset = StartAt(s.CodeOffset)
      /\ u.Errors = s.Errors /\ u.ok = s.ok /\ u.labels = s.labels
      /\ u.RetReg = s.RetReg
  <2>1. CASE s.CodeOffset = -1 /\ Core = 0
    <3>1. u = Write(v, "legacy", 9, 8) /\ v.CodeOffset = 8
      BY <2>1, <1>1
    <3>2. v.CodeOffset \in 0 .. MAX_PROGRAM - 1
      BY <3>1, PasmAssumption
    <3>3. /\ EngineOk(u) /\ u.CodeOffset = v.CodeOffset + 1 /\ u.Errors = v.Errors
          /\ u.ok = v.ok /\ u.labels = v.labels /\ u.RetReg = v.RetReg
      <4> DEFINE w == [kind |-> "legacy", arg |-> 9, line |-> pos + 1,
                       pass |-> Pass, from |-> 8]
      <4>1. OneWordMore(v, Write(v, "legacy", 9, 8), w)
        BY <3>2, <1>1, WriteIs
      <4> HIDE DEF w
      <4> QED
        BY <3>1, <4>1 DEF OneWordMore
    <3>4. Adds(v, u, ln)
      <4>1. Adds(v, Write(v, "legacy", 9, 8), ln)
        BY <3>2, <1>1, WriteAdds
      <4> QED
        BY <4>1, <3>1
    <3>5. Adds(s, u, ln)
      BY <3>3, <3>4, <1>1, <1>3, AddsTwice
    <3> QED
      BY <2>1, <3>1, <3>3, <3>5, <1>1 DEF StartAt
  <2>2. CASE ~(s.CodeOffset = -1 /\ Core = 0)
    BY <2>2, <1>1, <1>3 DEF StartAt
  <2> QED
    BY <2>1, <2>2
<1> HIDE DEF u
<1>5. t = IF u.CodeOffset >= MAX_PROGRAM
          THEN [Report(u) EXCEPT !.FatalError = TRUE, !.ok = FALSE] ELSE u
  BY DEF ValidateOffset, u, v
<1> HIDE DEF t
<1>6. MAX_PROGRAM \in Nat /\ u.CodeOffset \in Int /\ u.CodeOffset >= 0
  BY <1>2, <1>4, PasmAssumption DEF StartAt, EngineOk
<1>7. CASE u.CodeOffset >= MAX_PROGRAM
  <2>1. EngineOk(Report(u)) /\ Report(u).Errors = u.Errors + 1
        /\ Report(u).CodeOffset = u.CodeOffset /\ Report(u).image = u.image
        /\ Report(u).labels = u.labels /\ Report(u).RetReg = u.RetReg
    BY <1>4, RefuseIs
  <2> DEFINE r == Report(u)
  <2> HIDE DEF r
  <2>2. t = [r EXCEPT !.FatalError = TRUE, !.ok = FALSE]
    BY <1>5, <1>7 DEF r
  <2>3. u.Errors \in Nat
    BY <1>4 DEF EngineOk
  <2>4. /\ DOMAIN t = DOMAIN r
        /\ t.CodeOffset = r.CodeOffset /\ t.image = r.image /\ t.labels = r.labels
        /\ t.RetReg = r.RetReg /\ t.Errors = r.Errors /\ t.regSet = r.regSet
        /\ t.EntryPoint = r.EntryPoint /\ EngineOk(r)
    BY <2>1, <2>2 DEF EngineOk, r
  <2>5. r.Errors = u.Errors + 1 /\ r.CodeOffset = u.CodeOffset /\ r.image = u.image
        /\ r.labels = u.labels /\ r.RetReg = u.RetReg
    BY <2>1 DEF r
  <2>6. EngineOk(t)
    BY <2>3, <2>4, <2>5 DEF EngineOk
  <2>7. Adds(u, t, ln)
    <3>1. u.Errors <= t.Errors /\ u.CodeOffset <= t.CodeOffset
      BY <2>3, <2>4, <2>5, <1>6
    <3> QED
      BY <3>1, <1>4, <2>4, <2>5, <2>6, AddsNone
  <2>8. Adds(s, t, ln)
    BY <1>4, <2>4, <2>5, <2>6, <2>7, AddsTwice
  <2> QED
    BY <1>4, <1>6, <1>7, <2>4, <2>5, <2>6, <2>8 DEF t
<1>8. CASE ~(u.CodeOffset >= MAX_PROGRAM)
  BY <1>4, <1>5, <1>6, <1>8 DEF t
<1> QED
  BY <1>7, <1>8

(* What the parts of a line that write words have in common.               *)
Writes(s, t, ln) ==
    /\ EngineOk(t) /\ Adds(s, t, ln) /\ Wrote(s, t)
    /\ t.labels = s.labels /\ t.RetReg = s.RetReg

(* GenOp: one word, which must be right for the line.                      *)
LEMMA GenOpIs ==
    ASSUME NEW s, EngineOk(s), NEW kind, NEW arg, NEW ln,
           Pass = 2 =>
              /\ kind \in {"call", "return"} => arg = s.RetReg
              /\ kind = "branch" /\ s.CodeOffset # -1 =>
                    /\ LabelKnown(ln.exp, s.labels)
                    /\ s.CodeOffset + arg = ValueBy(ln.exp, s.labels)
    PROVE  Writes(s, GenOp(s, kind, arg), ln)
<1> DEFINE t == ValidateOffset(s)
           g == GenOp(s, kind, arg)
<1>1. /\ EngineOk(t) /\ Adds(s, t, ln)
      /\ t.CodeOffset = StartAt(s.CodeOffset) /\ t.CodeOffset >= 0
      /\ t.labels = s.labels /\ t.RetReg = s.RetReg
      /\ \/ t.Errors = s.Errors /\ t.ok = s.ok /\ t.CodeOffset < MAX_PROGRAM
         \/ t.Errors = s.Errors + 1 /\ t.CodeOffset >= MAX_PROGRAM
  BY ValidateIs
<1>2. g = IF t.CodeOffset >= MAX_PROGRAM THEN [t EXCEPT !.ok = s.ok]
          ELSE Write(t, kind, arg, s.CodeOffset)
  BY DEF GenOp
<1> HIDE DEF t
<1>3. /\ MAX_PROGRAM \in Nat /\ s.CodeOffset \in Int /\ t.CodeOffset \in Int
      /\ s.Errors \in Nat /\ t.Errors \in Nat /\ s.CodeOffset <= t.CodeOffset
  BY <1>1, PasmAssumption DEF EngineOk, Adds
<1>4. CASE t.CodeOffset >= MAX_PROGRAM
  <2> HIDE DEF g
  <2>1. t.Errors = s.Errors + 1 /\ g = [t EXCEPT !.ok = s.ok]
    BY <1>1, <1>2, <1>3, <1>4
  <2>2. /\ DOMAIN g = DOMAIN t /\ g.CodeOffset = t.CodeOffset /\ g.image = t.image
        /\ g.labels = t.labels /\ g.RetReg = t.RetReg /\ g.Errors = t.Errors
        /\ g.regSet = t.regSet /\ g.EntryPoint = t.EntryPoint
        /\ g.FatalError = t.FatalError
    BY <1>1, <2>1 DEF EngineOk
  <2>3. g.Errors > 0
    BY <2>1, <2>2, <1>3
  <2>4. EngineOk(g)
    BY <1>1, <2>2, <2>3 DEF EngineOk
  <2>5. Adds(t, g, ln)
    BY <1>1, <1>3, <2>2, <2>4, AddsNone
  <2>6. Adds(s, g, ln)
    BY <1>1, <2>2, <2>4, <2>5, AddsTwice
  <2>7. Wrote(s, g)
    BY <2>3 DEF Wrote
  <2> QED
    BY <1>1, <2>2, <2>4, <2>6, <2>7 DEF Writes, g
<1>5. CASE ~(t.CodeOffset >= MAX_PROGRAM)
  <2>1. t.CodeOffset \in 0 .. MAX_PROGRAM - 1 /\ g = Write(t, kind, arg, s.CodeOffset)
    BY <1>1, <1>2, <1>3, <1>5
  <2> HIDE DEF g
  <2>2. /\ EngineOk(g) /\ g.labels = t.labels /\ g.RetReg = t.RetReg
        /\ g.CodeOffset = t.CodeOffset + 1
    <3> DEFINE w == [kind |-> kind, arg |-> arg, line |-> pos + 1,
                     pass |-> Pass, from |-> s.CodeOffset]
    <3>1. OneWordMore(t, Write(t, kind, arg, s.CodeOffset), w)
      BY <1>1, <2>1, WriteIs
    <3> HIDE DEF w
    <3> QED
      BY <2>1, <3>1 DEF OneWordMore
  <2>3. Pass = 2 =>
              /\ kind \in {"call", "return"} => arg = t.RetReg
              /\ kind = "branch" /\ s.CodeOffset # -1 =>
                    /\ LabelKnown(ln.exp, t.labels)
                    /\ t.CodeOffset + arg = ValueBy(ln.exp, t.labels)
    BY <1>1 DEF StartAt
  <2>4. Adds(t, g, ln) /\ Wrote(t, g)
    <3>1. Adds(t, Write(t, kind, arg, s.CodeOffset), ln)
          /\ Wrote(t, Write(t, kind, arg, s.CodeOffset))
      BY <1>1, <2>1, <2>3, WriteAdds
    <3> QED
      BY <2>1, <3>1
  <2>5. Adds(s, g, ln)
    BY <1>1, <2>2, <2>4, AddsTwice
  <2>6. Wrote(s, g)
    <3> SUFFICES ASSUME g.Errors = 0
                 PROVE  \E a \in DOMAIN g.image : s.CodeOffset <= a
                           /\ g.image[a].line = pos + 1 /\ g.image[a].pass = Pass
      BY DEF Wrote
    <3>1. PICK a \in DOMAIN g.image : t.CodeOffset <= a
                           /\ g.image[a].line = pos + 1 /\ g.image[a].pass = Pass
      BY <2>4 DEF Wrote
    <3>2. a \in Int
      BY <2>2, PasmAssumption DEF EngineOk
    <3>3. s.CodeOffset <= a
      BY <3>1, <3>2, <1>3
    <3> QED
      BY <3>1, <3>3
  <2> QED
    BY <1>1, <2>2, <2>5, <2>6 DEF Writes, g
<1> QED
  BY <1>4, <1>5 DEF g

(* Writing twice.                                                          *)
LEMMA WroteAfter ==
    ASSUME NEW s, EngineOk(s), NEW t, EngineOk(t), NEW u, EngineOk(u),
           s.CodeOffset <= t.CodeOffset, Wrote(t, u)
    PROVE  Wrote(s, u)
<1> SUFFICES ASSUME u.Errors = 0
             PROVE  \E a \in DOMAIN u.image : s.CodeOffset <= a
                       /\ u.image[a].line = pos + 1 /\ u.image[a].pass = Pass
  BY DEF Wrote
<1>1. PICK a \in DOMAIN u.image : t.CodeOffset <= a
                       /\ u.image[a].line = pos + 1 /\ u.image[a].pass = Pass
  BY DEF Wrote
<1>2. a \in Int /\ s.CodeOffset \in Int /\ t.CodeOffset \in Int
  BY PasmAssumption DEF EngineOk
<1>3. s.CodeOffset <= a
  BY <1>1, <1>2
<1> QED
  BY <1>1, <1>3

(* So do words.                                                            *)
LEMMA WritesTwice ==
    ASSUME NEW s, EngineOk(s), NEW t, NEW u, NEW ln,
           Writes(s, t, ln), Writes(t, u, ln)
    PROVE  Writes(s, u, ln)
<1>1. EngineOk(t) /\ EngineOk(u) /\ Adds(s, t, ln) /\ Adds(t, u, ln) /\ Wrote(t, u)
      /\ t.labels = s.labels /\ u.labels = t.labels
      /\ t.RetReg = s.RetReg /\ u.RetReg = t.RetReg
  BY DEF Writes
<1>2. Adds(s, u, ln)
  BY <1>1, AddsTwice
<1>3. s.CodeOffset <= t.CodeOffset
  BY <1>1 DEF Adds
<1>4. Wrote(s, u)
  BY <1>1, <1>3, WroteAfter
<1> QED
  BY <1>1, <1>2, <1>4 DEF Writes

(* An instruction that cannot be assembled writes a word too.              *)
LEMMA IllegalIs ==
    ASSUME NEW s, EngineOk(s), NEW ln
    PROVE  Writes(s, Illegal(s), ln)
<1> DEFINE r == Refuse(s)
           u == Illegal(s)
<1>1. /\ EngineOk(r) /\ r.Errors = s.Errors + 1 /\ r.CodeOffset = s.CodeOffset
      /\ r.image = s.image /\ r.labels = s.labels /\ r.RetReg = s.RetReg
  BY RefuseIs
<1>2. u = GenOp(r, "error", 0)
  BY DEF Illegal
<1> HIDE DEF r, u
<1>3. Writes(r, u, ln)
  <2>1. Writes(r, GenOp(r, "error", 0), ln)
    BY <1>1, GenOpIs
  <2> QED
    BY <1>2, <2>1
<1>4. s.Errors \in Nat /\ s.CodeOffset \in Int
  BY DEF EngineOk
<1>5. Adds(s, r, ln)
  BY <1>1, <1>4, AddsNone
<1>6. EngineOk(u) /\ Adds(r, u, ln) /\ Wrote(r, u) /\ u.labels = r.labels
      /\ u.RetReg = r.RetReg
  BY <1>3 DEF Writes
<1>7. Adds(s, u, ln)
  BY <1>1, <1>5, <1>6, AddsTwice
<1>8. Wrote(s, u)
  BY <1>1, <1>6 DEF Wrote
<1> QED
  BY <1>1, <1>6, <1>7, <1>8 DEF Writes, u

(* The value of an operand is a number.                                    *)
LEMMA ValueIs ==
    ASSUME NEW s, EngineOk(s), NEW ln \in PasmLines
    PROVE  Value(s, ln.exp) \in Int /\ Value(s, ln.exp) = ValueBy(ln.exp, s.labels)
<1>1. Value(s, ln.exp) = ValueBy(ln.exp, s.labels)
  BY DEF Value, ValueBy
<1>2. ln.exp.base \in Int /\ ln.exp.scale \in Int
  BY PasmAssumption
<1>3. CASE ln.exp.label \in DOMAIN s.labels
  <2>1. s.labels[ln.exp.label] \in Int
    BY <1>3 DEF EngineOk
  <2>2. ln.exp.scale * s.labels[ln.exp.label] \in Int
    BY <1>2, <2>1
  <2> QED
    BY <1>1, <1>2, <1>3, <2>2 DEF ValueBy
<1>4. CASE ln.exp.label \notin DOMAIN s.labels
  BY <1>1, <1>2, <1>4 DEF ValueBy
<1> QED
  BY <1>1, <1>3, <1>4

(* The instructions whose words depend on an operand.                      *)
LEMMA MovIs ==
    ASSUME NEW s, EngineOk(s), NEW ln
    PROVE  Writes(s, Mov(s, ln.exp), ln)
<1> DEFINE v == Value(s, ln.exp)
           t == GenOp(s, "ldi high", v)
<1>1. Writes(s, Illegal(s), ln)
  BY IllegalIs
<1>2. Writes(s, GenOp(s, "ldi", v), ln)
  BY GenOpIs
<1>3. Writes(s, t, ln)
  BY GenOpIs
<1>4. Writes(t, GenOp(t, "ldi low", v), ln)
  <2>1. EngineOk(t)
    BY <1>3 DEF Writes
  <2> HIDE DEF t, v
  <2> QED
    BY <2>1, GenOpIs
<1>5. Writes(s, GenOp(t, "ldi low", v), ln)
  BY <1>3, <1>4, WritesTwice
<1> HIDE DEF v
<1> QED
  BY <1>1, <1>2, <1>5 DEF Mov, v

(* A quick branch: the offset from its word to its target.                 *)
LEMMA QuickBranchIs ==
    ASSUME NEW s, EngineOk(s), NEW ln \in PasmLines
    PROVE  Writes(s, QuickBranch(s, ln.exp), ln)
<1> DEFINE j == Value(s, ln.exp) - s.CodeOffset
<1>1. Writes(s, Illegal(s), ln)
  BY IllegalIs
<1>2. ASSUME Known(s, ln.exp) PROVE Writes(s, GenOp(s, "branch", j), ln)
  <2>1. Pass = 2 => LabelKnown(ln.exp, s.labels)
    BY <1>2 DEF Known, LabelKnown
  <2>2. Value(s, ln.exp) \in Int /\ Value(s, ln.exp) = ValueBy(ln.exp, s.labels)
        /\ s.CodeOffset \in Int
    BY ValueIs DEF EngineOk
  <2>3. s.CodeOffset + j = ValueBy(ln.exp, s.labels)
    BY <2>2
  <2> HIDE DEF j
  <2> QED
    BY <2>1, <2>3, GenOpIs
<1> HIDE DEF j
<1> QED
  BY <1>1, <1>2 DEF QuickBranch, j

(* A call stores its return address in the register of .setcallreg.        *)
LEMMA JumpOrCallIs ==
    ASSUME NEW s, EngineOk(s), NEW ln, NEW cmd \in {"jmp", "call"}
    PROVE  Writes(s, JumpOrCall(s, cmd, ln.exp), ln)
<1> DEFINE arg == IF cmd = "call" THEN s.RetReg ELSE Value(s, ln.exp)
<1>1. Writes(s, Illegal(s), ln)
  BY IllegalIs
<1>2. Writes(s, GenOp(s, cmd, arg), ln)
  <2>1. cmd \in {"call", "return"} => arg = s.RetReg
    OBVIOUS
  <2>2. cmd # "branch"
    OBVIOUS
  <2> HIDE DEF arg
  <2> QED
    BY <2>1, <2>2, GenOpIs
<1> HIDE DEF arg
<1> QED
  BY <1>1, <1>2 DEF JumpOrCall, arg

(* A return jumps to what that register holds.                             *)
LEMMA ReturnIs ==
    ASSUME NEW s, EngineOk(s), NEW ln
    PROVE  Writes(s, GenOp(s, "return", s.RetReg), ln)
BY GenOpIs

(* A label: in pass 1 it gets the offset of the next word.                 *)
Labelled(s, t, N) ==
    Pass = 1 /\ t.Errors = 0 =>
        /\ DOMAIN t.labels = DOMAIN s.labels \cup N
        /\ \A l \in N : t.labels[l] = StartAt(s.CodeOffset)
        /\ \A l \in DOMAIN s.labels : t.labels[l] = s.labels[l]

(* The label of a line, or of .proc.                                       *)
LEMMA LabelLineIs ==
    ASSUME NEW s, EngineOk(s), NEW ln, NEW name
    PROVE  /\ EngineOk(LabelLine(s, name)) /\ Adds(s, LabelLine(s, name), ln)
           /\ Labelled(s, LabelLine(s, name), {name})
           /\ LabelLine(s, name).RetReg = s.RetReg
           /\ LabelLine(s, name).CodeOffset = StartAt(s.CodeOffset)
           /\ LabelLine(s, name).CodeOffset >= 0
<1> DEFINE v == ValidateOffset(s)
           t == LabelLine(s, name)
<1>1. /\ EngineOk(v) /\ Adds(s, v, ln)
      /\ v.CodeOffset = StartAt(s.CodeOffset) /\ v.CodeOffset >= 0
      /\ v.labels = s.labels /\ v.RetReg = s.RetReg
  BY ValidateIs
<1>2. t = IF v.ok /\ Pass = 1 THEN LabelCreate(v, name) ELSE v
  BY DEF LabelLine
<1> HIDE DEF v, t
<1>3. v.Errors \in Nat /\ v.CodeOffset \in Int /\ (v.ok \/ v.Errors > 0)
  BY <1>1 DEF EngineOk
<1>4. CASE ~(v.ok /\ Pass = 1)
  <2>1. t = v
    BY <1>2, <1>4
  <2>2. Labelled(s, t, {name})
    BY <1>3, <1>4, <2>1 DEF Labelled
  <2> QED
    BY <1>1, <2>1, <2>2 DEF t
<1>5. CASE v.ok /\ Pass = 1 /\ name \in DOMAIN v.labels
  <2>1. t = Report(v)
    BY <1>2, <1>5 DEF LabelCreate
  <2>2. /\ EngineOk(t) /\ t.Errors = v.Errors + 1 /\ t.CodeOffset = v.CodeOffset
        /\ t.image = v.image /\ t.labels = v.labels /\ t.RetReg = v.RetReg
    BY <1>1, <2>1, RefuseIs
  <2>3. Adds(v, t, ln)
    BY <1>1, <1>3, <2>2, AddsNone
  <2>4. Adds(s, t, ln)
    BY <1>1, <2>2, <2>3, AddsTwice
  <2>5. Labelled(s, t, {name})
    BY <1>3, <2>2 DEF Labelled
  <2> QED
    BY <1>1, <2>2, <2>4, <2>5 DEF t
<1>6. CASE v.ok /\ Pass = 1 /\ name \notin DOMAIN v.labels
  <2>1. t = [v EXCEPT !.labels = With(@, name, v.CodeOffset)]
    BY <1>2, <1>6 DEF LabelCreate
  <2>2. /\ DOMAIN t = DOMAIN v /\ t.Errors = v.Errors /\ t.CodeOffset = v.CodeOffset
        /\ t.image = v.image /\ t.RetReg = v.RetReg /\ t.regSet = v.regSet
        /\ t.EntryPoint = v.EntryPoint /\ t.FatalError = v.FatalError /\ t.ok = v.ok
        /\ t.labels = With(v.labels, name, v.CodeOffset)
    BY <1>1, <2>1 DEF EngineOk
  <2>3. /\ DOMAIN t.labels = DOMAIN v.labels \cup {name}
        /\ t.labels[name] = v.CodeOffset
        /\ \A l \in DOMAIN v.labels : t.labels[l] = v.labels[l]
    BY <1>6, <2>2 DEF With
  <2>4. \A l \in DOMAIN t.labels : t.labels[l] \in Int
    BY <1>1, <1>3, <2>3 DEF EngineOk
  <2>5. EngineOk(t)
    BY <1>1, <2>2, <2>4 DEF EngineOk
  <2>6. Adds(v, t, ln)
    BY <1>1, <1>3, <1>6, <2>2, <2>5, AddsNone
  <2>7. Adds(s, t, ln)
    BY <1>1, <2>2, <2>5, <2>6, AddsTwice
  <2>8. Labelled(s, t, {name})
    BY <1>1, <2>3 DEF Labelled
  <2> QED
    BY <1>1, <2>2, <2>5, <2>7, <2>8 DEF t
<1> QED
  BY <1>4, <1>5, <1>6

-----------------------------------------------------------------------------
(* Pasm: what a line does                                                  *)

(* What a command, and a whole line, does: a word of an instruction is     *)
(* there, and only .setcallreg, before any code, moves the return address. *)
Does(s, t, ln) ==
    /\ EngineOk(t) /\ Adds(s, t, ln)
    /\ t.RetReg = s.RetReg \/ t.CodeOffset < 0
    /\ Produces(ln) => Wrote(s, t)

(* Writing words is one of these.                                          *)
LEMMA WritesDoes ==
    ASSUME NEW s, NEW t, NEW ln, Writes(s, t, ln)
    PROVE  Does(s, t, ln) /\ t.labels = s.labels
BY DEF Writes, Does

(* A refusal, whatever the command.                                        *)
LEMMA RefuseDoes ==
    ASSUME NEW s, EngineOk(s), NEW ln
    PROVE  Does(s, Refuse(s), ln) /\ Refuse(s).labels = s.labels
<1> DEFINE t == Refuse(s)
<1>1. /\ EngineOk(t) /\ t.Errors = s.Errors + 1 /\ t.CodeOffset = s.CodeOffset
      /\ t.image = s.image /\ t.labels = s.labels /\ t.RetReg = s.RetReg
  BY RefuseIs
<1> HIDE DEF t
<1>2. s.Errors \in Nat /\ s.CodeOffset \in Int
  BY DEF EngineOk
<1>3. Adds(s, t, ln)
  BY <1>1, <1>2, AddsNone
<1>4. Wrote(s, t)
  BY <1>1, <1>2 DEF Wrote
<1> QED
  BY <1>1, <1>3, <1>4 DEF Does, t

(* .origin, .entrypoint and .setcallreg write nothing.                     *)
LEMMA OriginDoes ==
    ASSUME NEW s, EngineOk(s), NEW ln \in PasmLines, ln.cmd = ".origin"
    PROVE  Does(s, Origin(s, ln.exp), ln) /\ Origin(s, ln.exp).labels = s.labels
<1> DEFINE val == Value(s, ln.exp)
           t == [s EXCEPT !.EntryPoint = IF @ < 0 THEN val ELSE @,
                          !.CodeOffset = val]
<1>1. val \in Int /\ s.CodeOffset \in Int /\ s.CodeOffset >= -1 /\ s.Errors \in Nat
  BY ValueIs DEF EngineOk
<1> HIDE DEF val
<1>2. ASSUME ~(val < s.CodeOffset) PROVE Does(s, t, ln) /\ t.labels = s.labels
  <2>1. /\ DOMAIN t = DOMAIN s /\ t.CodeOffset = val /\ t.Errors = s.Errors
        /\ t.image = s.image /\ t.RetReg = s.RetReg /\ t.regSet = s.regSet
        /\ t.EntryPoint \in Int /\ t.FatalError = s.FatalError /\ t.ok = s.ok
        /\ t.labels = s.labels
    BY <1>1 DEF EngineOk
  <2> HIDE DEF t
  <2>2. EngineOk(t)
    BY <1>1, <1>2, <2>1 DEF EngineOk
  <2>3. Adds(s, t, ln)
    BY <1>1, <1>2, <2>1, <2>2, AddsNone
  <2> QED
    BY <2>1, <2>2, <2>3 DEF Does, Produces
<1>3. Does(s, Refuse(s), ln) /\ Refuse(s).labels = s.labels
  BY RefuseDoes
<1> HIDE DEF t
<1> QED
  BY <1>2, <1>3 DEF Origin, t, val

(* .entrypoint moves nothing but the entry.                                *)
LEMMA SetEntryDoes ==
    ASSUME NEW s, EngineOk(s), NEW ln \in PasmLines, ln.cmd = ".entrypoint"
    PROVE  Does(s, SetEntry(s, ln.exp), ln) /\ SetEntry(s, ln.exp).labels = s.labels
<1> DEFINE val == Value(s, ln.exp)
           t == [s EXCEPT !.EntryPoint = val, !.HaveEntry = TRUE]
<1>1. val \in Int /\ s.CodeOffset \in Int /\ s.Errors \in Nat
  BY ValueIs DEF EngineOk
<1> HIDE DEF val
<1>2. Does(s, t, ln) /\ t.labels = s.labels
  <2>1. /\ DOMAIN t = DOMAIN s /\ t.CodeOffset = s.CodeOffset /\ t.Errors = s.Errors
        /\ t.image = s.image /\ t.RetReg = s.RetReg /\ t.regSet = s.regSet
        /\ t.EntryPoint \in Int /\ t.FatalError = s.FatalError /\ t.ok = s.ok
        /\ t.labels = s.labels
    BY <1>1 DEF EngineOk
  <2> HIDE DEF t
  <2>2. EngineOk(t)
    BY <1>1, <2>1 DEF EngineOk
  <2>3. Adds(s, t, ln)
    BY <1>1, <2>1, <2>2, AddsNone
  <2> QED
    BY <2>1, <2>2, <2>3 DEF Does, Produces
<1>3. Does(s, Refuse(s), ln) /\ Refuse(s).labels = s.labels
  BY RefuseDoes
<1> HIDE DEF t
<1> QED
  BY <1>2, <1>3 DEF SetEntry, t, val

(* .setcallreg is refused once there is code.                              *)
LEMMA SetCallRegDoes ==
    ASSUME NEW s, EngineOk(s), NEW ln \in PasmLines, ln.cmd = ".setcallreg"
    PROVE  Does(s, SetCallReg(s, ln.exp.base), ln)
           /\ SetCallReg(s, ln.exp.base).labels = s.labels
<1> DEFINE reg == ln.exp.base
           t == [s EXCEPT !.RetReg = reg, !.regSet = TRUE]
<1>1. reg \in Nat /\ s.CodeOffset \in Int /\ s.Errors \in Nat
  BY PasmAssumption DEF EngineOk
<1> HIDE DEF reg
<1>2. ASSUME ~(s.CodeOffset >= 0), ~(reg > 30)
      PROVE  Does(s, t, ln) /\ t.labels = s.labels
  <2>1. /\ DOMAIN t = DOMAIN s /\ t.CodeOffset = s.CodeOffset /\ t.Errors = s.Errors
        /\ t.image = s.image /\ t.RetReg = reg /\ t.regSet
        /\ t.EntryPoint = s.EntryPoint /\ t.FatalError = s.FatalError /\ t.ok = s.ok
        /\ t.labels = s.labels
    BY DEF EngineOk
  <2> HIDE DEF t
  <2>2. reg \in 0 .. 30 /\ t.CodeOffset < 0
    BY <1>1, <1>2, <2>1
  <2>3. EngineOk(t)
    BY <2>1, <2>2 DEF EngineOk
  <2>4. Adds(s, t, ln)
    BY <1>1, <2>1, <2>3, AddsNone
  <2> QED
    BY <2>1, <2>2, <2>3, <2>4 DEF Does, Produces
<1>3. Does(s, Refuse(s), ln) /\ Refuse(s).labels = s.labels
  BY RefuseDoes
<1> HIDE DEF t
<1> QED
  BY <1>2, <1>3 DEF SetCallReg, t, reg

(* .ret and .codeword write a word or are refused.                         *)
LEMMA DotRetDoes ==
    ASSUME NEW s, EngineOk(s), NEW ln
    PROVE  Does(s, DotRet(s), ln) /\ DotRet(s).labels = s.labels
<1>1. Does(s, Refuse(s), ln) /\ Refuse(s).labels = s.labels
  BY RefuseDoes
<1>2. CASE s.regSet \/ Core > 1
  BY <1>1, <1>2 DEF DotRet
<1>3. CASE ~(s.regSet \/ Core > 1)
  <2>1. DotRet(s) = GenOp(s, "return", s.RetReg)
    BY <1>3 DEF DotRet, EngineOk
  <2>2. Writes(s, GenOp(s, "return", s.RetReg), ln)
    BY ReturnIs
  <2> QED
    BY <2>1, <2>2, WritesDoes
<1> QED
  BY <1>2, <1>3

(* .codeword.                                                              *)
LEMMA CodeWordDoes ==
    ASSUME NEW s, EngineOk(s), NEW ln
    PROVE  Does(s, CodeWord(s, ln.exp), ln) /\ CodeWord(s, ln.exp).labels = s.labels
<1>1. Does(s, Refuse(s), ln) /\ Refuse(s).labels = s.labels
  BY RefuseDoes
<1>2. Writes(s, GenOp(s, "word", Value(s, ln.exp)), ln)
  BY GenOpIs
<1>3. Does(s, GenOp(s, "word", Value(s, ln.exp)), ln)
      /\ GenOp(s, "word", Value(s, ln.exp)).labels = s.labels
  BY <1>2, WritesDoes
<1> QED
  BY <1>1, <1>3 DEF CodeWord

(* The label of .proc is the only one a command creates.                   *)
ProcName(ln) == IF ln.cmd = ".proc" THEN {<<ln.exp.label>>} ELSE {}

(* Every command, by its kind.                                             *)
LEMMA CommandDoes ==
    ASSUME NEW s, EngineOk(s), NEW ln \in PasmLines
    PROVE  Does(s, Command(s, ln), ln) /\ Labelled(s, Command(s, ln), ProcName(ln))
<1> DEFINE t == Command(s, ln)
<1>1. SUFFICES ASSUME ln.cmd # ".proc"
               PROVE  Does(s, t, ln) /\ t.labels = s.labels
  <2>1. CASE ln.cmd = ".proc"
    <3>1. t = LabelLine(s, <<ln.exp.label>>)
      BY <2>1 DEF Command
    <3> HIDE DEF t
    <3>2. EngineOk(t) /\ Adds(s, t, ln) /\ Labelled(s, t, {<<ln.exp.label>>})
          /\ t.RetReg = s.RetReg
      <4> DEFINE u == LabelLine(s, <<ln.exp.label>>)
      <4>1. EngineOk(u) /\ Adds(s, u, ln) /\ Labelled(s, u, {<<ln.exp.label>>})
            /\ u.RetReg = s.RetReg
        BY LabelLineIs
      <4> QED
        BY <3>1, <4>1
    <3> QED
      BY <2>1, <3>2 DEF Does, Produces, ProcName, t
  <2>2. ASSUME ln.cmd # ".proc", Does(s, t, ln), t.labels = s.labels
        PROVE  Does(s, t, ln) /\ Labelled(s, t, ProcName(ln))
    BY <2>2 DEF Labelled, ProcName
  <2> QED
    BY <2>1, <2>2
<1>2. CASE ln.cmd = "none"
  <2>1. t = s
    BY <1>2 DEF Command
  <2>2. Adds(s, s, ln)
    <3>1. s.Errors <= s.Errors /\ s.CodeOffset <= s.CodeOffset
      BY DEF EngineOk
    <3> QED
      BY <3>1, AddsNone
  <2> QED
    BY <1>2, <2>1, <2>2 DEF Does, Produces
<1>3. CASE ln.cmd = "op"
  <2>1. t = GenOp(s, "op", 0)
    BY <1>3 DEF Command
  <2>2. Writes(s, GenOp(s, "op", 0), ln)
    BY GenOpIs
  <2> QED
    BY <2>1, <2>2, WritesDoes
<1>4. CASE ln.cmd = "mov"
  <2>1. t = Mov(s, ln.exp)
    BY <1>4 DEF Command
  <2> QED
    BY <2>1, MovIs, WritesDoes
<1>5. CASE ln.cmd = "qba"
  <2>1. t = QuickBranch(s, ln.exp)
    BY <1>5 DEF Command
  <2> QED
    BY <2>1, QuickBranchIs, WritesDoes
<1>6. CASE ln.cmd \in {"jmp", "call"}
  <2>1. t = JumpOrCall(s, ln.cmd, ln.exp)
    BY <1>6 DEF Command
  <2>2. Writes(s, JumpOrCall(s, ln.cmd, ln.exp), ln)
    BY <1>6, JumpOrCallIs
  <2> QED
    BY <2>1, <2>2, WritesDoes
<1>7. CASE ln.cmd = "ret"
  <2>1. t = GenOp(s, "return", s.RetReg)
    BY <1>7 DEF Command
  <2> QED
    BY <2>1, ReturnIs, WritesDoes
<1>8. CASE ln.cmd = "bad"
  <2>1. t = Illegal(s)
    BY <1>8 DEF Command
  <2> QED
    BY <2>1, IllegalIs, WritesDoes
<1>9. CASE ln.cmd = ".origin"
  <2>1. t = Origin(s, ln.exp)
    BY <1>9 DEF Command
  <2> QED
    BY <1>9, <2>1, OriginDoes
<1>10. CASE ln.cmd = ".entrypoint"
  <2>1. t = SetEntry(s, ln.exp)
    BY <1>10 DEF Command
  <2> QED
    BY <1>10, <2>1, SetEntryDoes
<1>11. CASE ln.cmd = ".setcallreg"
  <2>1. t = SetCallReg(s, ln.exp.base)
    BY <1>11 DEF Command
  <2> QED
    BY <1>11, <2>1, SetCallRegDoes
<1>12. CASE ln.cmd = ".ret"
  <2>1. t = DotRet(s)
    BY <1>12 DEF Command
  <2> QED
    BY <2>1, DotRetDoes
<1>13. CASE ln.cmd = ".codeword"
  <2>1. t = CodeWord(s, ln.exp)
    BY <1>13 DEF Command
  <2> QED
    BY <2>1, CodeWordDoes
<1>14. ln.cmd \in {"none", "op", "mov", "qba", "jmp", "call", "ret", "bad", ".origin",
                   ".entrypoint", ".setcallreg", ".ret", ".codeword", ".proc"}
  BY PasmAssumption
<1> HIDE DEF t
<1> QED
  BY <1>1, <1>2, <1>3, <1>4, <1>5, <1>6, <1>7, <1>8, <1>9, <1>10, <1>11, <1>12,
     <1>13, <1>14

(* A line does what its command does, after its label.                     *)
LEMMA LineDoes ==
    ASSUME NEW s, EngineOk(s), NEW ln \in PasmLines
    PROVE  /\ Does(s, ProcessSourceLine(s, ln), ln)
           /\ Labelled(s, ProcessSourceLine(s, ln), NamesOf(ln))
<1> DEFINE t == IF ln.label = None THEN s ELSE LabelLine(s, ln.label)
           u == ProcessSourceLine(s, ln)
           N == {ln.label} \ {None}
<1>1. u = IF t.ok THEN Command(t, ln) ELSE t
  BY DEF ProcessSourceLine
<1>2. NamesOf(ln) = N \cup ProcName(ln)
  BY DEF NamesOf, ProcName
<1>3. CASE ln.label = None
  <2>1. t = s /\ N = {}
    BY <1>3
  <2>2. CASE s.ok
    <3>1. u = Command(s, ln) /\ NamesOf(ln) = ProcName(ln)
      BY <1>1, <1>2, <2>1, <2>2
    <3> HIDE DEF u
    <3> QED
      BY <3>1, CommandDoes DEF u
  <2>3. CASE ~s.ok
    <3>1. u = s
      BY <1>1, <2>1, <2>3
    <3>2. s.Errors \in Nat /\ s.Errors # 0 /\ s.CodeOffset \in Int
      BY <2>3 DEF EngineOk
    <3>3. Adds(s, s, ln)
      BY <3>2, AddsNone
    <3> HIDE DEF u
    <3> QED
      BY <3>1, <3>2, <3>3 DEF u, Does, Wrote, Labelled
  <2> QED
    BY <2>2, <2>3
<1>4. CASE ln.label # None
  <2>1. t = LabelLine(s, ln.label) /\ N = {ln.label}
    BY <1>4
  <2>2. /\ EngineOk(t) /\ Adds(s, t, ln) /\ Labelled(s, t, N)
        /\ t.RetReg = s.RetReg /\ t.CodeOffset = StartAt(s.CodeOffset)
        /\ t.CodeOffset >= 0
    <3> DEFINE v == LabelLine(s, ln.label)
    <3>1. /\ EngineOk(v) /\ Adds(s, v, ln) /\ Labelled(s, v, {ln.label})
          /\ v.RetReg = s.RetReg /\ v.CodeOffset = StartAt(s.CodeOffset)
          /\ v.CodeOffset >= 0
      BY LabelLineIs
    <3> HIDE DEF v
    <3> QED
      BY <2>1, <3>1 DEF v
  <2> HIDE DEF t, u, N
  <2>3. CASE t.ok
    <3>1. u = Command(t, ln)
      BY <1>1, <2>3
    <3>2. Does(t, u, ln) /\ Labelled(t, u, ProcName(ln))
      BY <2>2, <3>1, CommandDoes
    <3>3. EngineOk(u) /\ Adds(t, u, ln) /\ (u.RetReg = t.RetReg \/ u.CodeOffset < 0)
          /\ (Produces(ln) => Wrote(t, u))
      BY <3>2 DEF Does
    <3>4. Adds(s, u, ln)
      BY <2>2, <3>3, AddsTwice
    <3>5. s.CodeOffset <= t.CodeOffset /\ t.Errors <= u.Errors
      BY <2>2, <3>3 DEF Adds
    <3>6. Produces(ln) => Wrote(s, u)
      BY <2>2, <3>3, <3>5, WroteAfter
    <3>7. Labelled(s, u, NamesOf(ln))
      <4> SUFFICES ASSUME Pass = 1, u.Errors = 0
                   PROVE  /\ DOMAIN u.labels = DOMAIN s.labels \cup NamesOf(ln)
                          /\ \A l \in NamesOf(ln) : u.labels[l] = StartAt(s.CodeOffset)
                          /\ \A l \in DOMAIN s.labels : u.labels[l] = s.labels[l]
        BY DEF Labelled
      <4>1. t.Errors = 0
        BY <2>2, <3>5 DEF EngineOk
      <4>2. /\ DOMAIN t.labels = DOMAIN s.labels \cup N
            /\ \A l \in N : t.labels[l] = StartAt(s.CodeOffset)
            /\ \A l \in DOMAIN s.labels : t.labels[l] = s.labels[l]
        BY <2>2, <4>1 DEF Labelled
      <4>3. /\ DOMAIN u.labels = DOMAIN t.labels \cup ProcName(ln)
            /\ \A l \in ProcName(ln) : u.labels[l] = StartAt(t.CodeOffset)
            /\ \A l \in DOMAIN t.labels : u.labels[l] = t.labels[l]
        BY <3>2 DEF Labelled
      <4>4. StartAt(t.CodeOffset) = StartAt(s.CodeOffset)
        BY <2>2 DEF StartAt
      <4> QED
        BY <1>2, <4>2, <4>3, <4>4
    <3> QED
      BY <2>2, <3>3, <3>4, <3>6, <3>7 DEF Does, u
  <2>4. CASE ~t.ok
    <3>1. u = t
      BY <1>1, <2>4
    <3>2. t.Errors \in Nat /\ t.Errors # 0
      BY <2>2, <2>4 DEF EngineOk
    <3> QED
      BY <2>2, <3>1, <3>2 DEF u, Does, Wrote, Labelled
  <2> QED
    BY <2>3, <2>4
<1> QED
  BY <1>3, <1>4

-----------------------------------------------------------------------------
(* Pasm: the invariant holds                                               *)

(* The names of one more line.                                             *)
LEMMA NamesOneMore ==
    ASSUME NEW text, NEW n \in Nat
    PROVE  NamesUpTo(text, n + 1) = NamesUpTo(text, n) \cup NamesOf(text[n + 1])
BY DEF NamesUpTo

(* It holds before the passes.                                             *)
LEMMA PasmInvInit == PasmInit => PasmInv
<1> SUFFICES ASSUME PasmInit PROVE PasmInv
  OBVIOUS
<1>1. EngineOk(Cleared)
  BY DEF EngineOk, Cleared, DefaultReg, Empty
<1>2. Core \in PasmCores /\ Pass = 0 /\ state = "between" /\ pos = 0
  BY DEF PasmInit
<1>3. asm = Cleared /\ program = <<>> /\ moved = FALSE
  BY DEF PasmInit
<1>4. PasmTypes
  <2>1. program \in Seq(PasmLines) /\ Len(program) = 0
    BY DEF PasmInit
  <2>2. marks \in Seq(Int) /\ Len(marks) = 0
    BY DEF PasmInit
  <2>3. Len(program) <= PasmTextMax /\ Len(marks) = Len(program)
        /\ pos \in 0 .. Len(program)
    BY <1>2, <2>1, <2>2, PasmAssumption
  <2>4. EngineOk(asm)
    BY <1>1, <1>3
  <2>5. /\ Core \in PasmCores /\ Pass \in 0 .. 2
        /\ state \in {"between", "lines", "end", "refused", "written"}
    BY <1>2
  <2>6. moved \in BOOLEAN
    BY <1>3
  <2> QED
    BY <2>1, <2>2, <2>3, <2>4, <2>5, <2>6 DEF PasmTypes
<1>5. BeforePasses /\ FirstPassInv /\ SecondPassInv /\ WrittenInv
  BY <1>2, <1>3 DEF BeforePasses, FirstPassInv, SecondPassInv, WrittenInv
<1> QED
  BY <1>4, <1>5 DEF PasmInv

(* The engine a line starts from.                                          *)
LEMMA LineStep ==
    ASSUME PasmInv, NEW ln \in PasmLines, AssembleLine(ln)
    PROVE  /\ Does(asm, asm', ln) /\ Labelled(asm, asm', NamesOf(ln))
           /\ DOMAIN at' = DOMAIN at \cup NamesOf(ln)
           /\ \A l \in NamesOf(ln) : at'[l] = StartAt(asm.CodeOffset)
           /\ \A l \in DOMAIN at : l \notin NamesOf(ln) => at'[l] = at[l]
<1> DEFINE r == [asm EXCEPT !.ok = TRUE]
           s == ProcessSourceLine(r, ln)
<1>1. EngineOk(asm)
  BY DEF PasmInv, PasmTypes
<1>2. /\ EngineOk(r) /\ r.CodeOffset = asm.CodeOffset /\ r.Errors = asm.Errors
      /\ r.labels = asm.labels /\ r.image = asm.image /\ r.RetReg = asm.RetReg
  BY <1>1 DEF EngineOk
<1>3. asm' = s
  BY DEF AssembleLine
<1> HIDE DEF r
<1>4. Does(r, s, ln) /\ Labelled(r, s, NamesOf(ln))
  BY <1>2, LineDoes
<1> HIDE DEF s
<1>5. Does(asm, s, ln) /\ Labelled(asm, s, NamesOf(ln))
  <2>1. Adds(asm, s, ln)
    BY <1>2, <1>4 DEF Does, Adds, NewWord
  <2>2. Wrote(r, s) => Wrote(asm, s)
    BY <1>2 DEF Wrote
  <2>3. Labelled(asm, s, NamesOf(ln))
    BY <1>2, <1>4 DEF Labelled
  <2> QED
    BY <1>2, <1>4, <2>1, <2>2, <2>3 DEF Does
<1>6. ValidateOffset(asm).CodeOffset = StartAt(asm.CodeOffset)
  BY <1>1, ValidateIs
<1>7. Observe(s, ln)
  BY DEF AssembleLine, s, r
<1>8. at' = [l \in DOMAIN at \cup NamesOf(ln) |->
               IF l \in NamesOf(ln) THEN StartAt(asm.CodeOffset) ELSE at[l]]
  BY <1>6, <1>7 DEF Observe, NamesOf
<1> QED
  BY <1>3, <1>5, <1>8

(* A line of pass 1.                                                       *)
LEMMA FirstPassStep ==
    ASSUME PasmInv, NEW ln \in PasmLines, AssembleLine(ln), Pass = 1
    PROVE  PasmInv'
<1>1. /\ EngineOk(asm) /\ Core \in PasmCores
      /\ program \in Seq(PasmLines) /\ Len(program) <= PasmTextMax
      /\ marks \in Seq(Int) /\ Len(marks) = Len(program)
      /\ moved \in BOOLEAN /\ ~moved /\ pos = Len(program)
      /\ \A a \in DOMAIN asm.image : asm.image[a].pass # 2
      /\ asm.Errors = 0 => LabelsNoted /\ asm.CodeOffset = OffsetBefore(marks, pos + 1)
  BY DEF PasmInv, PasmTypes, FirstPassInv
<1>2. /\ Does(asm, asm', ln) /\ Labelled(asm, asm', NamesOf(ln))
  BY LineStep
<1>3. /\ EngineOk(asm') /\ Adds(asm, asm', ln)
  BY <1>2 DEF Does
<1>4. /\ pos < PasmTextMax /\ program' = Append(program, ln) /\ pos' = pos + 1
      /\ state' = "lines" /\ Pass' = 1 /\ Core' = Core
      /\ marks' = Append(marks, asm'.CodeOffset) /\ moved' = moved
  <2> DEFINE s == ProcessSourceLine([asm EXCEPT !.ok = TRUE], ln)
  <2>1. /\ asm' = s /\ Observe(s, ln) /\ pos' = pos + 1 /\ Pass' = Pass /\ Core' = Core
        /\ pos < PasmTextMax /\ program' = Append(program, ln)
        /\ state' = IF Pass = 2 /\ ~s.ok THEN "end" ELSE "lines"
    BY DEF AssembleLine
  <2> HIDE DEF s
  <2>2. /\ marks' = IF Pass = 1 THEN Append(marks, s.CodeOffset) ELSE marks
        /\ moved' = (moved \/ (Pass = 2 /\ marks[pos + 1] # s.CodeOffset))
    BY <2>1 DEF Observe
  <2>3. moved' = moved
    BY <1>1, <2>2
  <2> QED
    BY <2>1, <2>2, <2>3
<1>5. asm'.CodeOffset \in Int /\ asm'.Errors \in Nat /\ asm.Errors \in Nat
      /\ asm.Errors <= asm'.Errors /\ PasmTextMax \in Nat
  BY <1>1, <1>3, PasmAssumption DEF EngineOk, Adds
<1>6. /\ program' \in Seq(PasmLines) /\ Len(program') = Len(program) + 1
      /\ \A i \in 1 .. Len(program) : program'[i] = program[i]
      /\ program'[Len(program) + 1] = ln
  BY <1>1, <1>4
<1>7. /\ marks' \in Seq(Int) /\ Len(marks') = Len(marks) + 1
      /\ \A i \in 1 .. Len(marks) : marks'[i] = marks[i]
      /\ marks'[Len(marks) + 1] = asm'.CodeOffset
  BY <1>1, <1>4, <1>5
<1>8. Len(program) \in Nat
  BY <1>1
<1>9. PasmTypes'
  <2>1. Len(program') <= PasmTextMax /\ pos' \in 0 .. Len(program')
        /\ Len(marks') = Len(program')
    BY <1>1, <1>4, <1>5, <1>6, <1>7, <1>8
  <2> QED
    BY <1>1, <1>3, <1>4, <1>6, <1>7, <2>1 DEF PasmTypes
<1>10. \A a \in DOMAIN asm'.image : asm'.image[a].pass # 2
  <2> SUFFICES ASSUME NEW a \in DOMAIN asm'.image
               PROVE  asm'.image[a].pass # 2
    OBVIOUS
  <2>1. CASE a \in DOMAIN asm.image /\ asm'.image[a] = asm.image[a]
    BY <1>1, <2>1
  <2>2. CASE NewWord(a, asm, asm', ln)
    BY <2>2 DEF NewWord
  <2> QED
    BY <1>3, <2>1, <2>2 DEF Adds
<1>11. ASSUME asm'.Errors = 0
       PROVE  LabelsNoted' /\ asm'.CodeOffset = OffsetBefore(marks', pos' + 1)
  <2>1. asm.Errors = 0
    BY <1>5, <1>11
  <2>2. /\ DOMAIN asm.labels = NamesUpTo(program, Len(program))
        /\ \A i \in 1 .. Len(program) : \A l \in NamesOf(program[i]) :
              asm.labels[l] = StartAt(OffsetBefore(marks, i))
        /\ asm.CodeOffset = OffsetBefore(marks, pos + 1)
    BY <1>1, <2>1 DEF LabelsNoted
  <2>3. /\ DOMAIN asm'.labels = DOMAIN asm.labels \cup NamesOf(ln)
        /\ \A l \in NamesOf(ln) : asm'.labels[l] = StartAt(asm.CodeOffset)
        /\ \A l \in DOMAIN asm.labels : asm'.labels[l] = asm.labels[l]
    BY <1>2, <1>11 DEF Labelled
  <2>4. NamesUpTo(program', Len(program)) = NamesUpTo(program, Len(program))
    BY <1>6 DEF NamesUpTo
  <2>5. DOMAIN asm'.labels = NamesUpTo(program', Len(program'))
    <3>1. NamesUpTo(program', Len(program) + 1)
            = NamesUpTo(program', Len(program)) \cup NamesOf(program'[Len(program) + 1])
      BY <1>8, NamesOneMore
    <3> QED
      BY <1>6, <2>2, <2>3, <2>4, <3>1
  <2>6. \A i \in 1 .. Len(program) + 1 : OffsetBefore(marks', i) = OffsetBefore(marks, i)
    <3> SUFFICES ASSUME NEW i \in 1 .. Len(program) + 1
                 PROVE  OffsetBefore(marks', i) = OffsetBefore(marks, i)
      OBVIOUS
    <3>1. i # 1 => i - 1 \in 1 .. Len(marks)
      BY <1>1, <1>8
    <3>2. i # 1 => marks'[i - 1] = marks[i - 1]
      BY <1>7, <3>1
    <3> QED
      BY <3>2 DEF OffsetBefore
  <2>7. ASSUME NEW i \in 1 .. Len(program'), NEW l \in NamesOf(program'[i])
        PROVE  asm'.labels[l] = StartAt(OffsetBefore(marks', i))
    <3>1. CASE i \in 1 .. Len(program)
      <4>1. l \in NamesOf(program[i]) /\ program'[i] = program[i]
        BY <1>6, <2>7, <3>1
      <4>2. l \in DOMAIN asm.labels
        BY <2>2, <3>1, <4>1 DEF NamesUpTo
      <4>3. OffsetBefore(marks', i) = OffsetBefore(marks, i)
        BY <1>8, <2>6, <3>1
      <4> QED
        BY <2>2, <2>3, <3>1, <4>1, <4>2, <4>3
    <3>2. CASE i = Len(program) + 1
      <4>1. l \in NamesOf(ln)
        BY <1>6, <2>7, <3>2
      <4>2. OffsetBefore(marks', i) = asm.CodeOffset
        BY <1>1, <1>8, <2>2, <2>6, <3>2
      <4> QED
        BY <2>3, <4>1, <4>2
    <3> QED
      BY <1>6, <1>8, <3>1, <3>2
  <2>8. \A x : StartAt(x)' = StartAt(x)
    BY <1>4 DEF StartAt
  <2>9. LabelsNoted'
    <3>1. \A i \in 1 .. Len(program') : \A l \in NamesOf(program'[i]) :
             asm'.labels[l] = IF OffsetBefore(marks', i) # -1 THEN OffsetBefore(marks', i)
                              ELSE IF Core' = 0 THEN 9 ELSE 8
      BY <1>4, <2>7 DEF StartAt
    <3> QED
      BY <2>5, <3>1 DEF LabelsNoted, StartAt
  <2>10. asm'.CodeOffset = OffsetBefore(marks', pos' + 1)
    BY <1>1, <1>4, <1>7, <1>8 DEF OffsetBefore
  <2> QED
    BY <2>9, <2>10
<1>12. FirstPassInv'
  <2>1. pos' = Len(program')
    BY <1>1, <1>4, <1>6
  <2> QED
    BY <1>1, <1>4, <1>10, <1>11, <2>1 DEF FirstPassInv
<1> QED
  BY <1>4, <1>9, <1>12 DEF PasmInv, BeforePasses, SecondPassInv, WrittenInv

(* A line of pass 2.                                                       *)
LEMMA SecondPassStep ==
    ASSUME PasmInv, NEW ln \in PasmLines, AssembleLine(ln), Pass = 2
    PROVE  PasmInv'
<1>1. /\ EngineOk(asm) /\ Core \in PasmCores /\ moved \in BOOLEAN
      /\ program \in Seq(PasmLines) /\ Len(program) <= PasmTextMax
      /\ marks \in Seq(Int) /\ Len(marks) = Len(program)
      /\ pos \in 0 .. Len(program) /\ Len(program) \in Nat
      /\ LabelsNoted /\ WordsOrdered /\ NoneMissing /\ AsNoted
  BY DEF PasmInv, PasmTypes, SecondPassInv
<1>2. /\ Does(asm, asm', ln)
      /\ DOMAIN at' = DOMAIN at \cup NamesOf(ln)
      /\ \A l \in NamesOf(ln) : at'[l] = StartAt(asm.CodeOffset)
      /\ \A l \in DOMAIN at : l \notin NamesOf(ln) => at'[l] = at[l]
  BY LineStep
<1>3. /\ EngineOk(asm') /\ Adds(asm, asm', ln)
      /\ asm'.RetReg = asm.RetReg \/ asm'.CodeOffset < 0
      /\ Produces(ln) => Wrote(asm, asm')
  BY <1>2 DEF Does
<1>4. /\ pos < Len(program) /\ ln = program[pos + 1] /\ program' = program
      /\ pos' = pos + 1 /\ Pass' = 2 /\ Core' = Core /\ marks' = marks
      /\ state' = IF ~asm'.ok THEN "end" ELSE "lines"
      /\ moved' = (moved \/ marks[pos + 1] # asm'.CodeOffset)
  <2> DEFINE s == ProcessSourceLine([asm EXCEPT !.ok = TRUE], ln)
  <2>1. /\ asm' = s /\ Observe(s, ln) /\ pos' = pos + 1 /\ Pass' = Pass /\ Core' = Core
        /\ pos < Len(program) /\ ln = program[pos + 1] /\ program' = program
        /\ state' = IF Pass = 2 /\ ~s.ok THEN "end" ELSE "lines"
    BY DEF AssembleLine
  <2> HIDE DEF s
  <2>2. /\ marks' = IF Pass = 1 THEN Append(marks, s.CodeOffset) ELSE marks
        /\ moved' = (moved \/ (Pass = 2 /\ marks[pos + 1] # s.CodeOffset))
    BY <2>1 DEF Observe
  <2> QED
    BY <2>1, <2>2
<1>5. /\ asm.CodeOffset \in Int /\ asm'.CodeOffset \in Int
      /\ asm'.Errors \in Nat /\ asm.Errors \in Nat /\ asm.Errors <= asm'.Errors
      /\ asm.CodeOffset <= asm'.CodeOffset /\ asm'.labels = asm.labels
      /\ DOMAIN asm.image \subseteq Int /\ DOMAIN asm'.image \subseteq Int
      /\ asm'.ok \/ asm'.Errors > 0
  BY <1>1, <1>3, PasmAssumption DEF EngineOk, Adds
<1>6. pos \in Nat /\ pos' \in 0 .. Len(program)
  BY <1>1, <1>4
<1>7. PasmTypes'
  <2>1. state' \in {"between", "lines", "end", "refused", "written"}
        /\ moved' \in BOOLEAN
    BY <1>1, <1>4
  <2> QED
    BY <1>1, <1>3, <1>4, <1>6, <2>1 DEF PasmTypes
<1>8. LabelsNoted'
  BY <1>1, <1>4, <1>5 DEF LabelsNoted, StartAt
<1>9. \A a \in Addresses' : (a \in Addresses /\ asm'.image[a] = asm.image[a])
                            \/ NewWord(a, asm, asm', ln)
  BY <1>3 DEF Addresses, Adds
<1>10. \A a \in Addresses : a \in Addresses' /\ asm'.image[a] = asm.image[a]
                            /\ a < asm.CodeOffset /\ 0 <= a
  <2> SUFFICES ASSUME NEW a \in Addresses
               PROVE  a \in Addresses' /\ asm'.image[a] = asm.image[a]
                      /\ a < asm.CodeOffset /\ 0 <= a
    OBVIOUS
  <2>1. a \in DOMAIN asm.image /\ asm.image[a].pass = 2
    BY DEF Addresses
  <2>2. a \in 0 .. asm.CodeOffset - 1
    BY <1>1 DEF WordsOrdered
  <2>3. a < asm.CodeOffset /\ 0 <= a
    BY <1>5, <2>2
  <2>4. a \in DOMAIN asm'.image /\ asm'.image[a] = asm.image[a]
    BY <1>3, <2>1, <2>3 DEF Adds
  <2> QED
    BY <2>1, <2>3, <2>4 DEF Addresses
<1>11. \A a \in Addresses : asm'.image[a].line \in 1 .. pos
  BY <1>1, <1>10 DEF WordsOrdered
<1>12. \A a \in Addresses' : NewWord(a, asm, asm', ln) =>
          /\ asm.CodeOffset <= a /\ 0 <= a /\ a < asm'.CodeOffset
          /\ asm'.image[a].line = pos + 1
          /\ WordRight(a, asm'.image[a], asm'.RetReg, asm'.labels, ln)
  BY <1>4 DEF NewWord
<1>13. WordsOrdered'
  <2>1. Addresses' \subseteq 0 .. asm'.CodeOffset - 1
    <3> SUFFICES ASSUME NEW a \in Addresses'
                 PROVE  a \in 0 .. asm'.CodeOffset - 1
      OBVIOUS
    <3>1. a \in Int
      BY <1>5 DEF Addresses
    <3>2. 0 <= a /\ a < asm'.CodeOffset
      <4>1. CASE a \in Addresses
        BY <1>5, <1>10, <3>1, <4>1
      <4>2. CASE NewWord(a, asm, asm', ln)
        BY <1>12, <4>2
      <4> QED
        BY <1>9, <4>1, <4>2
    <3> QED
      BY <1>5, <3>1, <3>2
  <2>2. ASSUME NEW a \in Addresses'
        PROVE  /\ asm'.image[a].line \in 1 .. pos'
               /\ WordRight(a, asm'.image[a], asm'.RetReg, asm'.labels,
                            program[asm'.image[a].line])
    <3>1. CASE a \in Addresses
      <4>1. asm'.image[a] = asm.image[a] /\ asm'.image[a].line \in 1 .. pos
            /\ 0 <= a /\ a < asm.CodeOffset
        BY <1>10, <1>11, <3>1
      <4>2. asm'.image[a].line \in 1 .. pos'
        BY <1>4, <1>6, <4>1
      <4>3. a \in Int
        BY <1>5 DEF Addresses
      <4>4. asm'.RetReg = asm.RetReg
        BY <1>3, <1>5, <4>1, <4>3
      <4>5. WordRight(a, asm.image[a], asm.RetReg, asm.labels,
                      program[asm.image[a].line])
        BY <1>1, <3>1 DEF WordsOrdered
      <4> QED
        BY <1>5, <4>1, <4>2, <4>4, <4>5
    <3>2. CASE NewWord(a, asm, asm', ln)
      <4>1. asm'.image[a].line = pos + 1
            /\ WordRight(a, asm'.image[a], asm'.RetReg, asm'.labels, ln)
        BY <1>12, <3>2
      <4>2. pos + 1 \in 1 .. pos'
        BY <1>4, <1>6
      <4> QED
        BY <1>4, <4>1, <4>2
    <3> QED
      BY <1>9, <3>1, <3>2
  <2>3. ASSUME NEW a \in Addresses', NEW b \in Addresses', a < b
        PROVE  asm'.image[a].line <= asm'.image[b].line
    <3>1. a \in Int /\ b \in Int
      BY <1>5 DEF Addresses
    <3>2. CASE a \in Addresses /\ b \in Addresses
      <4>1. asm.image[a].line <= asm.image[b].line
        BY <1>1, <2>3, <3>2 DEF WordsOrdered
      <4> QED
        BY <1>10, <3>2, <4>1
    <3>3. CASE a \in Addresses /\ NewWord(b, asm, asm', ln)
      <4>1. asm'.image[a].line \in 1 .. pos /\ asm'.image[b].line = pos + 1
        BY <1>11, <1>12, <3>3
      <4> QED
        BY <1>6, <4>1
    <3>4. CASE NewWord(a, asm, asm', ln) /\ b \in Addresses
      <4>1. asm.CodeOffset <= a /\ b < asm.CodeOffset
        BY <1>10, <1>12, <3>4
      <4> QED
        BY <1>5, <2>3, <3>1, <4>1
    <3>5. CASE NewWord(a, asm, asm', ln) /\ NewWord(b, asm, asm', ln)
      <4>1. asm'.image[a].line = pos + 1 /\ asm'.image[b].line = pos + 1
        BY <1>12, <3>5
      <4> QED
        BY <1>6, <4>1
    <3> QED
      BY <1>9, <3>2, <3>3, <3>4, <3>5
  <2> QED
    BY <1>4, <2>1, <2>2, <2>3 DEF WordsOrdered
<1>14. NoneMissing'
  <2> SUFFICES ASSUME asm'.Errors = 0, NEW i \in 1 .. pos + 1, Produces(program[i])
               PROVE  \E a \in Addresses' : asm'.image[a].line = i
    BY <1>4 DEF NoneMissing, Produces
  <2>1. asm.Errors = 0
    BY <1>5
  <2>2. CASE i \in 1 .. pos
    <3>1. PICK a \in Addresses : asm.image[a].line = i
      BY <1>1, <2>1, <2>2 DEF NoneMissing
    <3> QED
      BY <1>10, <3>1
  <2>3. CASE i = pos + 1
    <3>1. Wrote(asm, asm')
      BY <1>3, <1>4, <2>3
    <3>2. PICK a \in DOMAIN asm'.image : asm'.image[a].line = pos + 1
                                          /\ asm'.image[a].pass = Pass
      BY <3>1 DEF Wrote
    <3>3. a \in Addresses'
      BY <3>2 DEF Addresses
    <3> QED
      BY <2>3, <3>2, <3>3
  <2> QED
    BY <1>6, <2>2, <2>3
<1>15. AsNoted'
  <2>1. DOMAIN at' = NamesUpTo(program, pos + 1)
    <3>1. NamesUpTo(program, pos + 1) = NamesUpTo(program, pos) \cup NamesOf(program[pos + 1])
      BY <1>6, NamesOneMore
    <3> QED
      BY <1>1, <1>2, <1>4, <3>1 DEF AsNoted
  <2>2. ASSUME ~moved'
        PROVE  /\ asm'.CodeOffset = OffsetBefore(marks, pos' + 1)
               /\ \A l \in DOMAIN at' : at'[l] = asm'.labels[l]
    <3>1. ~moved /\ marks[pos + 1] = asm'.CodeOffset
      BY <1>4, <2>2
    <3>2. asm.CodeOffset = OffsetBefore(marks, pos + 1)
          /\ \A l \in DOMAIN at : at[l] = asm.labels[l]
      BY <1>1, <3>1 DEF AsNoted
    <3>3. asm'.CodeOffset = OffsetBefore(marks, pos' + 1)
      <4>1. pos' + 1 # 1 /\ (pos' + 1) - 1 = pos + 1
        BY <1>4, <1>6
      <4> QED
        BY <3>1, <4>1 DEF OffsetBefore
    <3>4. \A l \in NamesOf(ln) : asm.labels[l] = StartAt(asm.CodeOffset)
      <4>1. pos + 1 \in 1 .. Len(program)
        BY <1>1, <1>4, <1>6
      <4> QED
        BY <1>1, <1>4, <3>2, <4>1 DEF LabelsNoted
    <3>5. \A l \in DOMAIN at' : at'[l] = asm'.labels[l]
      BY <1>2, <1>5, <3>2, <3>4
    <3> QED
      BY <3>3, <3>5
  <2> QED
    BY <1>4, <2>1, <2>2 DEF AsNoted
<1>16. state' # "lines" /\ asm'.Errors = 0 => pos' = Len(program')
  BY <1>4, <1>5
<1>17. SecondPassInv'
  BY <1>8, <1>13, <1>14, <1>15, <1>16 DEF SecondPassInv
<1> QED
  BY <1>4, <1>7, <1>17 DEF PasmInv, BeforePasses, FirstPassInv, WrittenInv

(* The start of a pass.                                                    *)
LEMMA BeginPassStep ==
    ASSUME PasmInv, BeginPass
    PROVE  PasmInv'
<1>1. /\ EngineOk(asm) /\ Core \in PasmCores /\ moved \in BOOLEAN
      /\ program \in Seq(PasmLines) /\ Len(program) <= PasmTextMax
      /\ marks \in Seq(Int) /\ Len(marks) = Len(program) /\ Len(program) \in Nat
      /\ Pass \in 0 .. 2
  BY DEF PasmInv, PasmTypes
<1>2. /\ asm.Errors = 0 /\ Pass < 2 /\ Pass' = Pass + 1 /\ state' = "lines"
      /\ asm' = StartOfPass(asm) /\ pos' = 0 /\ at' = Empty
      /\ Core' = Core /\ program' = program /\ marks' = marks /\ moved' = moved
  BY DEF BeginPass
<1>3. /\ DOMAIN asm' = DOMAIN asm /\ asm'.CodeOffset = -1 /\ asm'.EntryPoint = -1
      /\ asm'.ok /\ asm'.Errors = asm.Errors /\ asm'.FatalError = asm.FatalError
      /\ asm'.labels = asm.labels /\ asm'.image = asm.image
      /\ asm'.RetReg = asm.RetReg /\ asm'.regSet = asm.regSet
  BY <1>1, <1>2 DEF StartOfPass, EngineOk
<1>4. EngineOk(asm')
  BY <1>1, <1>3 DEF EngineOk
<1>5. asm'.CodeOffset = OffsetBefore(marks', pos' + 1)
  BY <1>2, <1>3 DEF OffsetBefore
<1>6. PasmTypes'
  <2>1. Pass' \in 0 .. 2 /\ pos' \in 0 .. Len(program')
    BY <1>1, <1>2
  <2>2. state' \in {"between", "lines", "end", "refused", "written"}
    BY <1>2
  <2> QED
    BY <1>1, <1>2, <1>4, <2>1, <2>2 DEF PasmTypes
<1>7. CASE Pass = 0
  <2>1. asm = Cleared /\ program = <<>> /\ moved = FALSE
    BY <1>7 DEF PasmInv, BeforePasses
  <2>2. DOMAIN asm.labels = {} /\ DOMAIN asm.image = {}
    BY <2>1 DEF Cleared, Empty
  <2>3. Len(program) = 0
    BY <2>1
  <2>4. LabelsNoted'
    <3>1. NamesUpTo(program', Len(program')) = {}
      BY <1>2, <2>3 DEF NamesUpTo
    <3>2. 1 .. Len(program') = {}
      BY <1>2, <2>3
    <3> QED
      BY <1>3, <2>2, <3>1, <3>2 DEF LabelsNoted
  <2>5. FirstPassInv'
    <3>1. pos' = Len(program')
      BY <1>2, <2>3
    <3>2. ~moved' /\ state' # "written"
      BY <1>2, <2>1
    <3>3. \A a \in DOMAIN asm'.image : asm'.image[a].pass # 2
      BY <1>3, <2>2
    <3> QED
      BY <1>5, <2>4, <3>1, <3>2, <3>3 DEF FirstPassInv
  <2>6. Pass' = 1
    BY <1>2, <1>7
  <2> QED
    BY <1>2, <1>6, <2>5, <2>6
       DEF PasmInv, BeforePasses, SecondPassInv, WrittenInv
<1>8. CASE Pass = 1
  <2>1. /\ ~moved /\ LabelsNoted
        /\ \A a \in DOMAIN asm.image : asm.image[a].pass # 2
    BY <1>2, <1>8 DEF PasmInv, FirstPassInv
  <2>2. LabelsNoted'
    BY <1>2, <1>3, <2>1 DEF LabelsNoted, StartAt
  <2>3. Addresses' = {}
    BY <1>3, <2>1 DEF Addresses
  <2>4. WordsOrdered'
    BY <2>3 DEF WordsOrdered
  <2>5. NoneMissing'
    BY <1>2 DEF NoneMissing
  <2>6. DOMAIN at' = {}
    BY <1>2 DEF Empty
  <2>7. AsNoted'
    <3>1. NamesUpTo(program', pos') = {}
      BY <1>2 DEF NamesUpTo
    <3> QED
      BY <1>5, <2>6, <3>1 DEF AsNoted
  <2>8. SecondPassInv'
    BY <1>2, <2>2, <2>4, <2>5, <2>7 DEF SecondPassInv
  <2>9. Pass' = 2
    BY <1>2, <1>8
  <2> QED
    BY <1>2, <1>6, <2>8, <2>9
       DEF PasmInv, BeforePasses, FirstPassInv, WrittenInv
<1> QED
  BY <1>1, <1>2, <1>7, <1>8

(* The end of a text and of a pass: only a text with errors ends early in  *)
(* pass 2.                                                                 *)
LEMMA EndStep ==
    ASSUME PasmInv, EndOfText \/ EndPass
    PROVE  PasmInv'
<1>1. /\ Core' = Core /\ Pass' = Pass /\ asm' = asm /\ program' = program
      /\ pos' = pos /\ marks' = marks /\ at' = at /\ moved' = moved
      /\ state # "between" /\ state' \in {"end", "between"}
  BY DEF EndOfText, EndPass
<1>2. PasmTypes /\ BeforePasses /\ FirstPassInv /\ SecondPassInv
  BY DEF PasmInv
<1>3. Pass # 0
  BY <1>1, <1>2 DEF BeforePasses
<1>4. PasmTypes'
  BY <1>1, <1>2 DEF PasmTypes
<1>5. LabelsNoted' <=> LabelsNoted
  BY <1>1 DEF LabelsNoted, StartAt
<1>6. FirstPassInv'
  BY <1>1, <1>2, <1>5 DEF FirstPassInv
<1>7. Pass = 2 /\ asm.Errors = 0 => pos = Len(program)
  <2> SUFFICES ASSUME Pass = 2, asm.Errors = 0
               PROVE  pos = Len(program)
    OBVIOUS
  <2>1. CASE EndOfText
    <3>1. ~Aborting
      BY <1>2, PasmAssumption DEF PasmTypes, EngineOk, Aborting
    <3> QED
      BY <2>1, <3>1 DEF EndOfText
  <2>2. CASE EndPass
    BY <1>2, <2>2 DEF EndPass, SecondPassInv
  <2> QED
    BY <2>1, <2>2
<1>8. SecondPassInv'
  <2> SUFFICES ASSUME Pass = 2 PROVE SecondPassInv'
    BY <1>1 DEF SecondPassInv
  <2>1. LabelsNoted /\ WordsOrdered /\ NoneMissing /\ AsNoted
    BY <1>2 DEF SecondPassInv
  <2>2. Addresses' = Addresses
    BY <1>1 DEF Addresses
  <2>3. WordsOrdered' /\ NoneMissing'
    BY <1>1, <2>1, <2>2 DEF WordsOrdered, NoneMissing
  <2>4. AsNoted'
    BY <1>1, <2>1 DEF AsNoted
  <2> QED
    BY <1>1, <1>5, <1>7, <2>1, <2>3, <2>4 DEF SecondPassInv
<1>9. BeforePasses' /\ WrittenInv'
  BY <1>1, <1>3 DEF BeforePasses, WrittenInv
<1> QED
  BY <1>4, <1>6, <1>8, <1>9 DEF PasmInv

(* The decision to write.                                                  *)
LEMMA FinishStep ==
    ASSUME PasmInv, Finish
    PROVE  PasmInv'
<1> DEFINE s == IF CodeOffsetPass1 # asm.CodeOffset THEN Report(asm) ELSE asm
<1>1. /\ Core' = Core /\ Pass' = Pass /\ asm' = s /\ program' = program
      /\ pos' = pos /\ marks' = marks /\ at' = at /\ moved' = moved
      /\ state = "between" /\ (asm.Errors > 0 \/ Pass = 2)
      /\ state' = IF s.Errors > 0 \/ s.CodeOffset <= 0 THEN "refused" ELSE "written"
  BY DEF Finish
<1>2. PasmTypes /\ BeforePasses /\ FirstPassInv /\ SecondPassInv
  BY DEF PasmInv
<1>3. EngineOk(asm)
  BY <1>2 DEF PasmTypes
<1>4. /\ EngineOk(s) /\ asm.Errors <= s.Errors /\ s.Errors \in Nat /\ asm.Errors \in Nat
      /\ s.CodeOffset = asm.CodeOffset /\ s.image = asm.image
      /\ s.labels = asm.labels /\ s.RetReg = asm.RetReg
  <2>1. CASE CodeOffsetPass1 # asm.CodeOffset
    <3>1. s = Report(asm)
      BY <2>1
    <3>2. EngineOk(Report(asm)) /\ Report(asm).Errors = asm.Errors + 1
          /\ Report(asm).CodeOffset = asm.CodeOffset /\ Report(asm).image = asm.image
          /\ Report(asm).labels = asm.labels /\ Report(asm).RetReg = asm.RetReg
      BY <1>3, RefuseIs
    <3> HIDE DEF s
    <3>3. asm.Errors \in Nat
      BY <1>3 DEF EngineOk
    <3> QED
      BY <3>1, <3>2, <3>3
  <2>2. CASE CodeOffsetPass1 = asm.CodeOffset
    <3>1. s = asm
      BY <2>2
    <3> HIDE DEF s
    <3>2. asm.Errors \in Nat
      BY <1>3 DEF EngineOk
    <3> QED
      BY <1>3, <3>1, <3>2
  <2> QED
    BY <2>1, <2>2
<1> HIDE DEF s
<1>5. state' \in {"refused", "written"}
  BY <1>1
<1>6. PasmTypes'
  BY <1>1, <1>2, <1>4, <1>5 DEF PasmTypes
<1>7. state' = "written" => s.Errors = 0 /\ asm.Errors = 0 /\ Pass = 2
  BY <1>1, <1>4
<1>8. Pass # 0
  BY <1>1, <1>2 DEF BeforePasses, Cleared
<1>9. LabelsNoted' <=> LabelsNoted
  BY <1>1, <1>4 DEF LabelsNoted, StartAt
<1>10. s.Errors = 0 => asm.Errors = 0
  BY <1>4
<1>11. FirstPassInv'
  BY <1>1, <1>2, <1>4, <1>7, <1>9, <1>10 DEF FirstPassInv
<1>12. SecondPassInv'
  <2> SUFFICES ASSUME Pass = 2 PROVE SecondPassInv'
    BY <1>1 DEF SecondPassInv
  <2>1. LabelsNoted /\ WordsOrdered /\ NoneMissing /\ AsNoted
        /\ (asm.Errors = 0 => pos = Len(program))
    BY <1>1, <1>2 DEF SecondPassInv
  <2>2. Addresses' = Addresses
    BY <1>1, <1>4 DEF Addresses
  <2>3. WordsOrdered' /\ NoneMissing'
    BY <1>1, <1>4, <1>10, <2>1, <2>2 DEF WordsOrdered, NoneMissing
  <2>4. AsNoted'
    BY <1>1, <1>4, <2>1 DEF AsNoted
  <2> QED
    BY <1>1, <1>9, <1>10, <2>1, <2>3, <2>4 DEF SecondPassInv
<1>13. BeforePasses' /\ WrittenInv'
  BY <1>1, <1>7, <1>8 DEF BeforePasses, WrittenInv
<1> QED
  BY <1>6, <1>11, <1>12, <1>13 DEF PasmInv

(* Every step keeps it.                                                    *)
LEMMA PasmInvStep == PasmInv /\ [PasmNext]_pasmVars => PasmInv'
<1> SUFFICES ASSUME PasmInv, [PasmNext]_pasmVars
             PROVE  PasmInv'
  OBVIOUS
<1>1. ASSUME NEW ln \in PasmLines, AssembleLine(ln)
      PROVE  PasmInv'
  <2>1. Pass = 1 \/ Pass = 2
    <3>1. state = "lines"
      BY <1>1 DEF AssembleLine
    <3> QED
      BY <3>1 DEF PasmInv, PasmTypes, BeforePasses
  <2> QED
    BY <1>1, <2>1, FirstPassStep, SecondPassStep
<1>2. CASE UNCHANGED pasmVars
  BY <1>2 DEF pasmVars, PasmInv, PasmTypes, BeforePasses, FirstPassInv, SecondPassInv,
              WrittenInv, LabelsNoted, WordsOrdered, NoneMissing, AsNoted, Addresses,
              StartAt
<1> QED
  BY <1>1, <1>2, BeginPassStep, EndStep, FinishStep DEF PasmNext

-----------------------------------------------------------------------------
(* Pasm: the image written                                                 *)

(* A set of at most one value.                                             *)
LEMMA AtMostOne ==
    ASSUME NEW x, NEW S \in SUBSET {x}
    PROVE  Cardinality(S) <= 1
<1>1. S = {} \/ S = {x}
  OBVIOUS
<1>2. Cardinality({}) = 0 /\ Cardinality({x}) = 1
  BY FS_EmptySet, FS_Singleton
<1> QED
  BY <1>1, <1>2

(* What the invariant says of an image that is written.                    *)
LEMMA ImageWritten ==
    ASSUME PasmInv, state = "written"
    PROVE  /\ LabelsNoted /\ WordsOrdered /\ AsNoted /\ pos = Len(program)
           /\ \A i \in 1 .. pos : Produces(program[i]) =>
                 \E a \in Addresses : asm.image[a].line = i
<1>1. Pass = 2 /\ asm.Errors = 0
  BY DEF PasmInv, WrittenInv
<1>2. SecondPassInv
  BY DEF PasmInv
<1> QED
  BY <1>1, <1>2 DEF SecondPassInv, NoneMissing

(* All of the program is in the image that is written.                     *)
LEMMA ImageHolds == PasmInv => ImageHoldsProgram
<1> SUFFICES ASSUME PasmInv PROVE ImageHoldsProgram
  OBVIOUS
<1>1. PasmTypes
  BY DEF PasmInv
<1>2. EngineOk(asm) /\ Len(program) \in Nat
  BY <1>1 DEF PasmTypes
<1>3. PasmTypeOK
  <2>1. pos \in 0 .. PasmTextMax
    BY <1>1, <1>2, PasmAssumption DEF PasmTypes
  <2>2. DOMAIN asm.image \subseteq Int
    BY <1>2, PasmAssumption DEF EngineOk
  <2>3. asm.CodeOffset \in Int /\ asm.EntryPoint \in Int /\ asm.Errors \in Nat
        /\ asm.RetReg \in 0 .. 30
    BY <1>2 DEF EngineOk
  <2> QED
    BY <1>1, <2>1, <2>2, <2>3 DEF PasmTypes, PasmTypeOK
<1>4. WordsWithinImage
  BY <1>2 DEF EngineOk, WordsWithinImage
<1>5. EveryInstructionInImage
  BY ImageWritten DEF EveryInstructionInImage, WordsOrdered
<1> QED
  BY <1>3, <1>4, <1>5 DEF ImageHoldsProgram

(* Labels, calls and branches of the image that is written.                *)
LEMMA ControlGoes == PasmInv => ControlGoesWhereTold
<1> SUFFICES ASSUME PasmInv PROVE ControlGoesWhereTold
  OBVIOUS
<1>1. LabelsWhereTheyStand
  BY ImageWritten DEF LabelsWhereTheyStand, LabelsNoted, AsNoted
<1>2. CallsReturn
  <2> SUFFICES ASSUME state = "written"
               PROVE  Cardinality({asm.image[a].arg : a \in {b \in Addresses :
                         asm.image[b].kind \in {"call", "return"}}}) <= 1
    BY DEF CallsReturn
  <2>1. \A a \in Addresses : asm.image[a].kind \in {"call", "return"} =>
           asm.image[a].arg = asm.RetReg
    BY ImageWritten DEF WordsOrdered, WordRight
  <2>2. {asm.image[a].arg : a \in {b \in Addresses :
            asm.image[b].kind \in {"call", "return"}}} \in SUBSET {asm.RetReg}
    BY <2>1
  <2> QED
    BY <2>2, AtMostOne
<1>3. BranchesReachTargets
  <2> SUFFICES ASSUME state = "written", ~moved, NEW a \in Addresses, BranchAt(a),
                      asm.image[a].from # -1
               PROVE  Reaches(a)
    BY DEF BranchesReachTargets
  <2> DEFINE i == asm.image[a].line
             ln == program[i]
  <2>1. /\ LabelsNoted /\ AsNoted /\ pos = Len(program) /\ i \in 1 .. pos
        /\ WordRight(a, asm.image[a], asm.RetReg, asm.labels, ln)
    BY ImageWritten DEF WordsOrdered
  <2>2. /\ asm.image[a].kind = "branch" /\ ln.exp.scale = 1 /\ ln.exp.label # None
    BY DEF BranchAt, Target
  <2>3. /\ ln.exp.label \in DOMAIN asm.labels
        /\ a + asm.image[a].arg = ln.exp.base + 1 * asm.labels[ln.exp.label]
    BY <2>1, <2>2 DEF WordRight, LabelKnown, ValueBy
  <2>4. ln.exp.base \in Int /\ asm.labels[ln.exp.label] \in Int
    <3>1. ln \in PasmLines /\ EngineOk(asm)
      BY <2>1 DEF PasmInv, PasmTypes
    <3> QED
      BY <2>3, <3>1, PasmAssumption DEF EngineOk
  <2>5. at[ln.exp.label] = asm.labels[ln.exp.label]
    BY <1>1, <2>3 DEF LabelsWhereTheyStand
  <2>6. a + asm.image[a].arg = at[ln.exp.label] + ln.exp.base
    BY <2>3, <2>4, <2>5
  <2> QED
    BY <2>6 DEF Reaches, Target
<1> QED
  BY <1>1, <1>2, <1>3 DEF ControlGoesWhereTold

(* The image the assembler writes, whatever the text, the core and the     *)
(* size of the memory, is the program the text describes: every            *)
(* instruction is in it, in order and within the memory (GenOp,            *)
(* ValidateOffset), and labels, branches and calls lead where the text     *)
(* says.                                                                   *)
THEOREM ImageAssembled == PasmSpec => []ImageIsProgram
<1>1. PasmInv => ImageIsProgram
  BY ImageHolds, ControlGoes DEF ImageIsProgram
<1> QED
  BY <1>1, PasmInvInit, PasmInvStep, PTL DEF PasmSpec

-----------------------------------------------------------------------------
(* PasmPath: the records of the files                                      *)

SearchDirs == {StripSlashes(dir) : dir \in Directories}
Paths == SourceNames \cup {dir \o name : dir \in SearchDirs, name \in SourceNames}
FileRecords == [SourceName : {get_basename(path) : path \in Paths},
                SourceBaseDir : {get_dirname(path) : path \in Paths},
                InUse : BOOLEAN]

(* Directories come before files; an open file has its record to itself.   *)
PathInv ==
    /\ include_dirs \in Seq(SearchDirs) /\ records \in Seq(FileRecords)
    /\ opened \in Seq(Nat) /\ \A i \in DOMAIN opened : opened[i] \in DOMAIN records
    /\ records = <<>> => ~lastOpen.angled
    /\ FirstDirectoryWins /\ OpenFilesApart

(* The last of a sequence, and the rest.                                   *)
LEMMA FrontIs ==
    ASSUME NEW S, NEW s \in Seq(S), s # <<>>
    PROVE  /\ Front(s) \in Seq(S) /\ Len(Front(s)) = Len(s) - 1
           /\ \A i \in 1 .. Len(s) - 1 : Front(s)[i] = s[i]
           /\ Len(s) \in 1 .. Len(s) /\ Last(s) = s[Len(s)]
<1> DEFINE n == Len(s) - 1
<1>1. n \in Nat /\ n <= Len(s) /\ Len(s) \in 1 .. Len(s)
  OBVIOUS
<1>2. \A i \in 1 .. n : s[i] \in S /\ i \in 1 .. Len(s)
  BY <1>1
<1>3. Front(s) = SubSeq(s, 1, n)
  BY DEF Front
<1> HIDE DEF n
<1>4. SubSeq(s, 1, n) = [i \in 1 .. n |-> s[i]]
  BY <1>1
<1>5. SubSeq(s, 1, n) \in Seq(S) /\ Len(SubSeq(s, 1, n)) = n
  BY <1>1, <1>2, <1>4
<1> QED
  BY <1>1, <1>3, <1>4, <1>5 DEF n, Last

(* A record keeps the two parts of its path.                               *)
Keeps(rs, new) == \A i \in DOMAIN rs : /\ new[i].SourceName = rs[i].SourceName
                                       /\ new[i].SourceBaseDir = rs[i].SourceBaseDir

(* The first directory that stops the search has the file.                 *)
LEMMA SearchIs ==
    ASSUME PathInv, NEW name, get_absolute(name) # NoPath
    PROVE  \E i \in DOMAIN include_dirs :
              /\ get_absolute(name) = include_dirs[i] \o name
              /\ \A j \in 1 .. i - 1 : include_dirs[j] \o name \notin Readable
<1> DEFINE tooLong == {i \in DOMAIN include_dirs :
                          Len(include_dirs[i]) + Len(name) >= Size}
           found == {i \in DOMAIN include_dirs : include_dirs[i] \o name \in Readable}
           stops == tooLong \cup found
           i == CHOOSE j \in stops : \A k \in stops : j <= k
<1>1. stops # {} /\ get_absolute(name) = IF i \in tooLong THEN NoPath ELSE include_dirs[i] \o name
  BY DEF get_absolute
<1>2. stops \in SUBSET Nat /\ DOMAIN include_dirs = 1 .. Len(include_dirs)
      /\ Len(include_dirs) \in Nat
  BY DEF PathInv
<1>3. i \in stops /\ \A k \in stops : i <= k
  <2> HIDE DEF stops
  <2> QED
    BY <1>1, <1>2, LeastOf
<1>4. i \notin tooLong /\ i \in found /\ i \in Nat
  BY <1>1, <1>2, <1>3
<1>5. ASSUME NEW j \in 1 .. i - 1 PROVE j \notin found
  BY <1>2, <1>3, <1>4, <1>5
<1>6. ASSUME NEW j \in 1 .. i - 1 PROVE j \in DOMAIN include_dirs
  BY <1>2, <1>4
<1> QED
  BY <1>1, <1>4, <1>5, <1>6

(* -I: files come later.                                                   *)
LEMMA AddDirFits ==
    ASSUME PathInv, NEW dir \in Directories, add_include_dir(dir)
    PROVE  PathInv' /\ Keeps(records, records')
<1>1. /\ include_dirs' = Append(include_dirs, StripSlashes(dir))
      /\ StripSlashes(dir) \in SearchDirs /\ include_dirs \in Seq(SearchDirs)
      /\ records = <<>> /\ records' = records /\ opened' = opened /\ lastOpen' = lastOpen
  BY DEF add_include_dir, PathInv, SearchDirs
<1>2. include_dirs' \in Seq(SearchDirs)
  BY <1>1
<1>3. FirstDirectoryWins'
  BY <1>1 DEF PathInv, FirstDirectoryWins
<1>4. OpenFilesApart'
  BY <1>1 DEF PathInv, OpenFilesApart
<1>5. /\ records' \in Seq(FileRecords) /\ opened' \in Seq(Nat)
      /\ \A i \in DOMAIN opened' : opened'[i] \in DOMAIN records'
      /\ ~lastOpen'.angled
  BY <1>1 DEF PathInv
<1> QED
  BY <1>1, <1>2, <1>3, <1>4, <1>5 DEF PathInv, Keeps

(* A file closed frees its record, which keeps its path.                   *)
LEMMA CloseFits ==
    ASSUME PathInv, CloseSourceFile
    PROVE  PathInv' /\ Keeps(records, records')
<1> DEFINE n == Len(opened)
           r == opened[n]
<1>1. /\ opened \in Seq(Nat) /\ opened # <<>> /\ records \in Seq(FileRecords)
      /\ \A i \in 1 .. n : opened[i] \in DOMAIN records /\ records[opened[i]].InUse
      /\ \A i, j \in 1 .. n : i # j => opened[i] # opened[j]
      /\ n \in Nat
  BY DEF PathInv, OpenFilesApart, CloseSourceFile
<1>2. /\ opened' \in Seq(Nat) /\ Len(opened') = n - 1
      /\ \A i \in 1 .. n - 1 : opened'[i] = opened[i]
      /\ n \in 1 .. n /\ Last(opened) = r
  BY <1>1, FrontIs DEF CloseSourceFile
<1>3. r \in DOMAIN records /\ records[r] \in FileRecords
  BY <1>1, <1>2
<1>4. /\ records' = [records EXCEPT ![r].InUse = FALSE]
      /\ include_dirs' = include_dirs /\ lastOpen' = lastOpen
  BY <1>2 DEF CloseSourceFile
<1>5. /\ [records[r] EXCEPT !.InUse = FALSE] \in FileRecords
      /\ [records[r] EXCEPT !.InUse = FALSE].SourceName = records[r].SourceName
      /\ [records[r] EXCEPT !.InUse = FALSE].SourceBaseDir = records[r].SourceBaseDir
  BY <1>3 DEF FileRecords
<1>6. /\ records' \in Seq(FileRecords) /\ DOMAIN records' = DOMAIN records
      /\ \A i \in DOMAIN records :
            records'[i] = IF i = r THEN [records[r] EXCEPT !.InUse = FALSE] ELSE records[i]
  BY <1>1, <1>3, <1>4, <1>5
<1>7. DOMAIN opened' = 1 .. n - 1 /\ \A i \in 1 .. n - 1 : i \in 1 .. n /\ i # n
  BY <1>1, <1>2
<1>8. \A i \in 1 .. n - 1 : opened'[i] # r /\ opened'[i] \in DOMAIN records
                            /\ records[opened'[i]].InUse
  BY <1>1, <1>2, <1>7
<1>9. OpenFilesApart'
  BY <1>1, <1>2, <1>6, <1>7, <1>8 DEF OpenFilesApart
<1>10. records' = <<>> => ~lastOpen'.angled
  <2>1. records # <<>> /\ records' # <<>>
    BY <1>1, <1>3, <1>6
  <2> QED
    BY <2>1
<1>11. FirstDirectoryWins'
  BY <1>4 DEF PathInv, FirstDirectoryWins
<1>12. include_dirs' \in Seq(SearchDirs)
  BY <1>4 DEF PathInv
<1>13. Keeps(records, records')
  BY <1>5, <1>6 DEF Keeps
<1> QED
  BY <1>2, <1>6, <1>7, <1>8, <1>9, <1>10, <1>11, <1>12, <1>13 DEF PathInv

(* A file opened takes a record closed before or a new one.                *)
LEMMA OpenFits ==
    ASSUME PathInv, NEW name \in SourceNames, NEW angled \in BOOLEAN,
           InitSourceFile(name, angled)
    PROVE  PathInv' /\ Keeps(records, records')
<1> DEFINE path == Resolve(name, angled)
           reused == Reusable(path)
           least == CHOOSE j \in reused : \A k \in reused : j <= k
           i == IF reused = {} THEN Len(records) + 1 ELSE least
           refused == \/ Len(opened) = OpenLimit \/ path = NoPath
                      \/ reused = {} /\ Len(records) = RecordMax
           n == Len(opened)
<1>1. include_dirs' = include_dirs /\ include_dirs \in Seq(SearchDirs)
  BY DEF InitSourceFile, PathInv
<1>2. CASE refused
  <2>1. UNCHANGED <<include_dirs, records, opened, lastOpen>>
    BY <1>2 DEF InitSourceFile
  <2>2. FirstDirectoryWins' /\ OpenFilesApart'
    BY <2>1 DEF PathInv, FirstDirectoryWins, OpenFilesApart
  <2> QED
    BY <2>1, <2>2 DEF PathInv, Keeps
<1>3. CASE ~refused
  <2>1. /\ path # NoPath
        /\ records' = IF reused = {} THEN Append(records, Record(path))
                      ELSE [records EXCEPT ![i] = Record(path)]
        /\ path \in Readable => /\ opened' = Append(opened, i)
                                /\ lastOpen' = [path |-> path, asked |-> name, angled |-> angled]
        /\ path \notin Readable => opened' = opened /\ lastOpen' = lastOpen
    BY <1>3 DEF InitSourceFile
  <2>2. /\ records \in Seq(FileRecords) /\ opened \in Seq(Nat) /\ n \in Nat
        /\ DOMAIN records = 1 .. Len(records) /\ Len(records) \in Nat
        /\ \A k \in 1 .. n : opened[k] \in DOMAIN records /\ records[opened[k]].InUse
        /\ \A j, k \in 1 .. n : j # k => opened[j] # opened[k]
    BY DEF PathInv, OpenFilesApart
  <2>3. reused # {} => i \in reused
    <3>1. reused \in SUBSET Nat
      BY <2>2 DEF Reusable
    <3> HIDE DEF reused
    <3> QED
      BY <3>1, LeastOf
  <2>4. /\ Record(path) \in FileRecords /\ Record(path).InUse
        /\ Record(path).SourceName = get_basename(path)
        /\ Record(path).SourceBaseDir = get_dirname(path)
    <3>1. path \in Paths
      <4>1. CASE angled /\ ~is_definite(name)
        <5>1. PICK k \in DOMAIN include_dirs : path = include_dirs[k] \o name
          BY <2>1, <4>1, SearchIs DEF Resolve
        <5>2. include_dirs[k] \in SearchDirs
          BY <1>1, <5>1
        <5> HIDE DEF path
        <5> QED
          BY <5>1, <5>2 DEF Paths
      <4>2. CASE ~(angled /\ ~is_definite(name))
        BY <4>2 DEF Resolve, Paths
      <4> QED
        BY <4>1, <4>2
    <3> HIDE DEF path
    <3> QED
      BY <3>1 DEF FileRecords, Record
  <2>5. reused # {} => /\ i \in DOMAIN records /\ ~records[i].InUse
                       /\ records[i].SourceName = get_basename(path)
                       /\ records[i].SourceBaseDir = get_dirname(path)
    BY <2>3 DEF Reusable
  <2>6. reused = {} => i = Len(records) + 1
    OBVIOUS
  <2> HIDE DEF path, i, reused
  <2>7. /\ records' \in Seq(FileRecords) /\ records' # <<>>
        /\ i \in DOMAIN records' /\ records'[i] = Record(path)
        /\ \A k \in DOMAIN records : k \in DOMAIN records'
        /\ \A k \in DOMAIN records : k # i => records'[k] = records[k]
        /\ DOMAIN records' \subseteq Nat
    <3>1. CASE reused = {}
      BY <2>1, <2>2, <2>4, <2>6, <3>1
    <3>2. CASE reused # {}
      <4>1. records' = [records EXCEPT ![i] = Record(path)] /\ i \in DOMAIN records
        BY <2>1, <2>5, <3>2
      <4>2. records' \in Seq(FileRecords) /\ DOMAIN records' = DOMAIN records
        BY <2>2, <2>4, <4>1
      <4> QED
        BY <2>2, <4>1, <4>2
    <3> QED
      BY <3>1, <3>2
  <2>8. \A k \in 1 .. n : opened[k] # i
    BY <2>2, <2>5, <2>6
  <2>9. Keeps(records, records')
    BY <2>2, <2>4, <2>5, <2>6, <2>7 DEF Keeps
  <2>10. /\ opened' \in Seq(Nat) /\ \A k \in DOMAIN opened' : opened'[k] \in DOMAIN records'
         /\ OpenFilesApart'
    <3>1. CASE path \in Readable
      <4>1. opened' = Append(opened, i) /\ i \in Nat
        BY <2>1, <2>7, <3>1
      <4>2. /\ opened' \in Seq(Nat) /\ DOMAIN opened' = 1 .. n + 1 /\ opened'[n + 1] = i
            /\ \A k \in 1 .. n : opened'[k] = opened[k]
        BY <2>2, <4>1
      <4>3. \A k \in 1 .. n + 1 : k \in 1 .. n \/ k = n + 1
        BY <2>2
      <4>4. \A k \in 1 .. n : opened'[k] \in DOMAIN records' /\ records'[opened'[k]].InUse
        BY <2>2, <2>7, <2>8, <4>2
      <4>5. opened'[n + 1] \in DOMAIN records' /\ records'[opened'[n + 1]].InUse
        BY <2>4, <2>7, <4>2
      <4>6. \A j, k \in 1 .. n + 1 : j # k => opened'[j] # opened'[k]
        BY <2>2, <2>8, <4>2, <4>3
      <4> QED
        BY <4>2, <4>3, <4>4, <4>5, <4>6 DEF OpenFilesApart
    <3>2. CASE path \notin Readable
      <4>1. opened' = opened /\ DOMAIN opened = 1 .. n
        BY <2>1, <2>2, <3>2
      <4>2. \A k \in 1 .. n : opened[k] \in DOMAIN records' /\ records'[opened[k]].InUse
        BY <2>2, <2>7, <2>8
      <4> QED
        BY <2>2, <4>1, <4>2 DEF OpenFilesApart
    <3> QED
      BY <3>1, <3>2
  <2>11. FirstDirectoryWins'
    <3>1. CASE path \in Readable /\ angled /\ ~is_definite(name)
      <4>1. path = get_absolute(name)
        BY <3>1 DEF Resolve, path
      <4>2. /\ lastOpen'.path = path /\ lastOpen'.asked = name
        BY <2>1, <3>1
      <4>3. PICK k \in DOMAIN include_dirs :
               /\ path = include_dirs[k] \o name
               /\ \A j \in 1 .. k - 1 : include_dirs[j] \o name \notin Readable
        BY <2>1, <4>1, SearchIs
      <4> QED
        BY <1>1, <4>2, <4>3 DEF FirstDirectoryWins
    <3>2. CASE path \in Readable /\ ~(angled /\ ~is_definite(name))
      <4>1. lastOpen'.asked = name /\ lastOpen'.angled = angled
        BY <2>1, <3>2
      <4> QED
        BY <3>2, <4>1 DEF FirstDirectoryWins
    <3>3. CASE path \notin Readable
      BY <1>1, <2>1, <3>3 DEF PathInv, FirstDirectoryWins
    <3> QED
      BY <3>1, <3>2, <3>3
  <2> QED
    BY <1>1, <2>7, <2>9, <2>10, <2>11 DEF PathInv
<1> QED
  BY <1>2, <1>3

LEMMA PathStep == PathInv /\ [PathNext]_pathVars => PathInv' /\ Keeps(records, records')
<1> SUFFICES ASSUME PathInv, [PathNext]_pathVars
             PROVE  PathInv' /\ Keeps(records, records')
  OBVIOUS
<1>1. CASE PathNext
  BY <1>1, AddDirFits, CloseFits, OpenFits DEF PathNext
<1>2. CASE UNCHANGED pathVars
  <2>1. FirstDirectoryWins' /\ OpenFilesApart'
    BY <1>2 DEF pathVars, PathInv, FirstDirectoryWins, OpenFilesApart
  <2> QED
    BY <1>2, <2>1 DEF pathVars, PathInv, Keeps
<1> QED
  BY <1>1, <1>2

(* For every set of directories, names and files: <> finds the file of the *)
(* first directory that has it; an index of a record keeps the file it was *)
(* given, and no two open files share one.                                 *)
THEOREM IncludesFound == PathSpec => IncludesResolved
<1>1. PathInit => PathInv
  <2> SUFFICES ASSUME PathInit PROVE PathInv
    OBVIOUS
  <2>1. include_dirs = <<>> /\ records = <<>> /\ opened = <<>> /\ lastOpen.angled = FALSE
    BY DEF PathInit, Closed
  <2> QED
    BY <2>1 DEF PathInv, FirstDirectoryWins, OpenFilesApart
<1>2. PathInv => FirstDirectoryWins /\ OpenFilesApart
  BY DEF PathInv
<1>3. PathInv /\ [PathNext]_pathVars =>
        [\A i \in DOMAIN records :
            /\ records'[i].SourceName = records[i].SourceName
            /\ records'[i].SourceBaseDir = records[i].SourceBaseDir]_pathVars
  BY PathStep DEF Keeps
<1> QED
  BY <1>1, <1>2, <1>3, PathStep, PTL DEF PathSpec, IncludesResolved, RecordsKeepTheirFile
=============================================================================
