------------------------------ MODULE PasmExp -------------------------------
(***************************************************************************)
(* The expressions of the PRU assembler (pasmexp.c): how a text of numbers,*)
(* labels and operators is read and reduced to an unsigned word, and the   *)
(* byte offset of a register field (&Raa.Wb.Bc).                           *)
(*                                                                         *)
(* A text is a sequence of tokens: numerals, label names, operators,       *)
(* parentheses.  A word has ExpBits bits, 32 in the code.  C       *)
(* leaves shifts by ExpBits or more undefined: they are taken modulo       *)
(* ExpBits, as the shifter of an x86 host does.                            *)
(***************************************************************************)
EXTENDS Integers, Sequences, SequencesExt, TLC, Bitwise

CONSTANTS ExpBits,
          Numerals,         \* [token -> value]
          LabelOffsets,     \* [token -> Offset], of the labels created
          UnknownLabels,    \* label names not (yet) created
          Texts,            \* texts to evaluate
          FieldTexts,       \* register fields, sequences of <<kind, number>>
          MAXTERM

ASSUME ExpAssumption == ExpBits \in Nat \ {0} /\ MAXTERM \in Nat \ {0}

VARIABLES asked,            \* none, text, field, value, offset
          text, expPass, expEndian, result, offset

expVars == <<asked, text, expPass, expEndian, result, offset>>

Word(n) == n % 2^ExpBits

-----------------------------------------------------------------------------
(* The table prec: the smaller number binds tighter.                       *)
Operators == {"*", "/", "%", "+", "-", "<<", ">>", "&", "^", "|"}
prec == [op \in Operators |->
            CASE op \in {"*", "/", "%"} -> 1 [] op \in {"+", "-"} -> 2
              [] op \in {"<<", ">>"} -> 3 [] op = "&" -> 4
              [] op = "^" -> 5 [] op = "|" -> 6]

(* One operation on two words; division by zero counts as 0 in pass 1.     *)
Apply(op, a, b) ==
    CASE op = "*" -> Word(a * b)
      [] op = "/" -> IF b = 0 THEN 0 ELSE a \div b
      [] op = "%" -> IF b = 0 THEN 0 ELSE a % b
      [] op = "+" -> Word(a + b)
      [] op = "-" -> Word(a - b)
      [] op = "<<" -> Word(a * 2^(b % ExpBits))
      [] op = ">>" -> a \div 2^(b % ExpBits)
      [] op = "&" -> a & b
      [] op = "^" -> a ^^ b
      [] op = "|" -> a | b

ByZero(op, b) == op \in {"/", "%"} /\ b = 0

(* The reduction of Expression: the leftmost of the operators that bind    *)
(* tightest first.                                                         *)
(* Slip: of equal operators the rightmost comes first.                     *)
Right_Tightest(ops) ==
    CHOOSE i \in 1 .. Len(ops) :
        /\ \A j \in 1 .. Len(ops) : prec[ops[i]] <= prec[ops[j]]
        /\ \A j \in i + 1 .. Len(ops) : prec[ops[i]] < prec[ops[j]]

Tightest(ops) ==
    CHOOSE i \in 1 .. Len(ops) :
        /\ \A j \in 1 .. Len(ops) : prec[ops[i]] <= prec[ops[j]]
        /\ \A j \in 1 .. i - 1 : prec[ops[i]] < prec[ops[j]]

Failure(at) == [rc |-> -1, at |-> at, val |-> 0]
NoValue(at) == [rc |-> 0, at |-> at, val |-> 0]
Success(at, v) == [rc |-> 1, at |-> at, val |-> v]

RECURSIVE Reduce(_, _, _)
Reduce(vals, ops, at) ==
    IF ops = <<>> THEN Success(at, vals[1])
    ELSE LET i == Tightest(ops)
             v == Apply(ops[i], vals[i], vals[i + 1])
         IN  IF expPass = 2 /\ ByZero(ops[i], vals[i + 1]) THEN Failure(at)
             ELSE Reduce([RemoveAt(vals, i + 1) EXCEPT ![i] = v],
                         RemoveAt(ops, i), at)

(* The position of the parenthesis that closes the one before i, or 0.     *)
Closing(s, i) ==
    LET depth(j) == Len(SelectSeq(SubSeq(s, i, j), LAMBDA x : x = "("))
                    - Len(SelectSeq(SubSeq(s, i, j), LAMBDA x : x = ")"))
        closes == {j \in i .. Len(s) : depth(j) = -1}
    IN  IF closes = {} THEN 0
        ELSE CHOOSE j \in closes : \A k \in closes : j <= k

(* EXP_getValue: what is read at position i and where reading stops.  rc 0 *)
(* is "no value"; a sign before nothing is read as 0.                      *)
RECURSIVE EXP_getValue(_, _), Terms(_, _, _, _), Expression(_)
EXP_getValue(s, i) ==
    IF i > Len(s) THEN NoValue(i)
    ELSE IF s[i] \in DOMAIN LabelOffsets THEN Success(i + 1, LabelOffsets[s[i]])
    ELSE IF s[i] \in UnknownLabels
         THEN IF expPass = 1 THEN Success(i + 1, 0) ELSE NoValue(i + 1)
    ELSE IF s[i] \in {"-", "~"}
         THEN LET r == EXP_getValue(s, i + 1)
              IN  IF r.rc < 0 THEN r
                  ELSE Success(r.at, IF s[i] = "-" THEN Word(-r.val)
                                     ELSE 2^ExpBits - 1 - r.val)
    ELSE IF s[i] = "("
         THEN LET j == Closing(s, i + 1)
                  r == Expression(SubSeq(s, i + 1, j - 1))
              IN  IF j = 0 \/ r.rc < 0 THEN Failure(i) ELSE Success(j + 1, r.val)
    ELSE IF s[i] \in DOMAIN Numerals THEN Success(i + 1, Numerals[s[i]])
    ELSE Failure(i)

(* EXP_getOperation.                                                       *)
EXP_getOperation(s, i) ==
    IF i > Len(s) THEN NoValue(i)
    ELSE IF s[i] \in Operators THEN Success(i + 1, 0) ELSE Failure(i)

(* The loop that collects terms and operators, and the checks after it.    *)
Terms(s, i, vals, ops) ==
    LET v == EXP_getValue(s, i)
        o == EXP_getOperation(s, v.at)
        vs == Append(vals, v.val)
        finish(values, at) == IF Len(ops) >= Len(values) \/ values = <<>>
                              THEN Failure(at) ELSE Reduce(values, ops, at)
    IN  CASE v.rc = 0 -> finish(vals, v.at)
          [] v.rc < 0 -> v
          [] v.rc > 0 /\ o.rc = 0 -> finish(vs, o.at)
          [] v.rc > 0 /\ o.rc < 0 -> o
          [] OTHER -> IF Len(vs) = MAXTERM THEN Failure(o.at)
                      ELSE Terms(s, o.at, vs, Append(ops, s[v.at]))

Expression(s) == Terms(s, 1, <<>>, <<>>)

-----------------------------------------------------------------------------
(* GetRegisterOffset: f is <<"R", number>> and then the fields within      *)
(* fields, <<"W", first byte>> or <<"B", first byte>>; -1 for an error.    *)
Width(kind) == CASE kind = "R" -> 4 [] kind = "W" -> 2 [] kind = "B" -> 1

RECURSIVE FieldAt(_, _, _, _)
FieldAt(f, i, width, first) ==
    IF i > Len(f) THEN <<width, first>>
    ELSE IF f[i][2] + Width(f[i][1]) > width THEN <<0, 0>>
    ELSE FieldAt(f, i + 1, Width(f[i][1]), first + f[i][2])

GetRegisterOffset(f) ==
    LET at == FieldAt(f, 2, 4, 0)
    IN  IF f[1][2] > 31 \/ at[1] = 0 THEN -1
        ELSE f[1][2] * 4 + IF expEndian THEN 4 - at[2] - at[1] ELSE at[2]

ExpInit == /\ asked = "none" /\ text = <<>> /\ expPass = 1
           /\ expEndian = FALSE /\ result = NoValue(1) /\ offset = -1

Ask(kind, s, pass, big) ==
    /\ asked' = kind /\ text' = s /\ expPass' = pass /\ expEndian' = big
    /\ UNCHANGED <<result, offset>>

Evaluate ==
    /\ asked = "text"
    /\ asked' = "value" /\ result' = Expression(text)
    /\ UNCHANGED <<text, expPass, expEndian, offset>>

EvaluateField ==
    /\ asked = "field"
    /\ asked' = "offset" /\ offset' = GetRegisterOffset(text)
    /\ UNCHANGED <<text, expPass, expEndian, result>>

ExpNext == \/ /\ asked = "none"
              /\ \/ \E s \in Texts, pass \in 1 .. 2 : Ask("text", s, pass, FALSE)
                 \/ \E f \in FieldTexts, big \in BOOLEAN : Ask("field", f, 1, big)
           \/ Evaluate
           \/ EvaluateField

ExpSpec == ExpInit /\ [][ExpNext]_expVars

-----------------------------------------------------------------------------
(* A text by its grammar, as <<>> or <<its value>>: an operation is split  *)
(* at the last of the operators that bind loosest, outside parentheses.    *)
Nesting(s, j) == Len(SelectSeq(SubSeq(s, 1, j), LAMBDA x : x = "("))
                 - Len(SelectSeq(SubSeq(s, 1, j), LAMBDA x : x = ")"))
Binary(s) == {j \in 2 .. Len(s) - 1 :
                /\ s[j] \in Operators /\ Nesting(s, j) = 0
                /\ s[j - 1] \notin Operators \cup {"~", "("}}
Splits(s) == {j \in Binary(s) : \A k \in Binary(s) :
                 prec[s[k]] < prec[s[j]] \/ (prec[s[k]] = prec[s[j]] /\ k <= j)}
Wrapped(s) == Len(s) > 1 /\ s[1] = "(" /\ s[Len(s)] = ")"

RECURSIVE Meaning(_)
Meaning(s) ==
    IF s = <<>> THEN <<>>
    ELSE IF Binary(s) # {}
    THEN LET j == CHOOSE j \in Splits(s) : TRUE
             a == Meaning(SubSeq(s, 1, j - 1))
             b == Meaning(SubSeq(s, j + 1, Len(s)))
         IN  IF a = <<>> \/ b = <<>> \/ (expPass = 2 /\ ByZero(s[j], b[1]))
             THEN <<>> ELSE <<Apply(s[j], a[1], b[1])>>
    ELSE IF s[1] \in {"-", "~"}
    THEN LET a == Meaning(Tail(s))
         IN  IF a = <<>> THEN <<>>
             ELSE <<IF s[1] = "-" THEN Word(-a[1]) ELSE 2^ExpBits - 1 - a[1]>>
    ELSE IF Wrapped(s) THEN Meaning(SubSeq(s, 2, Len(s) - 1))
    ELSE IF Len(s) > 1 THEN <<>>
    ELSE IF s[1] \in DOMAIN Numerals THEN <<Numerals[s[1]]>>
    ELSE IF s[1] \in DOMAIN LabelOffsets THEN <<LabelOffsets[s[1]]>>
    ELSE IF s[1] \in UnknownLabels /\ expPass = 1 THEN <<0>>
    ELSE <<>>

(* A sign with nothing after it, which the code takes for 0, and a label   *)
(* that is reported and then taken for nothing.                            *)
Dangling(s) == \E i \in 1 .. Len(s) :
    /\ s[i] \in {"-", "~"}
    /\ \/ i = Len(s) \/ s[i + 1] = ")"
       \/ expPass = 2 /\ s[i + 1] \in UnknownLabels

(* Reducing tightest operators first, from the left, gives an expression   *)
(* the value of its grammar, signs and parentheses included, and a text    *)
(* outside the grammar is refused.                                         *)
ValueByGrammar ==
    asked = "value" /\ ~Dangling(text) =>
        IF Meaning(text) = <<>> THEN result.rc < 0
        ELSE result.rc = 1 /\ <<result.val>> = Meaning(text)

(* The offset of a field is that of its first byte in memory order, and    *)
(* the field lies within its register.                                     *)
OffsetOfField ==
    asked = "offset" /\ offset >= 0 =>
        LET last == text[Len(text)]
            lanes == LET first[i \in 1 .. Len(text)] ==
                             IF i = 1 THEN 0 ELSE first[i - 1] + text[i][2]
                     IN  first[Len(text)] .. first[Len(text)] + Width(last[1]) - 1
            bytes == {4 * text[1][2] + IF expEndian THEN 3 - k ELSE k : k \in lanes}
        IN  /\ lanes \subseteq 0 .. 3
            /\ offset \in bytes /\ \A b \in bytes : offset <= b

(* What the operands of instructions are computed to.                      *)
OperandsByGrammar == ValueByGrammar /\ OffsetOfField
=============================================================================
