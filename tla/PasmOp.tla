------------------------------- MODULE PasmOp -------------------------------
(***************************************************************************)
(* The instructions of the PRU assembler (pasmop.c): which operands each   *)
(* core accepts and the words they are encoded in.                         *)
(*                                                                         *)
(* An operand is [pre, parts, inc, val].  Parts is <<>> for an expression, *)
(* whose value is val; else the operand has the form of a register,        *)
(* pre Raa.Xb.Xc ++, parts its letters and numbers, pre one of "", "&",    *)
(* "*", "*&", "*--", inc whether ++ follows, and val is its offset in the  *)
(* register file if it has an & (PasmExp models expressions and offsets).  *)
(* A word is the set of its bits that are 1.                               *)
(***************************************************************************)
EXTENDS Integers, Sequences

CONSTANTS Instructions,     \* the instructions tried: [op, args]
          OpOffsets         \* where in the program they stand

(* The opcodes, by the operands and words they share.                      *)
BitOps == {"CLR", "SET"}
MoveOps == {"LDI", "MOV", "SCAN"}
NopOps == {"NOP0", "NOP1", "NOP2", "NOP3", "NOP4", "NOP5", "NOP6", "NOP7",
           "NOP8", "NOP9", "NOPA", "NOPB", "NOPC", "NOPD", "NOPE", "NOPF"}
AluOps == {"ADD", "ADC", "SUB", "SUC", "LSL", "LSR", "RSB", "RSC", "AND",
           "OR", "XOR", "NOT", "MIN", "MAX", "LMBD"} \cup NopOps
MviOps == {"MVIB", "MVIW", "MVID"}
BurstOps == {"LBBO", "SBBO", "LBCO", "SBCO"}
XfrOps == {"XIN", "XOUT", "XCHG", "SXIN", "SXOUT", "SXCHG"}
JumpOps == {"JAL", "CALL", "JMP", "RET"}
BranchOps == {"QBGT", "QBLT", "QBEQ", "QBGE", "QBLE", "QBNE", "QBA"}
BitTestOps == {"QBBS", "QBBC", "WBS", "WBC"}
OpCodes == BitOps \cup MoveOps \cup AluOps \cup MviOps \cup BurstOps \cup XfrOps
           \cup JumpOps \cup BranchOps \cup BitTestOps
           \cup {"HALT", "SLP", "FILL", "ZERO", "LFC", "STC", "LOOP", "ILOOP"}

Letters == {"R", "W", "B", "T", "C"}
Operands == [pre : {"", "&", "*", "*&", "*--"}, parts : Seq([c : Letters, n : Nat]),
             inc : BOOLEAN, val : Int]

ASSUME OpAssumption ==
    /\ \A i \in Instructions : i.op \in OpCodes /\ i.args \in Seq(Operands)
    /\ OpOffsets \subseteq Nat

VARIABLES opCore, opBig, opPass, opOffset, inst, answer, words

opVars == <<opCore, opBig, opPass, opOffset, inst, answer, words>>

Bits(v) == {i \in 0 .. 16 : (v \div 2^i) % 2 = 1}
Sh(v, n) == {i + n : i \in Bits(v)} \cap 0 .. 31            \* v << n
Bit(n) == {n}
Slice(w, from, n) == {i - from : i \in w \cap from .. from + n - 1}
Number(bits) ==
    LET b(i) == IF i \in bits THEN 2^i ELSE 0
    IN  b(0) + b(1) + b(2) + b(3) + b(4) + b(5) + b(6) + b(7)
        + b(8) + b(9) + b(10) + b(11) + b(12) + b(13) + b(14) + b(15)

-----------------------------------------------------------------------------
(* CheckTokenType, of an operand: its flags, {} for what is not reserved.  *)
CheckTokenType(o) ==
    IF o.parts = <<>> \/ (\E i \in 1 .. Len(o.parts) : o.parts[i].n > 99)
       \/ (o.inc /\ o.pre \in {"&", "*&", "*--"})
    THEN {}
    ELSE (IF o.pre \in {"*", "*&", "*--"} THEN {"PTR"} ELSE {})
         \cup (IF o.pre \in {"&", "*&"} THEN {"ADDR"} ELSE {"BASE"})
         \cup (IF o.inc THEN {"POSTINC"} ELSE {})
         \cup (IF o.pre = "*--" THEN {"PREDEC"} ELSE {})

IsBase(o) == "BASE" \in CheckTokenType(o)

(* The getters give the set of the one argument they build, or {}.         *)
Reg(v, f) == [Type |-> "reg", Value |-> v, Field |-> f, Bit |-> 0]
Imm(v) == [Type |-> "imm", Value |-> v, Field |-> 0, Bit |-> 0]

(* GetRegister: the fields narrow the register one after the other; .T     *)
(* comes last, where it is allowed; the legacy core takes one field.       *)
FieldOf(width, first) ==
    CASE width = 4 -> 7
      [] width = 2 -> IF first < 2 THEN 4 + first ELSE 6
      [] width = 1 -> first

Narrow(r, p) ==
    LET w == IF p.c = "W" THEN 2 ELSE 1
    IN  IF p.c = "T"
        THEN [r EXCEPT !.ok = @ /\ r.bit = -1 /\ p.n < 8 * r.width, !.bit = p.n]
        ELSE [r EXCEPT !.ok = @ /\ r.bit = -1 /\ p.c \in {"W", "B"}
                                /\ p.n + w <= r.width,
                       !.width = w, !.first = @ + p.n]

WholeRegister == [ok |-> TRUE, width |-> 4, first |-> 0, bit |-> -1]

Narrowed(parts) ==
    LET fields[i \in 1 .. Len(parts)] ==
            IF i = 1 THEN WholeRegister ELSE Narrow(fields[i - 1], parts[i])
    IN  fields[Len(parts)]

GetRegister(o, fBitOk, strip, plus) ==
    LET r == Narrowed(o.parts)
    IN  IF /\ o.parts # <<>> /\ o.pre = strip /\ o.inc = plus
           /\ o.parts[1].c = "R" /\ o.parts[1].n <= 31
           /\ r.ok /\ (r.bit >= 0 => fBitOk)
           /\ (opCore = 0 => Len(o.parts) <= 2)
        THEN {[Type |-> IF r.bit >= 0 THEN "bit" ELSE "reg",
               Value |-> o.parts[1].n, Field |-> FieldOf(r.width, r.first),
               Bit |-> r.bit]}
        ELSE {}

GetReg(o) == GetRegister(o, FALSE, "", FALSE)
GetRegBit(o) == GetRegister(o, TRUE, "", FALSE)

GetImValue(o, low, high) ==
    LET flags == CheckTokenType(o)
        \* an operand that only looks like a register is no expression
    IN  IF (flags = {} /\ o.parts # <<>>) \/ flags \notin {{}, {"ADDR"}}
           \/ o.val \notin low .. high
        THEN {} ELSE {Imm(o.val)}

RegOrIm(o, high) == IF IsBase(o) THEN GetReg(o) ELSE GetImValue(o, 0, high)

(* GetConstant and GetR0offset: C0 .. C31 and B0 .. B3.                    *)
Indexed(o, letter, high, type) ==
    IF /\ Len(o.parts) = 1 /\ o.pre = "" /\ ~o.inc
       /\ o.parts[1].c = letter /\ o.parts[1].n <= high
    THEN {[Type |-> type, Value |-> o.parts[1].n, Field |-> 0, Bit |-> 0]}
    ELSE {}
GetConstant(o) == Indexed(o, "C", 31, "const")
GetR0offset(o) == Indexed(o, "B", 3, "r0")
CountOrR0(o) == IF IsBase(o) THEN GetR0offset(o) ELSE GetImValue(o, 1, 124)

(* GetJmpOffset and GetLoopOffset: distances, checked in pass 2.           *)
Distance(o, low, high) ==
    LET jmpoff == o.val - opOffset
    IN  IF o.parts # <<>> \/ (opPass = 2 /\ jmpoff \notin low .. high)
        THEN {} ELSE {[Imm(jmpoff) EXCEPT !.Type = "offset"]}
GetJmpOffset(o) == Distance(o, -512, 511)
GetLoopOffset(o) == Distance(o, 2, 255)

(* The field at a byte address, in the order of the register's bytes.      *)
FieldFor(addr, size) ==
    LET first == addr % 4
    IN  FieldOf(size, IF opBig THEN 4 - first - size ELSE first)

Offset2Reg(addr, size) ==
    IF addr + size > 128 \/ (size = 2 /\ addr % 4 = 3)
       \/ (size = 4 /\ addr % 4 # 0)
    THEN {} ELSE {Reg(addr \div 4, FieldFor(addr, size))}

-----------------------------------------------------------------------------
(* ProcessOp.  The operand that ends most words: a register or an 8 bit    *)
(* immediate.                                                              *)
RegBits(a, at) == Sh(a.Value, at) \cup Sh(a.Field, at + 5)
OpBits(a) == IF a.Type = "reg" THEN RegBits(a, 16) ELSE Sh(a.Value, 16) \cup Bit(24)
FieldWidth(f) == CASE f = 7 -> 4 [] f \in 4 .. 6 -> 2 [] f < 4 -> 1
FirstByte(f) == LET first == IF f = 7 THEN 0 ELSE f % 4
                IN  IF opBig THEN 4 - first - FieldWidth(f) ELSE first

AluCode == [ADD |-> 0, ADC |-> 1, SUB |-> 2, SUC |-> 3, LSL |-> 4, LSR |-> 5,
            RSB |-> 6, RSC |-> 7, AND |-> 8, OR |-> 9, XOR |-> 10, NOT |-> 11,
            MIN |-> 12, MAX |-> 13, CLR |-> 14, SET |-> 15, LMBD |-> 19,
            SCAN |-> 20,
            NOP0 |-> 80, NOP1 |-> 81, NOP2 |-> 82, NOP3 |-> 83, NOP4 |-> 84,
            NOP5 |-> 85, NOP6 |-> 86, NOP7 |-> 87, NOP8 |-> 88, NOP9 |-> 89,
            NOPA |-> 90, NOPB |-> 91, NOPC |-> 92, NOPD |-> 93, NOPE |-> 94,
            NOPF |-> 95]

Arithmetic(op, d, x, y) ==
    Sh(AluCode[op], 25) \cup RegBits(d, 0) \cup RegBits(x, 8) \cup OpBits(y)

Parsed(op, a) == {<<Arithmetic(op, d, x, y)>> :
                     d \in GetReg(a[1]), x \in GetReg(a[2]),
                     y \in RegOrIm(a[3], 255)}

ProcessAlu(op, a) ==
    IF \/ op = "LMBD" /\ opCore < 1
       \/ op \in NopOps /\ opCore < 3
    THEN {}
    ELSE IF Len(a) = 3 THEN Parsed(op, a)
    ELSE IF op = "NOT" /\ Len(a) = 2
    THEN {<<Arithmetic(op, d, x, Imm(0))>> : d \in GetReg(a[1]), x \in GetReg(a[2])}
    ELSE {}

(* CLR and SET take the bit as Rsrc.Tnn, Rdst.Tnn or a third operand.      *)
ProcessBit(op, a) ==
    CASE Len(a) = 3 -> Parsed(op, a)
      [] Len(a) = 1 ->
            {<<Arithmetic(op, d, d, Imm(d.Bit))>> :
                d \in {x \in GetRegBit(a[1]) : x.Type = "bit"}}
      [] Len(a) = 2 ->
            {<<IF x.Type = "bit" THEN Arithmetic(op, d, x, Imm(x.Bit))
               ELSE Arithmetic(op, d, d, x)>> :
                d \in GetReg(a[1]),
                x \in IF IsBase(a[2]) THEN GetRegBit(a[2])
                      ELSE GetImValue(a[2], 0, 31)}
      [] OTHER -> {}

Ldi(d, v) == Sh(36, 24) \cup RegBits(d, 0) \cup Sh(v, 8)

(* MOV of a value: one LDI, or two for a 32 bit register and more than 16  *)
(* bits; of a register: AND.                                               *)
MovImmediate(d, v) ==
    IF d.Field = 7 /\ v > 65535
    THEN <<Ldi([d EXCEPT !.Field = 6], v \div 65536),
           Ldi([d EXCEPT !.Field = 4], v % 65536)>>
    ELSE <<Ldi(d, v)>>

Most(d) == CASE FieldWidth(d.Field) = 1 -> 255 [] FieldWidth(d.Field) = 2 -> 65535
             [] OTHER -> 2147483647                    \* 2^32 - 1 in the code

ProcessMove(op, a) ==
    IF Len(a) # 2 THEN {}
    ELSE CASE op = "LDI" ->
                {<<Ldi(d, v.Value)>> : d \in GetReg(a[1]),
                                       v \in GetImValue(a[2], 0, 65535)}
           [] op = "MOV" /\ ~IsBase(a[2]) ->
                UNION {{MovImmediate(d, v.Value) : v \in GetImValue(a[2], 0, Most(d))}
                       : d \in GetReg(a[1])}
           [] op = "MOV" /\ IsBase(a[2]) ->
                {<<Arithmetic("AND", d, x, x)>> :
                    d \in GetReg(a[1]), x \in GetReg(a[2])}
           [] op = "SCAN" ->
                IF opCore # 1 THEN {}
                ELSE {<<Arithmetic(op, d, d, y)>> :
                         d \in {x \in GetReg(a[1]) : x.Field = 7},
                         y \in RegOrIm(a[2], 255)}

(* MVIB, MVIW and MVID move size bytes: a plain move is AND, and with a    *)
(* pointer (R1.b0 to R1.b3) on either side a word of its own.              *)
Shrink(size, x) ==
    [x EXCEPT !.Field = CASE size = 1 /\ @ \in {4, 7} -> 0
                          [] size = 1 /\ @ = 6 -> 2
                          [] size = 2 /\ @ = 7 -> 4
                          [] OTHER -> @]

IsPlain(o) == CheckTokenType(o) \in {{"BASE"}, {"PTR", "ADDR"}}
Mode(o) == IF ~(CheckTokenType(o) \in {{"PTR", "BASE"}, {"PTR", "BASE", "POSTINC"},
                                       {"PTR", "BASE", "PREDEC"}}) THEN 0
           ELSE IF o.inc THEN 2 ELSE IF o.pre = "*--" THEN 3 ELSE 1

MviOperand(o, size) ==
    IF CheckTokenType(o) = {"PTR", "ADDR"}
    THEN UNION {Offset2Reg(v.Value, size) :
                   v \in GetImValue([o EXCEPT !.pre = "&"], 0, 127)}
    ELSE GetRegister(o, FALSE, IF Mode(o) = 0 THEN "" ELSE o.pre,
                     Mode(o) # 0 /\ o.inc)

PointerOk(o, x) == Mode(o) # 0 => x.Value = 1 /\ x.Field <= 3

ProcessMvi(size, a) ==
    IF opCore < 1 \/ Len(a) # 2 THEN {}
    ELSE IF IsPlain(a[1]) /\ IsPlain(a[2])
    THEN {<<Arithmetic("AND", d, Shrink(size, x), Shrink(size, x))>> :
             d \in MviOperand(a[1], size), x \in MviOperand(a[2], size)}
    ELSE IF opCore < 2 \/ (Mode(a[1]) = 0 /\ Mode(a[2]) = 0) THEN {}
    ELSE {<<Sh(22, 25) \cup Sh(4 * Mode(a[1]) + Mode(a[2]), 21)
            \cup Sh(size \div 2, 16) \cup RegBits(d, 0) \cup RegBits(x, 8)>> :
             d \in {r \in MviOperand(a[1], size) : PointerOk(a[1], r)},
             x \in {r \in MviOperand(a[2], size) : PointerOk(a[2], r)}}

ProcessSleep(op, a) ==
    IF opCore < 1 THEN {}
    ELSE IF op = "HALT" THEN (IF a = <<>> THEN {<<Sh(21, 25)>>} ELSE {})
    ELSE IF Len(a) # 1 THEN {}
    ELSE {<<Sh(31, 25) \cup Sh(v.Value, 23)>>
          \o (IF opCore < 3 THEN <<Sh(8, 25)>> ELSE <<>>) :
             v \in GetImValue(a[1], 0, 1)}

-----------------------------------------------------------------------------
(* LBBO, SBBO, LBCO and SBCO: a burst from a byte of the register file.    *)
FileByte(x) == IF x.Type = "imm" THEN Sh(x.Value \div 4, 0) \cup Sh(x.Value % 4, 5)
               ELSE Sh(x.Value, 0) \cup Sh(FirstByte(x.Field), 5)
BurstCount(n) == IF n.Type = "r0" THEN n.Value + 124 ELSE n.Value - 1

BurstCode == [LBBO |-> 15, SBBO |-> 14, LBCO |-> 9, SBCO |-> 8]

ProcessBurst(op, a) ==
    IF Len(a) # 4 THEN {}
    ELSE {<<Sh(BurstCode[op], 28) \cup FileByte(d) \cup Sh(x.Value, 8)
            \cup OpBits(y)
            \cup Sh(BurstCount(n) \div 16, 25) \cup Sh((BurstCount(n) \div 2) % 8, 13)
            \cup Sh(BurstCount(n) % 2, 7)>> :
             d \in RegOrIm(a[1], 127),
             x \in IF op \in {"LBBO", "SBBO"}
                   THEN {r \in GetReg(a[2]) : r.Field = 7}
                   ELSE GetConstant(a[2]),
             y \in RegOrIm(a[3], 255), n \in CountOrR0(a[4])}

(* XIN, XOUT, XCHG and their V3 forms; FILL and ZERO are XIN of 254, 255.  *)
XfrCode == [XIN |-> 93, XOUT |-> 94, XCHG |-> 95,
            SXIN |-> 93, SXOUT |-> 94, SXCHG |-> 95]
Xfr(op, device, d, count) ==
    Sh(XfrCode[op], 23) \cup (IF op \in {"SXIN", "SXOUT", "SXCHG"} THEN Bit(14)
                              ELSE {})
    \cup FileByte(d) \cup Sh(device, 15) \cup Sh(count, 7)

ProcessXfr(op, a) ==
    IF opCore < (IF op \in {"SXIN", "SXOUT", "SXCHG"} THEN 3 ELSE 2)
       \/ Len(a) # 3
    THEN {}
    ELSE {<<Xfr(op, i.Value, d, BurstCount(n))>> :
             i \in GetImValue(a[1], 0, 253),
             d \in {x \in RegOrIm(a[2], 123) : ~(IsBase(a[2]) /\ x.Value = 31)},
             n \in CountOrR0(a[3])}

(* ZERO before V2: LDI of 0 into the largest field that fits, repeatedly.  *)
ClearSize(addr, left) == IF addr % 4 = 0 /\ left >= 4 THEN 4
                         ELSE IF addr % 4 < 3 /\ left >= 2 THEN 2 ELSE 1

ZeroMoves(addr, len) ==
    LET moves[left \in 0 .. len] ==
            IF left = 0 THEN <<>>
            ELSE LET a == addr + len - left
                     size == ClearSize(a, left)
                 IN  <<Ldi(Reg(a \div 4, FieldFor(a, size)), 0)>> \o moves[left - size]
    IN  moves[len]

ProcessFill(op, a) ==
    IF opCore < (IF op = "FILL" THEN 2 ELSE 1) \/ Len(a) # 2 THEN {}
    ELSE {IF op = "ZERO" /\ opCore < 2 THEN ZeroMoves(p[1].Value, p[2].Value)
          ELSE <<Xfr("XIN", IF op = "FILL" THEN 254 ELSE 255, p[1],
                     p[2].Value - 1)>> :
             p \in {q \in GetImValue(a[1], 0, 123) \X GetImValue(a[2], 0, 124) :
                       q[1].Value + q[2].Value <= 124 /\ q[2].Value > 0}}

-----------------------------------------------------------------------------
(* LFC and STC of the legacy core.  STC with two operands takes the top    *)
(* byte of a whole register, or 0.                                         *)
ProcessLegacy(op, a) ==
    IF opCore # 0 \/ Len(a) \notin (IF op = "LFC" THEN {2} ELSE {2, 3}) THEN {}
    ELSE {<<Sh(IF op = "LFC" THEN 11 ELSE 10, 28) \cup RegBits(r, 0)
            \cup Sh(v.Value, 8) \cup OpBits(y)>> :
             r \in GetReg(a[1]), v \in GetImValue(a[2], 0, 255),
             y \in IF Len(a) = 3 THEN RegOrIm(a[3], 255)
                   ELSE IF op = "LFC" THEN {Imm(0)}
                   ELSE {IF r2.Field = 7 THEN [r2 EXCEPT !.Field = 3] ELSE Imm(0)
                         : r2 \in GetReg(a[1])}}

(* JAL, CALL, JMP and RET; the return register is R30.w0 (Pasm models      *)
(* .setcallreg).                                                           *)
RetReg == Reg(30, 4)
ToBits(a) == IF a.Type = "reg" THEN RegBits(a, 16) ELSE Sh(a.Value, 8) \cup Bit(24)
Jal(d, to) == Sh(17, 25) \cup RegBits(d, 0) \cup ToBits(to)
Jmp(to) == Sh(16, 25) \cup ToBits(to)

ProcessJump(op, a) ==
    CASE op = "JAL" /\ Len(a) = 2 ->
            {<<Jal(d, to)>> : d \in GetReg(a[1]), to \in RegOrIm(a[2], 65535)}
      [] op = "CALL" /\ Len(a) = 1 -> {<<Jal(RetReg, to)>> : to \in RegOrIm(a[1], 65535)}
      [] op = "JMP" /\ Len(a) = 1 -> {<<Jmp(to)>> : to \in RegOrIm(a[1], 65535)}
      [] op = "RET" /\ Len(a) = 0 -> {<<Jmp(RetReg)>>}
      [] OTHER -> {}

ProcessLoop(op, a) ==
    IF opCore < 3 \/ Len(a) # 2 THEN {}
    ELSE {<<Sh(3, 28) \cup (IF op = "ILOOP" THEN Bit(15) ELSE {})
            \cup Sh(l.Value % 256, 0)
            \cup OpBits(IF n.Type = "imm" THEN Imm(n.Value - 1) ELSE n)>> :
             l \in GetLoopOffset(a[1]),
             n \in IF IsBase(a[2]) THEN GetReg(a[2]) ELSE GetImValue(a[2], 1, 256)}

(* The quick branches: a 10 bit distance in two pieces.                    *)
QbCode == [QBGT |-> 12, QBLT |-> 9, QBEQ |-> 10, QBGE |-> 14, QBLE |-> 11,
           QBNE |-> 13, QBA |-> 15, QBBS |-> 26, QBBC |-> 25,
           WBC |-> 26, WBS |-> 25]
(* Slip: nine bits of the distance instead of ten.                         *)
Short_Apart(off) == Sh(off % 256, 0) \cup Sh((off % 512) \div 256, 25)

Apart(off) == Sh(off % 256, 0) \cup Sh((off % 1024) \div 256, 25)
Qb(op, off, x, y) ==
    Sh(QbCode[op], 27) \cup Apart(off) \cup RegBits(x, 8) \cup OpBits(y)

ProcessBranch(op, a) ==
    CASE op = "QBA" /\ Len(a) = 1 ->
            {<<Sh(15, 27) \cup Apart(off.Value) \cup Bit(24)>> :
                off \in GetJmpOffset(a[1])}
      [] op # "QBA" /\ Len(a) = 3 ->
            {<<Qb(op, off.Value, x, y)>> : off \in GetJmpOffset(a[1]),
                x \in GetReg(a[2]), y \in RegOrIm(a[3], 255)}
      [] OTHER -> {}

(* The bit tests, and the waits, which branch to themselves: the bit is    *)
(* Rtest.Tnn or the next operand.                                          *)
Tested(a) ==
    IF Len(a) = 1
    THEN {<<x, Imm(x.Bit)>> : x \in {r \in GetRegBit(a[1]) : r.Type = "bit"}}
    ELSE {r \in GetRegBit(a[1]) : r.Type = "reg"} \X RegOrIm(a[2], 31)

ProcessBitTest(op, a) ==
    CASE op \in {"QBBS", "QBBC"} /\ Len(a) \in 2 .. 3 ->
            {<<Qb(op, off.Value, t[1], t[2])>> :
                off \in GetJmpOffset(a[1]), t \in Tested(Tail(a))}
      [] op \in {"WBS", "WBC"} /\ Len(a) \in 1 .. 2 ->
            {<<Qb(op, 0, t[1], t[2])>> : t \in Tested(a)}
      [] OTHER -> {}

ProcessOp(op, a) ==
    CASE op \in BitOps -> ProcessBit(op, a)
      [] op \in MoveOps -> ProcessMove(op, a)
      [] op \in AluOps -> ProcessAlu(op, a)
      [] op = "MVIB" -> ProcessMvi(1, a)
      [] op = "MVIW" -> ProcessMvi(2, a)
      [] op = "MVID" -> ProcessMvi(4, a)
      [] op \in {"HALT", "SLP"} -> ProcessSleep(op, a)
      [] op \in BurstOps -> ProcessBurst(op, a)
      [] op \in XfrOps -> ProcessXfr(op, a)
      [] op \in {"FILL", "ZERO"} -> ProcessFill(op, a)
      [] op \in {"LFC", "STC"} -> ProcessLegacy(op, a)
      [] op \in JumpOps -> ProcessJump(op, a)
      [] op \in {"LOOP", "ILOOP"} -> ProcessLoop(op, a)
      [] op \in BitTestOps -> ProcessBitTest(op, a)
      [] op \in BranchOps -> ProcessBranch(op, a)

OpInit == /\ opCore = 1 /\ opBig = FALSE /\ opPass = 1 /\ opOffset = 8
          /\ inst = <<>> /\ answer = "none" /\ words = <<>>

Parse(i, core, big, pass, offset) ==
    /\ inst' = i /\ opCore' = core /\ opBig' = big /\ opPass' = pass
    /\ opOffset' = offset /\ answer' = "read"
    /\ UNCHANGED words

Assemble ==
    /\ answer = "read"
    /\ LET results == ProcessOp(inst.op, inst.args)
       IN  IF results = {} THEN answer' = "error" /\ UNCHANGED words
           ELSE answer' = "words" /\ words' = CHOOSE w \in results : TRUE
    /\ UNCHANGED <<opCore, opBig, opPass, opOffset, inst>>

OpNext == \/ /\ answer = "none"
             /\ \E i \in Instructions, core \in 0 .. 3, big \in BOOLEAN,
                   pass \in 1 .. 2, offset \in OpOffsets :
                   Parse(i, core, big, pass, offset)
          \/ Assemble

OpSpec == OpInit /\ [][OpNext]_opVars

-----------------------------------------------------------------------------
(* What the core reads in a word: the operation, and the operands by slot. *)
Read(w, from, n) == Number(Slice(w, from, n))

Operation(w) ==
    LET top == Read(w, 25, 7) five == Read(w, 27, 5) four == Read(w, 28, 4)
        named(f, v) == {op \in DOMAIN f : f[op] = v}
    IN  CASE top \in 0 .. 15 \cup {19, 20} -> named(AluCode, top)
          [] top \in {16, 17} -> IF top = 16 THEN {"JMP", "RET"} ELSE {"JAL", "CALL"}
          [] top = 18 -> {"LDI"}
          [] top = 21 -> {"HALT"}
          [] top = 22 -> {<<"MVIB", "MVIW", "MVID">>[1 + Read(w, 16, 2)]}
          [] top = 23 -> IF Read(w, 15, 8) >= 254 THEN {"FILL", "ZERO"}
                         ELSE {op \in DOMAIN XfrCode : XfrCode[op] = Read(w, 23, 7)
                                /\ (14 \in w) = (op \in {"SXIN", "SXOUT", "SXCHG"})}
          [] top = 24 -> {IF 15 \in w THEN "ILOOP" ELSE "LOOP"}
          [] top = 31 -> {"SLP"}
          [] five \in 9 .. 15 \cup {25, 26} -> named(QbCode, five)
          [] four \in {8, 9, 14, 15} -> named(BurstCode, four)
          [] opCore = 0 /\ four \in {10, 11} -> {IF four = 10 THEN "STC" ELSE "LFC"}
          [] OTHER -> named(AluCode, top)

(* The operands an instruction names, by slot.                             *)
Slots(op) ==
    CASE op \in DOMAIN AluCode \ {"SCAN"} -> <<"d", "x", "y">>
      [] op \in DOMAIN QbCode \ {"QBA", "WBC", "WBS"} -> <<"off", "x", "y">>
      [] op \in BurstOps -> <<"file", "base", "y", "count">>
      [] op \in XfrOps -> <<"device", "file", "xcount">>
      [] op \in {"FILL", "ZERO"} -> <<"file", "xcount">>
      [] op \in {"LOOP", "ILOOP"} -> <<"loop", "n">>
      [] op \in {"WBS", "WBC"} -> <<"x", "y">>
      [] op = "QBA" -> <<"off">>
      [] op = "LDI" -> <<"d", "value">>
      [] op = "LFC" -> <<"d", "c">>
      [] op = "STC" -> <<"d", "c", "y">>
      [] op = "JAL" -> <<"d", "to">>
      [] op \in {"JMP", "CALL"} -> <<"to">>
      [] OTHER -> <<>>

Slot(w, name) ==
    LET y == IF 24 \in w THEN <<Read(w, 16, 8)>>
             ELSE <<Read(w, 16, 5), Read(w, 21, 3)>>
        off == Read(w, 0, 8) + 256 * Read(w, 25, 2)
        burst == 16 * Read(w, 25, 3) + 2 * Read(w, 13, 3) + Read(w, 7, 1)
        count(n) == IF n < 124 THEN <<n + 1>> ELSE <<"r0", n - 124>>
    IN  CASE name = "d" -> <<Read(w, 0, 5), Read(w, 5, 3)>>
          [] name = "x" -> <<Read(w, 8, 5), Read(w, 13, 3)>>
          [] name = "y" -> y
          [] name = "n" -> IF 24 \in w THEN <<Read(w, 16, 8) + 1>> ELSE y
          [] name = "off" -> <<opOffset + IF off < 512 THEN off ELSE off - 1024>>
          [] name = "loop" -> <<opOffset + Read(w, 0, 8)>>
          [] name = "file" -> <<4 * Read(w, 0, 5) + Read(w, 5, 2)>>
          [] name = "base" -> <<Read(w, 8, 5)>>
          [] name = "count" -> count(burst)
          [] name = "xcount" -> count(Read(w, 7, 7))
          [] name = "device" -> <<Read(w, 15, 8)>>
          [] name = "value" -> <<Read(w, 8, 16)>>
          [] name = "c" -> <<Read(w, 8, 8)>>
          [] name = "to" -> IF 24 \in w THEN <<Read(w, 8, 16)>> ELSE y

(* What an operand says, in a slot.                                        *)
Says(o, name) ==
    IF o.parts = <<>> \/ o.pre = "&" THEN <<o.val>>
    ELSE LET r == CHOOSE x \in GetRegBit(o) \cup GetConstant(o) \cup GetR0offset(o) : TRUE
         IN  CASE name = "file" -> <<4 * r.Value + FirstByte(r.Field)>>
               [] name = "base" -> <<r.Value>>
               [] name \in {"count", "xcount"} -> <<"r0", r.Value>>
               [] OTHER -> <<r.Value, r.Field>>

(* The operations an instruction is spelled with.                          *)
Spelled(op) ==
    CASE op = "MOV" -> {"AND", "LDI"}
      [] op \in {"MVIB", "MVIW", "MVID"} -> {op, "AND"}
      [] op = "ZERO" /\ opCore < 2 -> {"LDI"}
      [] OTHER -> {op}

Assembled == answer = "words" /\ opPass = 2

(* No field of a word runs into another: the core reads the operation and  *)
(* each operand that the instruction names, for every core and endianness; *)
(* a branch, the address it names, from either end of its range.           *)
WordsSayInstruction ==
    Assembled /\ Len(words) = 1 =>
        LET op == inst.op
            a == inst.args
        IN  /\ Operation(words[1]) \cap Spelled(op) # {}
            /\ Len(a) = Len(Slots(op)) /\ "LDI" \notin Spelled(op) \ {op}
               => \A i \in 1 .. Len(a) :
                      Slot(words[1], Slots(op)[i]) = Says(a[i], Slots(op)[i])

(* The bit of Rnn.Tbb is the immediate of the word.                        *)
BitOperandsKept ==
    Assembled /\ Len(words) = 1 =>
        \A i \in 1 .. Len(inst.args) :
            \A r \in GetRegBit(inst.args[i]) :
                r.Type = "bit" => Slot(words[1], "y") = <<r.Bit>>

BytesCleared(w) ==
    LET f == Read(w, 5, 3)
    IN  {4 * Read(w, 0, 5) + FirstByte(f) + k : k \in 0 .. FieldWidth(f) - 1}

(* ZERO before V2 clears the bytes it names, each once, and no others,     *)
(* whatever their alignment and the endianness.                            *)
ZeroClearsItsBytes ==
    Assembled /\ inst.op = "ZERO" /\ opCore < 2 =>
        LET addr == inst.args[1].val len == inst.args[2].val
        IN  /\ UNION {BytesCleared(words[i]) : i \in DOMAIN words} = addr .. addr + len - 1
            /\ \A i, j \in DOMAIN words :
                   i # j => BytesCleared(words[i]) \cap BytesCleared(words[j]) = {}

(* The LDIs of a MOV leave the whole value in the register.                *)
MoveLoadsValue ==
    Assembled /\ inst.op = "MOV" /\ inst.args[2].parts = <<>> =>
        LET value(w) == Slot(w, "value")[1]
            d == Says(inst.args[1], "d")
        IN  IF Len(words) = 1
            THEN value(words[1]) = inst.args[2].val /\ Slot(words[1], "d") = d
            ELSE /\ value(words[1]) * 65536 + value(words[2]) = inst.args[2].val
                 /\ d[2] = 7 /\ Slot(words[1], "d") = <<d[1], 6>>
                 /\ Slot(words[2], "d") = <<d[1], 4>>

MoveSize == CASE inst.op = "MVIB" -> 1 [] inst.op = "MVIW" -> 2 [] OTHER -> 4
PlainMove == Assembled /\ inst.op \in {"MVIB", "MVIW", "MVID"}
               /\ Operation(words[1]) = {"AND"}
               /\ \A i \in 1 .. 2 : CheckTokenType(inst.args[i]) = {"BASE"}

(* A plain MVIx reads at most the bytes it moves, except MVIB of the middle*)
(* half Rnn.w1, which the code does not narrow.                            *)
MoveReadsItsSize ==
    PlainMove /\ ~(inst.op = "MVIB" /\ Says(inst.args[2], "x")[2] = 5) =>
        FieldWidth(Slot(words[1], "x")[2]) <= MoveSize

(* The words an instruction is assembled to make the core do what the      *)
(* instruction says.                                                       *)
WordsDoInstruction ==
    /\ WordsSayInstruction /\ BitOperandsKept
    /\ ZeroClearsItsBytes /\ MoveLoadsValue /\ MoveReadsItsSize
=============================================================================
