-------------------------------- MODULE Pasm --------------------------------
(***************************************************************************)
(* The two passes of the PRU assembler (pasm.c, pasmdot.c) over one text:  *)
(* labels, instructions, .origin, .entrypoint, .setcallreg, .codeword,     *)
(* .proc and .ret, the words of ProgramImage and the decision to write     *)
(* them out.  Both passes read the same text, chosen line by line in the   *)
(* first one.                                                              *)
(*                                                                         *)
(* A line is [label, cmd, exp]: a label or None, a command, and an operand *)
(* [label, scale, base] whose value is base + scale * (the label's Offset).*)
(* An instruction whose size or range does not depend on an operand is     *)
(* "op".  A word is named by its command and its operand; PasmOp models    *)
(* the encodings.  The length limits of names and lines are left out.      *)
(***************************************************************************)
EXTENDS Integers, Sequences, FiniteSets

CONSTANTS PasmLines,        \* the lines a text is made of
          PasmTextMax,      \* bound: lines of a text
          PasmErrorMax,     \* 25 in the code
          MAX_PROGRAM,      \* 16384 in the code
          MaxImmediate,     \* 65535 in the code
          JmpReach,         \* 512 in the code
          None

CONSTANT PasmCores          \* the core versions tried, a subset of 0 .. 3

ASSUME PasmAssumption ==
    /\ PasmTextMax \in Nat /\ PasmErrorMax \in Nat \ {0}
    /\ MAX_PROGRAM \in Nat /\ MAX_PROGRAM > 9
    /\ PasmCores \subseteq 0 .. 3
    /\ \A ln \in PasmLines :
          /\ ln.cmd \in {"none", "op", "mov", "qba", "jmp", "call", "ret", "bad",
                        ".origin", ".entrypoint", ".setcallreg", ".ret",
                        ".codeword", ".proc"}
          /\ ln.exp.scale \in Int /\ ln.exp.base \in Int
          /\ ln.cmd = ".setcallreg" => ln.exp.base \in Nat      \* a register

VARIABLES Core, Pass, state, asm, program, pos, CodeOffsetPass1,
          marks, at, moved      \* what the properties refer to, see Observe

pasmVars == <<Core, Pass, state, asm, program, pos, CodeOffsetPass1,
              marks, at, moved>>

DefaultReg == 30
Empty == [x \in {} |-> x]
With(f, x, v) == [y \in DOMAIN f \cup {x} |-> IF y = x THEN v ELSE f[y]]

(* The globals of the assembler engine; image is the part of ProgramImage  *)
(* written so far, ok the result of the line.                              *)
StartOfPass(s) == [s EXCEPT !.CodeOffset = -1, !.HaveEntry = FALSE,
                            !.EntryPoint = -1, !.ok = TRUE]
Cleared == [CodeOffset |-> -1, HaveEntry |-> FALSE, EntryPoint |-> -1,
            Errors |-> 0, FatalError |-> FALSE, labels |-> Empty,
            image |-> Empty, RetReg |-> DefaultReg, regSet |-> FALSE,
            ok |-> TRUE]

Report(s) == [s EXCEPT !.Errors = @ + 1]
Refuse(s) == [Report(s) EXCEPT !.ok = FALSE]

Write(s, kind, arg, from) ==
    [s EXCEPT !.image = With(@, s.CodeOffset,
                             [kind |-> kind, arg |-> arg, line |-> pos + 1,
                              pass |-> Pass, from |-> from]),
              !.CodeOffset = @ + 1]

(* ValidateOffset: the first use of the offset without .origin takes 8,    *)
(* where the legacy core gets a jump over it.                              *)
ValidateOffset(s) ==
    LET t == IF s.CodeOffset # -1 THEN s
             ELSE [s EXCEPT !.CodeOffset = 8,
                            !.EntryPoint = IF @ < 0 THEN 8 ELSE @]
        u == IF s.CodeOffset = -1 /\ Core = 0
             THEN Write(t, "legacy", 9, 8) ELSE t
    IN  IF u.CodeOffset >= MAX_PROGRAM
        THEN [Report(u) EXCEPT !.FatalError = TRUE, !.ok = FALSE] ELSE u

(* Slip: the word is stored although ValidateOffset failed.                *)
Careless_GenOp(s, kind, arg) == Write(ValidateOffset(s), kind, arg, s.CodeOffset)

(* GenOp: its failure is not the line's.                                   *)
GenOp(s, kind, arg) ==
    LET t == ValidateOffset(s)
    IN  IF t.CodeOffset >= MAX_PROGRAM THEN [t EXCEPT !.ok = s.ok]
        ELSE Write(t, kind, arg, s.CodeOffset)

(* An instruction that cannot be assembled leaves 0xFFFFFFFF.              *)
Illegal(s) == GenOp(Refuse(s), "error", 0)

LabelCreate(s, name) ==
    IF name \in DOMAIN s.labels THEN Report(s)      \* CheckName
    ELSE [s EXCEPT !.labels = With(@, name, s.CodeOffset)]

LabelLine(s, name) ==
    LET t == ValidateOffset(s)
    IN  IF t.ok /\ Pass = 1 THEN LabelCreate(t, name) ELSE t

(* Expression: a label not created counts 0 in pass 1 and is an error in   *)
(* pass 2.                                                                 *)
Known(s, e) == e.label = None \/ e.label \in DOMAIN s.labels \/ Pass = 1
Value(s, e) == e.base + IF e.label \in DOMAIN s.labels
                        THEN e.scale * s.labels[e.label] ELSE 0

-----------------------------------------------------------------------------
(* ProcessOp.  A value below 0 is a word above every limit.                *)
ImmediateOk(s, e) == Known(s, e) /\ Value(s, e) \in 0 .. MaxImmediate

Mov(s, e) ==
    LET v == Value(s, e)
    IN  IF ~Known(s, e) THEN Illegal(s)
        ELSE IF v \in 0 .. MaxImmediate THEN GenOp(s, "ldi", v)
        ELSE GenOp(GenOp(s, "ldi high", v), "ldi low", v)

QuickBranch(s, e) ==                                     \* GetJmpOffset
    LET jmpoff == Value(s, e) - s.CodeOffset
    IN  IF ~Known(s, e) \/ (Pass = 2 /\ jmpoff \notin -JmpReach .. JmpReach - 1)
        THEN Illegal(s) ELSE GenOp(s, "branch", jmpoff)

JumpOrCall(s, cmd, e) ==
    IF ~ImmediateOk(s, e) THEN Illegal(s)
    ELSE GenOp(s, cmd, IF cmd = "call" THEN s.RetReg ELSE Value(s, e))

(* DotCommand: .origin, .entrypoint, .setcallreg, .ret and .codeword.      *)
Origin(s, e) ==
    LET val == Value(s, e)
    IN  IF ~Known(s, e) \/ Core = 0 \/ val < s.CodeOffset THEN Refuse(s)
        ELSE [s EXCEPT !.EntryPoint = IF @ < 0 THEN val ELSE @,
                       !.CodeOffset = val]

SetEntry(s, e) ==
    IF ~Known(s, e) \/ Core = 0 \/ s.HaveEntry THEN Refuse(s)
    ELSE [s EXCEPT !.EntryPoint = Value(s, e), !.HaveEntry = TRUE]

SetCallReg(s, reg) ==
    IF Core = 0 \/ (Pass = 1 /\ s.regSet) \/ s.CodeOffset >= 0 \/ reg > 30
    THEN Refuse(s) ELSE [s EXCEPT !.RetReg = reg, !.regSet = TRUE]

DotRet(s) == IF s.regSet \/ Core > 1 THEN Refuse(s)
             ELSE GenOp(s, "return", DefaultReg)         \* jmp r30.w0

CodeWord(s, e) == IF Known(s, e) THEN GenOp(s, "word", Value(s, e))
                  ELSE Refuse(s)

(* ProcessSourceLine, after ParseSourceLine: the label, then the command;  *)
(* the label that .proc makes is a line processed again.                   *)
Command(s, ln) ==
    CASE ln.cmd = "none" -> s
      [] ln.cmd = "op" -> GenOp(s, "op", 0)
      [] ln.cmd = "mov" -> Mov(s, ln.exp)
      [] ln.cmd = "qba" -> QuickBranch(s, ln.exp)
      [] ln.cmd \in {"jmp", "call"} -> JumpOrCall(s, ln.cmd, ln.exp)
      [] ln.cmd = "ret" -> GenOp(s, "return", s.RetReg)
      [] ln.cmd = "bad" -> Illegal(s)
      [] ln.cmd = ".origin" -> Origin(s, ln.exp)
      [] ln.cmd = ".entrypoint" -> SetEntry(s, ln.exp)
      [] ln.cmd = ".setcallreg" -> SetCallReg(s, ln.exp.base)
      [] ln.cmd = ".ret" -> DotRet(s)
      [] ln.cmd = ".codeword" -> CodeWord(s, ln.exp)
      [] ln.cmd = ".proc" -> LabelLine(s, <<ln.exp.label>>)

ProcessSourceLine(s, ln) ==
    LET t == IF ln.label = None THEN s ELSE LabelLine(s, ln.label)
    IN  IF t.ok THEN Command(t, ln) ELSE t

-----------------------------------------------------------------------------
PasmInit ==
    /\ Core \in PasmCores
    /\ Pass = 0 /\ state = "between" /\ asm = Cleared
    /\ program = <<>> /\ pos = 0 /\ CodeOffsetPass1 = 0
    /\ marks = <<>> /\ at = Empty /\ moved = FALSE

(* main's loop over the passes.                                            *)
BeginPass ==
    /\ state = "between" /\ asm.Errors = 0 /\ Pass < 2
    /\ Pass' = Pass + 1 /\ state' = "lines"
    /\ asm' = StartOfPass(asm)
    /\ pos' = 0 /\ at' = Empty
    /\ UNCHANGED <<Core, program, CodeOffsetPass1, marks, moved>>

Aborting == asm.FatalError \/ asm.Errors >= PasmErrorMax

(* What the properties refer to: where each label stands in this pass, the *)
(* offsets after each line of pass 1, whether pass 2 has others.           *)
Observe(s, ln) ==
    LET names == ({ln.label} \ {None})
                 \cup IF ln.cmd = ".proc" THEN {<<ln.exp.label>>} ELSE {}
        start == ValidateOffset(asm).CodeOffset
    IN  /\ at' = [l \in DOMAIN at \cup names |->
                    IF l \in names THEN start ELSE at[l]]
        /\ marks' = IF Pass = 1 THEN Append(marks, s.CodeOffset) ELSE marks
        /\ moved' = (moved \/ (Pass = 2 /\ marks[pos + 1] # s.CodeOffset))

(* One line of ProcessSourceFile's loop; in pass 2 the first line that     *)
(* fails ends it.                                                          *)
AssembleLine(ln) ==
    LET s == ProcessSourceLine([asm EXCEPT !.ok = TRUE], ln)
    IN  /\ state = "lines" /\ ~Aborting
        /\ IF Pass = 1 THEN /\ pos < PasmTextMax
                            /\ program' = Append(program, ln)
           ELSE /\ pos < Len(program) /\ ln = program[pos + 1]
                /\ UNCHANGED program
        /\ asm' = s /\ pos' = pos + 1
        /\ state' = IF Pass = 2 /\ ~s.ok THEN "end" ELSE "lines"
        /\ Observe(s, ln)
        /\ UNCHANGED <<Core, Pass, CodeOffsetPass1>>

EndOfText ==
    /\ state = "lines"
    /\ Aborting \/ Pass = 1 \/ pos = Len(program)
    /\ state' = "end"
    /\ UNCHANGED <<Core, Pass, asm, program, pos, CodeOffsetPass1,
                   marks, at, moved>>

EndPass ==
    /\ state = "end"
    /\ state' = "between"
    /\ CodeOffsetPass1' = IF Pass = 1 THEN asm.CodeOffset ELSE CodeOffsetPass1
    /\ UNCHANGED <<Core, Pass, asm, program, pos, marks, at, moved>>

(* After the passes: the offsets are compared, and the image is written    *)
(* unless there was an error or nothing to write.                          *)
Finish ==
    /\ state = "between" /\ (asm.Errors > 0 \/ Pass = 2)
    /\ LET s == IF CodeOffsetPass1 # asm.CodeOffset THEN Report(asm) ELSE asm
       IN  /\ asm' = s
           /\ state' = IF s.Errors > 0 \/ s.CodeOffset <= 0
                       THEN "refused" ELSE "written"
    /\ UNCHANGED <<Core, Pass, program, pos, CodeOffsetPass1,
                   marks, at, moved>>

PasmNext == \/ BeginPass
            \/ \E ln \in PasmLines : AssembleLine(ln)
            \/ EndOfText
            \/ EndPass
            \/ Finish

PasmSpec == PasmInit /\ [][PasmNext]_pasmVars

-----------------------------------------------------------------------------
PasmTypeOK ==
    /\ Core \in PasmCores /\ Pass \in 0 .. 2
    /\ state \in {"between", "lines", "end", "refused", "written"}
    /\ asm.CodeOffset \in Int /\ asm.EntryPoint \in Int
    /\ asm.Errors \in Nat /\ asm.RetReg \in 0 .. 30
    /\ DOMAIN asm.image \subseteq Int
    /\ pos \in 0 .. PasmTextMax /\ Len(program) <= PasmTextMax

Addresses == {a \in DOMAIN asm.image : asm.image[a].pass = 2}
Produces(ln) == ln.cmd \notin {"none", ".origin", ".entrypoint", ".setcallreg",
                               ".proc"}

(* Nothing is written outside ProgramImage, wherever .origin puts the code *)
(* (ValidateOffset).                                                       *)
WordsWithinImage == DOMAIN asm.image \subseteq 0 .. MAX_PROGRAM - 1

(* Every instruction of the text is in the image that is written, and no   *)
(* later one took its place, whatever .origin did.                         *)
EveryInstructionInImage ==
    state = "written" =>
        /\ \A i \in 1 .. Len(program) :
               Produces(program[i]) =>
                   \E a \in Addresses : asm.image[a].line = i
        /\ \A a, b \in Addresses :
               a < b => asm.image[a].line <= asm.image[b].line
        /\ Addresses \subseteq 0 .. asm.CodeOffset - 1

(* Labels are created in pass 1 only: in the image that is written every   *)
(* label has the offset at which it stands, if no line changed its size.   *)
LabelsWhereTheyStand ==
    state = "written" /\ ~moved =>
        /\ DOMAIN at = DOMAIN asm.labels
        /\ \A l \in DOMAIN at : at[l] = asm.labels[l]

(* A call stores its return address where the returns look for it, in all  *)
(* of the image: .setcallreg is refused after code, .ret after .setcallreg.*)
CallsReturn ==
    state = "written" =>
        Cardinality({asm.image[a].arg : a \in {b \in Addresses :
            asm.image[b].kind \in {"call", "return"}}}) <= 1

Target(a) == program[asm.image[a].line].exp
BranchAt(a) == asm.image[a].kind = "branch" /\ Target(a).scale = 1
                 /\ Target(a).label # None
Reaches(a) == a + asm.image[a].arg = at[Target(a).label] + Target(a).base

(* A quick branch reaches the label it names (if no line changed its size),*)
(* except when it is the first instruction, with no .origin and no label   *)
(* before it: GetJmpOffset then subtracts the offset -1.                   *)
BranchesReachTargets ==
    state = "written" /\ ~moved =>
        \A a \in Addresses :
            BranchAt(a) /\ asm.image[a].from # -1 => Reaches(a)

(* "QBA JmpDest": every quick branch reaches its destination.  It does not:*)
(* see BranchesReachTargets.                                               *)
BranchReachesTarget ==
    state = "written" /\ ~moved => \A a \in Addresses : BranchAt(a) => Reaches(a)

(* The image written is the whole program, within the memory there is.     *)
ImageHoldsProgram == PasmTypeOK /\ WordsWithinImage /\ EveryInstructionInImage

(* Labels, branches and calls of that image lead where the text says.      *)
ControlGoesWhereTold ==
    LabelsWhereTheyStand /\ BranchesReachTargets /\ CallsReturn

(* The image is the program the source describes, instruction by           *)
(* instruction and target by target.                                       *)
ImageIsProgram == ImageHoldsProgram /\ ControlGoesWhereTold
=============================================================================
