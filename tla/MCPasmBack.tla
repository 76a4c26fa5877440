----------------------------- MODULE MCPasmBack -----------------------------
(* The modules of the assembler that turn instruction lines into the image *)
(* and the output files: one of them takes all the steps of a behaviour.   *)
EXTENDS PasmExp, PasmOp, Pasm, PasmOutput, PasmPath

VARIABLE part
backVars == <<part, expVars, opVars, pasmVars, outVars, pathVars>>

-----------------------------------------------------------------------------
(* PasmExp: every short text; every pair of operators of equal or          *)
(* different precedence; minus signs next to parentheses.                  *)
MCNums == ("0" :> 0) @@ ("2" :> 2) @@ ("3" :> 3) @@ ("13" :> 13)
MCLab == "L" :> 5
Infix == {"*", "/", "-", "<<", ">>", "&", "^", "|", "%", "+"}
MCTexts ==
    UNION {[1 .. n -> {"0", "3", "L", "U", "-", "*", "+", "(", ")", "~", "<<"}] :
              n \in 1 .. 3}
    \cup {<<"13", o1, "2", o2, "3", o3, "2">> : o1, o2, o3 \in Infix}
    \cup {<<"2", o1, "0", o2, "3">> : o1, o2 \in {"/", "%", "-"}}
    \cup {<<a, "-", "(", b, "+", c, ")", "*", d>> : a, b, c, d \in {"0", "2", "3"}}
Part == {"W", "B"} \X (0 .. 3)
MCFieldTexts ==
    {<<<<"R", n>>>> \o t : n \in {0, 31, 32},
        t \in {<<>>} \cup {<<x>> : x \in Part} \cup {<<x, y>> : x, y \in Part}}

-----------------------------------------------------------------------------
(* PasmOp: for every family of instructions, operands within and just      *)
(* outside what it accepts.                                                *)
P(l, n) == [c |-> l, n |-> n]
Operand(pre, parts, inc, v) == [pre |-> pre, parts |-> parts, inc |-> inc, val |-> v]
E(v) == Operand("", <<>>, FALSE, v)
R(parts) == Operand("", parts, FALSE, 0)
X(pre, parts, v) == Operand(pre, parts, FALSE, v)

Regs == {R(<<P("R", 5)>>), R(<<P("R", 1), P("W", 1)>>), R(<<P("R", 1), P("B", 3)>>),
         R(<<P("R", 29), P("W", 2), P("B", 1)>>)}
Whole == R(<<P("R", 5)>>)
BitRegs == {R(<<P("R", 3), P("T", 31)>>),
            R(<<P("R", 3), P("W", 1), P("T", 15)>>)}
BadRegs == {R(<<P("R", 32)>>), R(<<P("R", 3), P("W", 3)>>),
            R(<<P("R", 3), P("B", 2), P("B", 1)>>),
            R(<<P("R", 3), P("B", 0), P("T", 8)>>)}
Amp == X("&", <<P("R", 2), P("W", 1)>>, 9)
I(op, args) == [op |-> op, args |-> args]
Ys == {Whole, R(<<P("R", 1), P("W", 1)>>), E(0), E(31), E(255), E(256), Amp}

Ops0 == {I(op, <<>>) : op \in {"HALT", "RET", "SLP", "ADD"}}
Ops1 == {I(op, <<y>>) : op \in {"CLR", "SET", "SLP", "JMP", "CALL", "WBS", "WBC", "HALT"},
                        y \in {Whole, E(1), E(65535), E(65536)} \cup BitRegs \cup BadRegs}
Ops2 == {I(op, <<d, y>>) :
            op \in {"MOV", "LDI", "SCAN", "NOT", "CLR", "SET", "JAL", "LFC", "STC"},
            d \in Regs \cup BadRegs,
            y \in Ys \cup BitRegs \cup {E(65535), E(65536), E(123456789)}}
Ops3 == {I(op, <<d, x, y>>) :
            op \in {"ADD", "RSC", "SET", "LMBD", "NOP0", "NOPF", "MAX"},
            d \in Regs, x \in Regs \cup BadRegs, y \in Ys}
MviOperands ==
    {Whole, R(<<P("R", 6), P("W", 0)>>), R(<<P("R", 6), P("W", 2)>>),
     R(<<P("R", 1), P("B", 2)>>), X("*&", <<P("R", 2)>>, 9),
     X("*&", <<P("R", 2)>>, 12), X("*&", <<P("R", 31)>>, 126),
     X("*", <<P("R", 2)>>, 0)}
    \cup {Operand(pre, <<P("R", 1), P("B", 2)>>, inc, 6) :
             pre \in {"*", "*--", "&"}, inc \in BOOLEAN}
OpsMvi == {I(op, <<d, x>>) : op \in {"MVIB", "MVIW", "MVID"},
                             d \in MviOperands, x \in MviOperands}
B0(n) == R(<<P("B", n)>>)
Counts == {E(0), E(1), E(16), E(124), E(125), B0(0), B0(3), B0(4)}
OpsBurst ==
    {I(op, <<d, x, y, n>>) : op \in {"LBBO", "SBCO"},
        d \in {Amp, Whole, R(<<P("R", 1), P("B", 3)>>)},
        x \in {Whole, R(<<P("R", 1), P("W", 1)>>), R(<<P("C", 31)>>), R(<<P("C", 32)>>)},
        y \in {E(0), E(255), Whole}, n \in Counts}
OpsXfr == {I(op, <<E(i), d, n>>) : op \in {"XIN", "SXCHG"}, i \in {0, 253, 254},
              d \in {Amp, Whole, R(<<P("R", 31)>>), R(<<P("R", 1), P("B", 3)>>)},
              n \in Counts}
OpsFill == {I(op, <<E(a), E(n)>>) : op \in {"FILL", "ZERO"},
               a \in 0 .. 5 \cup {118, 123, 124}, n \in 0 .. 7 \cup {124, 125}}
Dests == {87, 88, 600, 601, 602, 855, 856, 1111, 1112}
OpsBranch ==
    {I("QBA", <<E(t)>>) : t \in Dests}
    \cup {I(op, <<E(t), x, y>>) : op \in {"QBGT", "QBNE", "QBBS", "QBBC"},
             t \in Dests, x \in {Whole, R(<<P("R", 1), P("W", 1)>>)},
             y \in {E(31), E(32), E(255), Whole}}
    \cup {I(op, <<E(t), y>>) : op \in {"QBBS", "QBBC"}, t \in {88, 1111},
             y \in BitRegs}
    \cup {I(op, <<E(t), n>>) : op \in {"LOOP", "ILOOP"}, t \in Dests,
             n \in {E(0), E(1), E(256), E(257), Whole}}
MCInstructions ==
    Ops0 \cup Ops1 \cup Ops2 \cup Ops3 \cup OpsMvi \cup OpsBurst \cup OpsXfr
    \cup OpsFill \cup OpsBranch
    \cup {I("STC", <<d, E(255), y>>) : d \in Regs, y \in {Whole, E(7)}}

-----------------------------------------------------------------------------
(* Pasm: instructions of one word or, by the size of their value, of one   *)
(* or two; labels before and after their use; every dot command.           *)
CONSTANTS F, L, G
Ex(label, scale, base) == [label |-> label, scale |-> scale, base |-> base]
Ln(label, cmd, exp) == [label |-> label, cmd |-> cmd, exp |-> exp]
Const(n) == Ex(None, 1, n)
To(label) == Ex(label, 1, 0)
MCPasmLines ==
    {Ln(F, "op", Const(0)), Ln(None, "op", Const(0)),
     Ln(None, "mov", Ex(F, 2, 0)), Ln(L, "mov", Ex(F, -1, 16)),
     Ln(None, "qba", To(F)), Ln(None, "qba", Const(25)), Ln(L, "qba", To(L)),
     Ln(None, "jmp", To(F)),
     Ln(None, ".origin", Const(10)), Ln(None, ".origin", Const(13)),
     Ln(None, ".entrypoint", To(F)), Ln(None, ".setcallreg", Const(29)),
     Ln(None, ".setcallreg", Const(31)),
     Ln(F, "call", To(F)), Ln(None, "ret", Const(0)), Ln(None, ".ret", Const(0)),
     Ln(None, "bad", Const(0)), Ln(None, ".codeword", Const(7)),
     Ln(L, ".proc", To(G)), Ln(L, "none", Const(0))}

-----------------------------------------------------------------------------
(* PasmOutput: flags of every kind, images with holes.                     *)
FileArg(d, e) == [file |-> TRUE, dot |-> d, exists |-> e, flags |-> <<>>]
FlagArg(s) == [file |-> FALSE, dot |-> FALSE, exists |-> FALSE, flags |-> s]
MCArguments ==
    {FileArg(FALSE, TRUE), FileArg(TRUE, TRUE), FileArg(FALSE, FALSE)}
    \cup {FlagArg(s) : s \in {<<"V0">>, <<"X", "b">>, <<"d", "x">>, <<"D">>,
             <<"L", "I", "q">>, <<"q">>, <<"m", "l">>, <<>>, <<"E", "C">>,
             <<"V3", "B", "f">>}}
Hole == <<9, 9>>
MCImages ==
    {<<>>, <<Hole, <<0, 1>>, <<0, 1>>, <<1, 2>>, <<0, 2>>, <<0, 2>>>>,
     <<<<1, 1>>, <<0, 2>>>>, <<Hole, Hole, <<1, 1>>>>}
MCFileLines == <<2, 3>>

-----------------------------------------------------------------------------
(* PasmPath: two -I directories that both have the file, one too long.     *)
MCDirectories == {<<"a">>, <<"a", "b", "/">>, <<"a", "b", "a", "b">>}
MCSourceNames == {<<"f">>, <<"b", "f">>, <<".", "f">>, <<"a", "f">>}
MCReadable == {<<"f">>, <<"a", "b", "f">>, <<"a", "f">>, <<".", "f">>,
               <<"a", "b", "a", "b", "f">>}

BackInit ==
    /\ part \in {"exp", "op", "pasm", "out", "path"}
    /\ ExpInit /\ OpInit /\ PasmInit /\ OutInit /\ PathInit

BackNext ==
    /\ UNCHANGED part
    /\ \/ /\ part = "exp" /\ ExpNext
          /\ UNCHANGED <<opVars, pasmVars, outVars, pathVars>>
       \/ /\ part = "op" /\ OpNext
          /\ UNCHANGED <<expVars, pasmVars, outVars, pathVars>>
       \/ /\ part = "pasm" /\ PasmNext
          /\ UNCHANGED <<expVars, opVars, outVars, pathVars>>
       \/ /\ part = "out" /\ OutNext
          /\ UNCHANGED <<expVars, opVars, pasmVars, pathVars>>
       \/ /\ part = "path" /\ PathNext
          /\ UNCHANGED <<expVars, opVars, pasmVars, outVars>>

BackSpec == BackInit /\ [][BackNext]_backVars
=============================================================================
