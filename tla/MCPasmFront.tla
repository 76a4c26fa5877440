---------------------------- MODULE MCPasmFront -----------------------------
(* The modules of the assembler that turn text into instruction lines: one *)
(* of them takes all the steps of a behaviour.                             *)
EXTENDS PasmText, PasmLine, PasmPP, PasmExpansion, PasmMarks, FiniteSets

VARIABLE part
frontVars == <<part, textVars, lineVars, ppVars, expandVars, structVars, macroVars>>

(* PasmLine: short lines of every kind of character, longer ones of words. *)
MCSourceLines ==
    UNION {[1 .. n -> {"l", "0", ".", ":", ",", " ", "#", "?"}] : n \in 1 .. 4}
    \cup UNION {[1 .. n -> {"l", ",", " "}] : n \in 5 .. 7}
    \cup {<<"l", ":", " ">> \o s : s \in [1 .. 4 -> {"l", ".", ",", " "}]}
    \cup {<<"l", " ", ".">> \o s : s \in [1 .. 4 -> {"l", ",", " "}]}

(* PasmPP: an equate on the command line, files that include themselves.   *)
MCcmdLine == <<[name |-> "a", data |-> "one"]>>

(* PasmExpand: lines of words, quotes and spaces; texts that name each     *)
(* other or themselves.                                                    *)
A == <<"a">>  B == <<"b">>
MCEquates == {A, B}
MCLineChoices ==
    UNION {[1 .. n -> {"a", "b", "quote"}] : n \in 1 .. 2}
    \cup {<<x, y, z>> : x \in {"a", " ", "0"}, y \in {" ", "0", "quote"}, z \in {"a", "b"}}
    \cup {<<"a", " ", "b", " ">>, <<"a", "0", "b", "a">>}
MCDataChoices == [MCEquates -> {<<>>, A, B, <<"b", " ", "a">>, <<"quote", "a">>}]

(* PasmStruct: structures s of a byte and a halfword and t of a halfword,  *)
(* assigned to registers; scopes that are left and used again; an included *)
(* file.                                                                   *)
RefOf(cmd, elem, ext) == [cmd |-> cmd, name |-> "x", elem |-> elem, ext |-> ext]
Refs == {RefOf("name", "h", <<>>),
         RefOf("SIZE", "h", <<>>), RefOf("SIZE", "", <<>>),
         RefOf("OFFSET", "b", <<>>), RefOf("OFFSET", "h", <<>>),
         RefOf("OFFSET", "h", <<[digit |-> 1, width |-> 1]>>),
         RefOf("SIZE", "h", <<[digit |-> 1, width |-> 2]>>)}
MCCommands ==
    {[op |-> "struct", name |-> "s"], [op |-> "ends"],
     [op |-> "elem", name |-> "b", size |-> 1],
     [op |-> "elem", name |-> "h", size |-> 2],
     [op |-> "enter", name |-> "p"], [op |-> "leave", name |-> "p"], [op |-> "leave", name |-> Root],
     [op |-> "using", name |-> "p"],
     [op |-> "include"], [op |-> "eof"], [op |-> "undefined"]}
    \cup {[op |-> "assign", name |-> "s", from |-> f[1], to |-> f[2], def |-> "x"] :
             f \in {<<<<1, 0, 1>>, <<>>>>, <<<<1, 0, 1>>, <<1, 2, 1>>>>,
                    <<<<1, 1, 2>>, <<>>>>, <<<<1, 1, 2>>, <<1, 0, 4>>>>}}
    \cup {[op |-> "ref", ref |-> r] : r \in Refs}

(* PasmMacro: macros m and n with a local label, an argument and a use of  *)
(* each other; an included file.                                           *)
Line(op, label, word, params) ==
    [op |-> op, label |-> label, word |-> word, params |-> params,
     arg |-> [name |-> <<"p">>, default |-> NoName]]
Arg(n, d) == [Line("mparam", NoName, NoName, <<>>) EXCEPT
                !.arg = [name |-> n, default |-> d]]
MCRegister == <<"R1">>
MCMacroLines ==
    {Line("macro", NoName, <<"m">>, <<>>), Line("macro", NoName, <<"n">>, <<>>),
     Arg(<<"p">>, NoName), Arg(<<"q">>, MCRegister),
     Line("endm", NoName, NoName, <<>>),
     Line("include", NoName, NoName, <<>>), Line("eof", NoName, NoName, <<>>),
     Line("text", <<"l">>, <<"op">>, <<<<"l">>, <<"q">>>>),
     Line("text", NoName, <<"m">>, <<>>),
     Line("text", NoName, <<"m">>, <<MCRegister>>),
     Line("text", NoName, <<"n">>, <<>>)}

FrontInit ==
    /\ part \in {"text", "line", "pp", "expand", "struct", "macro"}
    /\ LineInit /\ (part = "line" \/ src = <<"l">>)
    /\ TextInit /\ PPInit /\ ExpandInit /\ StructInit /\ MacroInit

FrontNext ==
    /\ UNCHANGED part
    /\ \/ /\ part = "text" /\ TextNext
          /\ UNCHANGED <<lineVars, ppVars, expandVars, structVars, macroVars>>
       \/ /\ part = "line" /\ LineNext
          /\ UNCHANGED <<textVars, ppVars, expandVars, structVars, macroVars>>
       \/ /\ part = "pp" /\ PPNext
          /\ UNCHANGED <<textVars, lineVars, expandVars, structVars, macroVars>>
       \/ /\ part = "expand" /\ ExpandNext
          /\ UNCHANGED <<textVars, lineVars, ppVars, structVars, macroVars>>
       \/ /\ part = "struct" /\ StructNext
          /\ UNCHANGED <<textVars, lineVars, ppVars, expandVars, macroVars>>
       \/ /\ part = "macro" /\ MacroNext
          /\ UNCHANGED <<textVars, lineVars, ppVars, expandVars, structVars>>

(* The fairness of PasmText, PasmExpand and PasmMacro, for the part at     *)
(* work.                                                                   *)
FrontSpec ==
    FrontInit /\ [][FrontNext]_frontVars
    /\ WF_frontVars(FrontNext /\ part \in {"text", "expand", "macro"})

(* Each of the loops that read and expand a line returns: a line is read,  *)
(* unless the file ends inside a comment; equates that name each other and *)
(* macros that use each other are expanded in a finite number of steps.    *)
FrontReturns ==
    \/ part = "text" /\ LineBegun
    \/ part = "expand" /\ exRes = "run"
    \/ part = "macro" /\ expanding # <<>>
    ~>
    \/ part = "text" /\ LineRead
    \/ part = "expand" /\ exRes = "done"
    \/ part = "macro" /\ expanding = <<>>

(* Lines, words and stacks stay within their buffers, with room for the    *)
(* terminating 0, and depths within their limits.                          *)
FrontTypeOK == TextTypeOK /\ ExpandTypeOK /\ PPTypeOK

(* The line GetTextLine hands on, its number, and the terms it is split to.*)
LineDelivered == LineIsStrippedText /\ LineNumberOfLastCharacter /\ TermsOfLine
=============================================================================
