----------------------------- MODULE PasmMacro ------------------------------
(***************************************************************************)
(* Macros of the PRU assembler (pasmmacro.c): definition, expansion and    *)
(* local labels, in the two passes, in files that include others.  The     *)
(* text is chosen in pass 1 and read again in pass 2; after an error there *)
(* is no second pass.                                                      *)
(*                                                                         *)
(* A line is a record of its label, its first word and its parameters.     *)
(* Names are one-element tuples; the label text of an expansion,           *)
(* _name_Id_Expands_, is <<name, Id, Expands>>.                            *)
(***************************************************************************)
EXTENDS PasmFiles

CONSTANTS MacroLines,       \* the lines of a text
          MacroTextLimit,   \* bound on the length of a text
          MacroErrors,      \* errors that abort a pass; 25 in the code
          MACRO_MAX_ARGS, MACRO_MAX_LINES, MACRO_MAX_LABELS,
          Register          \* a parameter that is not a label

NoName == <<>>
IsName(n) == n = <<n[1]>>

ASSUME MacroAssumption ==
    /\ MacroTextLimit \in Nat /\ MacroErrors \in Nat /\ MACRO_MAX_ARGS \in Nat
    /\ MACRO_MAX_LINES \in Nat /\ MACRO_MAX_LABELS \in Nat
    /\ \A line \in MacroLines :
          /\ line.label = NoName \/ IsName(line.label)
          /\ line.word = NoName \/ IsName(line.word)
          /\ line.op = "macro" => line.word # NoName
          /\ line.params \in Seq({line.params[i] : i \in 1 .. Len(line.params)})
          /\ \A i \in 1 .. Len(line.params) : IsName(line.params[i])
          /\ line.op = "mparam" =>
                /\ IsName(line.arg.name)
                /\ line.arg.default = NoName \/ IsName(line.arg.default)

VARIABLES mPass, mText, mPos, mErrors,
          macros,           \* pMacroList
          files,            \* the files that are open, innermost last: the
                            \* macro MacroEnter is at in each of them, or 0
          unfinished,       \* history: macros of this pass without .endm
          expanding,        \* activations of ProcessMacro, innermost last
          failed,           \* an expanded line failed
          mLabels,          \* labels; they outlive pass 1
          made              \* history: labels of this pass

macroVars == <<mPass, mText, mPos, mErrors, macros, files, unfinished,
               expanding, failed, mLabels, made>>

MacroFind(n) == {i \in 1 .. Len(macros) : macros[i].name = n}
CheckMacro(n) == MacroFind(n) # {}
TheMacro(n) == CHOOSE i \in MacroFind(n) : TRUE
NameFree(n) == n \notin mLabels /\ ~CheckMacro(n)

Defining == files[Len(files)]
Inner == expanding[Len(expanding)]
Body == macros[Inner.macro]

MacroInit ==
    /\ mPass = 1 /\ mText = <<>> /\ mPos = 0 /\ mErrors = 0
    /\ macros = <<>> /\ files = <<0>> /\ unfinished = {}
    /\ expanding = <<>> /\ failed = FALSE /\ mLabels = {} /\ made = <<>>

CountError(n) == mErrors' = mErrors + n
Works == UNCHANGED mErrors
NothingExpands == UNCHANGED <<expanding, failed, mLabels, made>>

-----------------------------------------------------------------------------
(* MacroCreate numbers the macros of a pass from 0.                        *)
MacroEnter(n) ==
    /\ IF ~NameFree(n) THEN CountError(1) /\ UNCHANGED <<macros, files>>
       ELSE /\ Works
            /\ macros' = Append(macros,
                  [name |-> n, Id |-> Len(macros), InUse |-> TRUE, args |-> <<>>,
                   Required |-> 0, labels |-> <<>>, code |-> <<>>, Expands |-> 0])
            /\ files' = [files EXCEPT ![Len(files)] = Len(macros) + 1]
    /\ NothingExpands /\ UNCHANGED unfinished

(* One argument of .mparam: optional ones, which have a default, come last *)
MacroAddArg(m, a) ==
    /\ Len(m.args) < MACRO_MAX_ARGS
    /\ \A i \in 1 .. Len(m.args) : m.args[i].name # a.name
    /\ a.default = NoName => Len(m.args) = m.Required

WithArg(m, a) ==
    [m EXCEPT !.args = Append(@, a),
              !.Required = IF a.default = NoName THEN @ + 1 ELSE @]

(* A line of the body.  Labels are noted; dot commands other than .mparam  *)
(* and .endm are neither stored nor executed.                              *)
TooManyLabels(m, line) == line.label # NoName /\ Len(m.labels) = MACRO_MAX_LABELS

Labelled(m, line) ==
    IF line.label = NoName \/ Len(m.labels) = MACRO_MAX_LABELS THEN m
    ELSE [m EXCEPT !.labels = Append(@, line.label)]

Stored(m, line) ==
    LET labelled == Labelled(m, line)
    IN  CASE line.op = "mparam" /\ MacroAddArg(m, line.arg) ->
                  WithArg(labelled, line.arg)
          [] line.op = "endm" -> [labelled EXCEPT !.InUse = FALSE]
          [] line.op = "text" /\ Len(m.code) < MACRO_MAX_LINES ->
                  [labelled EXCEPT !.code = Append(@, line)]
          [] OTHER -> labelled

BodyLine(line) ==
    LET m == macros[Defining]
    IN  /\ IF \/ TooManyLabels(m, line)
              \/ line.op = "macro"
              \/ line.op = "mparam" /\ ~MacroAddArg(m, line.arg)
              \/ line.op = "text" /\ Len(m.code) = MACRO_MAX_LINES
           THEN CountError(1) ELSE Works
        /\ macros' = [macros EXCEPT ![Defining] = Stored(m, line)]
        /\ files' = IF line.op = "endm" THEN [files EXCEPT ![Len(files)] = 0]
                    ELSE files
        /\ NothingExpands /\ UNCHANGED unfinished

(* #include, which GetSourceLine obeys inside a definition as well.  When  *)
(* the included file ends, so does a definition in it: "Missing .endm on   *)
(* macro"; the macro stays in use.                                         *)
IncludeFile ==
    /\ Works /\ files' = Append(files, 0)
    /\ NothingExpands /\ UNCHANGED <<macros, unfinished>>

CloseFile ==
    /\ Len(files) > 1
    /\ IF Defining = 0 THEN Works /\ UNCHANGED unfinished
       ELSE CountError(1) /\ unfinished' = unfinished \cup {Defining}
    /\ files' = SubSeq(files, 1, Len(files) - 1)
    /\ NothingExpands /\ UNCHANGED macros

-----------------------------------------------------------------------------
(* ProcessMacro checks the use and starts the expansion.                   *)
UseOK(i, params) ==
    /\ ~macros[i].InUse
    /\ macros[i].Required <= Len(params)
    /\ Len(params) <= Len(macros[i].args)

(* ProcessSourceLine outside a definition: the label, then the macro or    *)
(* the instruction, whose labels must be known in pass 2.  A label that    *)
(* exists is an error, but not one of the line: LabelCreate's result is    *)
(* not looked at.                                                          *)
LabelNew(line) == mPass = 1 /\ line.label # NoName /\ NameFree(line.label)
LabelErrors(line) ==
    IF mPass = 1 /\ line.label # NoName /\ ~NameFree(line.label) THEN 1 ELSE 0

TextLineOK(line, lab) ==
    IF line.word = NoName THEN TRUE
    ELSE IF CheckMacro(line.word) THEN UseOK(TheMacro(line.word), line.params)
    ELSE \A i \in 1 .. Len(line.params) :
            mPass = 2 => line.params[i] \in lab \cup {Register}

(* stack: the activations below; the line may add one.                     *)
ProcessSourceLine(line, stack) ==
    LET lab == IF LabelNew(line) THEN mLabels \cup {line.label} ELSE mLabels
        i == TheMacro(line.word)
        isUse == line.word # NoName /\ CheckMacro(line.word)
    IN  /\ mLabels' = lab
        /\ made' = IF line.label = NoName THEN made ELSE Append(made, line.label)
        /\ IF TextLineOK(line, lab)
           THEN CountError(LabelErrors(line)) /\ failed' = FALSE
           ELSE CountError(LabelErrors(line) + 1) /\ failed' = (stack # <<>>)
        /\ IF isUse /\ TextLineOK(line, lab)
           THEN /\ macros' = [macros EXCEPT ![i].InUse = TRUE,
                                            ![i].Expands = @ + 1]
                /\ expanding' = Append(stack, [macro |-> i, cidx |-> 1,
                                               params |-> line.params])
           ELSE expanding' = stack /\ UNCHANGED macros
        /\ UNCHANGED <<files, unfinished>>

(* Slip: the label text has no number of the expansion.                    *)
Same_Substitute(m, params, n) ==
    LET args == {i \in 1 .. Len(m.args) : m.args[i].name = n}
        a == CHOOSE i \in args : TRUE
    IN  IF n = NoName THEN n
        ELSE IF args # {} THEN IF a <= Len(params) THEN params[a] ELSE m.args[a].default
        ELSE IF \E i \in 1 .. Len(m.labels) : m.labels[i] = n THEN <<n[1], m.Id, 0>>
        ELSE n

(* What replaces a name of the body: an argument, its default, the label   *)
(* text of this expansion, or the name itself.                             *)
Substitute(m, params, n) ==
    LET args == {i \in 1 .. Len(m.args) : m.args[i].name = n}
        a == CHOOSE i \in args : TRUE
    IN  IF n = NoName THEN n
        ELSE IF args # {} THEN IF a <= Len(params) THEN params[a] ELSE m.args[a].default
        ELSE IF \E i \in 1 .. Len(m.labels) : m.labels[i] = n THEN <<n[1], m.Id, m.Expands>>
        ELSE n

Expanded(m, params, line) ==
    [label |-> Substitute(m, params, line.label),
     word |-> Substitute(m, params, line.word),
     params |-> [i \in 1 .. Len(line.params) |->
                    Substitute(m, params, line.params[i])]]

ExpandLine ==
    /\ expanding # <<>> /\ ~failed /\ Inner.cidx <= Len(Body.code)
    /\ ProcessSourceLine(Expanded(Body, Inner.params, Body.code[Inner.cidx]),
                         [expanding EXCEPT ![Len(expanding)].cidx = @ + 1])
    /\ UNCHANGED <<mPass, mText, mPos>>

(* The end of an expansion; an error ends the outer ones too, each of      *)
(* which reports it, and in pass 2 the file.                               *)
ExpansionReturns ==
    /\ expanding # <<>> /\ (failed \/ Inner.cidx > Len(Body.code))
    /\ macros' = [macros EXCEPT ![Inner.macro].InUse = FALSE]
    /\ expanding' = SubSeq(expanding, 1, Len(expanding) - 1)
    /\ IF failed THEN CountError(1) ELSE Works
    /\ failed' = (failed /\ Len(expanding) > 1)
    /\ mPos' = IF failed /\ Len(expanding) = 1 /\ mPass = 2
               THEN LastOfFile(mText, mPos) ELSE mPos
    /\ UNCHANGED <<mPass, mText, files, unfinished, mLabels, made>>

-----------------------------------------------------------------------------
Process(line) ==
    IF line.op = "include" THEN IncludeFile
    ELSE IF line.op = "eof" THEN CloseFile
    ELSE IF Defining # 0 THEN BodyLine(line)
    ELSE CASE line.op = "macro" -> MacroEnter(line.word)
           [] line.op = "text" -> ProcessSourceLine(line, <<>>)
           [] line.op \in {"mparam", "endm"} ->
                 /\ CountError(1) /\ NothingExpands
                 /\ UNCHANGED <<macros, files, unfinished>>
           [] OTHER -> /\ Works /\ NothingExpands
                       /\ UNCHANGED <<macros, files, unfinished>>

MayRead == expanding = <<>> /\ mErrors < MacroErrors

ReadFirst(line) ==
    /\ mPass = 1 /\ MayRead /\ mPos < MacroTextLimit
    /\ Process(line)
    /\ mText' = (IF mErrors' = 0 THEN Append(mText, line) ELSE <<>>)
    /\ mPos' = mPos + 1
    /\ UNCHANGED mPass

(* An error ends the file it is in, except inside a definition.            *)
ReadAgain ==
    /\ mPass = 2 /\ MayRead /\ mPos < Len(mText)
    /\ Process(mText[mPos + 1])
    /\ mPos' = IF mErrors' # mErrors /\ Defining = 0
               THEN LastOfFile(mText, mPos + 1) ELSE mPos + 1
    /\ UNCHANGED <<mPass, mText>>

(* The end of the main file inside a definition, which ends the assembly.  *)
MissingEndm ==
    /\ Defining # 0 /\ Len(files) = 1 /\ MayRead
    /\ mPass = 1 \/ (mPass = 2 /\ mPos = Len(mText))
    /\ CountError(1) /\ mPass' = 3
    /\ NothingExpands /\ UNCHANGED <<mText, mPos, macros, files, unfinished>>

(* MacroCleanup frees the macros and resets MacroId; labels stay.          *)
MacroNextPass ==
    /\ mPass = 1 /\ files = <<0>> /\ expanding = <<>> /\ mErrors = 0
    /\ mPass' = 2 /\ mPos' = 0 /\ macros' = <<>> /\ made' = <<>>
    /\ unfinished' = {}
    /\ UNCHANGED <<mText, mErrors, files, expanding, failed, mLabels>>

MacroNext ==
    \/ \E line \in MacroLines : ReadFirst(line)
    \/ ReadAgain \/ ExpandLine \/ ExpansionReturns \/ MissingEndm
    \/ MacroNextPass

MacroSpec == MacroInit /\ [][MacroNext]_macroVars /\ WF_macroVars(MacroNext)

-----------------------------------------------------------------------------
(* A macro is in use while it is defined or expanded, and only then, or    *)
(* after a definition without its end: an expansion that fails at any      *)
(* depth leaves none in use, and none is expanded inside its own expansion.*)
InUseWhileExpanding ==
    /\ \A i, j \in 1 .. Len(expanding) :
          expanding[i].macro = expanding[j].macro => i = j
    /\ \A i \in 1 .. Len(macros) : macros[i].InUse <=>
          \/ i \in unfinished
          \/ \E k \in 1 .. Len(files) : files[k] = i
          \/ \E j \in 1 .. Len(expanding) : expanding[j].macro = i

(* Labels are created in pass 1 only, so that pass 2 must come to the same *)
(* names: every label it meets, those of expansions included, exists.  An  *)
(* error of pass 2 may skip a macro and so renumber the others.            *)
LabelsOfBothPasses ==
    mPass = 2 /\ mErrors = 0 => \A i \in 1 .. Len(made) : made[i] \in mLabels

(* The body of macro m hands its label x to a macro, which may use it as a *)
(* label of its own.                                                       *)
PassedOn(m, x) ==
    \E k \in 1 .. Len(m.code) :
        /\ \E p \in 1 .. Len(m.code[k].params) : m.code[k].params[p] = <<x>>
        /\ \/ CheckMacro(m.code[k].word)
           \/ \E a \in 1 .. Len(m.args) : m.args[a].name = m.code[k].word

(* The labels of two expansions differ: no label text of an expansion      *)
(* occurs twice in a pass, however macros are nested and used again, unless*)
(* the body has the label twice or passes it on.                           *)
LocalLabelsDiffer ==
    \A i, j \in 1 .. Len(made) : made[i] = made[j] /\ Len(made[i]) = 3 =>
        \/ i = j
        \/ LET x == made[i][1]
               m == macros[made[i][2] + 1]
           IN  \/ PassedOn(m, x)
               \/ \E k, l \in 1 .. Len(m.code) :
                     k < l /\ m.code[k].label = <<x>> /\ m.code[l].label = <<x>>

(* An argument that is not given has a default.                            *)
MissingArgumentsHaveDefaults ==
    \A j \in 1 .. Len(expanding) :
        LET m == macros[expanding[j].macro]
        IN  \A i \in Len(expanding[j].params) + 1 .. Len(m.args) :
               m.args[i].default # NoName

(* Expansions in both passes, nested and used again, find their arguments  *)
(* and have labels of their own.                                           *)
ExpansionsFit ==
    LabelsOfBothPasses /\ LocalLabelsDiffer /\ MissingArgumentsHaveDefaults
=============================================================================
