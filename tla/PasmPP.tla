------------------------------- MODULE PasmPP -------------------------------
(***************************************************************************)
(* The preprocessor of the PRU assembler (pasmpp.c): conditionals, equates *)
(* and included files, driven by ProcessSourceFile and by the passes of    *)
(* main (pasm.c).                                                          *)
(*                                                                         *)
(* A step reads one logical line of the innermost open file.  The text of  *)
(* the files is chosen while it is read.  Names stand for identifiers;     *)
(* what a line has besides its name is "wellFormed" or not.                *)
(***************************************************************************)
EXTENDS Integers, Sequences, FiniteSets

CONSTANTS Names,            \* identifiers of #define, #ifdef, labels
          Values,           \* texts of equates
          Reserved,         \* identifiers CheckTokenType knows
          FileNames,        \* names that follow #include
          Main,             \* infile
          cmdLine,          \* sequence of -D equates
          CC_MAX_DEPTH,
          OpenMax,          \* 15 in InitSourceFile
          SOURCEFILE_MAX,
          ErrorMax,         \* 25 in ProcessSourceFile
          ErrorBound        \* bound on Errors

ASSUME PPAssumption ==
    /\ Reserved \subseteq Names /\ Main \in FileNames
    /\ cmdLine \in Seq([name : Names, data : Values])
    /\ CC_MAX_DEPTH \in Nat \ {0} /\ OpenMax \in Nat \ {0}
    /\ SOURCEFILE_MAX \in Nat \ {0} /\ ErrorMax \in Nat \ {0}
    /\ ErrorBound \in Nat

VARIABLES phase,            \* of main
          Pass,
          Errors, FatalError,
          frames,           \* activations of ProcessSourceFile, innermost last
          sfArray,          \* file records
          ccStateFlags,     \* the first ccDepth entries of the array
          pEqList,          \* equates, newest first
          labels,           \* names of labels; they outlive a pass
          conds,            \* history: for each level, value and part of the
                            \* conditional it stands for
          late              \* history: lines assembled after the error limit

ppVars == <<phase, Pass, Errors, FatalError, frames, sfArray, ccStateFlags, pEqList,
            labels, conds, late>>

ccDepth == Len(ccStateFlags)
OpenFiles == Len(frames)
Cur == frames[OpenFiles]
Aborting == FatalError \/ Errors >= ErrorMax

Frame == [FileIndex : 1 .. SOURCEFILE_MAX, ccDepthIn : 0 .. CC_MAX_DEPTH,
          top : BOOLEAN]
CCFlag == [isTrue : BOOLEAN, hasElse : BOOLEAN]
Cond == [holds : BOOLEAN, inElse : BOOLEAN]

(* Nesting, open files and file records stay within their arrays.          *)
PPTypeOK ==
    /\ phase \in {"between", "opening", "reading", "over"}
    /\ Pass \in 0 .. 2 /\ Errors \in Nat /\ FatalError \in BOOLEAN
    /\ frames \in Seq(Frame) /\ OpenFiles <= OpenMax
    /\ sfArray \in Seq([name : FileNames, InUse : BOOLEAN])
    /\ Len(sfArray) <= SOURCEFILE_MAX
    /\ ccStateFlags \in Seq(CCFlag) /\ ccDepth <= CC_MAX_DEPTH
    /\ pEqList \in Seq([name : Names, data : Values])
    /\ labels \subseteq Names
    /\ conds \in Seq(Cond)
    /\ late \in Nat

-----------------------------------------------------------------------------
(* Report with REP_ERROR or REP_FATAL; the other levels only print.        *)
Report(fatal) ==
    /\ Errors < ErrorBound
    /\ Errors' = Errors + 1
    /\ FatalError' = (FatalError \/ fatal)

NoReport == UNCHANGED <<Errors, FatalError>>

(* The innermost activation goes to the head of its loop, where it looks   *)
(* at the errors, or stays in GetSourceLine (goto NEXT_LINE).              *)
Continue(top) == frames' = [frames EXCEPT ![OpenFiles].top = top]

(* Another line is read: the limit is looked at only at the loop's head.   *)
Reading == frames # <<>> /\ ~(Cur.top /\ Aborting)

(* CloseSourceFile, and the return to the activation that included it.     *)
CloseSourceFile == sfArray' = [sfArray EXCEPT ![Cur.FileIndex].InUse = FALSE]

Return(rc) ==
    /\ CloseSourceFile
    /\ frames' = LET rest == SubSeq(frames, 1, OpenFiles - 1)
                 IN  IF rest = <<>> THEN rest
                     ELSE [rest EXCEPT ![OpenFiles - 1].top = ~rc /\ Pass = 2]

Skipping == ccDepth > 0 /\ ~ccStateFlags[ccDepth].isTrue

EquateFind(n) == {i \in 1 .. Len(pEqList) : pEqList[i].name = n}
CheckEquate(n) == EquateFind(n) # {}
CheckName(n) == n \notin Reserved \cup labels /\ ~CheckEquate(n)
EquateDestroy(n) == SelectSeq(pEqList, LAMBDA e : e.name # n)

-----------------------------------------------------------------------------
(* #ifdef (fTrue) and #ifndef.  Inside a false part the name is not looked *)
(* at: the level only tracks the nesting.                                  *)
IfDefProcess(n, fTrue, wellFormed) ==
    /\ Reading
    /\ IF ccDepth = CC_MAX_DEPTH \/ (~Skipping /\ ~wellFormed)
       THEN /\ Report(FALSE) /\ Continue(TRUE)
            /\ UNCHANGED <<ccStateFlags, conds>>
       ELSE /\ ccStateFlags' = Append(ccStateFlags,
                 [isTrue |-> ~Skipping /\ (CheckEquate(n) = fTrue),
                  hasElse |-> FALSE])
            /\ conds' = Append(conds, [holds |-> CheckEquate(n) = fTrue,
                                       inElse |-> FALSE])
            /\ NoReport /\ Continue(FALSE)
    /\ UNCHANGED <<phase, Pass, sfArray, pEqList, labels, late>>

(* Slip: the levels outside this one are not looked at.                    *)
Inner_ElseFlag == [isTrue |-> ~ccStateFlags[ccDepth].isTrue, hasElse |-> TRUE]

ElseFlag ==
    [isTrue |-> /\ ~ccStateFlags[ccDepth].isTrue
                /\ \A i \in 1 .. ccDepth - 1 : ccStateFlags[i].isTrue,
     hasElse |-> TRUE]

ElseProcess(wellFormed) ==
    /\ Reading
    /\ IF ~wellFormed \/ ccDepth = 0 \/ ccStateFlags[ccDepth].hasElse
       THEN /\ Report(FALSE) /\ Continue(TRUE)
            /\ UNCHANGED <<ccStateFlags, conds>>
       ELSE /\ ccStateFlags' = [ccStateFlags EXCEPT ![ccDepth] = ElseFlag]
            /\ conds' = [conds EXCEPT ![ccDepth].inElse = TRUE]
            /\ NoReport /\ Continue(FALSE)
    /\ UNCHANGED <<phase, Pass, sfArray, pEqList, labels, late>>

EndifProcess(wellFormed) ==
    /\ Reading
    /\ IF ~wellFormed \/ ccDepth = 0
       THEN /\ Report(FALSE) /\ Continue(TRUE)
            /\ UNCHANGED <<ccStateFlags, conds>>
       ELSE /\ ccStateFlags' = SubSeq(ccStateFlags, 1, ccDepth - 1)
            /\ conds' = SubSeq(conds, 1, ccDepth - 1)
            /\ NoReport /\ Continue(FALSE)
    /\ UNCHANGED <<phase, Pass, sfArray, pEqList, labels, late>>

(* A line of a false part, directives other than the conditional included. *)
SkipLine ==
    /\ Reading /\ Skipping
    /\ NoReport /\ Continue(FALSE)
    /\ UNCHANGED <<phase, Pass, sfArray, ccStateFlags, pEqList, labels, conds, late>>

(* A '#' no letter follows, which is looked at in false parts too, or a    *)
(* directive nobody knows.                                                 *)
BadDirective(letter) ==
    /\ Reading /\ (letter => ~Skipping)
    /\ Report(FALSE) /\ Continue(TRUE)
    /\ UNCHANGED <<phase, Pass, sfArray, ccStateFlags, pEqList, labels, conds, late>>

(* #error reports and reads on; #warn and #note only print.                *)
Message(isError) ==
    /\ Reading /\ ~Skipping
    /\ IF isError THEN Report(FALSE) ELSE NoReport
    /\ Continue(FALSE)
    /\ UNCHANGED <<phase, Pass, sfArray, ccStateFlags, pEqList, labels, conds, late>>

(* #define: the name must be free.  (Since CheckName refuses the name of   *)
(* an equate, the branches for a redefinition are never taken.)            *)
EquateProcess(n, d, wellFormed) ==
    /\ Reading /\ ~Skipping
    /\ IF ~wellFormed \/ ~CheckName(n)
       THEN Report(FALSE) /\ UNCHANGED pEqList
       ELSE /\ NoReport
            /\ pEqList' = IF \E i \in EquateFind(n) : pEqList[i].data = d
                          THEN pEqList
                          ELSE <<[name |-> n, data |-> d]>> \o EquateDestroy(n)
    /\ Continue(FALSE)
    /\ UNCHANGED <<phase, Pass, sfArray, ccStateFlags, labels, conds, late>>

(* #undef of a name that is not defined is only a warning.                 *)
UndefProcess(n, wellFormed) ==
    /\ Reading /\ ~Skipping
    /\ IF ~wellFormed THEN Report(FALSE) /\ UNCHANGED pEqList
       ELSE NoReport /\ pEqList' = EquateDestroy(n)
    /\ Continue(FALSE)
    /\ UNCHANGED <<phase, Pass, sfArray, ccStateFlags, labels, conds, late>>

-----------------------------------------------------------------------------
(* A record of an earlier use of the file that is free again, or else the  *)
(* next of the array.                                                      *)
FreeRecords(f) == {i \in 1 .. Len(sfArray) :
                      ~sfArray[i].InUse /\ sfArray[i].name = f}
RecordFor(f) == IF FreeRecords(f) # {}
                THEN CHOOSE i \in FreeRecords(f) :
                        \A j \in FreeRecords(f) : i <= j
                ELSE Len(sfArray) + 1

(* InitSourceFile.  how says what the file system does: "path" when the    *)
(* name cannot be resolved, "noFile" when fopen fails.  The record is      *)
(* taken before fopen and stays taken when it fails.                       *)
TakesRecord(f, how) == /\ OpenFiles < OpenMax /\ how # "path"
                       /\ RecordFor(f) <= SOURCEFILE_MAX
Opens(f, how) == TakesRecord(f, how) /\ how # "noFile"

InitSourceFile(f, how) ==
    LET record == [name |-> f, InUse |-> TRUE]
    IN  /\ IF Opens(f, how) THEN NoReport ELSE Report(TRUE)
        /\ sfArray' = IF ~TakesRecord(f, how) THEN sfArray
                      ELSE IF RecordFor(f) > Len(sfArray)
                           THEN Append(sfArray, record)
                           ELSE [sfArray EXCEPT ![RecordFor(f)] = record]

NewFrame(f) == [FileIndex |-> RecordFor(f), ccDepthIn |-> ccDepth, top |-> TRUE]

(* #include: the file is processed before the next line of this one, which *)
(* is then read without a look at the errors.                              *)
LoadInclude(f, how) ==
    /\ Reading /\ ~Skipping
    /\ IF how = "syntax" THEN Report(FALSE) /\ UNCHANGED sfArray
                         ELSE InitSourceFile(f, how)
    /\ frames' = LET here(top) == [frames EXCEPT ![OpenFiles].top = top]
                 IN  IF how # "syntax" /\ Opens(f, how)
                     THEN Append(here(FALSE), NewFrame(f)) ELSE here(TRUE)
    /\ UNCHANGED <<phase, Pass, ccStateFlags, pEqList, labels, conds, late>>

(* The end of a file: conditionals are compared by their number only.      *)
EndOfFile ==
    /\ Reading
    /\ IF Cur.ccDepthIn # ccDepth THEN Report(FALSE) ELSE NoReport
    /\ Return(TRUE)
    /\ UNCHANGED <<phase, Pass, ccStateFlags, pEqList, labels, conds, late>>

(* A line that is too long once expanded is reported and then taken for    *)
(* the end of the file: the rest is not read.                              *)
ExpansionTooLong ==
    /\ Reading /\ ~Skipping
    /\ Report(FALSE) /\ Return(TRUE)
    /\ UNCHANGED <<phase, Pass, ccStateFlags, pEqList, labels, conds, late>>

(* A line for ProcessSourceLine, with or without a label.  In the second   *)
(* pass an error ends the file.                                            *)
TextLine(newLabels, result) ==
    LET free == {n \in newLabels : CheckName(n)}
    IN  /\ Reading /\ ~Skipping
        /\ (Pass = 1 /\ free # newLabels) => result # "ok"
        /\ labels' = IF Pass = 1 THEN labels \cup free ELSE labels
        /\ IF result = "ok" THEN NoReport ELSE Report(result = "fatal")
        /\ IF result # "ok" /\ Pass = 2 THEN Return(FALSE)
           ELSE Continue(TRUE) /\ UNCHANGED sfArray
        /\ late' = IF Aborting THEN late + 1 ELSE late
        /\ UNCHANGED <<phase, Pass, ccStateFlags, pEqList, conds>>

(* "Aborting..." at the head of the loop.                                  *)
Abort ==
    /\ frames # <<>> /\ Cur.top /\ Aborting
    /\ NoReport /\ Return(FALSE)
    /\ UNCHANGED <<phase, Pass, ccStateFlags, pEqList, labels, conds, late>>

-----------------------------------------------------------------------------
(* A new pass starts with the equates of the command line (EquateCreate    *)
(* refuses a name in use) and then opens the main file.                    *)
CmdNameFree(i) ==
    /\ cmdLine[i].name \notin Reserved \cup labels
    /\ \A j \in 1 .. i - 1 : cmdLine[j].name # cmdLine[i].name

EquateCreate ==
    LET n == Len(cmdLine)
        made == SelectSeq([k \in 1 .. n |-> n + 1 - k], CmdNameFree)
    IN  /\ pEqList' = [k \in 1 .. Len(made) |-> cmdLine[made[k]]]
        /\ Errors' = Errors + Cardinality({k \in 1 .. n : ~CmdNameFree(k)})

BeginPass ==
    /\ phase = "between" /\ Errors = 0 /\ Pass < 2
    /\ phase' = "opening" /\ Pass' = Pass + 1
    /\ EquateCreate
    /\ UNCHANGED <<FatalError, frames, sfArray, ccStateFlags, labels, conds,
                   late>>

OpenMain(how) ==
    /\ phase = "opening"
    /\ InitSourceFile(Main, how)
    /\ phase' = IF Opens(Main, how) THEN "reading" ELSE "over"
    /\ frames' = IF Opens(Main, how) THEN <<NewFrame(Main)>> ELSE <<>>
    /\ UNCHANGED <<Pass, ccStateFlags, pEqList, labels, conds, late>>

(* ppCleanup.                                                              *)
EndPass ==
    /\ phase = "reading" /\ frames = <<>>
    /\ phase' = "between"
    /\ ccStateFlags' = <<>> /\ conds' = <<>> /\ pEqList' = <<>>
    /\ UNCHANGED <<Pass, Errors, FatalError, frames, sfArray, labels, late>>

PPInit ==
    /\ phase = "between" /\ Pass = 0 /\ Errors = 0 /\ FatalError = FALSE
    /\ frames = <<>> /\ ccStateFlags = <<>> /\ pEqList = <<>> /\ conds = <<>>
    /\ sfArray = <<[name |-> Main, InUse |-> FALSE]>>
    /\ labels = {} /\ late = 0

ReadLine ==
    \/ \E n \in Names, b, w \in BOOLEAN : IfDefProcess(n, b, w)
    \/ \E w \in BOOLEAN : ElseProcess(w) \/ EndifProcess(w)
    \/ \E b \in BOOLEAN : BadDirective(b) \/ Message(b)
    \/ \E n \in Names, w \in BOOLEAN, d \in Values : EquateProcess(n, d, w)
    \/ \E n \in Names, w \in BOOLEAN : UndefProcess(n, w)
    \/ \E f \in FileNames, how \in {"ok", "path", "noFile", "syntax"} :
          LoadInclude(f, how)
    \/ \E L \in {{}} \cup {{n} : n \in Names}, r \in {"ok", "error", "fatal"} :
          TextLine(L, r)
    \/ SkipLine \/ EndOfFile \/ ExpansionTooLong \/ Abort

PPNext ==
    \/ ReadLine
    \/ BeginPass
    \/ \E how \in {"ok", "path", "noFile"} : OpenMain(how)
    \/ EndPass

PPSpec == PPInit /\ [][PPNext]_ppVars

-----------------------------------------------------------------------------
(* What a conditional asks for, level by level: the part being read is the *)
(* one its condition selects.                                              *)
Taken(i) == conds[i].holds # conds[i].inElse

(* A line is assembled exactly when every conditional around it, at every  *)
(* depth and across the files that opened them, selects the part it is in, *)
(* although the code looks at the flag of the innermost level only and     *)
(* never evaluates a conditional inside a false part.                      *)
AssemblesTakenParts ==
    /\ Len(conds) = ccDepth
    /\ Skipping <=> \E i \in 1 .. ccDepth : ~Taken(i)

(* Every activation of ProcessSourceFile has a file record of its own: its *)
(* position, line number and stream are not those of another, also when a  *)
(* file includes itself.  A record is in use for as long as its file is.   *)
OwnRecord ==
    /\ \A i, j \in 1 .. OpenFiles :
          frames[i].FileIndex = frames[j].FileIndex => i = j
    /\ \A i \in 1 .. OpenFiles : sfArray[frames[i].FileIndex].InUse
    /\ ~FatalError => \A r \in 1 .. Len(sfArray) :
          sfArray[r].InUse => \E i \in 1 .. OpenFiles : frames[i].FileIndex = r

(* Once the error limit is reached or an error is fatal, the open files    *)
(* assemble one more line each at most: what ends an included file lets    *)
(* the including one read on in the first pass.                            *)
LateLinesBounded == late <= OpenMax

(* Include files and conditionals keep apart what is to be assembled:      *)
(* whatever includes what, and wherever an error stops a file.             *)
AssemblesWhatIsAsked == AssemblesTakenParts /\ OwnRecord /\ LateLinesBounded
=============================================================================
