----------------------------- MODULE PasmExpand -----------------------------
(***************************************************************************)
(* The expansion of equates in a line (pasmpp.c, ParseSource): words are   *)
(* looked up as they end, and the text of an equate is expanded in turn by *)
(* a recursive call, during which the equate is marked busy.               *)
(*                                                                         *)
(* Letters, a digit, a quote and a space stand for the character classes.  *)
(***************************************************************************)
EXTENDS Integers, Sequences

CONSTANTS Equates,          \* names, as words
          LineChoices,      \* lines to expand
          DataChoices,      \* [Equates -> text], <<>> if not defined
          TOKEN_MAX_LEN,
          MAX_SOURCE_LINE

ASSUME ExpandAssumption ==
    /\ TOKEN_MAX_LEN \in Nat \ {0, 1} /\ MAX_SOURCE_LINE \in Nat \ {0, 1}
    /\ \A s \in LineChoices : s \in Seq(STRING)
    /\ \A d \in DataChoices : d \in [Equates -> Seq(STRING)]

VARIABLES srcLine, eqData,  \* the input: the line, the texts of the equates
          calls,            \* activations of ParseSource, innermost last
          Busy,             \* equates marked busy
          out,              \* Dst
          expandErrors,     \* errors reported
          exRes             \* "idle", "run", "fail" (unwinding), "done"

expandVars == <<srcLine, eqData, calls, Busy, out, expandErrors, exRes>>

Letter(ch) == ch \in {"a", "b"}
LabelChar(ch, first) == Letter(ch) \/ (~first /\ ch = "0")

Call(src, owner) == [src |-> src, srcIdx |-> 1, wordFlag |-> "READY",
                     word |-> <<>>, kept |-> FALSE, owner |-> owner]

Me == calls[Len(calls)]
Ch == IF Me.srcIdx > Len(Me.src) THEN "nul" ELSE Me.src[Me.srcIdx]
Set(r) == [calls EXCEPT ![Len(calls)] = r]
Pop == SubSeq(calls, 1, Len(calls) - 1)
Running == exRes = "run"

(* Words, busy equates and output are of their types; the output leaves    *)
(* room for its terminator.                                                *)
ExpandTypeOK ==
    /\ Busy \subseteq Equates
    /\ \A i \in 1 .. Len(calls) :
          /\ calls[i].wordFlag \in {"READY", "NONLABEL", "QUOTED", "LABEL"}
          /\ calls[i].srcIdx \in 1 .. Len(calls[i].src) + 1
          /\ Len(calls[i].word) < TOKEN_MAX_LEN
    /\ Len(out) < MAX_SOURCE_LINE
    /\ expandErrors \in Nat
    /\ exRes \in {"idle", "run", "fail", "done"}

ExpandInit ==
    /\ srcLine = <<>> /\ eqData = [e \in Equates |-> <<>>] /\ calls = <<>>
    /\ Busy = {} /\ out = <<>> /\ expandErrors = 0 /\ exRes = "idle"

BeginExpansion ==
    /\ exRes = "idle" /\ exRes' = "run"
    /\ \E s \in LineChoices, d \in DataChoices :
          srcLine' = s /\ eqData' = d /\ calls' = <<Call(s, <<>>)>>
    /\ UNCHANGED <<Busy, out, expandErrors>>

-----------------------------------------------------------------------------
(* kept: the character that ended a word is still to be copied.            *)
InWord == Me.wordFlag = "LABEL" /\ ~Me.kept
WordEnds == Len(Me.word) >= TOKEN_MAX_LEN - 1 \/ ~LabelChar(Ch, FALSE)
EquateFound == Me.word \in Equates /\ eqData[Me.word] # <<>>
AfterWord == [Me EXCEPT !.kept = TRUE,
                        !.wordFlag = IF Ch = "quote" THEN "QUOTED" ELSE "READY"]

StartWord ==
    /\ Running /\ ~Me.kept /\ Me.wordFlag = "READY" /\ LabelChar(Ch, TRUE)
    /\ calls' = Set([Me EXCEPT !.wordFlag = "LABEL", !.word = <<Ch>>,
                               !.srcIdx = @ + 1])
    /\ UNCHANGED <<srcLine, eqData, Busy, out, expandErrors, exRes>>

BuildWord ==
    /\ Running /\ InWord /\ ~WordEnds
    /\ calls' = Set([Me EXCEPT !.word = Append(@, Ch), !.srcIdx = @ + 1])
    /\ UNCHANGED <<srcLine, eqData, Busy, out, expandErrors, exRes>>

ExpandWord ==
    /\ Running /\ InWord /\ WordEnds /\ EquateFound /\ Me.word \notin Busy
    /\ Busy' = Busy \cup {Me.word}
    /\ calls' = Append(Set(AfterWord), Call(eqData[Me.word], Me.word))
    /\ UNCHANGED <<srcLine, eqData, out, expandErrors, exRes>>

Fails == /\ exRes' = "fail" /\ expandErrors' = expandErrors + 1
         /\ UNCHANGED <<srcLine, eqData, calls, Busy>>

CopyWord ==
    /\ Running /\ InWord /\ WordEnds /\ ~(EquateFound /\ Me.word \notin Busy)
    /\ IF Len(out) + Len(Me.word) < MAX_SOURCE_LINE
       THEN /\ out' = out \o Me.word /\ calls' = Set(AfterWord)
            /\ UNCHANGED <<srcLine, eqData, Busy, expandErrors, exRes>>
       ELSE out' = SubSeq(out \o Me.word, 1, MAX_SOURCE_LINE - 1) /\ Fails

(* Slip: a word may begin right after a digit.                             *)
Mixed_NewFlag ==
    IF Me.kept THEN Me.wordFlag
    ELSE IF Ch = "quote" THEN IF Me.wordFlag = "QUOTED" THEN "READY" ELSE "QUOTED"
    ELSE IF Me.wordFlag = "QUOTED" THEN "QUOTED" ELSE "READY"

(* The mode after a character outside words.                               *)
NewFlag ==
    IF Me.kept THEN Me.wordFlag
    ELSE IF Ch = "quote" THEN IF Me.wordFlag = "QUOTED" THEN "READY" ELSE "QUOTED"
    ELSE IF Me.wordFlag = "QUOTED" THEN "QUOTED"
    ELSE IF LabelChar(Ch, FALSE) THEN "NONLABEL" ELSE "READY"

OutsideWord == Me.kept \/ (~InWord /\ ~(Me.wordFlag = "READY" /\ LabelChar(Ch, TRUE)))

CopyCh ==
    /\ Running /\ OutsideWord /\ Ch # "nul"
    /\ IF Len(out) < MAX_SOURCE_LINE - 1
       THEN /\ out' = Append(out, Ch)
            /\ calls' = Set([Me EXCEPT !.wordFlag = NewFlag, !.kept = FALSE,
                                       !.srcIdx = @ + 1])
            /\ UNCHANGED <<srcLine, eqData, Busy, expandErrors, exRes>>
       ELSE UNCHANGED out /\ Fails

(* The end of the text: back to the caller, which frees the equate.        *)
ReturnExpanded ==
    /\ Running /\ OutsideWord /\ Ch = "nul"
    /\ expandErrors' = IF NewFlag = "QUOTED" THEN expandErrors + 1
                                             ELSE expandErrors
    /\ Busy' = Busy \ {Me.owner} /\ calls' = Pop
    /\ exRes' = IF Pop = <<>> THEN "done" ELSE "run"
    /\ UNCHANGED <<srcLine, eqData, out>>

(* Slip: an error returns before the equate is freed.                      *)
Early_Unwind ==
    /\ exRes = "fail"
    /\ UNCHANGED Busy /\ calls' = Pop
    /\ exRes' = IF Pop = <<>> THEN "done" ELSE "fail"
    /\ UNCHANGED <<srcLine, eqData, out, expandErrors>>

(* An error is passed up by every caller, which frees its equate first.    *)
Unwind ==
    /\ exRes = "fail"
    /\ Busy' = Busy \ {Me.owner} /\ calls' = Pop
    /\ exRes' = IF Pop = <<>> THEN "done" ELSE "fail"
    /\ UNCHANGED <<srcLine, eqData, out, expandErrors>>

ExpandStep == \/ BeginExpansion \/ StartWord \/ BuildWord \/ ExpandWord
              \/ CopyWord \/ CopyCh \/ ReturnExpanded \/ Unwind

ExpandNext == ExpandStep \/ (exRes = "done" /\ UNCHANGED expandVars)

ExpandSpec == ExpandInit /\ [][ExpandNext]_expandVars /\ WF_expandVars(ExpandStep)

-----------------------------------------------------------------------------
(* An equate is busy exactly while its text is being expanded, and at most *)
(* once: no error leaves one busy, which would stop its expansion in every *)
(* later line.                                                             *)
BusyIffExpanding ==
    /\ Busy = {calls[i].owner : i \in 2 .. Len(calls)}
    /\ \A i, j \in 1 .. Len(calls) : calls[i].owner = calls[j].owner => i = j
=============================================================================
