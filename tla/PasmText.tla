------------------------------ MODULE PasmText ------------------------------
(***************************************************************************)
(* How the PRU assembler reads one logical line (pasmpp.c, GetTextLine):   *)
(* leading white space and empty lines are skipped, comments are removed,  *)
(* quoted text is left alone and a backslash at the end of a line joins    *)
(* the next one.                                                           *)
(*                                                                         *)
(* Characters are classes: "a" stands for every character the scanner has  *)
(* no rule for.  The text is chosen while it is read; seen is what has     *)
(* been read of it.  The text is longer than MaxChars only if it goes on   *)
(* with nothing but the end of the file.                                   *)
(***************************************************************************)
EXTENDS Integers, Sequences, SequencesExt

CONSTANTS TextMaxChars,     \* bound on the characters of a text
          RawSourceMax      \* RAW_SOURCE_MAX, size of the line buffer

ASSUME TextAssumption == TextMaxChars \in Nat /\ RawSourceMax \in Nat \ {0, 1}

VARIABLES tpc,              \* where GetTextLine is
          seen,             \* history: characters read from the file
          c,                \* the character in hand
          Dst,              \* the line, as far as it is copied
          commentFlag, quoteFlag, continueFlag,
          CurrentLine, LastChar

textVars == <<tpc, seen, c, Dst, commentFlag, quoteFlag, continueFlag,
              CurrentLine, LastChar>>

White == {" "}
Letters == {"a", "/", "*", "quote", ";", "\\", "nl", " "}

(* What fread delivers: a character, a DOS line end, the end of the file.  *)
AtEOF == seen # <<>> /\ Last(seen) = "eof"
Reads == IF AtEOF \/ Len(seen) >= TextMaxChars
         THEN {<<"eof">>}
         ELSE {<<x>> : x \in Letters \cup {"eof"}} \cup {<<"cr", "nl">>}

(* Characters are of the alphabet, the line fits its buffer.               *)
TextTypeOK ==
    /\ tpc \in {"start", "lead", "scan", "toEOL", "block", "blockEnd",
                "done", "tooLong"}
    /\ seen \in Seq(Letters \cup {"eof", "cr"})
    /\ c \in Letters \cup {"eof"}
    /\ Dst \in Seq(Letters) /\ Len(Dst) < RawSourceMax
    /\ {commentFlag, quoteFlag, continueFlag} \subseteq BOOLEAN
    /\ CurrentLine \in Nat /\ LastChar \in Letters \cup {"none"}

TextInit ==
    /\ tpc = "start" /\ seen = <<>> /\ c = "eof" /\ Dst = <<>>
    /\ commentFlag = FALSE /\ quoteFlag = FALSE /\ continueFlag = FALSE
    /\ CurrentLine = 1 /\ LastChar = "none"

(* ReadCharacter drops carriage returns; the line counter moves on when    *)
(* the character after a line end is read, not with the line end itself.   *)
ReadCharacter ==
    \E r \in Reads :
        /\ seen' = IF AtEOF THEN seen ELSE seen \o r
        /\ c' = Last(r)
        /\ IF c' = "eof" THEN UNCHANGED <<CurrentLine, LastChar>>
           ELSE /\ CurrentLine' = IF LastChar = "nl" THEN CurrentLine + 1
                                                      ELSE CurrentLine
                /\ LastChar' = c'

DropLast == IF Dst = <<>> THEN <<>> ELSE Front(Dst)
flags == <<commentFlag, quoteFlag, continueFlag>>

SkipLeadingSpace ==
    /\ tpc \in {"start", "lead"}
    /\ ReadCharacter
    /\ tpc' = IF c' \in White \cup {"nl"} THEN "lead" ELSE "scan"
    /\ UNCHANGED <<Dst, flags>>

(* The flags as one turn of the loop computes them before it looks at c.   *)
Quoted == quoteFlag # (c = "quote")
(* Slip: a slash inside quotes begins a comment, too.                      *)
Late_Comment == commentFlag

Comment == commentFlag /\ ~Quoted
LineComment == (Comment /\ c = "/") \/ (~Quoted /\ c = ";")
BlockComment == ~LineComment /\ Comment /\ c = "*"
Joined == ~LineComment /\ ~BlockComment /\ continueFlag /\ c = "nl"
Plain == ~LineComment /\ ~BlockComment /\ ~Joined

ScanLineComment ==
    /\ tpc = "scan" /\ LineComment
    /\ Dst' = IF c = "/" THEN DropLast ELSE Dst
    /\ quoteFlag' = Quoted /\ commentFlag' = Comment
    /\ tpc' = "toEOL"
    /\ UNCHANGED <<continueFlag, c, seen, CurrentLine, LastChar>>

SkipToEOL ==
    /\ tpc = "toEOL" /\ c \notin {"eof", "nl"}
    /\ ReadCharacter
    /\ UNCHANGED <<tpc, Dst, flags>>

ScanBlockComment ==
    /\ tpc = "scan" /\ BlockComment
    /\ Dst' = DropLast
    /\ quoteFlag' = Quoted /\ commentFlag' = Comment
    /\ tpc' = "block"
    /\ UNCHANGED <<continueFlag, c, seen, CurrentLine, LastChar>>

(* The inner loop stops at a star, the outer one at the slash after it.    *)
(* At the end of the file the inner loop stops and the outer one does not. *)
SkipBlock ==
    /\ tpc = "block"
    /\ ReadCharacter
    /\ tpc' = IF c \in {"eof", "*"} /\ c' = "/" THEN "blockEnd" ELSE "block"
    /\ UNCHANGED <<Dst, flags>>

LeaveBlock ==
    /\ tpc = "blockEnd"
    /\ ReadCharacter
    /\ commentFlag' = FALSE /\ tpc' = "scan"
    /\ UNCHANGED <<Dst, quoteFlag, continueFlag>>

JoinLine ==
    /\ tpc = "scan" /\ Joined
    /\ Dst' = DropLast
    /\ quoteFlag' = Quoted /\ commentFlag' = Comment /\ continueFlag' = FALSE
    /\ ReadCharacter
    /\ UNCHANGED tpc

(* Slip: no room is left for the terminating 0.                            *)
Full_CopyCharacter ==
    /\ tpc = "scan" /\ Plain /\ c \notin {"eof", "nl"}
    /\ quoteFlag' = Quoted
    /\ commentFlag' = (c = "/") /\ continueFlag' = (c = "\\")
    /\ IF Len(Dst) < RawSourceMax
       THEN Dst' = Append(Dst, c) /\ ReadCharacter /\ UNCHANGED tpc
       ELSE tpc' = "tooLong"
            /\ UNCHANGED <<Dst, seen, c, CurrentLine, LastChar>>

CopyCharacter ==
    /\ tpc = "scan" /\ Plain /\ c \notin {"eof", "nl"}
    /\ quoteFlag' = Quoted
    /\ commentFlag' = (c = "/") /\ continueFlag' = (c = "\\")
    /\ IF Len(Dst) < RawSourceMax - 1
       THEN Dst' = Append(Dst, c) /\ ReadCharacter /\ UNCHANGED tpc
       ELSE tpc' = "tooLong"
            /\ UNCHANGED <<Dst, seen, c, CurrentLine, LastChar>>

(* Trailing white space of a line.                                         *)
TrailingFrom(s) ==
    CHOOSE n \in 0 .. Len(s) :
        /\ \A i \in n + 1 .. Len(s) : s[i] \in White
        /\ n = 0 \/ s[n] \notin White

(* Slip: a comment on a last line without a line end has no end.           *)
Deaf_EndOfLine ==
    /\ \/ tpc = "scan" /\ Plain /\ c \in {"eof", "nl"}
       \/ tpc = "toEOL" /\ c = "nl"
    /\ Dst' = SubSeq(Dst, 1, TrailingFrom(Dst))
    /\ tpc' = "done"
    /\ UNCHANGED <<flags, c, seen, CurrentLine, LastChar>>

EndOfLine ==
    /\ \/ tpc = "scan" /\ Plain /\ c \in {"eof", "nl"}
       \/ tpc = "toEOL" /\ c \in {"eof", "nl"}
    /\ Dst' = SubSeq(Dst, 1, TrailingFrom(Dst))
    /\ tpc' = "done"
    /\ UNCHANGED <<flags, c, seen, CurrentLine, LastChar>>

TextScan == \/ SkipLeadingSpace \/ ScanLineComment \/ SkipToEOL
            \/ ScanBlockComment \/ LeaveBlock \/ JoinLine
            \/ CopyCharacter \/ EndOfLine \/ SkipBlock

TextDone == tpc \in {"done", "tooLong"} /\ UNCHANGED textVars

TextNext == TextScan \/ TextDone

TextSpec == TextInit /\ [][TextNext]_textVars /\ WF_textVars(TextScan)

-----------------------------------------------------------------------------
(* The line a text starts with, defined on the whole text: q is whether    *)
(* the rest s begins inside quotes.                                        *)
RECURSIVE Strip(_, _)
Strip(s, q) ==
    LET begins(x, y) == Len(s) > 1 /\ s[1] = x /\ s[2] = y
        rest(n) == SubSeq(s, n + 1, Len(s))
        closing == {i \in 2 .. Len(s) - 1 : s[i] = "*" /\ s[i + 1] = "/"}
    IN  IF s = <<>> \/ s[1] \in {"nl", "eof"} THEN <<>>
        ELSE IF begins("\\", "nl") THEN Strip(rest(2), q)
        ELSE IF ~q /\ (s[1] = ";" \/ begins("/", "/")) THEN <<>>
        ELSE IF ~q /\ begins("/", "*")
             THEN LET i == CHOOSE i \in closing : \A j \in closing : i <= j
                  IN  Strip(rest(i + 1), q)
        ELSE <<s[1]>> \o Strip(rest(1), q # (s[1] = "quote"))

TextRead == SelectSeq(seen, LAMBDA x : x # "cr")

(* The flags of the character loop amount to the rules of the language:    *)
(* the line delivered is the text up to its first line end, without        *)
(* comments outside quotes, with quoted text untouched and continued lines *)
(* joined, whatever comes next to what.                                    *)
LineIsStrippedText ==
    tpc = "done" =>
        LET start == CHOOSE n \in 0 .. Len(TextRead) - 1 :
                        /\ TextRead[n + 1] \notin White \cup {"nl"}
                        /\ \A i \in 1 .. n : TextRead[i] \in White \cup {"nl"}
            line == Strip(SubSeq(TextRead, start + 1, Len(TextRead)), FALSE)
        IN  Dst = SubSeq(line, 1, TrailingFrom(line))

(* The line number in messages and in the debug file is that of the last   *)
(* character read: a line end belongs to the line it ends, through         *)
(* comments over several lines, joined lines and DOS line ends.            *)
LineNumberOfLastCharacter ==
    LET chars == SelectSeq(TextRead, LAMBDA x : x # "eof")
    IN  chars # <<>> =>
          CurrentLine = 1 + Len(SelectSeq(Front(chars), LAMBDA x : x = "nl"))

(* GetTextLine returns with a line, or too long a line, unless the file    *)
(* ends inside a comment: it never returns then.                           *)
LineBegun == tpc # "start"
LineRead == tpc \in {"done", "tooLong"} \/ (tpc = "block" /\ c = "eof")
=============================================================================
