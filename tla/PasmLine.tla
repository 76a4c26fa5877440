------------------------------ MODULE PasmLine ------------------------------
(***************************************************************************)
(* How the PRU assembler splits a line into a label, a command or opcode   *)
(* and parameters (pasm.c, ParseSourceLine).                               *)
(*                                                                         *)
(* Characters are the classes the parser tells apart: "l" a letter or _,   *)
(* "0" a digit, " " white space, "#" what else may begin a parameter       *)
(* (one of hash, minus, parenthesis, quote, ampersand, star), "?" the      *)
(* rest.                                                                   *)
(***************************************************************************)
EXTENDS Integers, Sequences, SequencesExt, FiniteSets

CONSTANTS SourceLines,      \* lines that are parsed
          MAX_TOKENS,       \* the command and its parameters are fewer or as many
          TermMaxLen        \* TOKEN_MAX_LEN, size of a term with its final 0

ASSUME LineAssumption ==
    MAX_TOKENS \in Nat \ {0} /\ TermMaxLen \in Nat \ {0}

VARIABLES lpc,              \* "word", "params", "parsed", "refused"
          src, srcIdx,      \* the line, and the character in hand
          Label, term,      \* sl.Label, sl.Term[0 .. Terms - 1]
          dotCmd2           \* SRC_FLG_DOTCMD2

lineVars == <<lpc, src, srcIdx, Label, term, dotCmd2>>

CharAt(i) == IF i <= Len(src) THEN src[i] ELSE "end"
\* First character from i on that is not, or is, of S
Behind(i, S) == CHOOSE k \in i .. Len(src) + 1 :
                   CharAt(k) \notin S /\ \A j \in i .. k - 1 : CharAt(j) \in S
UpTo(i, S) == Behind(i, {"l", "0", ".", ":", ",", " ", "#", "?"} \ S)

(* Flags and Terms are reset with every line. *)
LineInit ==
    /\ lpc = "word" /\ src \in SourceLines /\ srcIdx = 1
    /\ Label = <<>> /\ term = <<>> /\ dotCmd2 = FALSE

\* Without trailing white space
Trimmed(s) == SubSeq(s, 1, Len(s) - Cardinality(
                 {k \in DOMAIN s : \A j \in k .. Len(s) : s[j] = " "}))

Refused == lpc' = "refused" /\ UNCHANGED <<srcIdx, Label, term, dotCmd2>>

(* A label, which may be followed by a command; or the command.            *)
ReadWord ==
    LET end == Behind(srcIdx, {"l", "0", "."})
        word == SubSeq(src, srcIdx, end - 1)
    IN  /\ lpc = "word" /\ UNCHANGED src
        /\ CASE CharAt(srcIdx) \notin {"l", "."} \/ Len(word) >= TermMaxLen -> Refused
             [] OTHER ->
                  CASE CharAt(end) = ":" /\ Label = <<>> ->
                         /\ Label' = word
                         /\ lpc' = IF CharAt(end + 1) = "end" THEN "parsed" ELSE "word"
                         /\ srcIdx' = Behind(end + 1, {" "})
                         /\ UNCHANGED <<term, dotCmd2>>
                    [] CharAt(end) \in {" ", "end"} ->
                         /\ term' = <<word>> /\ srcIdx' = end /\ lpc' = "params"
                         /\ UNCHANGED <<Label, dotCmd2>>
                    [] OTHER -> Refused

EndOfParameters == lpc = "params" /\ CharAt(srcIdx) = "end" /\ lpc' = "parsed"
              /\ UNCHANGED <<src, srcIdx, Label, term, dotCmd2>>

(* A first parameter that begins with a dot ends at white space, the others*)
(* at a comma; a comma at the end of the line is swallowed.                *)
ReadParameter ==
    LET first == Behind(srcIdx, {" "})
        dot == Len(term) = 1 /\ CharAt(first) = "."
        end == UpTo(first, {","} \union (IF dot THEN {" "} ELSE {}))
        text == SubSeq(src, first, end - 1)
    IN  /\ lpc = "params" /\ CharAt(srcIdx) # "end" /\ UNCHANGED src
        /\ IF \/ Len(term) = MAX_TOKENS
              \/ CharAt(first) \notin {"l", "0", ".", "#"}
              \/ Len(text) >= TermMaxLen
             THEN Refused
             ELSE /\ term' = Append(term, Trimmed(text))
                  /\ dotCmd2' = (dotCmd2 \/ dot)
                  /\ srcIdx' = IF CharAt(end) = "end" THEN end ELSE end + 1
                  /\ UNCHANGED <<lpc, Label>>

LineNext == ReadWord \/ ReadParameter \/ EndOfParameters

-----------------------------------------------------------------------------
(* Properties                                                              *)

Without(s, S) == SelectSeq(s, LAMBDA x : x \notin S)
Commas == Cardinality({k \in DOMAIN src : src[k] = ","})

(* A line that is accepted is a label and terms: nothing of it is lost,    *)
(* repeated or moved, each comma ends one parameter, no term is empty,     *)
(* begins or ends with white space or is longer than its buffer.           *)
AcceptedAsWritten ==
    lpc = "parsed" =>
       /\ Without(Label \o FlattenSeq(term), {" ", ":"}) = Without(src, {" ", ":", ","})
       /\ \A k \in DOMAIN term :
             /\ Len(term[k]) \in 1 .. TermMaxLen - 1
             /\ Head(term[k]) # " " /\ Last(term[k]) # " "
       /\ term # <<>> /\ ~dotCmd2 =>
             Len(term) = 1 + Commas + (IF Last(src) = "," \/ Len(term) = 1 THEN 0 ELSE 1)

(* A command and letters between single commas are refused only when there *)
(* are too many or one of them is too long.                                *)
PlainAccepted ==
    LET space == UpTo(1, {" "})
        blank(a, b) == \A j \in a .. b : src[j] = " "
    IN  lpc = "refused" /\ (\A k \in DOMAIN src : src[k] \in {"l", " ", ","}) =>
          \/ src = <<>> \/ src[1] # "l" \/ Last(src) = " "
          \/ Commas >= MAX_TOKENS - 1
          \/ \E m \in DOMAIN src : src[m] = "," /\ blank(space, m - 1)
          \/ \E k, m \in DOMAIN src : k < m /\ {src[k], src[m]} = {","} /\ blank(k + 1, m - 1)
          \/ \E k \in DOMAIN src : src[k] = "l" /\ \A j \in k .. k + TermMaxLen - 1 :
                j \in DOMAIN src /\ src[j] # "," /\ ~(k < space /\ space <= j)

(* The terms of a line are what is written between its separators.         *)
TermsOfLine == AcceptedAsWritten /\ PlainAccepted
=============================================================================
