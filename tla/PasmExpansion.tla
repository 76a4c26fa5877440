--------------------------- MODULE PasmExpansion ----------------------------
(***************************************************************************)
(* What PasmExpand delivers: the expansion of equates in a line, defined   *)
(* by recursion on the text.                                               *)
(***************************************************************************)
EXTENDS PasmExpand

RunLength(s) == CHOOSE n \in 1 .. Len(s) :
                    /\ \A i \in 1 .. n : LabelChar(s[i], FALSE)
                    /\ n = Len(s) \/ ~LabelChar(s[n + 1], FALSE)

(* The text of s with its words replaced, q if s begins inside quotes.     *)
RECURSIVE Expansion(_, _, _)
Expansion(s, busy, q) ==
    IF s = <<>> THEN <<>>
    ELSE IF q \/ ~LabelChar(s[1], FALSE)
         THEN <<s[1]>> \o Expansion(Tail(s), busy, q # (s[1] = "quote"))
    ELSE LET w == SubSeq(s, 1, RunLength(s))
             new == IF w \in Equates \ busy /\ eqData[w] # <<>>
                    THEN Expansion(eqData[w], busy \cup {w}, FALSE) ELSE w
         IN  new \o Expansion(SubSeq(s, Len(w) + 1, Len(s)), busy, FALSE)

ShortWords(s) == \A i \in 1 .. Len(s) : Letter(s[i]) =>
                    RunLength(SubSeq(s, i, Len(s))) < TOKEN_MAX_LEN

(* The mode machine and its recursion deliver the line with every word     *)
(* outside quotes that is an equate replaced by its own expansion, except  *)
(* inside that equate's text; words longer than a token aside.             *)
LineIsExpansion ==
    exRes = "done" /\ ShortWords(srcLine) /\ (\A e \in Equates : ShortWords(eqData[e]))
        => LET full == Expansion(srcLine, {}, FALSE)
           IN  IF Len(full) < MAX_SOURCE_LINE THEN out = full
               ELSE expandErrors > 0
=============================================================================
