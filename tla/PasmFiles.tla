----------------------------- MODULE PasmFiles ------------------------------
(***************************************************************************)
(* Which file a line is in.  A text is what ProcessSourceFile reads in one *)
(* pass, with "include" where an included file begins and "eof" where it   *)
(* ends (LoadInclude).                                                     *)
(***************************************************************************)
EXTENDS Integers, Sequences, FiniteSets

At(text, op, q) == {i \in 1 .. q : text[i].op = op}

(* The included files that are open after the first q items.               *)
OpenAt(text, q) ==
    Cardinality(At(text, "include", q)) - Cardinality(At(text, "eof", q))

(* The last item of the file that item p is in, before its end.  An error  *)
(* of pass 2 ends this file only: LoadInclude returns 0, GetSourceLine -1, *)
(* and the file with the #include reads on.                                *)
LastOfFile(text, p) ==
    LET ends == {q \in p .. Len(text) :
                    q = Len(text) \/ OpenAt(text, q + 1) < OpenAt(text, p)}
    IN  CHOOSE q \in ends : \A r \in ends : q <= r
=============================================================================
