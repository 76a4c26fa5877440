----------------------------- MODULE PasmMarks ------------------------------
(***************************************************************************)
(* What the lines of the assembler mark while they work on it: equates,    *)
(* macros, scopes and structures, each with its own recursion.             *)
(***************************************************************************)
EXTENDS PasmExpand, PasmStruct, PasmMacro

(* Nothing is left marked or current that should not be: equates and       *)
(* macros are free after their expansion and scopes closed, however lines  *)
(* fail, and a structure that is freed is used only in a pass that failed. *)
NothingLeftMarked ==
    /\ BusyIffExpanding /\ InUseWhileExpanding
    /\ ScopeCurrentOpen /\ FreedUsedInVain
=============================================================================
