----------------------------- MODULE PasmStruct -----------------------------
(***************************************************************************)
(* Structures, their assignment to registers, and scopes in the PRU        *)
(* assembler (pasmstruct.c), in the two passes over a text of dot commands *)
(* and references, in files that include others.  The text is chosen in    *)
(* pass 1 and read again in pass 2; after an error there is no second pass.*)
(*                                                                         *)
(* A register field is <<number, lowest byte, bytes>>: R5.w2 is <<5,2,2>>. *)
(* Structures and scopes are numbered in the order they are created;       *)
(* pointers are those numbers, with Null and, for a freed record, Freed.   *)
(***************************************************************************)
EXTENDS PasmFiles

CONSTANTS Commands,         \* the dot commands and references of a text
          TextLimit,        \* bound on the length of a text
          StructErrors,     \* errors that abort a pass; 25 in the code
          STRUCT_MAX_ELEM,
          Endians           \* values of Options & OPTION_BIGENDIAN

(* The fields GetRegister accepts for the two ends of an assignment.       *)
RegisterFields ==
    {f \in (0 .. 31) \X (0 .. 3) \X {1, 2, 4} : f[2] + f[3] <= 4}

(* References whose extension has "." or "/" for the digit are left out:   *)
(* GetFinalSize takes x.b/ for a byte and x.w. for a word.                 *)
ASSUME StructAssumption ==
    /\ TextLimit \in Nat /\ StructErrors \in Nat /\ Endians \subseteq BOOLEAN
    /\ STRUCT_MAX_ELEM \in Nat \ {0}
    /\ \A c \in Commands :
          /\ c.op \in {"struct", "ends", "elem", "assign", "enter", "leave",
                      "using", "ref", "include", "eof", "undefined"}
          /\ c.op = "elem" => c.size \in {1, 2, 4}
          /\ c.op = "assign" => c.from \in RegisterFields
                                /\ c.to \in RegisterFields \cup {<<>>}
          /\ c.op = "ref" => /\ c.ref.cmd \in {"name", "SIZE", "OFFSET"}
                             /\ c.ref.ext # <<>> =>
                                   /\ c.ref.ext[1].width \in {1, 2}
                                   /\ c.ref.ext[1].digit \in Int \ {-1, -2}

VARIABLES bigEndian, stPass, stText, stPos, stErrors,
          structs,          \* pStructList
          pStructCurrent,
          scopes,           \* pScopeList
          pScopeCurrent,
          answer,           \* what replaced the reference, if it was one
          freedUsed         \* history: a freed record was read or written

structVars == <<bigEndian, stPass, stText, stPos, stErrors, structs,
                pStructCurrent, scopes, pScopeCurrent, answer, freedUsed>>

Null == 0
Freed == -1
Root == "_ROOT_"
NoAnswer == [ref |-> <<>>, is |-> "none"]
Unset == <<-1>>
Whole == ""                  \* the elem of a reference to all elements

-----------------------------------------------------------------------------
(* Slip: the little endian table for both byte orders.                     *)
Little_StartByte(f) == 4 * f[1] + f[2]

(* Byte offsets in the register file of the first byte of a field and of   *)
(* the byte after its last one (StructAssign).                             *)
StartByte(f) ==
    LET lanes == <<f[2], f[3]>>
    IN  4 * f[1] +
        IF ~bigEndian
        THEN CASE lanes \in {<<1, 1>>, <<1, 2>>} -> 1
               [] lanes \in {<<2, 1>>, <<2, 2>>} -> 2
               [] lanes = <<3, 1>> -> 3
               [] OTHER -> 0
        ELSE CASE lanes \in {<<1, 2>>, <<2, 1>>} -> 1
               [] lanes \in {<<1, 1>>, <<0, 2>>} -> 2
               [] lanes = <<0, 1>> -> 3
               [] OTHER -> 0

EndByte(f) ==
    LET lanes == <<f[2], f[3]>>
    IN  4 * f[1] +
        IF ~bigEndian
        THEN CASE lanes = <<0, 1>> -> 1
               [] lanes \in {<<1, 1>>, <<0, 2>>} -> 2
               [] lanes \in {<<2, 1>>, <<1, 2>>} -> 3
               [] OTHER -> 4
        ELSE CASE lanes = <<3, 1>> -> 1
               [] lanes \in {<<2, 1>>, <<2, 2>>} -> 2
               [] lanes \in {<<1, 1>>, <<1, 2>>} -> 3
               [] OTHER -> 4

(* GetRegname: an element may not cross the end of a register.             *)
Aligned(off, size) == (off % 4) + size <= 4
GetRegname(off, size) ==
    <<off \div 4,
      IF size = 4 THEN 0 ELSE IF bigEndian THEN 4 - size - (off % 4) ELSE off % 4,
      size>>

-----------------------------------------------------------------------------
StructFind(n) == {i \in 1 .. Len(structs) : structs[i].name = n}
ScopeFind(n) == {i \in 1 .. Len(scopes) : scopes[i].name = n}

(* AssignFind looks in the open scopes only, newest scope and newest       *)
(* assignment first.                                                       *)
Visible(n) == {p \in (1 .. Len(scopes)) \X (1 .. TextLimit) :
                  /\ scopes[p[1]].open /\ p[2] <= Len(scopes[p[1]].assigns)
                  /\ scopes[p[1]].assigns[p[2]].name = n}
AssignFind(n) ==
    LET at == CHOOSE p \in Visible(n) : \A q \in Visible(n) :
                 p[1] > q[1] \/ (p[1] = q[1] /\ p[2] >= q[2])
    IN  scopes[at[1]].assigns[at[2]]

CheckStruct(n) == StructFind(n) # {} \/ Visible(n) # {} \/ ScopeFind(n) # {}

TotalSize(elems) == IF elems = <<>> THEN 0
                    ELSE elems[Len(elems)].offset + elems[Len(elems)].size

-----------------------------------------------------------------------------
(* What every command leaves alone unless it says otherwise.               *)
Fine == UNCHANGED stErrors
Error == stErrors' = stErrors + 1
KeepStructs == UNCHANGED <<structs, pStructCurrent, freedUsed>>
KeepScopes == UNCHANGED <<scopes, pScopeCurrent>>
Unasked == answer' = NoAnswer

StructNew(n) ==
    /\ IF pStructCurrent # Null THEN Error /\ KeepStructs
       ELSE IF CheckStruct(n)
       THEN Error /\ KeepStructs
       ELSE /\ Fine
            /\ structs' = Append(structs, [name |-> n, elems |-> <<>>])
            /\ pStructCurrent' = Len(structs) + 1
            /\ UNCHANGED freedUsed
    /\ KeepScopes /\ Unasked

(* The freed record may hold anything, so that .ends and .u32 may find it  *)
(* right or wrong; what a write to it does to other data is left out.      *)
StructEnd ==
    /\ freedUsed' = (freedUsed \/ pStructCurrent = Freed)
    /\ IF pStructCurrent = Freed THEN Fine \/ Error
       ELSE IF pStructCurrent # Null /\ structs[pStructCurrent].elems # <<>>
       THEN Fine ELSE Error
    /\ pStructCurrent' = Null
    /\ KeepScopes /\ Unasked /\ UNCHANGED structs

StructAddElement(n, size) ==
    /\ freedUsed' = (freedUsed \/ pStructCurrent = Freed)
    /\ IF pStructCurrent = Null THEN Error /\ UNCHANGED structs
       ELSE IF pStructCurrent = Freed THEN (Fine \/ Error) /\ UNCHANGED structs
       ELSE LET elems == structs[pStructCurrent].elems
            IN  IF \/ Len(elems) = STRUCT_MAX_ELEM
                   \/ \E i \in 1 .. Len(elems) : elems[i].name = n
                THEN Error /\ UNCHANGED structs
                ELSE /\ Fine
                     /\ structs' = [structs EXCEPT ![pStructCurrent].elems =
                           Append(@, [name |-> n, size |-> size,
                                      offset |-> TotalSize(elems)])]
    /\ KeepScopes /\ Unasked /\ UNCHANGED pStructCurrent

(* .assign: to is a register field or "*", which leaves out the check of   *)
(* the end.  Every element must lie within one register.                   *)
Mapped(elems, start) ==
    [i \in 1 .. Len(elems) |->
        [name |-> elems[i].name, size |-> elems[i].size,
         offset |-> elems[i].offset,
         reg |-> GetRegname(start + elems[i].offset, elems[i].size)]]

AssignOK(n, from, to, def) ==
    /\ pStructCurrent = Null /\ pScopeCurrent # Null
    /\ StructFind(n) # {}
    /\ LET elems == structs[CHOOSE i \in StructFind(n) : TRUE].elems
       IN  /\ to # <<>> => StartByte(from) + TotalSize(elems) = EndByte(to)
           /\ \A i \in 1 .. Len(elems) :
                 Aligned(StartByte(from) + elems[i].offset, elems[i].size)
    /\ ~CheckStruct(def)

StructAssign(n, from, to, def) ==
    /\ IF ~AssignOK(n, from, to, def) THEN Error /\ UNCHANGED scopes
       ELSE /\ Fine
            /\ scopes' = [scopes EXCEPT ![pScopeCurrent].assigns = Append(@,
                  [name |-> def, from |-> from, to |-> to,
                   elems |-> Mapped(structs[CHOOSE i \in StructFind(n) : TRUE].elems,
                                    StartByte(from))])]
    /\ KeepStructs /\ Unasked /\ UNCHANGED pScopeCurrent

-----------------------------------------------------------------------------
(* ScopeCreate: the new scope is open and current; its parent is the scope *)
(* current at its creation, which .using does not change.                  *)
ScopeEnter(n) ==
    /\ IF CheckStruct(n) THEN Error /\ KeepScopes
       ELSE /\ Fine
            /\ scopes' = Append(scopes, [name |-> n, open |-> TRUE,
                                         parent |-> pScopeCurrent, assigns |-> <<>>])
            /\ pScopeCurrent' = Len(scopes) + 1
    /\ KeepStructs /\ Unasked

(* ScopeClose walks from the current scope up to the first open one.       *)
FirstOpen(sc, s) ==
    LET up[k \in 0 .. Len(sc)] == IF k = Null \/ sc[k].open THEN k
                                  ELSE up[sc[k].parent]
    IN  up[s]

ScopeLeave(n) ==
    LET s == CHOOSE i \in ScopeFind(n) : TRUE
        closed == [scopes EXCEPT ![s].open = FALSE]
    IN  /\ IF ScopeFind(n) = {} \/ ~scopes[s].open THEN Error /\ KeepScopes
           ELSE /\ Fine /\ scopes' = closed
                /\ pScopeCurrent' = FirstOpen(closed, pScopeCurrent)
        /\ KeepStructs /\ Unasked

ScopeUsing(n) ==
    LET s == CHOOSE i \in ScopeFind(n) : TRUE
    IN  /\ IF ScopeFind(n) = {} \/ scopes[s].open THEN Error /\ KeepScopes
           ELSE /\ Fine /\ scopes' = [scopes EXCEPT ![s].open = TRUE]
                /\ pScopeCurrent' = s
        /\ KeepStructs /\ Unasked

-----------------------------------------------------------------------------
(* The part of an element that an extension names: its size, or an error.  *)
(* The code computes with unsigned numbers, so a digit below '0' is huge.  *)
ExtFits(ext, size) == ext.digit + ext.width \in 0 .. size
GetFinalSize(ext, e) == IF ExtFits(ext, e.size) THEN ext.width ELSE -1
GetFinalOffset(ext, e) ==
    IF ~ExtFits(ext, e.size) THEN -1
    ELSE e.offset + IF bigEndian THEN e.size - ext.digit - ext.width
                                 ELSE ext.digit

HasElement(elems, n) == \E i \in 1 .. Len(elems) : elems[i].name = n
ElementNamed(elems, n) ==
    elems[CHOOSE i \in 1 .. Len(elems) : elems[i].name = n]

(* SIZE(name.elem.ext) and OFFSET(name.elem.ext), of an assignment or else *)
(* of a structure, or of the whole of it; -1 for an error.                 *)
ValueIn(r, elems) ==
    IF r.elem = Whole THEN IF r.cmd = "SIZE" THEN TotalSize(elems) ELSE 0
    ELSE IF ~HasElement(elems, r.elem) THEN -1
    ELSE LET e == ElementNamed(elems, r.elem)
         IN  CASE r.cmd = "SIZE" /\ r.ext = <<>> -> e.size
               [] r.cmd = "SIZE" /\ r.ext # <<>> -> GetFinalSize(r.ext[1], e)
               [] r.cmd = "OFFSET" /\ r.ext = <<>> -> e.offset
               [] OTHER -> GetFinalOffset(r.ext[1], e)

StructValueOperand(r) ==
    IF Visible(r.name) # {} THEN ValueIn(r, AssignFind(r.name).elems)
    ELSE IF StructFind(r.name) # {}
         THEN ValueIn(r, structs[CHOOSE i \in StructFind(r.name) : TRUE].elems)
    ELSE -1

(* A name or name.elem: the register it stands for, or the text unchanged. *)
(* An assignment without elements, possible only after an error, has an    *)
(* uninitialised BaseReg: Unset stands for whatever malloc returned.       *)
RegisterIn(r, elems) ==
    IF r.elem = Whole THEN IF elems = <<>> THEN Unset ELSE elems[1].reg
    ELSE IF HasElement(elems, r.elem) THEN ElementNamed(elems, r.elem).reg
    ELSE <<>>
StructNameCheck(r) ==
    IF Visible(r.name) = {} THEN <<>>
    ELSE RegisterIn(r, AssignFind(r.name).elems)

StructParamProcess(r) ==
    /\ IF r.cmd = "name"
       THEN /\ Fine
            /\ answer' = [ref |-> r, is |-> "register", reg |-> StructNameCheck(r)]
       ELSE /\ IF StructValueOperand(r) < 0 THEN Error ELSE Fine
            /\ answer' = [ref |-> r, is |-> "value", val |-> StructValueOperand(r)]
    /\ KeepStructs /\ KeepScopes

-----------------------------------------------------------------------------
(* What is not a matter of structures: the beginning and the end of an     *)
(* included file, and a line that fails in pass 2, on an undefined label.  *)
Other(cmd) ==
    /\ IF cmd.op = "undefined" /\ stPass = 2 THEN Error ELSE Fine
    /\ KeepStructs /\ KeepScopes /\ Unasked

Do(cmd) ==
    CASE cmd.op = "struct" -> StructNew(cmd.name)
      [] cmd.op = "ends" -> StructEnd
      [] cmd.op = "elem" -> StructAddElement(cmd.name, cmd.size)
      [] cmd.op = "assign" -> StructAssign(cmd.name, cmd.from, cmd.to, cmd.def)
      [] cmd.op = "enter" -> ScopeEnter(cmd.name)
      [] cmd.op = "leave" -> ScopeLeave(cmd.name)
      [] cmd.op = "using" -> ScopeUsing(cmd.name)
      [] cmd.op = "ref" -> StructParamProcess(cmd.ref)
      [] cmd.op \in {"include", "eof", "undefined"} -> Other(cmd)

RootScope == <<[name |-> Root, open |-> TRUE, parent |-> Null, assigns |-> <<>>]>>

(* StructInit in the first pass.                                           *)
StructInit ==
    /\ bigEndian = FALSE /\ stPass = 0 /\ stText = <<>> /\ stPos = 0
    /\ stErrors = 0 /\ structs = <<>> /\ pStructCurrent = Null
    /\ scopes = <<>> /\ pScopeCurrent = Null /\ answer = NoAnswer
    /\ freedUsed = FALSE

StructBegin ==
    /\ stPass = 0
    /\ stPass' = 1 /\ bigEndian' \in Endians
    /\ scopes' = RootScope /\ pScopeCurrent' = 1
    /\ UNCHANGED <<stText, stPos, stErrors, structs, pStructCurrent, answer,
                   freedUsed>>

FirstPass(cmd) ==
    /\ stPass = 1 /\ stPos < TextLimit /\ stErrors < StructErrors
    /\ cmd.op = "eof" => OpenAt(stText, Len(stText)) > 0
    /\ Do(cmd)
    /\ stPos' = stPos + 1
    /\ stText' = IF stErrors' = 0 THEN Append(stText, cmd) ELSE <<>>
    /\ UNCHANGED <<bigEndian, stPass>>

(* StructCleanup closes and frees the scopes, newest first, and frees the  *)
(* structures; it does not reset pStructCurrent.  StructInit follows.      *)
NextPass ==
    /\ stPass = 1 /\ stErrors = 0 /\ OpenAt(stText, Len(stText)) = 0
    /\ stPass' = 2 /\ stPos' = 0
    /\ structs' = <<>> /\ scopes' = RootScope /\ pScopeCurrent' = 1
    /\ pStructCurrent' = IF pStructCurrent = Null THEN Null ELSE Freed
    /\ answer' = NoAnswer
    /\ UNCHANGED <<bigEndian, stText, stErrors, freedUsed>>

(* An error ends the file it is in.                                        *)
SecondPass ==
    /\ stPass = 2 /\ stPos < Len(stText) /\ stErrors < StructErrors
    /\ Do(stText[stPos + 1])
    /\ stPos' = IF stErrors' = stErrors THEN stPos + 1
                ELSE LastOfFile(stText, stPos + 1)
    /\ UNCHANGED <<bigEndian, stPass, stText>>

StructNext ==
    \/ StructBegin \/ NextPass \/ SecondPass
    \/ \E cmd \in Commands : FirstPass(cmd)

StructSpec == StructInit /\ [][StructNext]_structVars

-----------------------------------------------------------------------------
(* The current scope is open: a scope that is left or reopened never       *)
(* leaves new assignments in a closed scope, where no name would find      *)
(* them.  Parents are older, so that freeing the newest scope first never  *)
(* leaves the current scope or a parent freed.                             *)
ScopeCurrentOpen ==
    /\ pScopeCurrent \in 0 .. Len(scopes)
    /\ pScopeCurrent # Null => scopes[pScopeCurrent].open
    /\ \A i \in 1 .. Len(scopes) : scopes[i].parent < i

(* The structure that .struct left open in pass 1 is freed and remains     *)
(* current.  A file that goes on after an error in a file it includes may  *)
(* use it; until there is an error none does, so that nothing is output    *)
(* that comes from it.                                                     *)
FreedUsedInVain == freedUsed => stPass = 2 /\ stErrors > 0

(* The bytes of a register field, as offsets in the register file.         *)
FieldBytes(f) ==
    {4 * f[1] + IF bigEndian THEN 3 - k ELSE k : k \in f[2] .. f[2] + f[3] - 1}

(* The elements of an assignment lie next to each other from the first     *)
(* byte of its first register on, each in one register, and up to the last *)
(* byte of the register given as the end.                                  *)
ElementsTileRegisters ==
    \A i \in 1 .. Len(scopes) : \A j \in 1 .. Len(scopes[i].assigns) :
        LET a == scopes[i].assigns[j]
            start == CHOOSE b \in FieldBytes(a.from) :
                        \A d \in FieldBytes(a.from) : b <= d
        IN  /\ \A k \in 1 .. Len(a.elems) : FieldBytes(a.elems[k].reg) =
                   start + a.elems[k].offset ..
                   start + a.elems[k].offset + a.elems[k].size - 1
            /\ a.to # <<>> =>
                  \A b \in FieldBytes(a.to) : b < start + TotalSize(a.elems)

(* OFFSET and SIZE agree with the registers: the bytes they name, counted  *)
(* from the first byte of the assignment, are those of the register field  *)
(* the extension stands for.                                               *)
OffsetsMatchRegisters ==
    answer.is = "value" /\ answer.val >= 0 /\ Visible(answer.ref.name) # {}
      /\ answer.ref.elem # Whole =>
        LET r == answer.ref
            base == StartByte(AssignFind(r.name).elems[1].reg)
            reg == StructNameCheck(r)
            part == IF r.ext = <<>> THEN reg
                    ELSE <<reg[1], reg[2] + r.ext[1].digit, r.ext[1].width>>
        IN  CASE r.cmd = "OFFSET" -> base + answer.val = StartByte(part)
              [] r.cmd = "SIZE" -> answer.val = part[3]

(* The registers of .assign and the numbers of OFFSET and SIZE describe    *)
(* one layout, in both byte orders.                                        *)
ElementsWhereMapped == ElementsTileRegisters /\ OffsetsMatchRegisters
=============================================================================
