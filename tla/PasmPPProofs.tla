---------------------------- MODULE PasmPPProofs ----------------------------
(***************************************************************************)
(* The front of the PRU assembler.  The preprocessor (PasmPP) assembles    *)
(* what the conditionals ask for, gives every open file a record of its    *)
(* own and stops soon after the error limit, for every depth, number of    *)
(* files and limit.  Structures (PasmStruct) lie in the registers where    *)
(* OFFSET and SIZE say, and a freed one is used only after an error, for   *)
(* every text.  Macros (PasmMacro) have their arguments and labels of      *)
(* their own, the same in both passes, for every text.  Equates            *)
(* (PasmExpand) are busy exactly while they are expanded, whatever the     *)
(* line.                                                                   *)
(***************************************************************************)
EXTENDS PasmPP, PasmMarks, TLAPS, FiniteSetTheorems, WellFoundedInduction

Record == [name : FileNames, InUse : BOOLEAN]

(* Types, and the bounds of the stacks.                                    *)
FileTypes ==
    /\ Errors \in Nat /\ FatalError \in BOOLEAN /\ late \in Nat
    /\ frames \in Seq(Frame) /\ OpenFiles <= OpenMax
    /\ sfArray \in Seq(Record) /\ Len(sfArray) <= SOURCEFILE_MAX
FlagTypes ==
    /\ ccStateFlags \in Seq(CCFlag) /\ ccDepth <= CC_MAX_DEPTH
    /\ conds \in Seq(Cond)
Stacks == FileTypes /\ FlagTypes

(* The flag of a level is true exactly when it and all the levels around   *)
(* it are in the part their condition selects.                             *)
FlagsAddUp ==
    /\ Len(conds) = ccDepth
    /\ \A i \in 1 .. ccDepth :
          /\ conds[i].inElse = ccStateFlags[i].hasElse
          /\ ccStateFlags[i].isTrue <=> \A j \in 1 .. i : Taken(j)

Owned == OwnRecord /\ \A i \in 1 .. OpenFiles : frames[i].FileIndex \in 1 .. Len(sfArray)

(* A file that may assemble one more line is one that is not at the head   *)
(* of its loop.                                                            *)
Innermost == IF OpenFiles > 0 /\ frames[OpenFiles].top THEN 1 ELSE 0
LateLines ==
    /\ phase # "reading" => frames = <<>>
    /\ FatalError => Errors > 0
    /\ ~Aborting => late = 0
    /\ \A i \in 1 .. OpenFiles - 1 : ~frames[i].top
    /\ late + OpenFiles - Innermost <= OpenMax

PPInv == Stacks /\ FlagsAddUp /\ Owned /\ LateLines

-----------------------------------------------------------------------------
(* What the helpers do to the stack of files and to the records.           *)

(* Continue changes one flag of the innermost activation.                  *)
LEMMA ContinueEffect ==
    ASSUME Stacks, frames # <<>>, NEW t \in BOOLEAN, Continue(t)
    PROVE  /\ frames' \in Seq(Frame) /\ Len(frames') = OpenFiles /\ OpenFiles > 0
           /\ \A i \in 1 .. OpenFiles : frames'[i].FileIndex = frames[i].FileIndex
           /\ \A i \in 1 .. OpenFiles - 1 : frames'[i].top = frames[i].top
           /\ frames'[OpenFiles].top = t
<1>1. frames \in Seq(Frame) /\ OpenFiles \in Nat /\ OpenFiles > 0
  BY DEF Stacks, FileTypes, FlagTypes, OpenFiles
<1>2. Cur \in Frame
  BY <1>1 DEF Cur, OpenFiles
<1>3. [Cur EXCEPT !.top = t] \in Frame
  BY <1>2 DEF Frame
<1>4. frames' = [frames EXCEPT ![OpenFiles] = [Cur EXCEPT !.top = t]]
  BY DEF Continue, Cur
<1>5. /\ frames' \in Seq(Frame) /\ Len(frames') = OpenFiles
      /\ \A i \in 1 .. OpenFiles :
            frames'[i] = IF i = OpenFiles THEN [Cur EXCEPT !.top = t] ELSE frames[i]
  BY <1>1, <1>3, <1>4 DEF OpenFiles
<1>6. [Cur EXCEPT !.top = t].FileIndex = Cur.FileIndex /\ [Cur EXCEPT !.top = t].top = t
  BY <1>2 DEF Frame
<1> DEFINE new == [Cur EXCEPT !.top = t]
<1>7. new.FileIndex = frames[OpenFiles].FileIndex /\ new.top = t
  BY <1>6 DEF Cur
<1>8. \A i \in 1 .. OpenFiles : frames'[i] = IF i = OpenFiles THEN new ELSE frames[i]
  BY <1>5
<1> HIDE DEF new
<1> QED
  BY <1>1, <1>5, <1>7, <1>8

(* Return takes the innermost activation away and frees its record; the    *)
(* one that included it goes on.                                           *)
LEMMA ReturnEffect ==
    ASSUME Stacks, frames # <<>>, NEW rc \in BOOLEAN, Return(rc)
    PROVE  /\ frames' \in Seq(Frame) /\ Len(frames') = OpenFiles - 1 /\ OpenFiles > 0
           /\ \A i \in 1 .. OpenFiles - 1 : frames'[i].FileIndex = frames[i].FileIndex
           /\ \A i \in 1 .. OpenFiles - 2 : frames'[i].top = frames[i].top
           /\ OpenFiles > 1 => frames'[OpenFiles - 1].top = (~rc /\ Pass = 2)
           /\ sfArray' = [sfArray EXCEPT ![Cur.FileIndex].InUse = FALSE]
<1> DEFINE rest == SubSeq(frames, 1, OpenFiles - 1)
           last == [rest[OpenFiles - 1] EXCEPT !.top = ~rc /\ Pass = 2]
<1>1. frames \in Seq(Frame) /\ OpenFiles \in Nat /\ OpenFiles > 0
  BY DEF Stacks, FileTypes, FlagTypes, OpenFiles
<1>2. /\ rest \in Seq(Frame) /\ Len(rest) = OpenFiles - 1
      /\ \A i \in 1 .. OpenFiles - 1 : rest[i] = frames[i]
  BY <1>1 DEF OpenFiles
<1>3. sfArray' = [sfArray EXCEPT ![Cur.FileIndex].InUse = FALSE]
  BY DEF Return, CloseSourceFile
<1>4. frames' = IF rest = <<>> THEN rest ELSE [rest EXCEPT ![OpenFiles - 1] = last]
  BY DEF Return
<1> HIDE DEF rest
<1>5. CASE OpenFiles = 1
  BY <1>1, <1>2, <1>3, <1>4, <1>5
<1>6. CASE OpenFiles > 1
  <2>1. rest[OpenFiles - 1] \in Frame /\ rest # <<>>
    BY <1>1, <1>2, <1>6
  <2>2. last \in Frame /\ last.FileIndex = rest[OpenFiles - 1].FileIndex
        /\ last.top = (~rc /\ Pass = 2)
    BY <2>1 DEF Frame
  <2> HIDE DEF last
  <2>3. /\ frames' \in Seq(Frame) /\ Len(frames') = OpenFiles - 1
        /\ \A i \in 1 .. OpenFiles - 1 :
              frames'[i] = IF i = OpenFiles - 1 THEN last ELSE rest[i]
    BY <1>1, <1>2, <1>4, <1>6, <2>1, <2>2
  <2> QED
    BY <1>1, <1>2, <1>3, <1>6, <2>2, <2>3
<1> QED
  BY <1>1, <1>5, <1>6

(* RecordFor finds a record that is free, or the next of the array.        *)
LEMMA RecordIsFree ==
    ASSUME Stacks, NEW f
    PROVE  /\ RecordFor(f) \in 1 .. Len(sfArray) + 1
           /\ RecordFor(f) <= Len(sfArray) => ~sfArray[RecordFor(f)].InUse
<1>1. sfArray \in Seq(Record) /\ Len(sfArray) \in Nat
  BY DEF Stacks, FileTypes, FlagTypes
<1>2. CASE FreeRecords(f) # {}
  <2>1. FreeRecords(f) \in SUBSET Nat
    BY <1>1 DEF FreeRecords
  <2>2. \E i \in FreeRecords(f) : \A j \in FreeRecords(f) : i <= j
    <3> DEFINE R == OpToRel(<, Nat)
               S == FreeRecords(f)
    <3>1. IsWellFoundedOn(R, Nat)
      BY NatLessThanWellFounded
    <3>2. \A i, j \in Nat : <<i, j>> \in R <=> i < j
      BY DEF OpToRel
    <3>3. S \subseteq Nat /\ S # {}
      BY <1>2, <2>1
    <3> HIDE DEF R, S
    <3>4. PICK i \in S : \A j \in S : ~(<<j, i>> \in R)
      BY <3>1, <3>3, WFMin
    <3>5. ASSUME NEW j \in S PROVE i <= j
      <4>1. i \in Nat /\ j \in Nat /\ ~(<<j, i>> \in R)
        BY <3>3, <3>4
      <4>2. ~(j < i)
        BY <3>2, <4>1, Zenon
      <4> QED
        BY <4>1, <4>2
    <3> QED
      BY <3>5 DEF S
  <2>3. RecordFor(f) \in FreeRecords(f)
    BY <1>2, <2>2 DEF RecordFor
  <2> QED
    BY <1>1, <2>3 DEF FreeRecords
<1>3. CASE FreeRecords(f) = {}
  BY <1>1, <1>3 DEF RecordFor
<1> QED
  BY <1>2, <1>3

-----------------------------------------------------------------------------
(* The conditionals.                                                       *)

(* The only actions that change the conditionals are those of #ifdef,      *)
(* #else and #endif, and ppCleanup.                                        *)
LEMMA FlagKinds ==
    ASSUME [PPNext]_ppVars
    PROVE  \/ UNCHANGED <<ccStateFlags, conds>>
           \/ \E n \in Names, b, w \in BOOLEAN : IfDefProcess(n, b, w)
           \/ \E w \in BOOLEAN : ElseProcess(w)
           \/ \E w \in BOOLEAN : EndifProcess(w)
           \/ EndPass
BY DEF PPNext, ReadLine, ppVars, BadDirective, Message, EquateProcess,
       UndefProcess, LoadInclude, TextLine, SkipLine, EndOfFile,
       ExpansionTooLong, Abort, BeginPass, OpenMain

(* The innermost flag stands for all of them.                              *)
LEMMA SkippingMeans ==
    ASSUME Stacks, FlagsAddUp
    PROVE  Skipping <=> \E i \in 1 .. ccDepth : ~Taken(i)
<1>1. ccDepth \in Nat
  BY DEF Stacks, FileTypes, FlagTypes, ccDepth
<1>2. CASE ccDepth = 0
  BY <1>2 DEF Skipping
<1>3. CASE ccDepth > 0
  <2>1. ccStateFlags[ccDepth].isTrue <=> \A j \in 1 .. ccDepth : Taken(j)
    BY <1>1, <1>3 DEF FlagsAddUp
  <2> QED
    BY <1>3, <2>1 DEF Skipping
<1> QED
  BY <1>1, <1>2, <1>3

(* Taken, after a step. *)
Selected(i) == conds'[i].holds # conds'[i].inElse

(* #ifdef: the new level is true when its condition holds and the line is  *)
(* not skipped.                                                            *)
LEMMA IfDefFlags ==
    ASSUME Stacks, FlagsAddUp,
           NEW n \in Names, NEW b \in BOOLEAN, NEW w \in BOOLEAN,
           IfDefProcess(n, b, w)
    PROVE  FlagsAddUp' /\ FlagTypes'
<1>1. CASE UNCHANGED <<ccStateFlags, conds>>
  BY <1>1 DEF FlagsAddUp, ccDepth, Taken, Stacks, FlagTypes
<1> DEFINE holds == CheckEquate(n) = b
           flag == [isTrue |-> ~Skipping /\ holds, hasElse |-> FALSE]
           cond == [holds |-> holds, inElse |-> FALSE]
<1>2. CASE /\ ccDepth # CC_MAX_DEPTH /\ ccStateFlags' = Append(ccStateFlags, flag)
           /\ conds' = Append(conds, cond)
  <2>1. /\ ccStateFlags \in Seq(CCFlag) /\ conds \in Seq(Cond)
        /\ Len(ccStateFlags) \in Nat /\ Len(conds) = Len(ccStateFlags)
        /\ ccDepth = Len(ccStateFlags) /\ ccDepth < CC_MAX_DEPTH /\ CC_MAX_DEPTH \in Nat
    BY <1>2, PPAssumption DEF Stacks, FileTypes, FlagTypes, FlagsAddUp, ccDepth
  <2>2. flag \in CCFlag /\ cond \in Cond /\ flag.hasElse = FALSE /\ cond.inElse = FALSE
        /\ (flag.isTrue <=> ~Skipping /\ holds) /\ (cond.holds <=> holds)
    BY DEF CCFlag, Cond, Skipping
  <2> HIDE DEF flag, cond
  <2>3. /\ ccStateFlags' \in Seq(CCFlag) /\ conds' \in Seq(Cond)
        /\ Len(ccStateFlags') = ccDepth + 1 /\ Len(conds') = ccDepth + 1
        /\ \A i \in 1 .. ccDepth :
              ccStateFlags'[i] = ccStateFlags[i] /\ conds'[i] = conds[i]
        /\ ccStateFlags'[ccDepth + 1] = flag /\ conds'[ccDepth + 1] = cond
    BY <1>2, <2>1, <2>2
  <2>4. \A i \in 1 .. ccDepth : Selected(i) <=> Taken(i)
    BY <2>3 DEF Taken, Selected
  <2>5. Selected(ccDepth + 1) <=> holds
    <3>1. cond.holds \in BOOLEAN /\ cond.inElse = FALSE
      BY <2>2 DEF Cond
    <3>2. Selected(ccDepth + 1) <=> cond.holds # cond.inElse
      BY <2>3, Zenon DEF Selected
    <3>3. Selected(ccDepth + 1) <=> cond.holds
      BY <3>1, <3>2
    <3> QED
      BY <2>2, <3>3
  <2>6. ~Skipping <=> \A j \in 1 .. ccDepth : Taken(j)
    BY SkippingMeans
  <2>7. ASSUME NEW i \in 1 .. ccDepth + 1
        PROVE  /\ conds'[i].inElse = ccStateFlags'[i].hasElse
               /\ ccStateFlags'[i].isTrue <=> \A j \in 1 .. i : Selected(j)
    <3>1. CASE i \in 1 .. ccDepth
      <4>1. \A j \in 1 .. i : j \in 1 .. ccDepth
        BY <2>1, <3>1
      <4> QED
        BY <2>3, <2>4, <3>1, <4>1 DEF FlagsAddUp
    <3>2. CASE i = ccDepth + 1
      <4>1. (\A j \in 1 .. i : Selected(j)) <=>
               Selected(ccDepth + 1) /\ \A j \in 1 .. ccDepth : Selected(j)
        BY <2>1, <3>2
      <4>2. (\A j \in 1 .. ccDepth : Selected(j)) <=> ~Skipping
        BY <2>4, <2>6
      <4>3. (\A j \in 1 .. i : Selected(j)) <=> holds /\ ~Skipping
        BY <2>5, <4>1, <4>2
      <4>4. ccStateFlags'[i] = flag /\ conds'[i] = cond
        BY <2>3, <3>2
      <4> QED
        BY <2>2, <4>3, <4>4
    <3> QED
      BY <2>1, <2>7, <3>1, <3>2
  <2>8. ccDepth' = ccDepth + 1
    BY <2>3 DEF ccDepth
  <2> QED
    BY <2>1, <2>3, <2>7, <2>8 DEF FlagsAddUp, FlagTypes, Taken, Selected
<1>3. \/ UNCHANGED <<ccStateFlags, conds>>
      \/ /\ ccDepth # CC_MAX_DEPTH /\ ccStateFlags' = Append(ccStateFlags, flag)
         /\ conds' = Append(conds, cond)
  BY DEF IfDefProcess
<1> QED
  BY <1>1, <1>2, <1>3

(* #else: the part changes sides, and is true only if all around it is.    *)
LEMMA ElseFlags ==
    ASSUME Stacks, FlagsAddUp, NEW w \in BOOLEAN, ElseProcess(w)
    PROVE  FlagsAddUp' /\ FlagTypes'
<1>1. CASE UNCHANGED <<ccStateFlags, conds>>
  BY <1>1 DEF FlagsAddUp, ccDepth, Taken, Stacks, FlagTypes
<1> DEFINE cond == [conds[ccDepth] EXCEPT !.inElse = TRUE]
<1>2. CASE /\ ccDepth # 0 /\ ~ccStateFlags[ccDepth].hasElse
           /\ ccStateFlags' = [ccStateFlags EXCEPT ![ccDepth] = ElseFlag]
           /\ conds' = [conds EXCEPT ![ccDepth] = cond]
  <2>1. /\ ccStateFlags \in Seq(CCFlag) /\ conds \in Seq(Cond)
        /\ ccDepth \in Nat /\ ccDepth > 0 /\ Len(conds) = ccDepth
        /\ ccDepth = Len(ccStateFlags) /\ ccDepth <= CC_MAX_DEPTH
    BY <1>2 DEF Stacks, FileTypes, FlagTypes, FlagsAddUp, ccDepth
  <2>2. ccStateFlags[ccDepth] \in CCFlag /\ conds[ccDepth] \in Cond
    BY <2>1
  <2>3. /\ cond \in Cond /\ cond.inElse = TRUE /\ cond.holds = conds[ccDepth].holds
    BY <2>2 DEF Cond
  <2>4. /\ ElseFlag \in CCFlag /\ ElseFlag.hasElse = TRUE
        /\ ElseFlag.isTrue <=> /\ ~ccStateFlags[ccDepth].isTrue
                               /\ \A i \in 1 .. ccDepth - 1 : ccStateFlags[i].isTrue
    BY <2>2 DEF CCFlag, ElseFlag
  <2> HIDE DEF cond
  <2>5. /\ ccStateFlags' \in Seq(CCFlag) /\ conds' \in Seq(Cond)
        /\ Len(ccStateFlags') = ccDepth /\ Len(conds') = ccDepth
        /\ \A i \in 1 .. ccDepth - 1 :
              ccStateFlags'[i] = ccStateFlags[i] /\ conds'[i] = conds[i]
        /\ ccStateFlags'[ccDepth] = ElseFlag /\ conds'[ccDepth] = cond
    BY <1>2, <2>1, <2>3, <2>4
  <2>6. \A i \in 1 .. ccDepth - 1 : Selected(i) <=> Taken(i)
    BY <2>5 DEF Taken, Selected
  <2>7. ~conds[ccDepth].inElse
    BY <1>2, <2>1, <2>2 DEF FlagsAddUp
  <2>8. Selected(ccDepth) <=> ~Taken(ccDepth)
    <3>1. conds[ccDepth].holds \in BOOLEAN /\ conds[ccDepth].inElse \in BOOLEAN
      BY <2>2 DEF Cond
    <3>2. Taken(ccDepth) <=> conds[ccDepth].holds
      BY <2>7, <3>1 DEF Taken
    <3>3. Selected(ccDepth) <=> ~conds[ccDepth].holds
      BY <2>3, <2>5, <3>1 DEF Selected
    <3> QED
      BY <3>2, <3>3
  <2>9. ccStateFlags[ccDepth].isTrue <=>
           Taken(ccDepth) /\ \A j \in 1 .. ccDepth - 1 : Taken(j)
    <3>1. ccStateFlags[ccDepth].isTrue <=> \A j \in 1 .. ccDepth : Taken(j)
      BY <2>1 DEF FlagsAddUp
    <3> QED
      BY <2>1, <3>1
  <2>10. (\A i \in 1 .. ccDepth - 1 : ccStateFlags[i].isTrue)
            <=> \A j \in 1 .. ccDepth - 1 : Taken(j)
    <3>1. ASSUME NEW i \in 1 .. ccDepth - 1, \A j \in 1 .. ccDepth - 1 : Taken(j)
          PROVE  ccStateFlags[i].isTrue
      <4>1. \A j \in 1 .. i : j \in 1 .. ccDepth - 1
        BY <2>1
      <4> QED
        BY <2>1, <3>1, <4>1 DEF FlagsAddUp
    <3>2. ASSUME NEW i \in 1 .. ccDepth - 1, ccStateFlags[i].isTrue
          PROVE  Taken(i)
      <4>1. i \in 1 .. ccDepth /\ i \in 1 .. i
        BY <2>1
      <4> QED
        BY <3>2, <4>1 DEF FlagsAddUp
    <3> QED
      BY <3>1, <3>2
  <2>11. ASSUME NEW i \in 1 .. ccDepth
         PROVE  /\ conds'[i].inElse = ccStateFlags'[i].hasElse
                /\ ccStateFlags'[i].isTrue <=> \A j \in 1 .. i : Selected(j)
    <3>1. CASE i \in 1 .. ccDepth - 1
      <4>1. \A j \in 1 .. i : j \in 1 .. ccDepth - 1
        BY <2>1, <3>1
      <4> QED
        BY <2>5, <2>6, <3>1, <4>1 DEF FlagsAddUp
    <3>2. CASE i = ccDepth
      <4>1. (\A j \in 1 .. i : Selected(j)) <=>
               Selected(ccDepth) /\ \A j \in 1 .. ccDepth - 1 : Selected(j)
        BY <2>1, <3>2
      <4>2. (\A j \in 1 .. ccDepth - 1 : Selected(j))
               <=> \A j \in 1 .. ccDepth - 1 : Taken(j)
        BY <2>6
      <4>3. ElseFlag.isTrue <=> ~Taken(ccDepth) /\ \A j \in 1 .. ccDepth - 1 : Taken(j)
        BY <2>4, <2>9, <2>10
      <4>4. ccStateFlags'[i] = ElseFlag /\ conds'[i] = cond
        BY <2>5, <3>2
      <4> QED
        BY <2>3, <2>4, <2>8, <4>1, <4>2, <4>3, <4>4
    <3> QED
      BY <2>1, <3>1, <3>2
  <2>12. ccDepth' = ccDepth
    BY <2>1, <2>5 DEF ccDepth
  <2> QED
    BY <2>1, <2>5, <2>11, <2>12 DEF FlagsAddUp, FlagTypes, Taken, Selected
<1>3. \/ UNCHANGED <<ccStateFlags, conds>>
      \/ /\ ccDepth # 0 /\ ~ccStateFlags[ccDepth].hasElse
         /\ ccStateFlags' = [ccStateFlags EXCEPT ![ccDepth] = ElseFlag]
         /\ conds' = [conds EXCEPT ![ccDepth] = cond]
  BY DEF ElseProcess
<1> QED
  BY <1>1, <1>2, <1>3

(* #endif: the levels outside are as they were.                            *)
LEMMA EndifFlags ==
    ASSUME Stacks, FlagsAddUp, NEW w \in BOOLEAN, EndifProcess(w)
    PROVE  FlagsAddUp' /\ FlagTypes'
<1>1. CASE UNCHANGED <<ccStateFlags, conds>>
  BY <1>1 DEF FlagsAddUp, ccDepth, Taken, Stacks, FlagTypes
<1>2. CASE /\ ccDepth # 0
           /\ ccStateFlags' = SubSeq(ccStateFlags, 1, ccDepth - 1)
           /\ conds' = SubSeq(conds, 1, ccDepth - 1)
  <2>1. /\ ccStateFlags \in Seq(CCFlag) /\ conds \in Seq(Cond)
        /\ ccDepth \in Nat /\ ccDepth > 0 /\ Len(conds) = ccDepth
        /\ ccDepth = Len(ccStateFlags) /\ ccDepth <= CC_MAX_DEPTH /\ CC_MAX_DEPTH \in Nat
    BY <1>2, PPAssumption DEF Stacks, FileTypes, FlagTypes, FlagsAddUp, ccDepth
  <2>2. /\ ccStateFlags' \in Seq(CCFlag) /\ conds' \in Seq(Cond)
        /\ Len(ccStateFlags') = ccDepth - 1 /\ Len(conds') = ccDepth - 1
        /\ \A i \in 1 .. ccDepth - 1 :
              ccStateFlags'[i] = ccStateFlags[i] /\ conds'[i] = conds[i]
    BY <1>2, <2>1
  <2>3. \A i \in 1 .. ccDepth - 1 : Selected(i) <=> Taken(i)
    BY <2>2 DEF Taken, Selected
  <2>4. ASSUME NEW i \in 1 .. ccDepth - 1
        PROVE  /\ conds'[i].inElse = ccStateFlags'[i].hasElse
               /\ ccStateFlags'[i].isTrue <=> \A j \in 1 .. i : Selected(j)
    <3>1. i \in 1 .. ccDepth /\ \A j \in 1 .. i : j \in 1 .. ccDepth - 1
      BY <2>1
    <3>2. /\ conds[i].inElse = ccStateFlags[i].hasElse
          /\ ccStateFlags[i].isTrue <=> \A j \in 1 .. i : Taken(j)
      BY <3>1 DEF FlagsAddUp
    <3>3. (\A j \in 1 .. i : Taken(j)) <=> \A j \in 1 .. i : Selected(j)
      BY <2>3, <3>1
    <3> QED
      BY <2>2, <3>2, <3>3
  <2>5. ccDepth' = ccDepth - 1
    BY <2>2 DEF ccDepth
  <2> QED
    BY <2>1, <2>2, <2>4, <2>5 DEF FlagsAddUp, FlagTypes, Taken, Selected
<1>3. \/ UNCHANGED <<ccStateFlags, conds>>
      \/ /\ ccDepth # 0
         /\ ccStateFlags' = SubSeq(ccStateFlags, 1, ccDepth - 1)
         /\ conds' = SubSeq(conds, 1, ccDepth - 1)
  BY DEF EndifProcess
<1> QED
  BY <1>1, <1>2, <1>3

LEMMA FlagsStep ==
    ASSUME Stacks, FlagsAddUp, [PPNext]_ppVars
    PROVE  FlagsAddUp' /\ FlagTypes'
<1>1. CASE UNCHANGED <<ccStateFlags, conds>>
  BY <1>1 DEF FlagsAddUp, ccDepth, Taken, Stacks, FlagTypes
<1>2. CASE EndPass
  <2>1. ccStateFlags' = <<>> /\ conds' = <<>>
    BY <1>2 DEF EndPass
  <2> QED
    BY <2>1, PPAssumption DEF FlagsAddUp, FlagTypes, ccDepth
<1> QED
  BY <1>1, <1>2, FlagKinds, IfDefFlags, ElseFlags, EndifFlags

-----------------------------------------------------------------------------
(* The files and the errors.                                               *)

Reports == NoReport \/ \E fatal \in BOOLEAN : Report(fatal)

(* The innermost file stays; late counts a line that is assembled although *)
(* the assembler is aborting.                                              *)
ReadOn(t) ==
    /\ Reading /\ Continue(t) /\ Reports
    /\ late' = late \/ (Aborting /\ t /\ late' = late + 1)
    /\ UNCHANGED <<phase, sfArray>>

(* The innermost file ends.                                                *)
Leave(rc) ==
    /\ frames # <<>> /\ Return(rc) /\ Reports
    /\ late' = late \/ (Reading /\ Aborting /\ late' = late + 1)
    /\ UNCHANGED phase

(* Another one is opened, or not.                                          *)
Enter(f, how) ==
    /\ Reading /\ UNCHANGED <<phase, late>>
    /\ IF Opens(f, how)
         THEN frames' = Append([frames EXCEPT ![OpenFiles].top = FALSE], NewFrame(f))
         ELSE Continue(TRUE)
    /\ InitSourceFile(f, how)

LEMMA FileKinds ==
    ASSUME PPNext
    PROVE  \/ \E t \in BOOLEAN : ReadOn(t)
           \/ \E rc \in BOOLEAN : Leave(rc)
           \/ \E f \in FileNames, how \in {"ok", "path", "noFile"} : Enter(f, how)
           \/ \E how \in {"ok", "path", "noFile"} : OpenMain(how)
           \/ BeginPass
           \/ EndPass
<1> USE DEF ReadOn, Leave, Reports
<1>1. ASSUME NEW n \in Names, NEW b \in BOOLEAN, NEW w \in BOOLEAN, IfDefProcess(n, b, w)
      PROVE  \E t \in BOOLEAN : ReadOn(t)
  BY <1>1 DEF IfDefProcess
<1>2. ASSUME NEW w \in BOOLEAN, ElseProcess(w) \/ EndifProcess(w)
      PROVE  \E t \in BOOLEAN : ReadOn(t)
  BY <1>2 DEF ElseProcess, EndifProcess
<1>3. ASSUME NEW b \in BOOLEAN, BadDirective(b) \/ Message(b)
      PROVE  \E t \in BOOLEAN : ReadOn(t)
  BY <1>3 DEF BadDirective, Message
<1>4. ASSUME NEW n \in Names, NEW w \in BOOLEAN, NEW d \in Values, EquateProcess(n, d, w)
      PROVE  \E t \in BOOLEAN : ReadOn(t)
  BY <1>4 DEF EquateProcess
<1>5. ASSUME NEW n \in Names, NEW w \in BOOLEAN, UndefProcess(n, w)
      PROVE  \E t \in BOOLEAN : ReadOn(t)
  BY <1>5 DEF UndefProcess
<1>6. ASSUME NEW f \in FileNames, NEW how \in {"ok", "path", "noFile", "syntax"},
             LoadInclude(f, how)
      PROVE  (\E t \in BOOLEAN : ReadOn(t)) \/ (how # "syntax" /\ Enter(f, how))
  <2>1. CASE how = "syntax"
    <3>1. ReadOn(TRUE)
      BY <1>6, <2>1 DEF LoadInclude, Continue
    <3> QED
      BY <3>1
  <2>2. CASE how # "syntax"
    BY <1>6, <2>2 DEF LoadInclude, Enter, Continue
  <2> QED
    BY <2>1, <2>2
<1>7. ASSUME NEW L, NEW r \in {"ok", "error", "fatal"}, TextLine(L, r)
      PROVE  (\E t \in BOOLEAN : ReadOn(t)) \/ (\E rc \in BOOLEAN : Leave(rc))
  <2>1. Reports
    BY <1>7 DEF TextLine
  <2>2. CASE r # "ok" /\ Pass = 2
    <3>1. Leave(FALSE)
      BY <1>7, <2>1, <2>2 DEF TextLine, Reading
    <3> QED
      BY <3>1
  <2>3. CASE ~(r # "ok" /\ Pass = 2)
    <3>1. ReadOn(TRUE)
      BY <1>7, <2>1, <2>3 DEF TextLine
    <3> QED
      BY <3>1
  <2> QED
    BY <2>2, <2>3
<1>8. ASSUME SkipLine PROVE \E t \in BOOLEAN : ReadOn(t)
  BY <1>8 DEF SkipLine
<1>9. ASSUME EndOfFile \/ ExpansionTooLong \/ Abort
      PROVE  \E rc \in BOOLEAN : Leave(rc)
  BY <1>9 DEF EndOfFile, ExpansionTooLong, Abort, Reading
<1> QED
  BY <1>1, <1>2, <1>3, <1>4, <1>5, <1>6, <1>7, <1>8, <1>9 DEF PPNext, ReadLine

(* Errors are never taken back, and a fatal one is counted.                *)
LEMMA ErrorsStay ==
    ASSUME FileTypes, Reports
    PROVE  /\ Errors' \in Nat /\ FatalError' \in BOOLEAN /\ Errors' >= Errors
           /\ FatalError => FatalError'
           /\ (FatalError => Errors > 0) => (FatalError' => Errors' > 0)
           /\ Aborting => Aborting'
<1>1. Errors \in Nat /\ FatalError \in BOOLEAN /\ ErrorMax \in Nat
  BY PPAssumption DEF FileTypes
<1>2. CASE NoReport
  BY <1>1, <1>2 DEF NoReport, Aborting
<1>3. CASE \E fatal \in BOOLEAN : Report(fatal)
  <2>1. PICK fatal \in BOOLEAN : Report(fatal)
    BY <1>3
  <2>2. Errors' = Errors + 1 /\ FatalError' = (FatalError \/ fatal)
    BY <2>1 DEF Report
  <2> QED
    BY <1>1, <2>2 DEF Aborting
<1> QED
  BY <1>2, <1>3 DEF Reports

LEMMA LessOne ==
    ASSUME NEW a \in Nat, NEW b \in Nat, NEW c \in Nat, a + b <= c,
           NEW i \in {0, 1}
    PROVE  a + b - i <= c
<1>1. CASE i = 0
  BY <1>1
<1>2. CASE i = 1
  BY <1>2
<1> QED
  BY <1>1, <1>2

FileInv == FileTypes /\ Owned /\ LateLines

(* The innermost file stays.                                               *)
LEMMA ReadOnFiles ==
    ASSUME Stacks, Owned, LateLines, NEW t \in BOOLEAN, ReadOn(t)
    PROVE  FileInv'
<1>1. /\ Reading /\ Continue(t) /\ Reports /\ frames # <<>>
      /\ late' = late \/ (Aborting /\ t /\ late' = late + 1)
      /\ phase' = phase /\ sfArray' = sfArray
  BY DEF ReadOn, Reading
<1>2. /\ frames' \in Seq(Frame) /\ Len(frames') = OpenFiles /\ OpenFiles > 0
      /\ \A i \in 1 .. OpenFiles : frames'[i].FileIndex = frames[i].FileIndex
      /\ \A i \in 1 .. OpenFiles - 1 : frames'[i].top = frames[i].top
      /\ frames'[OpenFiles].top = t
  BY <1>1, ContinueEffect
<1>3. /\ Errors' \in Nat /\ FatalError' \in BOOLEAN
      /\ FatalError => FatalError'
      /\ (FatalError => Errors > 0) => (FatalError' => Errors' > 0)
      /\ Aborting => Aborting'
  BY <1>1, ErrorsStay DEF Stacks
<1>4. /\ late \in Nat /\ OpenFiles \in Nat /\ OpenFiles <= OpenMax /\ OpenMax \in Nat
      /\ frames[OpenFiles].top \in BOOLEAN
  <2>1. frames \in Seq(Frame) /\ OpenFiles \in 1 .. Len(frames)
    BY <1>2 DEF Stacks, FileTypes, OpenFiles
  <2>2. frames[OpenFiles] \in Frame
    BY <2>1
  <2>3. frames[OpenFiles].top \in BOOLEAN
    BY <2>2 DEF Frame
  <2> QED
    BY <2>1, <2>3, PPAssumption DEF Stacks, FileTypes
<1>5. FileTypes'
  BY <1>1, <1>2, <1>3, <1>4 DEF Stacks, FileTypes, OpenFiles
<1>6. Owned'
  BY <1>1, <1>2, <1>3 DEF Owned, OwnRecord, OpenFiles
<1>7. late' + OpenFiles - (IF t THEN 1 ELSE 0) <= OpenMax
  <2>1. CASE ~Aborting
    BY <1>1, <1>4, <2>1 DEF LateLines
  <2>2. CASE Aborting
    <3>1. ~frames[OpenFiles].top
      BY <1>1, <2>2 DEF Reading, Cur
    <3>2. late + OpenFiles <= OpenMax
      BY <1>4, <3>1 DEF LateLines, Innermost
    <3> QED
      BY <1>1, <1>4, <3>2
  <2> QED
    BY <2>1, <2>2
<1>8. OpenFiles' = OpenFiles /\ Innermost' = (IF t THEN 1 ELSE 0)
  BY <1>2 DEF OpenFiles, Innermost
<1>9. ~Aborting' => late' = 0
  BY <1>1, <1>3 DEF LateLines
<1>10. phase' # "reading" => frames' = <<>>
  BY <1>1 DEF LateLines
<1>11. \A i \in 1 .. OpenFiles - 1 : ~frames'[i].top
  BY <1>2 DEF LateLines
<1>12. LateLines'
  BY <1>3, <1>7, <1>8, <1>9, <1>10, <1>11 DEF LateLines
<1> QED
  BY <1>5, <1>6, <1>12 DEF FileInv

(* The innermost file ends; with it goes the line it could still assemble. *)
LEMMA LeaveFiles ==
    ASSUME Stacks, Owned, LateLines, NEW rc \in BOOLEAN, Leave(rc)
    PROVE  FileInv'
<1>1. /\ frames # <<>> /\ Return(rc) /\ Reports
      /\ late' = late \/ (Reading /\ Aborting /\ late' = late + 1)
      /\ phase' = phase
  BY DEF Leave
<1>2. /\ frames' \in Seq(Frame) /\ Len(frames') = OpenFiles - 1 /\ OpenFiles > 0
      /\ \A i \in 1 .. OpenFiles - 1 : frames'[i].FileIndex = frames[i].FileIndex
      /\ \A i \in 1 .. OpenFiles - 2 : frames'[i].top = frames[i].top
      /\ OpenFiles > 1 => frames'[OpenFiles - 1].top = (~rc /\ Pass = 2)
      /\ sfArray' = [sfArray EXCEPT ![Cur.FileIndex].InUse = FALSE]
  BY <1>1, ReturnEffect
<1>3. /\ Errors' \in Nat /\ FatalError' \in BOOLEAN
      /\ FatalError => FatalError'
      /\ (FatalError => Errors > 0) => (FatalError' => Errors' > 0)
      /\ Aborting => Aborting'
  BY <1>1, ErrorsStay DEF Stacks
<1>4. /\ late \in Nat /\ OpenFiles \in Nat /\ OpenFiles <= OpenMax /\ OpenMax \in Nat
      /\ sfArray \in Seq(Record) /\ frames \in Seq(Frame)
  BY PPAssumption DEF Stacks, FileTypes, OpenFiles
<1>5. Cur.FileIndex \in 1 .. Len(sfArray) /\ Cur = frames[OpenFiles]
  BY <1>2, <1>4 DEF Owned, Cur
<1>6. /\ sfArray' \in Seq(Record) /\ Len(sfArray') = Len(sfArray)
      /\ \A r \in 1 .. Len(sfArray) :
            sfArray'[r].InUse = IF r = Cur.FileIndex THEN FALSE ELSE sfArray[r].InUse
  <2> DEFINE free == [sfArray[Cur.FileIndex] EXCEPT !.InUse = FALSE]
  <2>1. sfArray[Cur.FileIndex] \in Record
    BY <1>4, <1>5
  <2>2. free \in Record /\ free.InUse = FALSE
    BY <2>1 DEF Record
  <2>3. sfArray' = [sfArray EXCEPT ![Cur.FileIndex] = free]
    BY <1>2
  <2> HIDE DEF free
  <2>4. /\ sfArray' \in Seq(Record) /\ Len(sfArray') = Len(sfArray)
        /\ \A r \in 1 .. Len(sfArray) :
              sfArray'[r] = IF r = Cur.FileIndex THEN free ELSE sfArray[r]
    BY <1>4, <1>5, <2>2, <2>3
  <2> QED
    BY <2>2, <2>4
<1>7. FileTypes'
  BY <1>1, <1>2, <1>3, <1>4, <1>6 DEF Stacks, FileTypes, OpenFiles
<1>8. Owned'
  <2>1. \A i \in 1 .. OpenFiles - 1 :
           /\ i \in 1 .. OpenFiles /\ i # OpenFiles
           /\ frames[i].FileIndex # Cur.FileIndex
    <3>1. /\ OpenFiles \in 1 .. OpenFiles
          /\ \A i \in 1 .. OpenFiles - 1 : i \in 1 .. OpenFiles /\ i # OpenFiles
      BY <1>2, <1>4
    <3>2. \A i, j \in 1 .. OpenFiles : frames[i].FileIndex = frames[j].FileIndex => i = j
      BY DEF Owned, OwnRecord
    <3> QED
      BY <1>5, <3>1, <3>2
  <2>2. \A i, j \in 1 .. OpenFiles - 1 :
           frames'[i].FileIndex = frames'[j].FileIndex => i = j
    BY <1>2, <2>1 DEF Owned, OwnRecord
  <2>3. \A i \in 1 .. OpenFiles - 1 :
           /\ frames'[i].FileIndex \in 1 .. Len(sfArray)
           /\ sfArray'[frames'[i].FileIndex].InUse
    BY <1>2, <1>6, <2>1 DEF Owned, OwnRecord
  <2>4. ASSUME ~FatalError', NEW r \in 1 .. Len(sfArray), sfArray'[r].InUse
        PROVE  \E i \in 1 .. OpenFiles - 1 : frames'[i].FileIndex = r
    <3>1. r # Cur.FileIndex /\ sfArray[r].InUse /\ ~FatalError
      BY <1>3, <1>6, <2>4
    <3>2. PICK i \in 1 .. OpenFiles : frames[i].FileIndex = r
      BY <3>1 DEF Owned, OwnRecord
    <3>3. i \in 1 .. OpenFiles - 1
      BY <1>4, <1>5, <3>1, <3>2
    <3> QED
      BY <1>2, <3>2, <3>3
  <2>5. OpenFiles' = OpenFiles - 1
    BY <1>2 DEF OpenFiles
  <2> QED
    BY <1>6, <2>2, <2>3, <2>4, <2>5 DEF Owned, OwnRecord
<1>9. late' + (OpenFiles - 1) <= OpenMax
  <2>1. CASE late' = late
    BY <1>4, <2>1 DEF LateLines, Innermost
  <2>2. CASE Reading /\ Aborting /\ late' = late + 1
    <3>1. ~frames[OpenFiles].top
      BY <2>2 DEF Reading, Cur
    <3>2. late + OpenFiles <= OpenMax
      BY <1>4, <3>1 DEF LateLines, Innermost
    <3> QED
      BY <1>4, <2>2, <3>2
  <2> QED
    BY <1>1, <2>1, <2>2
<1>10. OpenFiles' = OpenFiles - 1 /\ Innermost' \in {0, 1}
  BY <1>2 DEF OpenFiles, Innermost
<1>11. late' + OpenFiles' - Innermost' <= OpenMax
  <2>1. late' \in Nat
    BY <1>7 DEF FileTypes
  <2>2. OpenFiles' = OpenFiles - 1
    BY <1>10
  <2>3. late' + OpenFiles' <= OpenMax
    BY <1>9, <2>2
  <2>4. OpenFiles' \in Nat
    BY <1>2, <1>4, <2>2
  <2> QED
    BY <1>4, <1>10, <2>1, <2>3, <2>4, LessOne
<1>12. ~Aborting' => late' = 0
  BY <1>1, <1>3 DEF LateLines
<1>13. phase' # "reading" => frames' = <<>>
  BY <1>1 DEF LateLines
<1>14. \A i \in 1 .. OpenFiles' - 1 : ~frames'[i].top
  <2>1. \A i \in 1 .. OpenFiles - 2 : i \in 1 .. OpenFiles - 1
    BY <1>4
  <2>2. OpenFiles' - 1 = OpenFiles - 2
    BY <1>4, <1>10
  <2>3. \A i \in 1 .. OpenFiles - 2 : ~frames'[i].top
    BY <1>2, <2>1 DEF LateLines
  <2> QED
    BY <2>2, <2>3
<1>15. LateLines'
  BY <1>3, <1>11, <1>12, <1>13, <1>14 DEF LateLines
<1> QED
  BY <1>7, <1>8, <1>15 DEF FileInv

(* What InitSourceFile does to the records: one that is free is taken, or  *)
(* none, or the error is fatal.                                            *)
LEMMA InitEffect ==
    ASSUME Stacks, NEW f \in FileNames, NEW how, InitSourceFile(f, how)
    PROVE  /\ sfArray' \in Seq(Record) /\ Len(sfArray') <= SOURCEFILE_MAX
           /\ Len(sfArray') >= Len(sfArray)
           /\ \A r \in 1 .. Len(sfArray) :
                 sfArray[r].InUse => sfArray'[r].InUse
           /\ Opens(f, how) =>
                 /\ OpenFiles < OpenMax /\ NoReport
                 /\ RecordFor(f) \in 1 .. Len(sfArray') /\ RecordFor(f) <= SOURCEFILE_MAX
                 /\ RecordFor(f) <= Len(sfArray) => ~sfArray[RecordFor(f)].InUse
                 /\ sfArray'[RecordFor(f)].InUse
                 /\ \A r \in 1 .. Len(sfArray') :
                       r # RecordFor(f) => r \in 1 .. Len(sfArray) /\ sfArray'[r] = sfArray[r]
<1> DEFINE record == [name |-> f, InUse |-> TRUE]
<1>1. /\ sfArray \in Seq(Record) /\ Len(sfArray) <= SOURCEFILE_MAX /\ Len(sfArray) \in Nat
      /\ SOURCEFILE_MAX \in Nat
  BY PPAssumption DEF Stacks, FileTypes
<1>2. /\ RecordFor(f) \in 1 .. Len(sfArray) + 1
      /\ RecordFor(f) <= Len(sfArray) => ~sfArray[RecordFor(f)].InUse
  BY RecordIsFree
<1>3. record \in Record /\ record.InUse = TRUE
  BY DEF Record
<1>4. /\ IF Opens(f, how) THEN NoReport ELSE Report(TRUE)
      /\ sfArray' = IF ~TakesRecord(f, how) THEN sfArray
                    ELSE IF RecordFor(f) > Len(sfArray) THEN Append(sfArray, record)
                         ELSE [sfArray EXCEPT ![RecordFor(f)] = record]
  BY DEF InitSourceFile
<1>5. /\ Opens(f, how) => TakesRecord(f, how)
      /\ TakesRecord(f, how) => OpenFiles < OpenMax /\ RecordFor(f) <= SOURCEFILE_MAX
  BY DEF Opens, TakesRecord
<1> HIDE DEF record
<1>7. CASE ~TakesRecord(f, how)
  <2>1. ~Opens(f, how) /\ sfArray' = sfArray
    BY <1>4, <1>5, <1>7
  <2> QED
    BY <1>1, <2>1
<1>8. CASE TakesRecord(f, how) /\ RecordFor(f) > Len(sfArray)
  <2>1. RecordFor(f) = Len(sfArray) + 1 /\ sfArray' = Append(sfArray, record)
    BY <1>1, <1>2, <1>4, <1>8
  <2>2. /\ sfArray' \in Seq(Record) /\ Len(sfArray') = Len(sfArray) + 1
        /\ \A r \in 1 .. Len(sfArray) : sfArray'[r] = sfArray[r]
        /\ sfArray'[Len(sfArray) + 1] = record
    BY <1>1, <1>3, <2>1
  <2> QED
    <3>1. /\ sfArray' \in Seq(Record) /\ Len(sfArray') <= SOURCEFILE_MAX
          /\ Len(sfArray') >= Len(sfArray)
          /\ RecordFor(f) \in 1 .. Len(sfArray') /\ ~(RecordFor(f) <= Len(sfArray))
      BY <1>1, <1>5, <1>8, <2>1, <2>2
    <3>2. \A r \in 1 .. Len(sfArray') :
             r # RecordFor(f) => r \in 1 .. Len(sfArray) /\ sfArray'[r] = sfArray[r]
      BY <1>1, <2>1, <2>2
    <3>3. sfArray'[RecordFor(f)].InUse
      BY <1>3, <2>1, <2>2
    <3>4. Opens(f, how) => NoReport
      BY <1>4
    <3> QED
      BY <1>5, <1>8, <2>2, <3>1, <3>2, <3>3, <3>4
<1>9. CASE TakesRecord(f, how) /\ RecordFor(f) <= Len(sfArray)
  <2>1. RecordFor(f) \in 1 .. Len(sfArray)
        /\ sfArray' = [sfArray EXCEPT ![RecordFor(f)] = record]
    BY <1>1, <1>2, <1>4, <1>9
  <2>2. /\ sfArray' \in Seq(Record) /\ Len(sfArray') = Len(sfArray)
        /\ \A r \in 1 .. Len(sfArray) :
              sfArray'[r] = IF r = RecordFor(f) THEN record ELSE sfArray[r]
    BY <1>1, <1>3, <2>1
  <2> QED
    <3>1. /\ sfArray' \in Seq(Record) /\ Len(sfArray') <= SOURCEFILE_MAX
          /\ Len(sfArray') >= Len(sfArray) /\ RecordFor(f) \in 1 .. Len(sfArray')
      BY <1>1, <2>1, <2>2
    <3>2. \A r \in 1 .. Len(sfArray') :
             r # RecordFor(f) => r \in 1 .. Len(sfArray) /\ sfArray'[r] = sfArray[r]
      BY <2>2
    <3>3. sfArray'[RecordFor(f)].InUse
      BY <1>3, <2>1, <2>2
    <3>4. \A r \in 1 .. Len(sfArray) : sfArray[r].InUse => sfArray'[r].InUse
      BY <1>3, <2>2
    <3>5. Opens(f, how) => NoReport
      BY <1>4
    <3> QED
      BY <1>2, <1>5, <1>9, <3>1, <3>2, <3>3, <3>4, <3>5
<1>10. RecordFor(f) > Len(sfArray) \/ RecordFor(f) <= Len(sfArray)
  BY <1>1, <1>2
<1> QED
  BY <1>7, <1>8, <1>9, <1>10, Zenon

(* Another file is opened with a record nobody has, or the line is given   *)
(* up.                                                                     *)
LEMMA EnterFiles ==
    ASSUME Stacks, Owned, LateLines, NEW f \in FileNames,
           NEW how \in {"ok", "path", "noFile"}, Enter(f, how)
    PROVE  FileInv'
<1>1. /\ Reading /\ frames # <<>> /\ late' = late /\ phase' = phase
      /\ InitSourceFile(f, how)
  BY DEF Enter, Reading
<1>2. /\ sfArray' \in Seq(Record) /\ Len(sfArray') <= SOURCEFILE_MAX
      /\ Len(sfArray') >= Len(sfArray)
      /\ \A r \in 1 .. Len(sfArray) : sfArray[r].InUse => sfArray'[r].InUse
  BY <1>1, InitEffect
<1>3. Reports
  BY <1>1 DEF InitSourceFile, Reports
<1>4. /\ Errors' \in Nat /\ FatalError' \in BOOLEAN
      /\ FatalError => FatalError'
      /\ (FatalError => Errors > 0) => (FatalError' => Errors' > 0)
      /\ Aborting => Aborting'
  BY <1>3, ErrorsStay DEF Stacks
<1>5. /\ late \in Nat /\ OpenFiles \in Nat /\ OpenFiles <= OpenMax /\ OpenMax \in Nat
      /\ frames \in Seq(Frame) /\ OpenFiles > 0 /\ sfArray \in Seq(Record)
      /\ OpenFiles = Len(frames) /\ Len(sfArray) \in Nat
  BY <1>1, PPAssumption DEF Stacks, FileTypes, OpenFiles
<1>6. late + OpenFiles <= OpenMax
  <2>1. CASE ~Aborting
    BY <1>5, <2>1 DEF LateLines
  <2>2. CASE Aborting
    <3>1. ~frames[OpenFiles].top
      BY <1>1, <2>2 DEF Reading, Cur
    <3> QED
      BY <1>5, <3>1 DEF LateLines, Innermost
  <2> QED
    BY <2>1, <2>2
<1>7. ~Aborting' => late' = 0
  BY <1>1, <1>4 DEF LateLines
<1>8. phase' = "reading"
  BY <1>1 DEF LateLines
<1>9. CASE ~Opens(f, how)
  <2>1. Continue(TRUE)
    BY <1>9 DEF Enter
  <2>2. /\ frames' \in Seq(Frame) /\ Len(frames') = OpenFiles
        /\ \A i \in 1 .. OpenFiles : frames'[i].FileIndex = frames[i].FileIndex
        /\ \A i \in 1 .. OpenFiles - 1 : frames'[i].top = frames[i].top
    BY <1>1, <2>1, ContinueEffect
  <2>3. FatalError'
    BY <1>1, <1>9 DEF InitSourceFile, Report
  <2>4. OpenFiles' = OpenFiles /\ Innermost' \in {0, 1}
    BY <2>2 DEF OpenFiles, Innermost
  <2>5. FileTypes'
    BY <1>1, <1>2, <1>4, <1>5, <2>2, <2>4 DEF FileTypes
  <2>6. Owned'
    <3>1. \A i \in 1 .. OpenFiles :
             /\ frames'[i].FileIndex \in 1 .. Len(sfArray')
             /\ sfArray'[frames'[i].FileIndex].InUse
      <4>1. ASSUME NEW i \in 1 .. OpenFiles
            PROVE  /\ frames[i].FileIndex \in 1 .. Len(sfArray')
                   /\ sfArray'[frames[i].FileIndex].InUse
        <5>1. /\ frames[i].FileIndex \in 1 .. Len(sfArray)
              /\ sfArray[frames[i].FileIndex].InUse
          BY DEF Owned, OwnRecord
        <5>2. Len(sfArray') \in Nat
          BY <1>2
        <5> QED
          BY <1>2, <1>5, <5>1, <5>2
      <4> QED
        BY <2>2, <4>1
    <3>2. \A i, j \in 1 .. OpenFiles :
             frames'[i].FileIndex = frames'[j].FileIndex => i = j
      BY <2>2 DEF Owned, OwnRecord
    <3> QED
      BY <2>3, <2>4, <3>1, <3>2 DEF Owned, OwnRecord
  <2>7. late' + OpenFiles' - Innermost' <= OpenMax
    <3>1. late' + OpenFiles' <= OpenMax /\ late' \in Nat /\ OpenFiles' \in Nat
      BY <1>1, <1>5, <1>6, <2>4
    <3> QED
      BY <1>5, <2>4, <3>1, LessOne
  <2>8. \A i \in 1 .. OpenFiles - 1 : ~frames'[i].top
    BY <2>2 DEF LateLines
  <2>9. LateLines'
    BY <1>4, <1>7, <1>8, <2>4, <2>7, <2>8 DEF LateLines
  <2> QED
    BY <2>5, <2>6, <2>9 DEF FileInv
<1>10. CASE Opens(f, how)
  <2> DEFINE r == RecordFor(f)
             n == OpenFiles + 1
             here == [frames EXCEPT ![OpenFiles].top = FALSE]
  <2>1. /\ OpenFiles < OpenMax /\ r \in 1 .. Len(sfArray') /\ r <= SOURCEFILE_MAX
        /\ r <= Len(sfArray) => ~sfArray[r].InUse
        /\ sfArray'[r].InUse /\ Errors' = Errors /\ FatalError' = FatalError
        /\ \A k \in 1 .. Len(sfArray') :
              k # r => k \in 1 .. Len(sfArray) /\ sfArray'[k] = sfArray[k]
    BY <1>1, <1>10, InitEffect DEF NoReport
  <2>2. NewFrame(f) \in Frame /\ NewFrame(f).FileIndex = r /\ NewFrame(f).top = TRUE
    <3>1. ccDepth \in 0 .. CC_MAX_DEPTH
      BY PPAssumption DEF Stacks, FlagTypes, ccDepth
    <3>2. r \in 1 .. SOURCEFILE_MAX
      BY <1>2, <2>1, PPAssumption
    <3> QED
      BY <3>1, <3>2 DEF NewFrame, Frame
  <2>3. /\ here \in Seq(Frame) /\ Len(here) = OpenFiles
        /\ \A i \in 1 .. OpenFiles : here[i].FileIndex = frames[i].FileIndex
        /\ \A i \in 1 .. OpenFiles : ~here[i].top
    <3> DEFINE new == [frames[OpenFiles] EXCEPT !.top = FALSE]
    <3>1. frames[OpenFiles] \in Frame
      BY <1>5
    <3>2. /\ new \in Frame /\ new.FileIndex = frames[OpenFiles].FileIndex
          /\ new.top = FALSE
      BY <3>1 DEF Frame
    <3>3. here = [frames EXCEPT ![OpenFiles] = new]
      OBVIOUS
    <3> HIDE DEF new, here
    <3>4. /\ here \in Seq(Frame) /\ Len(here) = OpenFiles
          /\ \A i \in 1 .. OpenFiles : here[i] = IF i = OpenFiles THEN new ELSE frames[i]
      BY <1>5, <3>2, <3>3
    <3>5. \A i \in 1 .. OpenFiles - 1 : ~frames[i].top
      BY DEF LateLines
    <3> QED
      BY <1>5, <3>2, <3>4, <3>5
  <2>4. frames' = Append(here, NewFrame(f))
    BY <1>10 DEF Enter
  <2> HIDE DEF here, r
  <2>5. /\ frames' \in Seq(Frame) /\ Len(frames') = n
        /\ \A i \in 1 .. OpenFiles : frames'[i] = here[i]
        /\ frames'[n] = NewFrame(f)
    BY <1>5, <2>2, <2>3, <2>4
  <2>6. OpenFiles' = n /\ n \in Nat /\ n <= OpenMax /\ n - 1 = OpenFiles
    BY <1>5, <2>1, <2>5 DEF OpenFiles
  <2>7. FileTypes'
    BY <1>1, <1>2, <1>4, <1>5, <2>5, <2>6 DEF FileTypes
  <2>8. \A i \in 1 .. OpenFiles :
           /\ frames'[i].FileIndex = frames[i].FileIndex
           /\ frames[i].FileIndex \in 1 .. Len(sfArray)
           /\ sfArray[frames[i].FileIndex].InUse
           /\ frames[i].FileIndex # r
    <3>1. ASSUME NEW i \in 1 .. OpenFiles
          PROVE  /\ frames[i].FileIndex \in 1 .. Len(sfArray)
                 /\ sfArray[frames[i].FileIndex].InUse
                 /\ frames[i].FileIndex # r
      <4>1. /\ frames[i].FileIndex \in 1 .. Len(sfArray)
            /\ sfArray[frames[i].FileIndex].InUse
        BY DEF Owned, OwnRecord
      <4> QED
        BY <1>5, <2>1, <4>1
    <3> QED
      BY <2>3, <2>5, <3>1
  <2>9. frames'[n].FileIndex = r
    BY <2>2, <2>5
  <2>10. Owned'
    <3>1. \A i \in 1 .. n : i \in 1 .. OpenFiles \/ i = n
      BY <1>5
    <3>2. \A i, j \in 1 .. n : frames'[i].FileIndex = frames'[j].FileIndex => i = j
      BY <2>8, <2>9, <3>1 DEF Owned, OwnRecord
    <3>3. \A i \in 1 .. n : /\ frames'[i].FileIndex \in 1 .. Len(sfArray')
                            /\ sfArray'[frames'[i].FileIndex].InUse
      <4>1. ASSUME NEW i \in 1 .. OpenFiles
            PROVE  /\ frames'[i].FileIndex \in 1 .. Len(sfArray')
                   /\ sfArray'[frames'[i].FileIndex].InUse
        <5>1. Len(sfArray') \in Nat /\ Len(sfArray) \in Nat
          BY <1>2, <1>5
        <5> QED
          BY <1>2, <2>8, <5>1
      <4> QED
        BY <2>1, <2>9, <3>1, <4>1
    <3>4. ASSUME ~FatalError', NEW k \in 1 .. Len(sfArray'), sfArray'[k].InUse
          PROVE  \E i \in 1 .. n : frames'[i].FileIndex = k
      <4>1. CASE k = r
        BY <1>5, <2>9, <4>1
      <4>2. CASE k # r
        <5>1. k \in 1 .. Len(sfArray) /\ sfArray[k].InUse /\ ~FatalError
          BY <2>1, <3>4, <4>2
        <5>2. PICK i \in 1 .. OpenFiles : frames[i].FileIndex = k
          BY <5>1 DEF Owned, OwnRecord
        <5> QED
          BY <1>5, <2>8, <5>2
      <4> QED
        BY <4>1, <4>2
    <3> QED
      BY <2>6, <3>2, <3>3, <3>4 DEF Owned, OwnRecord
  <2>11. Innermost' = 1
    BY <1>5, <2>2, <2>5, <2>6 DEF Innermost
  <2>12. late' + OpenFiles' - Innermost' <= OpenMax
    BY <1>1, <1>5, <1>6, <2>6, <2>11
  <2>13. \A i \in 1 .. OpenFiles' - 1 : ~frames'[i].top
    BY <2>3, <2>5, <2>6
  <2>14. LateLines'
    BY <1>4, <1>7, <1>8, <2>12, <2>13 DEF LateLines
  <2> QED
    BY <2>7, <2>10, <2>14 DEF FileInv
<1> QED
  BY <1>9, <1>10

(* The main file is opened when no file is.                                *)
LEMMA OpenMainFiles ==
    ASSUME Stacks, Owned, LateLines, NEW how \in {"ok", "path", "noFile"}, OpenMain(how)
    PROVE  FileInv'
<1>1. /\ frames = <<>> /\ late' = late /\ InitSourceFile(Main, how)
      /\ frames' = IF Opens(Main, how) THEN <<NewFrame(Main)>> ELSE <<>>
      /\ phase' = IF Opens(Main, how) THEN "reading" ELSE "over"
  BY DEF OpenMain, LateLines
<1>2. /\ sfArray' \in Seq(Record) /\ Len(sfArray') <= SOURCEFILE_MAX
  BY <1>1, PPAssumption, InitEffect
<1>3. Reports
  BY <1>1 DEF InitSourceFile, Reports
<1>4. /\ Errors' \in Nat /\ FatalError' \in BOOLEAN
      /\ FatalError => FatalError'
      /\ (FatalError => Errors > 0) => (FatalError' => Errors' > 0)
      /\ Aborting => Aborting'
  BY <1>3, ErrorsStay DEF Stacks
<1>5. late \in Nat /\ OpenFiles = 0 /\ OpenMax \in Nat /\ OpenMax > 0
  BY <1>1, PPAssumption DEF Stacks, FileTypes, OpenFiles
<1>6. late <= OpenMax
  BY <1>5 DEF LateLines, Innermost
<1>7. ~Aborting' => late' = 0
  BY <1>1, <1>4 DEF LateLines
<1>8. CASE ~Opens(Main, how)
  <2>1. frames' = <<>> /\ phase' = "over" /\ FatalError'
    BY <1>1, <1>8 DEF InitSourceFile, Report
  <2>2. OpenFiles' = 0 /\ Innermost' = 0
    BY <2>1 DEF OpenFiles, Innermost
  <2>3. FileTypes'
    BY <1>1, <1>2, <1>4, <1>5, <2>1, <2>2 DEF FileTypes
  <2>4. Owned'
    BY <2>1, <2>2 DEF Owned, OwnRecord
  <2>5. late' + OpenFiles' - Innermost' <= OpenMax
    BY <1>1, <1>5, <1>6, <2>2
  <2>6. LateLines'
    BY <1>4, <1>7, <2>1, <2>2, <2>5 DEF LateLines
  <2> QED
    BY <2>3, <2>4, <2>6 DEF FileInv
<1>9. CASE Opens(Main, how)
  <2> DEFINE r == RecordFor(Main)
  <2>1. /\ r \in 1 .. Len(sfArray') /\ r <= SOURCEFILE_MAX
        /\ sfArray'[r].InUse /\ FatalError' = FatalError
        /\ \A k \in 1 .. Len(sfArray') :
              k # r => k \in 1 .. Len(sfArray) /\ sfArray'[k] = sfArray[k]
    BY <1>1, <1>9, PPAssumption, InitEffect DEF NoReport
  <2>2. NewFrame(Main) \in Frame /\ NewFrame(Main).FileIndex = r
    <3>1. ccDepth \in 0 .. CC_MAX_DEPTH
      BY PPAssumption DEF Stacks, FlagTypes, ccDepth
    <3>2. r \in 1 .. SOURCEFILE_MAX
      BY <1>2, <2>1, PPAssumption
    <3> QED
      BY <3>1, <3>2 DEF NewFrame, Frame
  <2> HIDE DEF r
  <2>3. /\ frames' \in Seq(Frame) /\ Len(frames') = 1 /\ frames'[1] = NewFrame(Main)
        /\ phase' = "reading"
    BY <1>1, <1>9, <2>2
  <2>4. OpenFiles' = 1 /\ Innermost' \in {0, 1}
    BY <2>3 DEF OpenFiles, Innermost
  <2>5. FileTypes'
    BY <1>1, <1>2, <1>4, <1>5, <2>3, <2>4 DEF FileTypes
  <2>6. frames'[1].FileIndex = r /\ \A i \in 1 .. 1 : i = 1
    BY <2>2, <2>3
  <2>7. ASSUME ~FatalError', NEW k \in 1 .. Len(sfArray'), sfArray'[k].InUse
        PROVE  k = r
    <3>1. \A i \in 1 .. OpenFiles : FALSE
      BY <1>5
    <3>2. ASSUME k # r PROVE FALSE
      <4>1. k \in 1 .. Len(sfArray) /\ sfArray[k].InUse /\ ~FatalError
        BY <2>1, <2>7, <3>2
      <4> QED
        BY <3>1, <4>1 DEF Owned, OwnRecord
    <3> QED
      BY <3>2
  <2>8. Owned'
    BY <2>1, <2>4, <2>6, <2>7 DEF Owned, OwnRecord
  <2>9. Innermost' = 1
    <3>1. NewFrame(Main).top = TRUE
      BY DEF NewFrame
    <3> QED
      BY <2>3, <2>4, <3>1 DEF Innermost
  <2>10. late' + OpenFiles' - Innermost' <= OpenMax
    BY <1>1, <1>5, <1>6, <2>4, <2>9
  <2>11. \A i \in 1 .. OpenFiles' - 1 : ~frames'[i].top
    BY <2>4
  <2>12. LateLines'
    BY <1>4, <1>7, <2>3, <2>10, <2>11 DEF LateLines
  <2> QED
    BY <2>5, <2>8, <2>12 DEF FileInv
<1> QED
  BY <1>8, <1>9

(* A pass begins only without errors, so that no late line is forgotten.   *)
LEMMA BeginPassFiles ==
    ASSUME Stacks, Owned, LateLines, BeginPass
    PROVE  FileInv'
<1>1. /\ frames = <<>> /\ phase' # "reading" /\ Errors = 0
      /\ UNCHANGED <<FatalError, frames, sfArray, late>>
  BY DEF BeginPass, LateLines
<1>2. Errors' \in Nat
  <2> DEFINE refused == {k \in 1 .. Len(cmdLine) : ~CmdNameFree(k)}
  <2>1. IsFiniteSet(1 .. Len(cmdLine)) /\ refused \subseteq 1 .. Len(cmdLine)
    BY PPAssumption, FS_Interval
  <2>2. Cardinality(refused) \in Nat
    BY <2>1, FS_Subset, FS_CardinalityType
  <2>3. Errors' = Errors + Cardinality(refused)
    BY DEF BeginPass, EquateCreate
  <2> QED
    BY <1>1, <2>2, <2>3
<1>3. ~FatalError /\ late = 0
  BY <1>1, PPAssumption DEF LateLines, Aborting
<1>4. OpenFiles' = OpenFiles /\ Innermost' = Innermost
  BY <1>1 DEF OpenFiles, Innermost
<1>5. FileTypes'
  BY <1>1, <1>2, <1>4 DEF Stacks, FileTypes
<1>6. Owned'
  BY <1>1, <1>4 DEF Owned, OwnRecord
<1>7. LateLines'
  BY <1>1, <1>3, <1>4 DEF LateLines
<1> QED
  BY <1>5, <1>6, <1>7 DEF FileInv

(* ppCleanup, and steps of no effect, leave the files alone.               *)
LEMMA QuietFiles ==
    ASSUME Stacks, Owned, LateLines,
           UNCHANGED <<Errors, FatalError, frames, sfArray, late>>,
           phase' = phase \/ frames = <<>>
    PROVE  FileInv'
<1>1. OpenFiles' = OpenFiles /\ Innermost' = Innermost /\ Aborting' = Aborting
  BY DEF OpenFiles, Innermost, Aborting
<1>2. FileTypes'
  BY <1>1 DEF Stacks, FileTypes
<1>3. Owned'
  BY <1>1 DEF Owned, OwnRecord
<1>4. LateLines'
  BY <1>1 DEF LateLines
<1> QED
  BY <1>2, <1>3, <1>4 DEF FileInv

-----------------------------------------------------------------------------
LEMMA PPInvInit == PPInit => PPInv
<1> SUFFICES ASSUME PPInit PROVE PPInv
  OBVIOUS
<1> USE DEF PPInit
<1>1. OpenFiles = 0 /\ ccDepth = 0 /\ Len(sfArray) = 1
  BY DEF OpenFiles, ccDepth
<1>2. sfArray \in Seq(Record) /\ ~sfArray[1].InUse
  BY PPAssumption DEF Record
<1>3. Stacks
  <2>1. frames \in Seq(Frame) /\ ccStateFlags \in Seq(CCFlag) /\ conds \in Seq(Cond)
    OBVIOUS
  <2>2. Errors \in Nat /\ FatalError \in BOOLEAN /\ late \in Nat
    OBVIOUS
  <2>3. /\ OpenFiles <= OpenMax /\ Len(sfArray) <= SOURCEFILE_MAX
        /\ ccDepth <= CC_MAX_DEPTH
    BY <1>1, PPAssumption
  <2> QED
    BY <1>2, <2>1, <2>2, <2>3 DEF Stacks, FileTypes, FlagTypes
<1>4. FlagsAddUp
  BY <1>1 DEF FlagsAddUp
<1>5. Owned
  <2>1. \A r \in 1 .. Len(sfArray) : r = 1
    BY <1>1
  <2>2. \A r \in 1 .. Len(sfArray) : ~sfArray[r].InUse
    BY <1>2, <2>1
  <2>3. \A i \in 1 .. OpenFiles : FALSE
    BY <1>1
  <2> QED
    BY <2>2, <2>3 DEF Owned, OwnRecord
<1>6. LateLines
  BY <1>1, PPAssumption DEF LateLines, Innermost
<1> QED
  BY <1>3, <1>4, <1>5, <1>6 DEF PPInv

(* In both passes over any files, a line is assembled exactly when every   *)
(* conditional around it selects its part, open files have records of      *)
(* their own, and at most as many lines follow the error limit as files    *)
(* may be open: whatever the depths and the limits of pasmpp.c.            *)
THEOREM PreprocessorDoesWhatIsAsked == PPSpec => []AssemblesWhatIsAsked
<1>1. PPInv /\ [PPNext]_ppVars => PPInv'
  <2> SUFFICES ASSUME PPInv, [PPNext]_ppVars PROVE PPInv'
    OBVIOUS
  <2>1. Stacks /\ FlagsAddUp /\ Owned /\ LateLines
    BY DEF PPInv
  <2>2. FlagsAddUp' /\ FlagTypes'
    BY <2>1, FlagsStep
  <2>3. FileInv'
    <3>1. CASE UNCHANGED ppVars
      <4>1. UNCHANGED <<Errors, FatalError, frames, sfArray, late, phase>>
        BY <3>1 DEF ppVars
      <4> QED
        BY <2>1, <4>1, QuietFiles
    <3>2. CASE EndPass
      BY <2>1, <3>2, QuietFiles DEF EndPass
    <3>3. CASE PPNext
      BY <2>1, <3>2, <3>3, FileKinds, ReadOnFiles, LeaveFiles, EnterFiles,
         OpenMainFiles, BeginPassFiles
    <3> QED
      BY <3>1, <3>3
  <2> QED
    BY <2>2, <2>3 DEF PPInv, Stacks, FileInv
<1>2. PPInv => AssemblesWhatIsAsked
  <2> SUFFICES ASSUME PPInv PROVE AssemblesWhatIsAsked
    OBVIOUS
  <2>1. AssemblesTakenParts
    BY SkippingMeans DEF PPInv, AssemblesTakenParts, FlagsAddUp
  <2>2. OwnRecord
    BY DEF PPInv, Owned
  <2>3. LateLinesBounded
    <3>1. /\ late \in Nat /\ OpenFiles \in Nat /\ OpenMax \in Nat
          /\ late + OpenFiles - Innermost <= OpenMax
      BY PPAssumption DEF PPInv, Stacks, FileTypes, LateLines, OpenFiles
    <3>2. Innermost <= OpenFiles /\ Innermost \in {0, 1}
      BY <3>1 DEF Innermost
    <3> QED
      BY <3>1, <3>2 DEF LateLinesBounded
  <2> QED
    BY <2>1, <2>2, <2>3 DEF AssemblesWhatIsAsked
<1> QED
  BY PPInvInit, <1>1, <1>2, PTL DEF PPSpec

-----------------------------------------------------------------------------
(* PasmStruct: the inductive invariant                                     *)

ElementNames == {c.name : c \in {d \in Commands : d.op \in {"struct", "elem", "enter"}}}
AssignNames == {c.def : c \in {d \in Commands : d.op = "assign"}}
ScopeNames == ElementNames \cup {Root}
Elements == [name : ElementNames, size : {1, 2, 4}, offset : Nat]
Registers == Int \X Int \X Int
MappedElements == [name : ElementNames, size : {1, 2, 4}, offset : Nat, reg : Registers]
Structs == [name : ElementNames, elems : Seq(Elements)]
Assigns == [name : AssignNames, from : RegisterFields,
            to : RegisterFields \cup {<<>>}, elems : Seq(MappedElements)]
Scopes == [name : ScopeNames, open : BOOLEAN, parent : Nat, assigns : Seq(Assigns)]

StructTypes ==
    /\ bigEndian \in BOOLEAN /\ stPass \in 0 .. 2 /\ stErrors \in Nat
    /\ stText \in Seq(Commands) /\ stPos \in Nat /\ stPos <= TextLimit
    /\ Len(stText) <= IF stPass = 2 THEN TextLimit ELSE stPos
    /\ structs \in Seq(Structs) /\ pStructCurrent \in Int
    /\ pStructCurrent >= Freed /\ pStructCurrent <= Len(structs)
    /\ scopes \in Seq(Scopes) /\ pScopeCurrent \in Nat

(* The elements lie one behind the other.                                  *)
Packed(elems) ==
    \A i \in 1 .. Len(elems) :
        elems[i].offset = IF i = 1 THEN 0
                          ELSE elems[i - 1].offset + elems[i - 1].size

(* An assignment has the elements in their registers.                      *)
AssignRight(a) ==
    /\ Packed(a.elems)
    /\ \A k \in 1 .. Len(a.elems) :
          /\ Aligned(StartByte(a.from) + a.elems[k].offset, a.elems[k].size)
          /\ a.elems[k].reg = GetRegname(StartByte(a.from) + a.elems[k].offset,
                                         a.elems[k].size)
    /\ a.to # <<>> => StartByte(a.from) + TotalSize(a.elems) = EndByte(a.to)

LayoutsRight ==
    /\ \A i \in 1 .. Len(structs) : Packed(structs[i].elems)
    /\ \A i \in 1 .. Len(scopes) :
          /\ Len(scopes[i].assigns) <= stPos
          /\ \A j \in 1 .. Len(scopes[i].assigns) : AssignRight(scopes[i].assigns[j])

(* A value is that of its reference, in the assignment that is visible.     *)
AnswerRight ==
    /\ stPass = 0 => answer = NoAnswer
    /\ answer.is = "value" =>
          LET r == answer.ref
          IN  /\ \E c \in Commands : c.op = "ref" /\ c.ref = r
              /\ r.cmd \in {"SIZE", "OFFSET"}
              /\ Visible(r.name) # {} =>
                    answer.val = ValueIn(r, AssignFind(r.name).elems)

(* A text without errors in pass 1 opens a structure before it uses one.   *)
StructOpened(text, n) == \E j \in 1 .. n : text[j].op = "struct"
OpensFirst(text) ==
    \A i \in 1 .. Len(text) : text[i].op \in {"ends", "elem"} => StructOpened(text, i - 1)

StructsAlive ==
    /\ freedUsed => stPass = 2 /\ stErrors > 0
    /\ stErrors = 0 => OpensFirst(stText)
    /\ stPass < 2 => /\ pStructCurrent >= 0
                     /\ pStructCurrent > 0 /\ stErrors = 0 => StructOpened(stText, Len(stText))
    /\ stPass = 2 /\ pStructCurrent = Freed /\ stErrors = 0 => ~StructOpened(stText, stPos)
    /\ stPass = 2 => stPos <= Len(stText)

StructInv == StructTypes /\ LayoutsRight /\ AnswerRight /\ StructsAlive /\ ScopeCurrentOpen

-----------------------------------------------------------------------------
(* PasmStruct: what the records are made of.                               *)

(* What the fields of the commands, elements and structures are.           *)
LEMMA RecordsAre ==
    /\ \A x \in Elements \cup MappedElements :
          x.size \in {1, 2, 4} /\ x.offset \in Nat /\ x.name \in ElementNames
    /\ \A x \in MappedElements : x.reg \in Registers
    /\ \A x \in Structs : x.elems \in Seq(Elements)
    /\ \A x \in Assigns : /\ x.from \in RegisterFields /\ x.elems \in Seq(MappedElements)
                          /\ x.to \in RegisterFields \cup {<<>>}
    /\ \A x \in Scopes : x.parent \in Nat /\ x.assigns \in Seq(Assigns)
<1>1. \A x \in Elements \cup MappedElements :
         x.size \in {1, 2, 4} /\ x.offset \in Nat /\ x.name \in ElementNames
  BY DEF Elements, MappedElements
<1>2. \A x \in MappedElements : x.reg \in Registers
  BY DEF MappedElements
<1>3. \A x \in Structs : x.elems \in Seq(Elements)
  BY DEF Structs
<1>4. \A x \in Assigns : /\ x.from \in RegisterFields /\ x.elems \in Seq(MappedElements)
                         /\ x.to \in RegisterFields \cup {<<>>}
  BY DEF Assigns
<1>5. \A x \in Scopes : x.parent \in Nat /\ x.assigns \in Seq(Assigns)
  BY DEF Scopes
<1> QED
  BY <1>1, <1>2, <1>3, <1>4, <1>5

(* The same, one level down.                                               *)
LEMMA ScopesAre ==
    ASSUME NEW sc \in Seq(Scopes)
    PROVE  /\ Len(sc) \in Nat
           /\ \A i \in 1 .. Len(sc) : /\ sc[i] \in Scopes /\ sc[i].parent \in Nat
                                      /\ sc[i].assigns \in Seq(Assigns)
                                      /\ Len(sc[i].assigns) \in Nat
<1>1. Len(sc) \in Nat /\ \A i \in 1 .. Len(sc) : sc[i] \in Scopes
  OBVIOUS
<1>2. \A i \in 1 .. Len(sc) : sc[i].parent \in Nat /\ sc[i].assigns \in Seq(Assigns)
  BY <1>1, RecordsAre
<1> QED
  BY <1>1, <1>2

-----------------------------------------------------------------------------
(* PasmStruct: registers and bytes                                         *)

(* A register field, and where it starts and ends in the register file.    *)
Field(f) == f \in Registers /\ f[1] >= 0 /\ f[2] >= 0 /\ f[3] \in {1, 2, 4}
            /\ f[2] + f[3] <= 4
Lane(f) == IF bigEndian THEN 4 - f[2] - f[3] ELSE f[2]

(* Where the bytes of a field start and end: inside its register.         *)
LEMMA BytesOfField ==
    ASSUME NEW f, Field(f), bigEndian \in BOOLEAN
    PROVE  /\ StartByte(f) = 4 * f[1] + Lane(f)
           /\ EndByte(f) = 4 * f[1] + Lane(f) + f[3]
           /\ Lane(f) \in Nat /\ Lane(f) + f[3] <= 4
<1>1. f[1] \in Nat /\ f[2] \in 0 .. 3 /\ f[3] \in {1, 2, 4} /\ f[2] + f[3] <= 4
  BY DEF Field, Registers
<1>2. Lane(f) \in Nat /\ Lane(f) + f[3] <= 4
  BY <1>1 DEF Lane
<1> DEFINE lanes == <<f[2], f[3]>>
<1>3. \A a, b : lanes = <<a, b>> <=> f[2] = a /\ f[3] = b
  OBVIOUS
<1>4. StartByte(f) = 4 * f[1] +
        IF ~bigEndian
        THEN CASE lanes \in {<<1, 1>>, <<1, 2>>} -> 1
               [] lanes \in {<<2, 1>>, <<2, 2>>} -> 2
               [] lanes = <<3, 1>> -> 3
               [] OTHER -> 0
        ELSE CASE lanes \in {<<1, 2>>, <<2, 1>>} -> 1
               [] lanes \in {<<1, 1>>, <<0, 2>>} -> 2
               [] lanes = <<0, 1>> -> 3
               [] OTHER -> 0
  BY DEF StartByte
<1>5. EndByte(f) = 4 * f[1] +
        IF ~bigEndian
        THEN CASE lanes = <<0, 1>> -> 1
               [] lanes \in {<<1, 1>>, <<0, 2>>} -> 2
               [] lanes \in {<<2, 1>>, <<1, 2>>} -> 3
               [] OTHER -> 4
        ELSE CASE lanes = <<3, 1>> -> 1
               [] lanes \in {<<2, 1>>, <<2, 2>>} -> 2
               [] lanes \in {<<1, 1>>, <<1, 2>>} -> 3
               [] OTHER -> 4
  BY DEF EndByte
<1>6. /\ \A a \in {0, 1, 2, 3}, b \in {1, 2} :
            lanes = <<a, b>> <=> f[2] = a /\ f[3] = b
      /\ \A a, b, c, d : lanes \in {<<a, b>>, <<c, d>>} <=>
                          lanes = <<a, b>> \/ lanes = <<c, d>>
  BY <1>3
<1> HIDE DEF lanes
<1>7. CASE bigEndian
  <2>1. StartByte(f) = 4 * f[1] + Lane(f)
    BY <1>1, <1>4, <1>6, <1>7 DEF Lane
  <2>2. EndByte(f) = 4 * f[1] + Lane(f) + f[3]
    BY <1>1, <1>5, <1>6, <1>7 DEF Lane
  <2> QED
    BY <1>2, <2>1, <2>2
<1>8. CASE ~bigEndian
  <2>1. StartByte(f) = 4 * f[1] + Lane(f)
    BY <1>1, <1>4, <1>6, <1>8 DEF Lane
  <2>2. EndByte(f) = 4 * f[1] + Lane(f) + f[3]
    BY <1>1, <1>5, <1>6, <1>8 DEF Lane
  <2> QED
    BY <1>2, <2>1, <2>2
<1> QED
  BY <1>7, <1>8

(* The bytes of a field are those from its start to its end.               *)
LEMMA FieldIsInterval ==
    ASSUME NEW f, Field(f), bigEndian \in BOOLEAN
    PROVE  FieldBytes(f) = StartByte(f) .. StartByte(f) + f[3] - 1
<1>1. f[1] \in Nat /\ f[2] \in 0 .. 3 /\ f[3] \in {1, 2, 4}
  BY DEF Field, Registers
<1>2. StartByte(f) = 4 * f[1] + IF bigEndian THEN 4 - f[2] - f[3] ELSE f[2]
  BY BytesOfField DEF Lane
<1>3. CASE bigEndian
  <2>1. FieldBytes(f) = {4 * f[1] + (3 - k) : k \in f[2] .. f[2] + f[3] - 1}
    BY <1>3 DEF FieldBytes
  <2>2. ASSUME NEW b \in StartByte(f) .. StartByte(f) + f[3] - 1
        PROVE  b \in FieldBytes(f)
    <3>1. 4 * f[1] + 3 - b \in f[2] .. f[2] + f[3] - 1
          /\ b = 4 * f[1] + (3 - (4 * f[1] + 3 - b))
      BY <1>1, <1>2, <1>3
    <3> QED
      BY <2>1, <3>1
  <2>3. ASSUME NEW k \in f[2] .. f[2] + f[3] - 1
        PROVE  4 * f[1] + (3 - k) \in StartByte(f) .. StartByte(f) + f[3] - 1
    BY <1>1, <1>2, <1>3
  <2> QED
    BY <2>1, <2>2, <2>3
<1>4. CASE ~bigEndian
  <2>1. FieldBytes(f) = {4 * f[1] + k : k \in f[2] .. f[2] + f[3] - 1}
    BY <1>4 DEF FieldBytes
  <2>2. ASSUME NEW b \in StartByte(f) .. StartByte(f) + f[3] - 1
        PROVE  b \in FieldBytes(f)
    <3>1. b - 4 * f[1] \in f[2] .. f[2] + f[3] - 1
          /\ b = 4 * f[1] + (b - 4 * f[1])
      BY <1>1, <1>2, <1>4
    <3> QED
      BY <2>1, <3>1
  <2>3. ASSUME NEW k \in f[2] .. f[2] + f[3] - 1
        PROVE  4 * f[1] + k \in StartByte(f) .. StartByte(f) + f[3] - 1
    BY <1>1, <1>2, <1>4
  <2> QED
    BY <2>1, <2>2, <2>3
<1> QED
  BY <1>3, <1>4

(* GetRegname gives a field that starts at the offset asked for.           *)
LEMMA RegnameIs ==
    ASSUME NEW off \in Nat, NEW size \in {1, 2, 4}, Aligned(off, size),
           bigEndian \in BOOLEAN
    PROVE  /\ Field(GetRegname(off, size))
           /\ StartByte(GetRegname(off, size)) = off
           /\ GetRegname(off, size)[3] = size
<1> DEFINE q == off \div 4  m == off % 4  f == GetRegname(off, size)
<1>1. q \in Nat /\ m \in 0 .. 3 /\ off = 4 * q + m /\ m + size <= 4
  BY DEF Aligned
<1>2. f = <<q, IF size = 4 THEN 0 ELSE IF bigEndian THEN 4 - size - m ELSE m, size>>
  BY DEF GetRegname
<1> HIDE DEF q, m, f
<1>3. /\ f[1] = q /\ f[3] = size
      /\ f[2] = IF size = 4 THEN 0 ELSE IF bigEndian THEN 4 - size - m ELSE m
  BY <1>2
<1>4. f[2] \in Nat /\ f[2] + size <= 4
  BY <1>1, <1>3
<1>5. Field(f)
  BY <1>1, <1>2, <1>3, <1>4 DEF Field, Registers
<1>6. StartByte(f) = 4 * q + IF bigEndian THEN 4 - f[2] - size ELSE f[2]
  BY <1>3, <1>5, BytesOfField DEF Lane
<1>7. StartByte(f) = off
  BY <1>1, <1>3, <1>4, <1>6
<1> QED
  BY <1>3, <1>5, <1>7 DEF f

-----------------------------------------------------------------------------
(* PasmStruct: what is found                                               *)

(* A bounded set of numbers that is not empty has a greatest one.          *)
LEMMA GreatestOf ==
    ASSUME NEW n \in Nat, NEW S \in SUBSET (0 .. n), S # {}
    PROVE  \E i \in S : \A k \in S : k <= i
<1> DEFINE R == OpToRel(<, Nat)
           T == {n - s : s \in S}
<1>1. IsWellFoundedOn(R, Nat)
  BY NatLessThanWellFounded
<1>2. \A i, k \in Nat : <<i, k>> \in R <=> i < k
  BY DEF OpToRel
<1> HIDE DEF R
<1>3. T \in SUBSET Nat /\ T # {}
  <2>1. \A s \in S : n - s \in Nat
    OBVIOUS
  <2>2. PICK s \in S : TRUE
    OBVIOUS
  <2>3. n - s \in T
    OBVIOUS
  <2> QED
    BY <2>1, <2>3
<1>4. PICK t \in T : \A k \in T : ~(<<k, t>> \in R)
  <2> HIDE DEF T
  <2> QED
    BY <1>1, <1>3, WFMin
<1>5. PICK i \in S : t = n - i
  BY <1>4
<1>6. ASSUME NEW k \in S PROVE k <= i
  <2>1. n - k \in T /\ ~(<<n - k, n - i>> \in R)
    BY <1>4, <1>5
  <2>2. n - k \in Nat /\ n - i \in Nat /\ i \in 0 .. n /\ k \in 0 .. n
    BY <1>5
  <2>3. ~(n - k < n - i)
    BY <1>2, <2>1, <2>2
  <2> QED
    BY <2>2, <2>3
<1> QED
  BY <1>6

(* AssignFind finds one of the assignments.                                *)
LEMMA AssignFound ==
    ASSUME NEW n, StructTypes, Visible(n) # {}
    PROVE  \E i \in 1 .. Len(scopes) : \E j \in 1 .. Len(scopes[i].assigns) :
              AssignFind(n) = scopes[i].assigns[j]
<1> DEFINE V == Visible(n)
           later(p, q) == p[1] > q[1] \/ (p[1] = q[1] /\ p[2] >= q[2])
           S == {p[1] : p \in V}
<1>1. /\ \A p \in V : /\ p \in (1 .. Len(scopes)) \X (1 .. TextLimit)
                      /\ p[2] <= Len(scopes[p[1]].assigns)
      /\ Len(scopes) \in Nat /\ TextLimit \in Nat
      /\ \A i \in 1 .. Len(scopes) : Len(scopes[i].assigns) \in Nat
  <2>1. \A p \in V : /\ p \in (1 .. Len(scopes)) \X (1 .. TextLimit)
                     /\ p[2] <= Len(scopes[p[1]].assigns)
    BY DEF Visible
  <2>2. scopes \in Seq(Scopes)
    BY DEF StructTypes
  <2>3. /\ Len(scopes) \in Nat
        /\ \A i \in 1 .. Len(scopes) : Len(scopes[i].assigns) \in Nat
    BY <2>2, ScopesAre
  <2> QED
    BY <2>1, <2>3, StructAssumption
<1>2. AssignFind(n) = LET at == CHOOSE p \in V : \A q \in V : later(p, q)
                      IN  scopes[at[1]].assigns[at[2]]
  BY DEF AssignFind
<1>3. V # {}
  OBVIOUS
<1> HIDE DEF V
<1>4. PICK i \in S : \A k \in S : k <= i
  <2>1. S \in SUBSET (0 .. Len(scopes)) /\ S # {}
    BY <1>1, <1>3
  <2> HIDE DEF S
  <2> QED
    BY <1>1, <2>1, GreatestOf
<1> DEFINE U == {p[2] : p \in {q \in V : q[1] = i}}
<1>5. PICK j \in U : \A k \in U : k <= j
  <2>1. U \in SUBSET (0 .. TextLimit) /\ U # {}
    BY <1>1, <1>4
  <2> HIDE DEF U
  <2> QED
    BY <1>1, <2>1, GreatestOf
<1>6. PICK p \in V : p[1] = i /\ p[2] = j
  BY <1>5
<1>7. \A q \in V : later(p, q)
  <2> SUFFICES ASSUME NEW q \in V PROVE later(p, q)
    OBVIOUS
  <2>1. q[1] \in S /\ (q[1] = i => q[2] \in U)
    OBVIOUS
  <2>2. q[1] <= i /\ (q[1] = i => q[2] <= j)
    BY <1>4, <1>5, <2>1
  <2>3. p[1] \in Int /\ q[1] \in Int /\ p[2] \in Int /\ q[2] \in Int
    BY <1>1
  <2> QED
    BY <1>6, <2>2, <2>3
<1> HIDE DEF later
<1> DEFINE at == CHOOSE q \in V : \A r \in V : later(q, r)
<1>8. at \in V
  BY <1>7
<1>9. AssignFind(n) = scopes[at[1]].assigns[at[2]]
  BY <1>2
<1> HIDE DEF at
<1>10. at[1] \in 1 .. Len(scopes) /\ at[2] \in 1 .. TextLimit
       /\ at[2] <= Len(scopes[at[1]].assigns)
  BY <1>1, <1>8
<1>11. at[2] \in 1 .. Len(scopes[at[1]].assigns)
  BY <1>1, <1>10
<1> QED
  BY <1>9, <1>10, <1>11

(* Scopes, each with an older parent.                                      *)
Nested(sc) == sc \in Seq(Scopes) /\ \A i \in 1 .. Len(sc) : sc[i].parent < i

(* The walk of ScopeClose exists ...                                       *)
LEMMA WalkExists ==
    ASSUME NEW sc, Nested(sc), NEW n \in 0 .. Len(sc)
    PROVE  \E up : up = [k \in 0 .. n |-> IF k = Null \/ sc[k].open THEN k
                                          ELSE up[sc[k].parent]]
<1> DEFINE e(up, k) == IF k = Null \/ sc[k].open THEN k ELSE up[sc[k].parent]
           P(up, m) == up = [k \in 0 .. m |-> e(up, k)]
           Q(m) == \E up : P(up, m)
           R == OpToRel(<, Nat)
           without == {m \in 0 .. Len(sc) : ~Q(m)}
<1>0. /\ Len(sc) \in Nat
      /\ \A k \in 1 .. Len(sc) : sc[k].parent \in Nat /\ sc[k].parent < k
  BY ScopesAre DEF Nested
<1> SUFFICES ASSUME without # {} PROVE FALSE
  OBVIOUS
<1>1. IsWellFoundedOn(R, Nat)
  BY NatLessThanWellFounded
<1>2. \A i, k \in Nat : <<i, k>> \in R <=> i < k
  BY DEF OpToRel
<1> HIDE DEF R
<1>3. PICK m \in without : \A k \in without : ~(<<k, m>> \in R)
  <2>1. without \in SUBSET Nat
    BY <1>0
  <2> HIDE DEF without
  <2> QED
    BY <1>1, <2>1, WFMin
<1>4. m \in 0 .. Len(sc) /\ ~Q(m)
  BY <1>3
<1>5. CASE m = 0
  <2> DEFINE u == [k \in 0 .. 0 |-> k]
  <2>1. u = [k \in 0 .. 0 |-> e(u, k)]
    BY DEF Null
  <2> QED
    BY <1>4, <1>5, <2>1
<1>6. CASE m # 0
  <2>1. m - 1 \in 0 .. Len(sc) /\ m - 1 < m /\ m - 1 \in Nat /\ m \in Nat
    BY <1>0, <1>4, <1>6
  <2>2. ~(m - 1 \in without)
    BY <1>2, <1>3, <2>1
  <2>3. Q(m - 1)
    BY <2>1, <2>2
  <2>4. PICK u : P(u, m - 1)
    BY <2>3
  <2> DEFINE h == [k \in 0 .. m |-> IF k = m THEN e(u, m) ELSE u[k]]
  <2>5. \A k \in 0 .. m - 1 : u[k] = e(u, k)
    <3> HIDE DEF e
    <3> QED
      BY <2>4
  <2>6. \A k \in 0 .. m - 1 : h[k] = u[k]
    BY <2>1
  <2>7. h[m] = e(u, m)
    BY <2>1
  <2>8. \A k \in 1 .. m : sc[k].parent \in 0 .. m - 1 /\ sc[k].parent \in 0 .. m
    BY <1>0, <1>4
  <2>9. h = [k \in 0 .. m |-> h[k]]
    OBVIOUS
  <2> HIDE DEF h
  <2>10. \A k \in 1 .. m : h[sc[k].parent] = u[sc[k].parent]
    BY <2>6, <2>8
  <2>11. \A k \in 0 .. m : h[k] = e(u, k)
    <3> HIDE DEF e
    <3>1. ASSUME NEW k \in 0 .. m PROVE k = m \/ k \in 0 .. m - 1
      BY <2>1
    <3> QED
      BY <2>5, <2>6, <2>7, <3>1
  <2>12. \A k \in 0 .. m : e(u, k) = e(h, k)
    <3> SUFFICES ASSUME NEW k \in 0 .. m PROVE e(u, k) = e(h, k)
      OBVIOUS
    <3>1. CASE k = 0
      BY <3>1 DEF Null
    <3>2. CASE k # 0
      <4>1. k \in 1 .. m
        BY <2>1, <3>2
      <4> QED
        BY <2>10, <4>1
    <3> QED
      BY <3>1, <3>2
  <2>13. P(h, m)
    <3> HIDE DEF e
    <3> QED
      BY <2>9, <2>11, <2>12
  <2> QED
    BY <1>4, <2>13
<1> QED
  BY <1>5, <1>6

(* ... and ends at the root or at an open scope.                           *)
LEMMA FirstOpenIs ==
    ASSUME NEW sc, Nested(sc), NEW s \in 0 .. Len(sc)
    PROVE  /\ FirstOpen(sc, s) \in 0 .. s
           /\ FirstOpen(sc, s) # Null => sc[FirstOpen(sc, s)].open
<1> DEFINE up == CHOOSE u : u = [k \in 0 .. Len(sc) |->
                    IF k = Null \/ sc[k].open THEN k ELSE u[sc[k].parent]]
           Good(k) == up[k] \in 0 .. k /\ (up[k] # Null => sc[up[k]].open)
           R == OpToRel(<, Nat)
           bad == {k \in 0 .. Len(sc) : ~Good(k)}
<1>0. /\ Len(sc) \in Nat
      /\ \A k \in 1 .. Len(sc) : sc[k].parent \in Nat /\ sc[k].parent < k
  BY ScopesAre DEF Nested
<1>1. up = [k \in 0 .. Len(sc) |->
               IF k = Null \/ sc[k].open THEN k ELSE up[sc[k].parent]]
  <2>1. Len(sc) \in 0 .. Len(sc)
    BY <1>0
  <2> QED
    BY <2>1, WalkExists
<1>2. FirstOpen(sc, s) = up[s]
  BY DEF FirstOpen
<1> HIDE DEF up
<1>3. \A k \in 0 .. Len(sc) :
         up[k] = IF k = Null \/ sc[k].open THEN k ELSE up[sc[k].parent]
  BY <1>1
<1>4. IsWellFoundedOn(R, Nat)
  BY NatLessThanWellFounded
<1>5. \A i, k \in Nat : <<i, k>> \in R <=> i < k
  BY DEF OpToRel
<1> HIDE DEF R
<1>6. bad = {}
  <2> SUFFICES ASSUME bad # {} PROVE FALSE
    OBVIOUS
  <2>1. PICK m \in bad : \A k \in bad : ~(<<k, m>> \in R)
    <3>1. bad \in SUBSET Nat
      BY <1>0
    <3> HIDE DEF bad
    <3> QED
      BY <1>4, <3>1, WFMin
  <2>2. m \in 0 .. Len(sc) /\ ~Good(m)
    BY <2>1
  <2>3. up[m] = IF m = Null \/ sc[m].open THEN m ELSE up[sc[m].parent]
    BY <1>3, <2>2
  <2>4. m # Null /\ ~sc[m].open /\ up[m] = up[sc[m].parent]
    BY <1>0, <2>2, <2>3
  <2>5. sc[m].parent \in Nat /\ sc[m].parent < m /\ m \in Nat
        /\ sc[m].parent \in 0 .. Len(sc)
    BY <1>0, <2>2, <2>4 DEF Null
  <2>6. Good(sc[m].parent)
    BY <1>5, <2>1, <2>5
  <2> QED
    BY <2>2, <2>4, <2>5, <2>6
<1>7. Good(s)
  BY <1>6
<1> QED
  BY <1>2, <1>7

-----------------------------------------------------------------------------
(* PasmStruct: the layout                                                  *)

(* The ends of an assignment are fields of a register.                     *)
LEMMA EndsAreFields ==
    \A f \in RegisterFields : Field(f)
BY DEF RegisterFields, Field, Registers

(* The elements of an assignment are where their offsets say.              *)
LEMMA ElementPlaced ==
    ASSUME bigEndian \in BOOLEAN, NEW a \in Assigns, AssignRight(a),
           NEW k \in 1 .. Len(a.elems)
    PROVE  LET e == a.elems[k]
           IN  /\ Field(e.reg) /\ e.reg[3] = e.size /\ e.offset \in Nat
               /\ e.size \in {1, 2, 4}
               /\ StartByte(e.reg) = StartByte(a.from) + e.offset
               /\ StartByte(a.from) \in Nat
<1> DEFINE e == a.elems[k]
<1>1. a.from \in RegisterFields /\ a.elems \in Seq(MappedElements)
  BY RecordsAre
<1>2. e \in MappedElements
  BY <1>1
<1>3. e.size \in {1, 2, 4} /\ e.offset \in Nat
  BY <1>2, RecordsAre
<1>4. Aligned(StartByte(a.from) + e.offset, e.size)
      /\ e.reg = GetRegname(StartByte(a.from) + e.offset, e.size)
  BY DEF AssignRight
<1> HIDE DEF e
<1>5. Field(a.from)
  BY <1>1, EndsAreFields
<1>6. StartByte(a.from) \in Nat
  BY <1>5, BytesOfField DEF Field, Registers
<1>7. StartByte(a.from) + e.offset \in Nat
  BY <1>3, <1>6
<1>8. Field(e.reg) /\ e.reg[3] = e.size
      /\ StartByte(e.reg) = StartByte(a.from) + e.offset
  BY <1>3, <1>4, <1>7, RegnameIs
<1> QED
  BY <1>3, <1>6, <1>8 DEF e

(* The assignments of the scopes are such.                                 *)
LEMMA AssignsAre ==
    ASSUME StructTypes, LayoutsRight,
           NEW i \in 1 .. Len(scopes), NEW j \in 1 .. Len(scopes[i].assigns)
    PROVE  scopes[i].assigns[j] \in Assigns /\ AssignRight(scopes[i].assigns[j])
<1>1. scopes[i].assigns \in Seq(Assigns)
  BY ScopesAre DEF StructTypes
<1> QED
  BY <1>1 DEF LayoutsRight

(* The least number of an interval.                                        *)
LEMMA LeastIs ==
    ASSUME NEW m \in Int, NEW n \in Int, m <= n
    PROVE  (CHOOSE b \in m .. n : \A d \in m .. n : b <= d) = m
<1> DEFINE b == CHOOSE x \in m .. n : \A d \in m .. n : x <= d
<1>1. m \in m .. n /\ \A d \in m .. n : m <= d
  OBVIOUS
<1>2. b \in m .. n /\ \A d \in m .. n : b <= d
  BY <1>1
<1> HIDE DEF b
<1>3. b = m
  BY <1>1, <1>2
<1> QED
  BY <1>3 DEF b

(* The elements of an assignment lie next to each other in the registers,  *)
(* from the first one given to the last.                                   *)
LEMMA TilesRegisters == StructTypes /\ LayoutsRight => ElementsTileRegisters
<1> SUFFICES ASSUME StructTypes, LayoutsRight, NEW i \in 1 .. Len(scopes),
                    NEW j \in 1 .. Len(scopes[i].assigns)
             PROVE  LET a == scopes[i].assigns[j]
                        start == CHOOSE b \in FieldBytes(a.from) :
                                    \A d \in FieldBytes(a.from) : b <= d
                    IN  /\ \A k \in 1 .. Len(a.elems) : FieldBytes(a.elems[k].reg) =
                               start + a.elems[k].offset ..
                               start + a.elems[k].offset + a.elems[k].size - 1
                        /\ a.to # <<>> =>
                              \A b \in FieldBytes(a.to) : b < start + TotalSize(a.elems)
  BY DEF ElementsTileRegisters
<1> DEFINE a == scopes[i].assigns[j]
           start == CHOOSE b \in FieldBytes(a.from) :
                        \A d \in FieldBytes(a.from) : b <= d
<1>1. a \in Assigns /\ AssignRight(a) /\ bigEndian \in BOOLEAN
  BY AssignsAre DEF StructTypes
<1> HIDE DEF a
<1>2. Field(a.from) /\ (a.to # <<>> => Field(a.to))
  BY <1>1, RecordsAre, EndsAreFields
<1>3. start = StartByte(a.from) /\ start \in Nat
  <2>1. FieldBytes(a.from) = StartByte(a.from) .. StartByte(a.from) + a.from[3] - 1
    BY <1>1, <1>2, FieldIsInterval
  <2>2. StartByte(a.from) \in Nat /\ a.from[3] \in {1, 2, 4}
    <3>1. a.from[1] \in Nat /\ a.from[3] \in {1, 2, 4}
      BY <1>2 DEF Field, Registers
    <3>2. StartByte(a.from) = 4 * a.from[1] + Lane(a.from) /\ Lane(a.from) \in Nat
      BY <1>1, <1>2, BytesOfField
    <3> QED
      BY <3>1, <3>2
  <2> DEFINE m == StartByte(a.from)
             n == StartByte(a.from) + a.from[3] - 1
  <2>3. m \in Int /\ n \in Int /\ m <= n
    BY <2>2
  <2>4. start = CHOOSE b \in m .. n : \A d \in m .. n : b <= d
    BY <2>1
  <2> HIDE DEF start, m, n
  <2>5. start = m
    BY <2>3, <2>4, LeastIs
  <2> QED
    BY <2>2, <2>5 DEF m
<1> HIDE DEF start
<1>4. ASSUME NEW k \in 1 .. Len(a.elems)
      PROVE  FieldBytes(a.elems[k].reg) = start + a.elems[k].offset ..
                               start + a.elems[k].offset + a.elems[k].size - 1
  <2> DEFINE e == a.elems[k]
  <2>1. /\ Field(e.reg) /\ e.reg[3] = e.size /\ e.offset \in Nat
        /\ e.size \in {1, 2, 4}
        /\ StartByte(e.reg) = StartByte(a.from) + e.offset
    BY <1>1, ElementPlaced
  <2> HIDE DEF e
  <2>2. FieldBytes(e.reg) = StartByte(e.reg) .. StartByte(e.reg) + e.reg[3] - 1
    BY <1>1, <2>1, FieldIsInterval
  <2>3. FieldBytes(e.reg) = start + e.offset .. start + e.offset + e.size - 1
    BY <1>3, <2>1, <2>2
  <2> QED
    BY <2>3 DEF e
<1>5. ASSUME a.to # <<>>, NEW b \in FieldBytes(a.to)
      PROVE  b < start + TotalSize(a.elems)
  <2>1. b \in StartByte(a.to) .. StartByte(a.to) + a.to[3] - 1
    BY <1>1, <1>2, <1>5, FieldIsInterval
  <2>2. /\ StartByte(a.to) \in Nat /\ a.to[3] \in {1, 2, 4}
        /\ EndByte(a.to) = StartByte(a.to) + a.to[3]
    <3>1. a.to[1] \in Nat /\ a.to[3] \in {1, 2, 4}
      BY <1>2, <1>5 DEF Field, Registers
    <3>2. /\ StartByte(a.to) = 4 * a.to[1] + Lane(a.to) /\ Lane(a.to) \in Nat
          /\ EndByte(a.to) = 4 * a.to[1] + Lane(a.to) + a.to[3]
      BY <1>1, <1>2, <1>5, BytesOfField
    <3> QED
      BY <3>1, <3>2
  <2>3. start + TotalSize(a.elems) = EndByte(a.to)
    BY <1>1, <1>3, <1>5 DEF AssignRight
  <2> QED
    BY <2>1, <2>2, <2>3
<1> QED
  BY <1>4, <1>5 DEF a, start

(* OFFSET and SIZE of an element of an assignment, or of a part of it.     *)
Matches(r, elems, val) ==
    LET base == StartByte(elems[1].reg)
        reg == RegisterIn(r, elems)
        part == IF r.ext = <<>> THEN reg
                ELSE <<reg[1], reg[2] + r.ext[1].digit, r.ext[1].width>>
    IN  CASE r.cmd = "OFFSET" -> base + val = StartByte(part)
          [] r.cmd = "SIZE" -> val = part[3]

(* The value of OFFSET or SIZE is -1 or that of the part's register.      *)
LEMMA ValueMatches ==
    ASSUME bigEndian \in BOOLEAN, NEW a \in Assigns, AssignRight(a),
           NEW c \in Commands, c.op = "ref", NEW r, c.ref = r,
           r.cmd \in {"SIZE", "OFFSET"}, r.elem # Whole
    PROVE  \/ ValueIn(r, a.elems) = -1
           \/ Matches(r, a.elems, ValueIn(r, a.elems))
<1> DEFINE v == ValueIn(r, a.elems)
           e == ElementNamed(a.elems, r.elem)
           k == CHOOSE i \in 1 .. Len(a.elems) : a.elems[i].name = r.elem
<1>1. CASE ~HasElement(a.elems, r.elem)
  BY <1>1 DEF ValueIn
<1>2. CASE HasElement(a.elems, r.elem)
  <2>1. k \in 1 .. Len(a.elems)
    BY <1>2 DEF HasElement
  <2>2. e = a.elems[k]
    BY DEF ElementNamed
  <2>3. RegisterIn(r, a.elems) = e.reg
    BY <1>2 DEF RegisterIn
  <2>4. v = CASE r.cmd = "SIZE" /\ r.ext = <<>> -> e.size
              [] r.cmd = "SIZE" /\ r.ext # <<>> -> GetFinalSize(r.ext[1], e)
              [] r.cmd = "OFFSET" /\ r.ext = <<>> -> e.offset
              [] OTHER -> GetFinalOffset(r.ext[1], e)
    BY <1>2 DEF ValueIn
  <2> HIDE DEF k, e, v
  <2>5. Field(e.reg)
    BY <2>1, <2>2, ElementPlaced
  <2>6. /\ e.reg[3] = e.size /\ e.offset \in Nat
        /\ e.size \in {1, 2, 4}
        /\ StartByte(e.reg) = StartByte(a.from) + e.offset
        /\ StartByte(a.from) \in Nat
    BY <2>1, <2>2, ElementPlaced
  <2>7. StartByte(a.elems[1].reg) = StartByte(a.from)
    <3>1. a.elems \in Seq(MappedElements)
      BY RecordsAre
    <3>2. Len(a.elems) \in Nat
      BY <3>1
    <3>3. 1 \in 1 .. Len(a.elems)
      BY <2>1, <3>2
    <3>4. a.elems[1].offset = 0
      BY <3>3 DEF AssignRight, Packed
    <3>5. StartByte(a.elems[1].reg) = StartByte(a.from) + a.elems[1].offset
      BY <3>3, ElementPlaced
    <3> QED
      BY <2>6, <3>4, <3>5
  <2>8. StartByte(a.from) + e.offset = 4 * e.reg[1] + Lane(e.reg)
    BY <2>5, <2>6, BytesOfField
  <2>9. e.reg[1] \in Nat /\ e.reg[2] \in Nat /\ e.reg[2] + e.size <= 4
    BY <2>5, <2>6 DEF Field, Registers
  <2>10. CASE r.ext = <<>>
    <3>1. v = IF r.cmd = "SIZE" THEN e.size ELSE e.offset
      BY <2>4, <2>10
    <3>2. Matches(r, a.elems, v) <=>
              CASE r.cmd = "OFFSET" -> StartByte(a.from) + v = StartByte(e.reg)
                [] r.cmd = "SIZE" -> v = e.reg[3]
      BY <2>3, <2>7, <2>10 DEF Matches
    <3> QED
      BY <2>6, <3>1, <3>2 DEF v
  <2>11. CASE r.ext # <<>>
    <3> DEFINE x == r.ext[1]
               part == <<e.reg[1], e.reg[2] + x.digit, x.width>>
    <3>1. x.width \in {1, 2} /\ x.digit \in Int \ {-1, -2}
      BY <2>11, StructAssumption
    <3>2. v = IF r.cmd = "SIZE" THEN GetFinalSize(x, e) ELSE GetFinalOffset(x, e)
      BY <2>4, <2>11
    <3>3. Matches(r, a.elems, v) <=>
              CASE r.cmd = "OFFSET" -> StartByte(a.from) + v = StartByte(part)
                [] r.cmd = "SIZE" -> v = part[3]
      BY <2>3, <2>7, <2>11 DEF Matches
    <3>4. part[1] = e.reg[1] /\ part[2] = e.reg[2] + x.digit /\ part[3] = x.width
      OBVIOUS
    <3>5. part \in Registers
      <4>1. e.reg[1] \in Int /\ e.reg[2] + x.digit \in Int /\ x.width \in Int
        BY <2>9, <3>1
      <4> QED
        BY <4>1 DEF Registers
    <3> HIDE DEF x, part
    <3>6. CASE ~ExtFits(x, e.size)
      <4>1. v = -1
        BY <3>2, <3>6 DEF GetFinalSize, GetFinalOffset
      <4> QED
        BY <4>1 DEF v
    <3>7. CASE ExtFits(x, e.size)
      <4>1. x.digit \in Nat /\ x.digit + x.width <= e.size
        BY <2>6, <3>1, <3>7 DEF ExtFits
      <4>2. Field(part)
        BY <2>6, <2>9, <3>1, <3>4, <3>5, <4>1 DEF Field
      <4>3. StartByte(part) = 4 * e.reg[1] + IF bigEndian
                                  THEN 4 - (e.reg[2] + x.digit) - x.width
                                  ELSE e.reg[2] + x.digit
        BY <3>4, <4>2, BytesOfField DEF Lane
      <4>4. v = IF r.cmd = "SIZE" THEN x.width
                ELSE e.offset + IF bigEndian THEN e.size - x.digit - x.width
                                ELSE x.digit
        BY <3>2, <3>7 DEF GetFinalSize, GetFinalOffset
      <4>5. Lane(e.reg) = IF bigEndian THEN 4 - e.reg[2] - e.size ELSE e.reg[2]
        BY <2>6 DEF Lane
      <4>6. CASE r.cmd = "SIZE"
        BY <3>3, <3>4, <4>4, <4>6 DEF v
      <4>7. CASE r.cmd = "OFFSET"
        <5> DEFINE down == IF bigEndian THEN e.size - x.digit - x.width ELSE x.digit
        <5>1. v = e.offset + down
          BY <4>4, <4>7
        <5>2. StartByte(part) = 4 * e.reg[1] + Lane(e.reg) + down /\ down \in Int
              /\ Lane(e.reg) \in Int
          BY <2>6, <2>9, <3>1, <4>1, <4>3, <4>5
        <5> HIDE DEF down
        <5>3. StartByte(a.from) + v = StartByte(part)
          BY <2>6, <2>8, <2>9, <5>1, <5>2
        <5> QED
          BY <3>3, <4>7, <5>3 DEF v
      <4> QED
        BY <4>6, <4>7
    <3> QED
      BY <3>6, <3>7
  <2> QED
    BY <2>10, <2>11
<1> QED
  BY <1>1, <1>2

(* An answer agrees with the registers of the assignment it is about.      *)
LEMMA OffsetsMatch ==
    StructTypes /\ LayoutsRight /\ AnswerRight => OffsetsMatchRegisters
<1> SUFFICES ASSUME StructTypes, LayoutsRight, AnswerRight,
                    answer.is = "value", answer.val >= 0,
                    Visible(answer.ref.name) # {}, answer.ref.elem # Whole
             PROVE  OffsetsMatchRegisters
  BY DEF OffsetsMatchRegisters
<1> DEFINE r == answer.ref
           a == AssignFind(r.name)
<1>1. PICK c \in Commands : c.op = "ref" /\ c.ref = r
  BY DEF AnswerRight
<1>2. r.cmd \in {"SIZE", "OFFSET"} /\ answer.val = ValueIn(r, a.elems)
  BY DEF AnswerRight
<1>3. PICK i \in 1 .. Len(scopes) : \E j \in 1 .. Len(scopes[i].assigns) :
              a = scopes[i].assigns[j]
  BY AssignFound
<1>4. PICK j \in 1 .. Len(scopes[i].assigns) : a = scopes[i].assigns[j]
  BY <1>3
<1>5. a \in Assigns /\ AssignRight(a) /\ bigEndian \in BOOLEAN
  BY <1>4, AssignsAre DEF StructTypes
<1>6. StructNameCheck(r) = RegisterIn(r, a.elems)
  BY DEF StructNameCheck
<1>7. OffsetsMatchRegisters <=> Matches(r, a.elems, answer.val)
  BY <1>6 DEF OffsetsMatchRegisters, Matches
<1>8. ValueIn(r, a.elems) # -1 /\ r.elem # Whole
  BY <1>2
<1> HIDE DEF r, a
<1>9. Matches(r, a.elems, ValueIn(r, a.elems))
  BY <1>1, <1>2, <1>5, <1>8, ValueMatches
<1> QED
  BY <1>2, <1>7, <1>9

-----------------------------------------------------------------------------
(* PasmStruct: what a command does                                         *)

(* A reference finds the same as long as the scopes are the same.          *)
LEMMA FoundStill ==
    ASSUME NEW r, scopes' = scopes, bigEndian' = bigEndian
    PROVE  /\ Visible(r.name)' = Visible(r.name)
           /\ ValueIn(r, AssignFind(r.name).elems)' = ValueIn(r, AssignFind(r.name).elems)
<1>1. Visible(r.name)' = Visible(r.name)
  BY DEF Visible
<1>2. AssignFind(r.name)' = AssignFind(r.name)
  BY <1>1 DEF AssignFind
<1>3. ValueIn(r, AssignFind(r.name).elems)' = ValueIn(r, AssignFind(r.name).elems)
  BY <1>2 DEF ValueIn, TotalSize, HasElement, ElementNamed, GetFinalSize,
              GetFinalOffset, ExtFits
<1> QED
  BY <1>1, <1>3

(* Which operation carries a command out.                                 *)
LEMMA DoIs ==
    ASSUME NEW c \in Commands, Do(c)
    PROVE  \/ c.op = "struct" /\ StructNew(c.name)
           \/ c.op = "ends" /\ StructEnd
           \/ c.op = "elem" /\ StructAddElement(c.name, c.size)
           \/ c.op = "assign" /\ StructAssign(c.name, c.from, c.to, c.def)
           \/ c.op = "enter" /\ ScopeEnter(c.name)
           \/ c.op = "leave" /\ ScopeLeave(c.name)
           \/ c.op = "using" /\ ScopeUsing(c.name)
           \/ c.op = "ref" /\ StructParamProcess(c.ref)
           \/ c.op \in {"include", "eof", "undefined"} /\ Other(c)
<1>1. c.op \in {"struct", "ends", "elem", "assign", "enter", "leave", "using",
                "ref", "include", "eof", "undefined"}
  BY StructAssumption
<1> QED
  BY <1>1 DEF Do

(* What a command does to the structures.                                  *)
StructsDone(op) ==
    /\ structs' \in Seq(Structs)
    /\ \A i \in 1 .. Len(structs') : Packed(structs'[i].elems)
    /\ pStructCurrent' \in Int /\ pStructCurrent' >= Freed
    /\ pStructCurrent' <= Len(structs')
    /\ stErrors' \in {stErrors, stErrors + 1}
    /\ pStructCurrent' > 0 => \/ pStructCurrent' = pStructCurrent
                              \/ op = "struct" /\ stErrors' = stErrors
    /\ pStructCurrent' = Freed => pStructCurrent = Freed
    /\ op = "struct" /\ pStructCurrent = Freed => stErrors' # stErrors
    /\ op \in {"ends", "elem"} /\ stErrors' = stErrors => pStructCurrent # Null
    /\ freedUsed' => \/ freedUsed
                     \/ pStructCurrent = Freed /\ op \in {"ends", "elem"}

(* A command that leaves them alone.                                       *)
LEMMA KeepsStructs ==
    ASSUME StructTypes, LayoutsRight, KeepStructs, Fine \/ Error,
           NEW op, op \notin {"struct", "ends", "elem"}
    PROVE  StructsDone(op)
BY DEF StructTypes, LayoutsRight, KeepStructs, Fine, Error, StructsDone

(* .struct adds an empty structure, or fails: it does so on a freed one.  *)
LEMMA StructNewDoes ==
    ASSUME StructTypes, LayoutsRight, NEW n \in ElementNames, StructNew(n)
    PROVE  StructsDone("struct")
<1>1. /\ structs \in Seq(Structs) /\ Len(structs) \in Nat /\ stErrors \in Nat
      /\ pStructCurrent \in Int /\ pStructCurrent >= Freed
      /\ pStructCurrent <= Len(structs)
      /\ \A i \in 1 .. Len(structs) : Packed(structs[i].elems)
  BY DEF StructTypes, LayoutsRight
<1>2. CASE Error /\ KeepStructs
  BY <1>1, <1>2 DEF Error, KeepStructs, StructsDone
<1>3. CASE ~(Error /\ KeepStructs)
  <2> DEFINE s == [name |-> n, elems |-> <<>>]
  <2>1. /\ pStructCurrent = Null /\ stErrors' = stErrors
        /\ structs' = Append(structs, s)
        /\ pStructCurrent' = Len(structs) + 1 /\ freedUsed' = freedUsed
    BY <1>3 DEF StructNew, Fine
  <2>2. s \in Structs /\ Packed(s.elems)
    <3>1. s.elems = <<>> /\ s.name = n /\ <<>> \in Seq(Elements)
      OBVIOUS
    <3>2. s \in Structs
      BY <3>1 DEF Structs
    <3>3. Packed(<<>>)
      BY DEF Packed
    <3> HIDE DEF s
    <3> QED
      BY <3>1, <3>2, <3>3
  <2> HIDE DEF s
  <2>3. structs' \in Seq(Structs) /\ Len(structs') = Len(structs) + 1
    BY <1>1, <2>1, <2>2
  <2>4. ASSUME NEW i \in 1 .. Len(structs') PROVE Packed(structs'[i].elems)
    <3>1. CASE i = Len(structs) + 1
      <4>1. structs'[i] = s
        BY <1>1, <2>1, <3>1
      <4> QED
        BY <2>2, <4>1
    <3>2. CASE i # Len(structs) + 1
      <4>1. i \in 1 .. Len(structs)
        BY <1>1, <2>3, <3>2
      <4>2. structs'[i] = structs[i]
        BY <1>1, <2>1, <4>1
      <4> QED
        BY <1>1, <4>1, <4>2
    <3> QED
      BY <3>1, <3>2
  <2> QED
    BY <1>1, <2>1, <2>3, <2>4 DEF StructsDone, Null, Freed
<1> QED
  BY <1>2, <1>3

(* .ends leaves the structure, if there is one.                            *)
LEMMA StructEndDoes ==
    ASSUME StructTypes, LayoutsRight, StructEnd
    PROVE  StructsDone("ends")
<1>1. /\ structs \in Seq(Structs) /\ Len(structs) \in Nat /\ stErrors \in Nat
      /\ \A i \in 1 .. Len(structs) : Packed(structs[i].elems)
  BY DEF StructTypes, LayoutsRight
<1>2. /\ stErrors' \in {stErrors, stErrors + 1}
      /\ stErrors' = stErrors => pStructCurrent # Null
      /\ structs' = structs /\ pStructCurrent' = 0
  BY <1>1 DEF StructEnd, Fine, Error, Null, Freed
<1>3. freedUsed' => freedUsed \/ pStructCurrent = Freed
  BY DEF StructEnd
<1> QED
  BY <1>1, <1>2, <1>3 DEF StructsDone, Freed, Null

(* One more element keeps the others where they are.                       *)
LEMMA PackedMore ==
    ASSUME NEW elems \in Seq(Elements), Packed(elems),
           NEW n \in ElementNames, NEW size \in {1, 2, 4}
    PROVE  LET e == [name |-> n, size |-> size, offset |-> TotalSize(elems)]
           IN  e \in Elements /\ Packed(Append(elems, e))
<1> DEFINE e == [name |-> n, size |-> size, offset |-> TotalSize(elems)]
           more == Append(elems, e)
<1>1. Len(elems) \in Nat /\ \A i \in 1 .. Len(elems) : elems[i] \in Elements
  OBVIOUS
<1>2. CASE elems = <<>>
  <2>1. TotalSize(elems) = 0
    BY <1>2 DEF TotalSize
  <2>2. e \in Elements
    BY <2>1 DEF Elements
  <2>3. e.offset = 0
    BY <2>1
  <2>4. Len(more) = 1 /\ more[1] = e
    BY <1>2
  <2> HIDE DEF e, more
  <2>5. Packed(more)
    BY <2>3, <2>4 DEF Packed
  <2> QED
    BY <2>2, <2>5 DEF e, more
<1>3. CASE elems # <<>>
  <2> DEFINE l == Len(elems)
  <2>1. l \in 1 .. Len(elems)
    BY <1>1, <1>3
  <2>2. elems[l].offset \in Nat /\ elems[l].size \in {1, 2, 4}
    BY <1>1, <2>1, RecordsAre
  <2>3. TotalSize(elems) = elems[l].offset + elems[l].size
    BY <1>3 DEF TotalSize
  <2>4. e.offset = elems[l].offset + elems[l].size /\ e.offset \in Nat
    BY <2>2, <2>3
  <2>5. e \in Elements
    BY <2>4 DEF Elements
  <2> HIDE DEF e
  <2>6. Len(more) = l + 1 /\ more[l + 1] = e
        /\ \A i \in 1 .. l : more[i] = elems[i]
    BY <1>1
  <2> HIDE DEF more
  <2>7. ASSUME NEW i \in 1 .. Len(more)
        PROVE  more[i].offset = IF i = 1 THEN 0
                                ELSE more[i - 1].offset + more[i - 1].size
    <3>1. CASE i = l + 1
      <4>1. i # 1 /\ i - 1 = l
        BY <1>1, <2>1, <3>1
      <4>2. more[i] = e /\ more[i - 1] = elems[l]
        BY <2>1, <2>6, <3>1, <4>1
      <4> QED
        BY <2>4, <4>1, <4>2
    <3>2. CASE i # l + 1
      <4>1. i \in 1 .. l
        BY <1>1, <2>6, <3>2
      <4>2. elems[i].offset = IF i = 1 THEN 0
                              ELSE elems[i - 1].offset + elems[i - 1].size
        BY <4>1 DEF Packed
      <4>3. i # 1 => i - 1 \in 1 .. l
        BY <1>1, <4>1
      <4> HIDE DEF l
      <4>4. more[i] = elems[i] /\ (i # 1 => more[i - 1] = elems[i - 1])
        BY <2>6, <4>1, <4>3
      <4> QED
        BY <4>2, <4>4
    <3> QED
      BY <3>1, <3>2
  <2>8. Packed(more)
    BY <2>7 DEF Packed
  <2> QED
    BY <2>5, <2>8 DEF e, more
<1> QED
  BY <1>2, <1>3

(* .u8, .u16 and .u32 add an element behind the others.                    *)
LEMMA StructAddElementDoes ==
    ASSUME StructTypes, LayoutsRight, NEW n \in ElementNames,
           NEW size \in {1, 2, 4}, StructAddElement(n, size)
    PROVE  StructsDone("elem")
<1>1. /\ structs \in Seq(Structs) /\ Len(structs) \in Nat /\ stErrors \in Nat
      /\ pStructCurrent \in Int /\ pStructCurrent >= Freed
      /\ pStructCurrent <= Len(structs)
      /\ \A i \in 1 .. Len(structs) : Packed(structs[i].elems)
  BY DEF StructTypes, LayoutsRight
<1>2. freedUsed' => freedUsed \/ pStructCurrent = Freed
  BY DEF StructAddElement
<1>3. pStructCurrent' = pStructCurrent
  BY DEF StructAddElement
<1>4. CASE Error /\ structs' = structs
  BY <1>1, <1>2, <1>3, <1>4 DEF Error, StructsDone, Freed, Null
<1>6. CASE pStructCurrent = Freed
  <2>1. stErrors' \in {stErrors, stErrors + 1} /\ structs' = structs
    BY <1>6 DEF StructAddElement, Fine, Error, Freed, Null
  <2> QED
    BY <1>1, <1>2, <1>3, <1>6, <2>1 DEF StructsDone, Freed, Null
<1>5. CASE ~(Error /\ structs' = structs) /\ pStructCurrent # Freed
  <2> DEFINE elems == structs[pStructCurrent].elems
             e == [name |-> n, size |-> size, offset |-> TotalSize(elems)]
             s == [structs[pStructCurrent] EXCEPT !.elems = Append(elems, e)]
  <2>1. /\ pStructCurrent > 0 /\ Fine
        /\ structs' = [structs EXCEPT ![pStructCurrent].elems = Append(@, e)]
    BY <1>1, <1>5 DEF StructAddElement, Null, Freed
  <2>2. pStructCurrent \in 1 .. Len(structs)
    BY <1>1, <2>1
  <2>3. structs' = [structs EXCEPT ![pStructCurrent] = s]
    BY <2>1
  <2>4. structs[pStructCurrent] \in Structs
    BY <1>1, <2>2
  <2>5. elems \in Seq(Elements) /\ Packed(elems)
    BY <1>1, <2>2, <2>4, RecordsAre
  <2>6. e \in Elements /\ Packed(Append(elems, e))
    <3> HIDE DEF elems
    <3> QED
      BY <2>5, PackedMore
  <2> HIDE DEF e
  <2>7. Append(elems, e) \in Seq(Elements)
    <3> HIDE DEF elems
    <3> QED
      BY <2>5, <2>6
  <2>8. s \in Structs /\ s.elems = Append(elems, e)
    BY <2>4, <2>7 DEF Structs
  <2>9. Packed(s.elems)
    BY <2>6, <2>8
  <2> HIDE DEF s
  <2>10. structs' \in Seq(Structs) /\ Len(structs') = Len(structs)
    BY <1>1, <2>2, <2>3, <2>8
  <2>11. ASSUME NEW i \in 1 .. Len(structs') PROVE Packed(structs'[i].elems)
    <3>1. CASE i = pStructCurrent
      <4>1. structs'[i] = s
        BY <1>1, <2>2, <2>3, <3>1
      <4> QED
        BY <2>9, <4>1
    <3>2. CASE i # pStructCurrent
      <4>1. i \in 1 .. Len(structs) /\ structs'[i] = structs[i]
        BY <1>1, <2>3, <2>10, <3>2
      <4> QED
        BY <1>1, <4>1
    <3> QED
      BY <3>1, <3>2
  <2>12. stErrors' = stErrors
    BY <2>1 DEF Fine
  <2> QED
    BY <1>1, <1>2, <1>3, <2>1, <2>10, <2>11, <2>12 DEF StructsDone, Freed, Null
<1> QED
  BY <1>4, <1>5, <1>6

(* What a command does to the scopes.                                      *)
ScopesRight(sc, current) ==
    /\ Nested(sc) /\ current \in 0 .. Len(sc)
    /\ current # Null => sc[current].open
AssignsRight(sc, limit) ==
    \A i \in 1 .. Len(sc) :
        /\ Len(sc[i].assigns) <= limit
        /\ \A j \in 1 .. Len(sc[i].assigns) : AssignRight(sc[i].assigns[j])
ScopesDone ==
    /\ ScopesRight(scopes', pScopeCurrent')
    /\ AssignsRight(scopes', stPos + 1)
    /\ stErrors' \in {stErrors, stErrors + 1}

(* The invariant in these terms.                                           *)
LEMMA ScopesAsIs ==
    ASSUME StructTypes, LayoutsRight, ScopeCurrentOpen
    PROVE  /\ ScopesRight(scopes, pScopeCurrent) /\ AssignsRight(scopes, stPos)
           /\ AssignsRight(scopes, stPos + 1)
<1>1. scopes \in Seq(Scopes) /\ stPos \in Nat
  BY DEF StructTypes
<1>2. ScopesRight(scopes, pScopeCurrent)
  BY <1>1 DEF ScopesRight, ScopeCurrentOpen, Nested
<1>3. AssignsRight(scopes, stPos)
  BY DEF AssignsRight, LayoutsRight
<1>4. AssignsRight(scopes, stPos + 1)
  <2>1. \A i \in 1 .. Len(scopes) : Len(scopes[i].assigns) \in Nat
    BY <1>1, ScopesAre
  <2>2. ASSUME NEW i \in 1 .. Len(scopes) PROVE Len(scopes[i].assigns) <= stPos + 1
    <3>1. Len(scopes[i].assigns) \in Nat /\ Len(scopes[i].assigns) <= stPos
      BY <1>3, <2>1 DEF AssignsRight
    <3> QED
      BY <1>1, <3>1
  <2> QED
    BY <1>3, <2>2 DEF AssignsRight
<1> QED
  BY <1>2, <1>3, <1>4

(* A command that leaves the scopes alone keeps them right.               *)
LEMMA KeepsScopes ==
    ASSUME StructTypes, LayoutsRight, ScopeCurrentOpen, KeepScopes, Fine \/ Error
    PROVE  ScopesDone
BY ScopesAsIs DEF KeepScopes, Fine, Error, ScopesDone

(* One scope is changed, but not its parent.                               *)
LEMMA OneScopeChanged ==
    ASSUME NEW sc, Nested(sc), NEW i \in 1 .. Len(sc),
           NEW limit \in Int, AssignsRight(sc, limit),
           NEW t, t \in Seq(Scopes), Len(t) = Len(sc),
           \A k \in 1 .. Len(sc) : k # i => t[k] = sc[k],
           t[i].parent = sc[i].parent, Len(t[i].assigns) <= limit,
           \A j \in 1 .. Len(t[i].assigns) : AssignRight(t[i].assigns[j])
    PROVE  Nested(t) /\ AssignsRight(t, limit)
<1>1. sc \in Seq(Scopes) /\ \A k \in 1 .. Len(sc) : sc[k].parent < k
  BY DEF Nested
<1>2. \A k \in 1 .. Len(t) : t[k].parent < k
  BY <1>1
<1>3. Nested(t)
  BY <1>2 DEF Nested
<1>4. AssignsRight(t, limit)
  BY DEF AssignsRight
<1> QED
  BY <1>3, <1>4

(* What replacing one scope by another of the same parent gives.           *)
LEMMA ReplacedIs ==
    ASSUME NEW sc \in Seq(Scopes), NEW i \in 1 .. Len(sc), NEW s \in Scopes
    PROVE  /\ [sc EXCEPT ![i] = s] \in Seq(Scopes)
           /\ Len([sc EXCEPT ![i] = s]) = Len(sc)
           /\ [sc EXCEPT ![i] = s][i] = s
           /\ \A k \in 1 .. Len(sc) : k # i => [sc EXCEPT ![i] = s][k] = sc[k]
OBVIOUS

(* .enter opens a scope of its own inside the current one.                 *)
LEMMA ScopeEnterDoes ==
    ASSUME StructTypes, LayoutsRight, ScopeCurrentOpen, NEW n \in ScopeNames,
           ScopeEnter(n)
    PROVE  ScopesDone
<1>1. CASE Error /\ KeepScopes
  BY <1>1, KeepsScopes
<1>2. CASE ~(Error /\ KeepScopes)
  <2> DEFINE s == [name |-> n, open |-> TRUE, parent |-> pScopeCurrent,
                   assigns |-> <<>>]
  <2>1. /\ Fine /\ scopes' = Append(scopes, s)
        /\ pScopeCurrent' = Len(scopes) + 1
    BY <1>2 DEF ScopeEnter
  <2>2. pScopeCurrent \in Nat /\ pScopeCurrent <= Len(scopes)
        /\ scopes \in Seq(Scopes) /\ Len(scopes) \in Nat /\ stPos \in Nat
        /\ \A i \in 1 .. Len(scopes) : scopes[i].parent < i
    BY DEF StructTypes, ScopeCurrentOpen
  <2>3. s.parent = pScopeCurrent /\ s.open = TRUE /\ s.assigns = <<>>
    OBVIOUS
  <2>4. s \in Scopes
    BY <2>2 DEF Scopes
  <2> HIDE DEF s
  <2>5. /\ scopes' \in Seq(Scopes) /\ Len(scopes') = Len(scopes) + 1
        /\ scopes'[Len(scopes) + 1] = s
        /\ \A i \in 1 .. Len(scopes) : scopes'[i] = scopes[i]
    BY <2>1, <2>2, <2>4
  <2>6. \A i \in 1 .. Len(scopes') : i = Len(scopes) + 1 \/ i \in 1 .. Len(scopes)
    BY <2>2, <2>5
  <2>7. \A i \in 1 .. Len(scopes') : scopes'[i].parent < i
    BY <2>2, <2>3, <2>5, <2>6
  <2>8. ScopesRight(scopes', pScopeCurrent')
    BY <2>1, <2>2, <2>3, <2>5, <2>7 DEF ScopesRight, Nested
  <2>9. AssignsRight(scopes', stPos + 1)
    <3> SUFFICES ASSUME NEW i \in 1 .. Len(scopes')
                 PROVE  /\ Len(scopes'[i].assigns) <= stPos + 1
                        /\ \A j \in 1 .. Len(scopes'[i].assigns) :
                              AssignRight(scopes'[i].assigns[j])
      BY DEF AssignsRight
    <3>1. CASE i = Len(scopes) + 1
      <4>1. scopes'[i].assigns = <<>>
        BY <2>3, <2>5, <3>1
      <4> QED
        BY <2>2, <4>1
    <3>2. CASE i \in 1 .. Len(scopes)
      <4>1. scopes'[i] = scopes[i]
        BY <2>5, <3>2
      <4>2. AssignsRight(scopes, stPos + 1)
        BY ScopesAsIs
      <4> QED
        BY <3>2, <4>1, <4>2 DEF AssignsRight
    <3> QED
      BY <2>6, <3>1, <3>2
  <2> QED
    BY <2>1, <2>8, <2>9 DEF ScopesDone, Fine
<1> QED
  BY <1>1, <1>2

(* Opening or closing a scope changes nothing else of it.                  *)
LEMMA OpenChanged ==
    ASSUME StructTypes, LayoutsRight, ScopeCurrentOpen,
           NEW i \in 1 .. Len(scopes), NEW b \in BOOLEAN,
           NEW t, t = [scopes EXCEPT ![i].open = b]
    PROVE  /\ Nested(t) /\ Len(t) = Len(scopes) /\ AssignsRight(t, stPos + 1)
           /\ t[i].open = b
<1> DEFINE s == [scopes[i] EXCEPT !.open = b]
<1>1. Nested(scopes) /\ AssignsRight(scopes, stPos + 1)
  BY ScopesAsIs DEF ScopesRight
<1>2. scopes[i] \in Scopes
  BY DEF StructTypes
<1>3. s \in Scopes /\ s.parent = scopes[i].parent /\ s.open = b
      /\ s.assigns = scopes[i].assigns
  BY <1>2 DEF Scopes
<1>4. t = [scopes EXCEPT ![i] = s]
  OBVIOUS
<1> HIDE DEF s
<1>5. /\ Len(s.assigns) <= stPos + 1
      /\ \A j \in 1 .. Len(s.assigns) : AssignRight(s.assigns[j])
  BY <1>1, <1>3 DEF AssignsRight
<1> DEFINE limit == stPos + 1
<1>6. /\ Nested(scopes) /\ AssignsRight(scopes, limit) /\ Len(s.assigns) <= limit
      /\ \A j \in 1 .. Len(s.assigns) : AssignRight(s.assigns[j])
  BY <1>1, <1>5
<1>8. limit \in Int
  BY DEF StructTypes
<1> HIDE DEF limit
<1>7. /\ t \in Seq(Scopes) /\ Len(t) = Len(scopes) /\ t[i] = s
      /\ \A k \in 1 .. Len(scopes) : k # i => t[k] = scopes[k]
  <2> DEFINE u == [scopes EXCEPT ![i] = s]
  <2>1. scopes \in Seq(Scopes)
    BY DEF StructTypes
  <2>2. /\ u \in Seq(Scopes) /\ Len(u) = Len(scopes) /\ u[i] = s
        /\ \A k \in 1 .. Len(scopes) : k # i => u[k] = scopes[k]
    BY <1>3, <2>1, ReplacedIs
  <2>3. t = u
    BY <1>4
  <2> HIDE DEF u
  <2> QED
    BY <2>2, <2>3
<1>9. /\ t[i].parent = scopes[i].parent /\ Len(t[i].assigns) <= limit
      /\ \A j \in 1 .. Len(t[i].assigns) : AssignRight(t[i].assigns[j])
  BY <1>3, <1>6, <1>7
<1>10. Nested(t) /\ AssignsRight(t, limit)
  BY <1>6, <1>7, <1>8, <1>9, OneScopeChanged
<1> QED
  BY <1>3, <1>7, <1>10 DEF limit

(* .leave closes a scope and goes on with an open one around the current. *)
LEMMA ScopeLeaveDoes ==
    ASSUME StructTypes, LayoutsRight, ScopeCurrentOpen, NEW n, ScopeLeave(n)
    PROVE  ScopesDone
<1> DEFINE s == CHOOSE i \in ScopeFind(n) : TRUE
           closed == [scopes EXCEPT ![s].open = FALSE]
<1>1. CASE Error /\ KeepScopes
  BY <1>1, KeepsScopes
<1>2. CASE ~(Error /\ KeepScopes)
  <2>1. /\ ScopeFind(n) # {} /\ Fine /\ scopes' = closed
        /\ pScopeCurrent' = FirstOpen(closed, pScopeCurrent)
    BY <1>2 DEF ScopeLeave
  <2>2. s \in ScopeFind(n)
    BY <2>1
  <2>3. s \in 1 .. Len(scopes)
    BY <2>2 DEF ScopeFind
  <2> HIDE DEF s
  <2>4. Nested(closed) /\ Len(closed) = Len(scopes)
        /\ AssignsRight(closed, stPos + 1)
    <3> DEFINE t == closed
    <3>1. t = [scopes EXCEPT ![s].open = FALSE]
      OBVIOUS
    <3> HIDE DEF t, closed
    <3>2. Nested(t) /\ Len(t) = Len(scopes) /\ AssignsRight(t, stPos + 1)
      BY <2>3, <3>1, OpenChanged
    <3> QED
      BY <3>2 DEF t
  <2>5. pScopeCurrent \in 0 .. Len(closed) /\ Len(scopes) \in Nat
    BY <2>4 DEF ScopeCurrentOpen, StructTypes
  <2> HIDE DEF closed
  <2>6. /\ pScopeCurrent' \in 0 .. pScopeCurrent
        /\ pScopeCurrent' # Null => closed[pScopeCurrent'].open
    BY <2>1, <2>4, <2>5, FirstOpenIs
  <2>7. ScopesRight(closed, pScopeCurrent')
    BY <2>4, <2>5, <2>6 DEF ScopesRight
  <2> QED
    BY <2>1, <2>4, <2>7 DEF ScopesDone, Fine
<1> QED
  BY <1>1, <1>2

(* .using opens a closed scope again.                                      *)
LEMMA ScopeUsingDoes ==
    ASSUME StructTypes, LayoutsRight, ScopeCurrentOpen, NEW n, ScopeUsing(n)
    PROVE  ScopesDone
<1> DEFINE s == CHOOSE i \in ScopeFind(n) : TRUE
<1>1. CASE Error /\ KeepScopes
  BY <1>1, KeepsScopes
<1>2. CASE ~(Error /\ KeepScopes)
  <2>1. /\ ScopeFind(n) # {} /\ Fine /\ pScopeCurrent' = s
        /\ scopes' = [scopes EXCEPT ![s].open = TRUE]
    BY <1>2 DEF ScopeUsing
  <2>2. s \in ScopeFind(n)
    BY <2>1
  <2>3. s \in 1 .. Len(scopes)
    BY <2>2 DEF ScopeFind
  <2> HIDE DEF s
  <2> DEFINE t == [scopes EXCEPT ![s].open = TRUE]
  <2>4. scopes' = t
    BY <2>1
  <2>5. t = [scopes EXCEPT ![s].open = TRUE]
    OBVIOUS
  <2> HIDE DEF t
  <2>6. Nested(t) /\ Len(t) = Len(scopes) /\ AssignsRight(t, stPos + 1)
        /\ t[s].open = TRUE
    BY <2>3, <2>5, OpenChanged
  <2>7. ScopesRight(t, s)
    BY <2>3, <2>6 DEF ScopesRight
  <2> QED
    BY <2>1, <2>4, <2>6, <2>7 DEF ScopesDone, Fine
<1> QED
  BY <1>1, <1>2

(* The elements of a structure get their registers.                        *)
LEMMA MappedIs ==
    ASSUME bigEndian \in BOOLEAN, NEW elems \in Seq(Elements), Packed(elems),
           NEW from \in RegisterFields, NEW to \in RegisterFields \cup {<<>>},
           NEW def \in AssignNames,
           to # <<>> => StartByte(from) + TotalSize(elems) = EndByte(to),
           \A i \in 1 .. Len(elems) :
              Aligned(StartByte(from) + elems[i].offset, elems[i].size),
           NEW a, a = [name |-> def, from |-> from, to |-> to,
                       elems |-> Mapped(elems, StartByte(from))]
    PROVE  a \in Assigns /\ AssignRight(a)
<1> DEFINE m == Mapped(elems, StartByte(from))
           reg(i) == GetRegname(StartByte(from) + elems[i].offset, elems[i].size)
<1>1. Len(elems) \in Nat /\ \A i \in 1 .. Len(elems) : elems[i] \in Elements
  OBVIOUS
<1>2. \A i \in 1 .. Len(elems) : elems[i].offset \in Nat
         /\ elems[i].size \in {1, 2, 4} /\ elems[i].name \in ElementNames
  BY <1>1, RecordsAre
<1>3. StartByte(from) \in Nat
  <2>1. Field(from)
    BY EndsAreFields
  <2>2. from[1] \in Nat
    BY <2>1 DEF Field, Registers
  <2> QED
    BY <2>1, <2>2, BytesOfField
<1>4. ASSUME NEW i \in 1 .. Len(elems) PROVE reg(i) \in Registers
  <2>1. StartByte(from) + elems[i].offset \in Nat /\ elems[i].size \in {1, 2, 4}
    BY <1>2, <1>3
  <2> QED
    BY <2>1, RegnameIs DEF Field
<1>5. m = [i \in 1 .. Len(elems) |->
             [name |-> elems[i].name, size |-> elems[i].size,
              offset |-> elems[i].offset, reg |-> reg(i)]]
  BY DEF Mapped
<1> HIDE DEF reg, m
<1>6. m \in [1 .. Len(elems) -> MappedElements]
  <2>1. ASSUME NEW i \in 1 .. Len(elems)
        PROVE  [name |-> elems[i].name, size |-> elems[i].size,
                offset |-> elems[i].offset, reg |-> reg(i)] \in MappedElements
    BY <1>2, <1>4 DEF MappedElements
  <2> QED
    BY <1>5, <2>1
<1>7. m \in Seq(MappedElements) /\ Len(m) = Len(elems)
  BY <1>1, <1>6
<1>8. \A i \in 1 .. Len(elems) : /\ m[i].offset = elems[i].offset
                                 /\ m[i].size = elems[i].size /\ m[i].reg = reg(i)
  BY <1>5
<1>9. a.elems = m /\ a.from = from /\ a.to = to
  BY DEF m
<1>10. a \in Assigns
  <2>1. a = [name |-> def, from |-> from, to |-> to, elems |-> m]
    BY DEF m
  <2> QED
    BY <1>7, <2>1 DEF Assigns
<1>11. Packed(m)
  <2> SUFFICES ASSUME NEW i \in 1 .. Len(elems)
               PROVE  m[i].offset = IF i = 1 THEN 0 ELSE m[i - 1].offset + m[i - 1].size
    BY <1>7 DEF Packed
  <2>1. elems[i].offset = IF i = 1 THEN 0 ELSE elems[i - 1].offset + elems[i - 1].size
    BY DEF Packed
  <2>2. i # 1 => i - 1 \in 1 .. Len(elems)
    BY <1>1
  <2> QED
    BY <1>8, <2>1, <2>2
<1>12. TotalSize(m) = TotalSize(elems)
  <2>1. CASE Len(elems) = 0
    <3>1. m = <<>> /\ elems = <<>>
      BY <1>7, <2>1
    <3> QED
      BY <3>1
  <2>2. CASE Len(elems) # 0
    <3>1. Len(elems) \in 1 .. Len(elems) /\ m # <<>> /\ elems # <<>>
      BY <1>1, <1>7, <2>2
    <3> QED
      BY <1>7, <1>8, <3>1 DEF TotalSize
  <2> QED
    BY <2>1, <2>2
<1>13. a.to # <<>> => StartByte(a.from) + TotalSize(a.elems) = EndByte(a.to)
  BY <1>9, <1>12
<1>14. ASSUME NEW i \in 1 .. Len(a.elems)
       PROVE  /\ Aligned(StartByte(a.from) + a.elems[i].offset, a.elems[i].size)
              /\ a.elems[i].reg =
                    GetRegname(StartByte(a.from) + a.elems[i].offset, a.elems[i].size)
  <2>1. i \in 1 .. Len(elems)
    BY <1>7, <1>9
  <2>2. /\ a.elems[i].offset = elems[i].offset /\ a.elems[i].size = elems[i].size
        /\ a.elems[i].reg = reg(i)
    BY <1>8, <1>9, <2>1
  <2>3. reg(i) = GetRegname(StartByte(from) + elems[i].offset, elems[i].size)
    BY DEF reg
  <2>4. Aligned(StartByte(from) + elems[i].offset, elems[i].size)
    BY <2>1
  <2>5. Aligned(StartByte(a.from) + a.elems[i].offset, a.elems[i].size)
    BY <1>9, <2>2, <2>4
  <2>6. a.elems[i].reg =
            GetRegname(StartByte(a.from) + a.elems[i].offset, a.elems[i].size)
    BY <1>9, <2>2, <2>3
  <2> QED
    BY <2>5, <2>6
<1>15. AssignRight(a)
  BY <1>9, <1>11, <1>13, <1>14 DEF AssignRight
<1> QED
  BY <1>10, <1>15

(* .assign puts one assignment, as it should be, in the current scope.     *)
LEMMA StructAssignDoes ==
    ASSUME StructTypes, LayoutsRight, ScopeCurrentOpen,
           NEW from \in RegisterFields, NEW to \in RegisterFields \cup {<<>>},
           NEW def \in AssignNames, NEW n, StructAssign(n, from, to, def)
    PROVE  ScopesDone
<1>1. CASE ~AssignOK(n, from, to, def)
  <2>1. Error /\ KeepScopes
    BY <1>1 DEF StructAssign, KeepScopes
  <2> QED
    BY <2>1, KeepsScopes
<1>2. CASE AssignOK(n, from, to, def)
  <2> DEFINE k == CHOOSE i \in StructFind(n) : TRUE
             elems == structs[k].elems
             a == [name |-> def, from |-> from, to |-> to,
                   elems |-> Mapped(elems, StartByte(from))]
             c == pScopeCurrent
             s == [scopes[c] EXCEPT !.assigns = Append(@, a)]
  <2>1. /\ Fine /\ pScopeCurrent' = c
        /\ scopes' = [scopes EXCEPT ![c] = s]
    BY <1>2 DEF StructAssign
  <2>2. /\ k \in StructFind(n) /\ c # Null
        /\ to # <<>> => StartByte(from) + TotalSize(elems) = EndByte(to)
        /\ \A i \in 1 .. Len(elems) :
              Aligned(StartByte(from) + elems[i].offset, elems[i].size)
    BY <1>2 DEF AssignOK
  <2>3. k \in 1 .. Len(structs)
    BY <2>2 DEF StructFind
  <2>4. elems \in Seq(Elements) /\ Packed(elems) /\ bigEndian \in BOOLEAN
    <3>1. structs \in Seq(Structs) /\ bigEndian \in BOOLEAN
      BY DEF StructTypes
    <3> HIDE DEF k
    <3>2. structs[k] \in Structs
      BY <2>3, <3>1
    <3>3. Packed(structs[k].elems)
      BY <2>3 DEF LayoutsRight
    <3> QED
      BY <3>1, <3>2, <3>3, RecordsAre
  <2> HIDE DEF k, elems
  <2>5. a \in Assigns /\ AssignRight(a)
    BY <2>2, <2>4, MappedIs
  <2> HIDE DEF a
  <2>6. /\ Nested(scopes) /\ AssignsRight(scopes, stPos)
        /\ AssignsRight(scopes, stPos + 1)
        /\ ScopesRight(scopes, c)
    BY ScopesAsIs DEF ScopesRight
  <2>7. c \in 1 .. Len(scopes) /\ stPos \in Nat /\ scopes \in Seq(Scopes)
    BY <2>2 DEF StructTypes, ScopeCurrentOpen, Null
  <2>8. scopes[c] \in Scopes /\ scopes[c].assigns \in Seq(Assigns)
        /\ scopes[c].open
    BY <2>2, <2>6, <2>7, ScopesAre DEF ScopesRight
  <2> HIDE DEF c
  <2>9. Append(scopes[c].assigns, a) \in Seq(Assigns)
        /\ Len(Append(scopes[c].assigns, a)) = Len(scopes[c].assigns) + 1
    BY <2>5, <2>8
  <2>10. s \in Scopes /\ s.parent = scopes[c].parent /\ s.open = scopes[c].open
         /\ s.assigns = Append(scopes[c].assigns, a)
    BY <2>8, <2>9 DEF Scopes
  <2> HIDE DEF s
  <2>11. Len(s.assigns) <= stPos + 1
    <3>1. Len(scopes[c].assigns) \in Nat /\ Len(scopes[c].assigns) <= stPos
      BY <2>6, <2>7, <2>8 DEF AssignsRight
    <3> QED
      BY <2>7, <2>9, <2>10, <3>1
  <2>12. ASSUME NEW j \in 1 .. Len(s.assigns) PROVE AssignRight(s.assigns[j])
    <3>1. Len(scopes[c].assigns) \in Nat
      BY <2>8
    <3>2. CASE j = Len(scopes[c].assigns) + 1
      <4>1. s.assigns[j] = a
        BY <2>8, <2>10, <3>2
      <4> QED
        BY <2>5, <4>1
    <3>3. CASE j # Len(scopes[c].assigns) + 1
      <4>1. j \in 1 .. Len(scopes[c].assigns)
        BY <2>9, <2>10, <3>1, <3>3
      <4>2. s.assigns[j] = scopes[c].assigns[j]
        BY <2>8, <2>10, <4>1
      <4> QED
        BY <2>6, <2>7, <4>1, <4>2 DEF AssignsRight
    <3> QED
      BY <3>2, <3>3
  <2> DEFINE t == [scopes EXCEPT ![c] = s]
  <2>13. scopes' = t /\ t = [scopes EXCEPT ![c] = s]
    BY <2>1
  <2> HIDE DEF t
  <2>14. /\ Nested(t) /\ Len(t) = Len(scopes) /\ AssignsRight(t, stPos + 1)
         /\ t[c] = s
    <3> DEFINE limit == stPos + 1
    <3>1. AssignsRight(scopes, limit) /\ Len(s.assigns) <= limit
      BY <2>6, <2>11
    <3>3. limit \in Int
      BY <2>7
    <3> HIDE DEF limit
    <3>2. /\ t \in Seq(Scopes) /\ Len(t) = Len(scopes) /\ t[c] = s
          /\ \A m \in 1 .. Len(scopes) : m # c => t[m] = scopes[m]
      BY <2>7, <2>10, <2>13, ReplacedIs
    <3>4. /\ t[c].parent = scopes[c].parent /\ Len(t[c].assigns) <= limit
          /\ \A j \in 1 .. Len(t[c].assigns) : AssignRight(t[c].assigns[j])
      BY <2>10, <2>12, <3>1, <3>2
    <3>5. Nested(t) /\ AssignsRight(t, limit)
      BY <2>6, <2>7, <3>1, <3>2, <3>3, <3>4, OneScopeChanged
    <3> QED
      BY <3>2, <3>5 DEF limit
  <2>15. t[c].open
    BY <2>8, <2>10, <2>14
  <2>16. ScopesRight(t, c)
    BY <2>7, <2>14, <2>15 DEF ScopesRight
  <2> QED
    BY <2>1, <2>13, <2>14, <2>16 DEF ScopesDone, Fine
<1> QED
  BY <1>1, <1>2

(* Every command keeps the layout and the scopes.                          *)
LEMMA DoDoes ==
    ASSUME StructTypes, LayoutsRight, ScopeCurrentOpen, NEW c \in Commands, Do(c)
    PROVE  StructsDone(c.op) /\ ScopesDone
<1>1. /\ c.op \in {"struct", "elem", "enter"} => c.name \in ElementNames
      /\ c.op = "assign" => c.def \in AssignNames
  BY DEF ElementNames, AssignNames
<1>2. CASE c.op = "struct" /\ StructNew(c.name)
  <2>1. KeepScopes /\ (Fine \/ Error)
    BY <1>2 DEF StructNew
  <2> QED
    BY <1>1, <1>2, <2>1, StructNewDoes, KeepsScopes
<1>3. CASE c.op = "ends" /\ StructEnd
  <2>1. KeepScopes /\ (Fine \/ Error)
    BY <1>3 DEF StructEnd
  <2> QED
    BY <1>3, <2>1, StructEndDoes, KeepsScopes
<1>4. CASE c.op = "elem" /\ StructAddElement(c.name, c.size)
  <2>1. KeepScopes /\ (Fine \/ Error)
    BY <1>4 DEF StructAddElement
  <2>2. c.size \in {1, 2, 4}
    BY <1>4, StructAssumption
  <2> QED
    BY <1>1, <1>4, <2>1, <2>2, StructAddElementDoes, KeepsScopes
<1>5. CASE c.op = "assign" /\ StructAssign(c.name, c.from, c.to, c.def)
  <2>1. KeepStructs /\ (Fine \/ Error)
    BY <1>5 DEF StructAssign
  <2>2. c.from \in RegisterFields /\ c.to \in RegisterFields \cup {<<>>}
    BY <1>5, StructAssumption
  <2>3. ScopesDone
    BY <1>1, <1>5, <2>2, StructAssignDoes
  <2>4. StructsDone(c.op)
    BY <1>5, <2>1, KeepsStructs
  <2> QED
    BY <2>3, <2>4
<1>6. CASE c.op = "enter" /\ ScopeEnter(c.name)
  <2>1. KeepStructs /\ (Fine \/ Error)
    BY <1>6 DEF ScopeEnter
  <2>2. c.name \in ScopeNames
    BY <1>1, <1>6 DEF ScopeNames
  <2> QED
    BY <1>6, <2>1, <2>2, ScopeEnterDoes, KeepsStructs
<1>7. CASE c.op = "leave" /\ ScopeLeave(c.name)
  <2>1. KeepStructs /\ (Fine \/ Error)
    BY <1>7 DEF ScopeLeave
  <2> QED
    BY <1>7, <2>1, ScopeLeaveDoes, KeepsStructs
<1>8. CASE c.op = "using" /\ ScopeUsing(c.name)
  <2>1. KeepStructs /\ (Fine \/ Error)
    BY <1>8 DEF ScopeUsing
  <2> QED
    BY <1>8, <2>1, ScopeUsingDoes, KeepsStructs
<1>9. CASE c.op = "ref" /\ StructParamProcess(c.ref)
  <2>1. KeepStructs /\ KeepScopes /\ (Fine \/ Error)
    BY <1>9 DEF StructParamProcess
  <2> QED
    BY <1>9, <2>1, KeepsScopes, KeepsStructs
<1>10. CASE c.op \in {"include", "eof", "undefined"} /\ Other(c)
  <2>1. KeepStructs /\ KeepScopes /\ (Fine \/ Error)
    BY <1>10 DEF Other
  <2> QED
    BY <1>10, <2>1, KeepsScopes, KeepsStructs
<1> QED
  BY <1>2, <1>3, <1>4, <1>5, <1>6, <1>7, <1>8, <1>9, <1>10, DoIs

(* Only a reference is answered.                                           *)
LEMMA AnswerDoes ==
    ASSUME NEW c \in Commands, Do(c), bigEndian' = bigEndian, stPass' # 0
    PROVE  AnswerRight'
<1>1. CASE answer' = NoAnswer
  <2>1. answer'.is # "value"
    BY <1>1 DEF NoAnswer
  <2> QED
    BY <2>1 DEF AnswerRight
<1>2. CASE c.op = "ref" /\ StructParamProcess(c.ref)
  <2> DEFINE r == c.ref
  <2>1. CASE r.cmd = "name"
    <3>1. answer'.is = "register"
      BY <1>2, <2>1 DEF StructParamProcess
    <3> QED
      BY <3>1 DEF AnswerRight
  <2>2. CASE r.cmd # "name"
    <3>1. answer'.ref = r /\ answer'.val = StructValueOperand(r)
      BY <1>2, <2>2 DEF StructParamProcess
    <3>2. r.cmd \in {"SIZE", "OFFSET"}
      BY <1>2, <2>2, StructAssumption
    <3>3. scopes' = scopes
      BY <1>2 DEF StructParamProcess, KeepScopes
    <3>4. /\ Visible(r.name)' = Visible(r.name)
          /\ ValueIn(r, AssignFind(r.name).elems)' = ValueIn(r, AssignFind(r.name).elems)
      BY <3>3, FoundStill
    <3>5. Visible(r.name) # {} =>
             answer'.val = ValueIn(r, AssignFind(r.name).elems)
      BY <3>1 DEF StructValueOperand
    <3> HIDE DEF r
    <3>6. Visible(r.name)' # {} =>
             answer'.val = ValueIn(r, AssignFind(r.name).elems)'
      BY <3>4, <3>5
    <3>7. \E d \in Commands : d.op = "ref" /\ d.ref = r
      BY <1>2 DEF r
    <3> QED
      BY <3>1, <3>2, <3>6, <3>7 DEF AnswerRight
  <2> QED
    BY <2>1, <2>2
<1>3. CASE answer' # NoAnswer /\ ~(c.op = "ref" /\ StructParamProcess(c.ref))
  <2>1. FALSE
    BY <1>3, DoIs DEF Unasked, StructNew, StructEnd, StructAddElement,
       StructAssign, ScopeEnter, ScopeLeave, ScopeUsing, Other
  <2> QED
    BY <2>1
<1> QED
  BY <1>1, <1>2, <1>3

(* The layout of an assignment does not depend on the state.               *)
LEMMA RightStill ==
    ASSUME bigEndian' = bigEndian, NEW a
    PROVE  AssignRight(a)' <=> AssignRight(a)
BY DEF AssignRight, StartByte, EndByte, GetRegname, Packed, Aligned, TotalSize

(* A command keeps the types, the layouts, the answers and the current     *)
(* scope.                                                                  *)
LEMMA CommandDone ==
    ASSUME StructInv, NEW c \in Commands, Do(c), bigEndian' = bigEndian,
           stPass' = stPass, stPass # 0, stPos' \in Nat, stPos + 1 <= stPos',
           stPos' <= TextLimit, stText' \in Seq(Commands),
           Len(stText') <= IF stPass = 2 THEN TextLimit ELSE stPos'
    PROVE  /\ StructTypes' /\ LayoutsRight' /\ AnswerRight' /\ ScopeCurrentOpen'
           /\ StructsDone(c.op)
<1>1. StructsDone(c.op) /\ ScopesDone
  BY DoDoes DEF StructInv
<1>2. AnswerRight'
  BY AnswerDoes
<1>3. /\ structs' \in Seq(Structs)
      /\ \A i \in 1 .. Len(structs') : Packed(structs'[i].elems)
      /\ pStructCurrent' \in Int /\ pStructCurrent' >= Freed
      /\ pStructCurrent' <= Len(structs')
      /\ stErrors' \in {stErrors, stErrors + 1}
  BY <1>1 DEF StructsDone
<1>4. ScopesRight(scopes', pScopeCurrent') /\ AssignsRight(scopes', stPos + 1)
  BY <1>1 DEF ScopesDone
<1>5. /\ scopes' \in Seq(Scopes) /\ pScopeCurrent' \in 0 .. Len(scopes')
      /\ pScopeCurrent' # Null => scopes'[pScopeCurrent'].open
      /\ \A i \in 1 .. Len(scopes') : scopes'[i].parent < i
  BY <1>4 DEF ScopesRight, Nested
<1>6. ScopeCurrentOpen'
  BY <1>5 DEF ScopeCurrentOpen
<1>7. StructTypes'
  <2>1. /\ bigEndian \in BOOLEAN /\ stPass \in 0 .. 2 /\ stErrors \in Nat
        /\ stPos \in Nat
    BY DEF StructInv, StructTypes
  <2>2. stErrors' \in Nat
    BY <1>3, <2>1
  <2>3. stPos' \in Nat /\ stPos' <= TextLimit
    BY <2>1, StructAssumption
  <2>4. pScopeCurrent' \in Nat
    BY <1>5
  <2>5. Len(stText') <= IF stPass' = 2 THEN TextLimit ELSE stPos'
    OBVIOUS
  <2> QED
    BY <1>3, <1>5, <2>1, <2>2, <2>3, <2>4, <2>5 DEF StructTypes
<1>8. LayoutsRight'
  <2>1. (\A i \in 1 .. Len(structs) : Packed(structs[i].elems))'
    BY <1>3 DEF Packed
  <2>2. ASSUME NEW i \in 1 .. Len(scopes')
        PROVE  /\ Len(scopes'[i].assigns) <= stPos'
               /\ \A j \in 1 .. Len(scopes'[i].assigns) :
                     AssignRight(scopes[i].assigns[j])'
    <3>1. Len(scopes'[i].assigns) <= stPos'
      <4>1. Len(scopes'[i].assigns) <= stPos + 1
        BY <1>4 DEF AssignsRight
      <4>2. stPos \in Nat /\ scopes'[i] \in Scopes
        BY <1>5 DEF StructInv, StructTypes
      <4>3. Len(scopes'[i].assigns) \in Nat
        BY <4>2 DEF Scopes
      <4> QED
        BY <4>1, <4>2, <4>3
    <3>2. ASSUME NEW j \in 1 .. Len(scopes'[i].assigns)
          PROVE  AssignRight(scopes[i].assigns[j])'
      <4>1. AssignRight(scopes'[i].assigns[j])
        BY <1>4 DEF AssignsRight
      <4>2. PICK a : a = scopes'[i].assigns[j]
        OBVIOUS
      <4>3. AssignRight(a)'
        BY <4>1, <4>2, RightStill
      <4> QED
        BY <4>2, <4>3
    <3> QED
      BY <3>1, <3>2
  <2> QED
    BY <2>1, <2>2 DEF LayoutsRight
<1> QED
  BY <1>1, <1>2, <1>6, <1>7, <1>8

-----------------------------------------------------------------------------
(* PasmStruct: the invariant holds                                         *)

(* The program starts in the invariant.                                    *)
LEMMA StructInvInit == StructInit => StructInv
<1> SUFFICES ASSUME StructInit PROVE StructInv
  OBVIOUS
<1> USE DEF StructInit
<1>1. StructTypes
  <2>1. stText \in Seq(Commands) /\ structs \in Seq(Structs)
        /\ scopes \in Seq(Scopes)
    OBVIOUS
  <2>5. bigEndian \in BOOLEAN
    OBVIOUS
  <2>2. /\ stPass \in 0 .. 2 /\ stErrors \in Nat
        /\ stPos \in Nat /\ stPos <= TextLimit /\ stPass # 2
    BY StructAssumption
  <2>3. Len(stText) <= stPos /\ Len(structs) = 0
    OBVIOUS
  <2>4. /\ pStructCurrent \in Int /\ pStructCurrent >= Freed
        /\ pStructCurrent <= Len(structs) /\ pScopeCurrent \in Nat
    BY <2>3 DEF Null, Freed
  <2> QED
    BY <2>1, <2>2, <2>3, <2>4, <2>5 DEF StructTypes
<1>2. LayoutsRight
  BY DEF LayoutsRight
<1>3. answer.is # "value"
  BY DEF NoAnswer
<1>4. AnswerRight
  BY <1>3 DEF AnswerRight
<1>5. StructsAlive
  BY DEF StructsAlive, OpensFirst, Null, Freed
<1>6. ScopeCurrentOpen
  BY DEF ScopeCurrentOpen, Null
<1> QED
  BY <1>1, <1>2, <1>4, <1>5, <1>6 DEF StructInv

(* The root scope is open, has no parent and no assignments.              *)
LEMMA RootIs ==
    /\ RootScope \in Seq(Scopes) /\ Len(RootScope) = 1
    /\ RootScope[1].open /\ RootScope[1].parent = 0 /\ RootScope[1].assigns = <<>>
<1> DEFINE r == [name |-> Root, open |-> TRUE, parent |-> Null, assigns |-> <<>>]
<1>1. Root \in ScopeNames /\ <<>> \in Seq(Assigns)
  BY DEF ScopeNames
<1>2. r \in Scopes
  BY <1>1 DEF Scopes, Null
<1>3. r.open /\ r.parent = 0 /\ r.assigns = <<>>
  BY DEF Null
<1>4. RootScope = <<r>>
  BY DEF RootScope
<1> HIDE DEF r
<1> QED
  BY <1>2, <1>3, <1>4

(* A pass begins with the root scope and no assignments.                   *)
LEMMA PassBegins ==
    ASSUME StructInv, scopes' = RootScope, pScopeCurrent' = 1,
           structs' \in Seq(Structs), \A i \in 1 .. Len(structs') : Packed(structs'[i].elems),
           pStructCurrent' \in Int, pStructCurrent' >= Freed,
           pStructCurrent' <= Len(structs'),
           stErrors' = stErrors, stText' = stText,
           stPos' \in Nat, stPos' <= TextLimit, stPass' \in 1 .. 2,
           Len(stText') <= IF stPass' = 2 THEN TextLimit ELSE stPos',
           bigEndian' \in BOOLEAN, answer' = NoAnswer
    PROVE  StructTypes' /\ LayoutsRight' /\ AnswerRight' /\ ScopeCurrentOpen'
<1>1. StructTypes'
  BY RootIs, StructAssumption DEF StructInv, StructTypes
<1>2. LayoutsRight'
  <2>1. (\A i \in 1 .. Len(structs) : Packed(structs[i].elems))'
    OBVIOUS
  <2>2. ASSUME NEW i \in 1 .. Len(scopes')
        PROVE  Len(scopes'[i].assigns) = 0
    BY RootIs
  <2>3. ASSUME NEW i \in 1 .. Len(scopes')
        PROVE  /\ Len(scopes'[i].assigns) <= stPos'
               /\ \A j \in 1 .. Len(scopes'[i].assigns) :
                     AssignRight(scopes[i].assigns[j])'
    BY <2>2
  <2> QED
    BY <2>1, <2>3 DEF LayoutsRight
<1>3. AnswerRight'
  <2>1. answer'.is # "value"
    BY DEF NoAnswer
  <2> QED
    BY <2>1 DEF AnswerRight
<1>4. ScopeCurrentOpen'
  BY RootIs DEF ScopeCurrentOpen
<1> QED
  BY <1>1, <1>2, <1>3, <1>4

(* The start of pass 1 keeps the invariant.                                *)
LEMMA BeginStep == StructInv /\ StructBegin => StructInv'
<1> SUFFICES ASSUME StructInv, StructBegin PROVE StructInv'
  OBVIOUS
<1>1. /\ stPass = 0 /\ stPass' = 1 /\ bigEndian' \in BOOLEAN
      /\ scopes' = RootScope /\ pScopeCurrent' = 1 /\ stText' = stText
      /\ stErrors' = stErrors /\ structs' = structs
      /\ pStructCurrent' = pStructCurrent /\ freedUsed' = freedUsed
  BY StructAssumption DEF StructBegin
<1>2. StructTypes /\ LayoutsRight /\ AnswerRight /\ StructsAlive
  BY DEF StructInv
<1>3. answer' = NoAnswer
  BY <1>1, <1>2 DEF StructBegin, AnswerRight
<1>7. /\ stPos' \in Nat /\ stPos' <= TextLimit
      /\ Len(stText') <= IF stPass' = 2 THEN TextLimit ELSE stPos'
  BY <1>1, <1>2 DEF StructBegin, StructTypes
<1>4. /\ structs' \in Seq(Structs)
      /\ \A i \in 1 .. Len(structs') : Packed(structs'[i].elems)
      /\ pStructCurrent' \in Int /\ pStructCurrent' >= Freed
      /\ pStructCurrent' <= Len(structs')
  BY <1>1, <1>2 DEF StructTypes, LayoutsRight
<1>5. StructTypes' /\ LayoutsRight' /\ AnswerRight' /\ ScopeCurrentOpen'
  BY <1>1, <1>3, <1>4, <1>7, PassBegins
<1>6. StructsAlive'
  BY <1>1, <1>2 DEF StructsAlive, OpensFirst, StructOpened
<1> QED
  BY <1>5, <1>6 DEF StructInv

(* So does the start of pass 2, which leaves the freed structure behind.   *)
LEMMA NextPassStep == StructInv /\ NextPass => StructInv'
<1> SUFFICES ASSUME StructInv, NextPass PROVE StructInv'
  OBVIOUS
<1>1. /\ stPass = 1 /\ stPass' = 2 /\ bigEndian' = bigEndian
      /\ scopes' = RootScope /\ pScopeCurrent' = 1 /\ stText' = stText
      /\ stErrors' = stErrors /\ stErrors = 0 /\ structs' = <<>> /\ stPos' = 0
      /\ pStructCurrent' \in {Null, Freed} /\ freedUsed' = freedUsed
      /\ answer' = NoAnswer
  BY DEF NextPass
<1>2. StructTypes /\ StructsAlive
  BY DEF StructInv
<1>3. /\ structs' \in Seq(Structs) /\ Len(structs') = 0
      /\ \A i \in 1 .. Len(structs') : Packed(structs'[i].elems)
  BY <1>1
<1>4. /\ pStructCurrent' \in Int /\ pStructCurrent' >= Freed
      /\ pStructCurrent' <= Len(structs')
  BY <1>1, <1>3 DEF Null, Freed
<1>5. /\ bigEndian' \in BOOLEAN /\ stPos' \in Nat /\ stPos' <= TextLimit
      /\ Len(stText') <= IF stPass' = 2 THEN TextLimit ELSE stPos'
  <2>1. /\ bigEndian \in BOOLEAN /\ stPos \in Nat /\ stPos <= TextLimit
        /\ Len(stText) <= stPos /\ Len(stText) \in Nat
    BY <1>1, <1>2 DEF StructTypes
  <2> QED
    BY <1>1, <2>1, StructAssumption
<1>6. StructTypes' /\ LayoutsRight' /\ AnswerRight' /\ ScopeCurrentOpen'
  BY <1>1, <1>3, <1>4, <1>5, PassBegins
<1>7. StructsAlive'
  <2>1. ~freedUsed /\ OpensFirst(stText)
    BY <1>1, <1>2 DEF StructsAlive, StructTypes
  <2>2. OpensFirst(stText)'
    BY <1>1, <2>1 DEF OpensFirst, StructOpened
  <2>3. ~StructOpened(stText, stPos)'
    BY <1>1 DEF StructOpened
  <2>4. stPos' <= Len(stText')
    BY <1>1, <1>2 DEF StructTypes
  <2> QED
    BY <1>1, <2>1, <2>2, <2>3, <2>4 DEF StructsAlive
<1> QED
  BY <1>6, <1>7 DEF StructInv

(* One more command of a text that opens its structures first.             *)
LEMMA OpensMore ==
    ASSUME NEW text \in Seq(Commands), OpensFirst(text), NEW c \in Commands,
           c.op \in {"ends", "elem"} => StructOpened(text, Len(text))
    PROVE  /\ OpensFirst(Append(text, c))
           /\ StructOpened(text, Len(text)) => StructOpened(Append(text, c), Len(text) + 1)
           /\ c.op = "struct" => StructOpened(Append(text, c), Len(text) + 1)
<1> DEFINE t == Append(text, c)
           l == Len(text)
<1>1. /\ l \in Nat /\ Len(t) = l + 1 /\ t[l + 1] = c
      /\ \A i \in 1 .. l : t[i] = text[i]
  OBVIOUS
<1> HIDE DEF t, l
<1>2. ASSUME NEW n \in 0 .. l, StructOpened(text, n)
      PROVE  \A m \in n .. l + 1 : StructOpened(t, m)
  <2>1. PICK j \in 1 .. n : text[j].op = "struct"
    BY <1>2 DEF StructOpened
  <2>2. t[j].op = "struct"
    BY <1>1, <2>1
  <2>3. \A m \in n .. l + 1 : j \in 1 .. m
    BY <1>1
  <2> QED
    BY <2>2, <2>3 DEF StructOpened
<1>3. ASSUME NEW i \in 1 .. l + 1, t[i].op \in {"ends", "elem"}
      PROVE  StructOpened(t, i - 1)
  <2>1. CASE i = l + 1
    <3>1. StructOpened(text, l)
      BY <1>1, <1>3, <2>1 DEF l
    <3>2. i - 1 = l /\ l \in 0 .. l /\ l \in l .. l + 1
      BY <1>1, <2>1
    <3> QED
      BY <1>2, <3>1, <3>2
  <2>2. CASE i # l + 1
    <3>1. i \in 1 .. l /\ i - 1 \in 0 .. l /\ i - 1 \in i - 1 .. l + 1
      BY <1>1, <2>2
    <3>2. StructOpened(text, i - 1)
      BY <1>1, <1>3, <3>1 DEF OpensFirst, l
    <3> QED
      BY <1>2, <3>1, <3>2
  <2> QED
    BY <2>1, <2>2
<1>4. OpensFirst(t)
  BY <1>1, <1>3 DEF OpensFirst
<1>5. StructOpened(text, l) => StructOpened(t, l + 1)
  <2>1. l \in 0 .. l /\ l + 1 \in l .. l + 1
    BY <1>1
  <2> QED
    BY <1>2, <2>1
<1>6. c.op = "struct" => StructOpened(t, l + 1)
  <2>1. l + 1 \in 1 .. l + 1
    BY <1>1
  <2> QED
    BY <1>1, <2>1 DEF StructOpened
<1> QED
  BY <1>4, <1>5, <1>6 DEF t, l

(* So does a command of pass 1.                                            *)
LEMMA FirstStep ==
    ASSUME StructInv, NEW c \in Commands, FirstPass(c)
    PROVE  StructInv'
<1>1. /\ stPass = 1 /\ stPos < TextLimit /\ Do(c) /\ stPos' = stPos + 1
      /\ stText' = IF stErrors' = 0 THEN Append(stText, c) ELSE <<>>
      /\ bigEndian' = bigEndian /\ stPass' = stPass
  BY DEF FirstPass
<1>2. StructTypes /\ StructsAlive
  BY DEF StructInv
<1>3. stText' \in Seq(Commands)
  BY <1>1, <1>2 DEF StructTypes
<1>11. Len(stText') <= stPos + 1
  <2>1. /\ stText \in Seq(Commands) /\ stPos \in Nat /\ Len(stText) <= stPos
        /\ Len(stText) \in Nat
    BY <1>1, <1>2 DEF StructTypes
  <2> QED
    BY <1>1, <2>1
<1>12. /\ Len(stText') <= IF stPass = 2 THEN TextLimit ELSE stPos'
       /\ stPos' \in Nat /\ stPos + 1 <= stPos' /\ stPos' <= TextLimit
  BY <1>1, <1>2, <1>11, StructAssumption DEF StructTypes
<1>4. /\ StructTypes' /\ LayoutsRight' /\ AnswerRight' /\ ScopeCurrentOpen'
      /\ StructsDone(c.op)
  BY <1>1, <1>3, <1>12, CommandDone
<1>5. /\ stErrors \in Nat /\ stErrors' \in {stErrors, stErrors + 1}
      /\ pStructCurrent' > 0 => \/ pStructCurrent' = pStructCurrent
                                \/ c.op = "struct" /\ stErrors' = stErrors
      /\ pStructCurrent' = Freed => pStructCurrent = Freed
      /\ c.op \in {"ends", "elem"} /\ stErrors' = stErrors => pStructCurrent # Null
      /\ pStructCurrent' \in Int /\ pStructCurrent' >= Freed
      /\ pStructCurrent \in Int
  BY <1>2, <1>4 DEF StructsDone, StructTypes
<1>6. pStructCurrent >= 0
  BY <1>1, <1>2 DEF StructsAlive
<1>7. ~freedUsed'
  <2>1. pStructCurrent # Freed
    BY <1>5, <1>6 DEF Freed
  <2>2. ~freedUsed
    BY <1>1, <1>2 DEF StructsAlive
  <2> QED
    BY <1>4, <2>1, <2>2 DEF StructsDone
<1>8. pStructCurrent' >= 0
  BY <1>5, <1>6 DEF Freed
<1>9. ASSUME stErrors' = 0
      PROVE  /\ OpensFirst(stText')
             /\ pStructCurrent' > 0 => StructOpened(stText', Len(stText'))
  <2>1. stErrors = 0 /\ stText' = Append(stText, c) /\ stText \in Seq(Commands)
    BY <1>1, <1>2, <1>5, <1>9 DEF StructTypes
  <2>2. /\ OpensFirst(stText)
        /\ pStructCurrent > 0 => StructOpened(stText, Len(stText))
    BY <1>1, <1>2, <2>1 DEF StructsAlive
  <2>3. c.op \in {"ends", "elem"} => StructOpened(stText, Len(stText))
    BY <1>5, <1>6, <1>9, <2>1, <2>2 DEF Null
  <2>4. /\ OpensFirst(Append(stText, c))
        /\ StructOpened(stText, Len(stText)) => StructOpened(Append(stText, c), Len(stText) + 1)
        /\ c.op = "struct" => StructOpened(Append(stText, c), Len(stText) + 1)
    BY <2>1, <2>2, <2>3, OpensMore
  <2>5. Len(stText') = Len(stText) + 1
    BY <2>1
  <2> QED
    BY <1>5, <2>1, <2>2, <2>4, <2>5
<1>10. StructsAlive'
  <2>1. stPass' = 1
    BY <1>1
  <2> QED
    BY <1>7, <1>8, <1>9, <2>1 DEF StructsAlive, OpensFirst, StructOpened
<1> QED
  BY <1>4, <1>10 DEF StructInv

(* A set of numbers that is not empty has a least one.                     *)
LEMMA LeastOf ==
    ASSUME NEW S \in SUBSET Nat, S # {}
    PROVE  \E q \in S : \A r \in S : q <= r
<1> DEFINE R == OpToRel(<, Nat)
<1>1. IsWellFoundedOn(R, Nat)
  BY NatLessThanWellFounded
<1>2. \A i, k \in Nat : <<i, k>> \in R <=> i < k
  BY DEF OpToRel
<1> HIDE DEF R
<1>3. PICK q \in S : \A r \in S : ~(<<r, q>> \in R)
  BY <1>1, WFMin
<1>4. ASSUME NEW r \in S PROVE q <= r
  <2>1. q \in Nat /\ r \in Nat /\ ~(<<r, q>> \in R)
    BY <1>3
  <2>2. ~(r < q)
    BY <1>2, <2>1
  <2> QED
    BY <2>1, <2>2
<1> QED
  BY <1>4

(* Every file has a last item.                                             *)
LEMMA LastIs ==
    ASSUME NEW text, Len(text) \in Nat, NEW p \in 0 .. Len(text)
    PROVE  LastOfFile(text, p) \in p .. Len(text)
<1> DEFINE ends == {q \in p .. Len(text) :
                      q = Len(text) \/ OpenAt(text, q + 1) < OpenAt(text, p)}
<1>1. ends \in SUBSET Nat /\ Len(text) \in ends /\ ends \subseteq p .. Len(text)
  OBVIOUS
<1>2. LastOfFile(text, p) = CHOOSE q \in ends : \A r \in ends : q <= r
  BY DEF LastOfFile
<1> HIDE DEF ends
<1>3. PICK q \in ends : \A r \in ends : q <= r
  BY <1>1, LeastOf
<1>4. LastOfFile(text, p) \in ends
  BY <1>2, <1>3
<1> QED
  BY <1>1, <1>4

(* So does a command of pass 2.                                           *)
LEMMA SecondStep == StructInv /\ SecondPass => StructInv'
<1> SUFFICES ASSUME StructInv, SecondPass PROVE StructInv'
  OBVIOUS
<1> DEFINE c == stText[stPos + 1]
<1>1. /\ stPass = 2 /\ stPos < Len(stText) /\ Do(c)
      /\ stPos' = IF stErrors' = stErrors THEN stPos + 1
                  ELSE LastOfFile(stText, stPos + 1)
      /\ stText' = stText /\ bigEndian' = bigEndian /\ stPass' = stPass
  BY DEF SecondPass
<1>2. StructTypes /\ StructsAlive
  BY DEF StructInv
<1>3. stText \in Seq(Commands) /\ stPos \in Nat /\ Len(stText) \in Nat
  BY <1>2 DEF StructTypes
<1>4. stPos + 1 \in 1 .. Len(stText) /\ c \in Commands
  BY <1>1, <1>3
<1>5. stPos' \in stPos + 1 .. Len(stText)
  <2>1. LastOfFile(stText, stPos + 1) \in stPos + 1 .. Len(stText)
    BY <1>3, <1>4, LastIs
  <2> QED
    BY <1>1, <1>3, <1>4, <2>1
<1>15. /\ stPos' \in Nat /\ stPos + 1 <= stPos' /\ stPos' <= TextLimit
       /\ stText' \in Seq(Commands)
       /\ Len(stText') <= IF stPass = 2 THEN TextLimit ELSE stPos'
  <2>1. Len(stText) <= TextLimit
    BY <1>1, <1>2 DEF StructTypes
  <2> QED
    BY <1>1, <1>3, <1>5, <2>1, StructAssumption
<1> HIDE DEF c
<1>6. /\ StructTypes' /\ LayoutsRight' /\ AnswerRight' /\ ScopeCurrentOpen'
      /\ StructsDone(c.op)
  BY <1>1, <1>4, <1>15, CommandDone
<1>16. stErrors \in Nat /\ stErrors' \in {stErrors, stErrors + 1}
  BY <1>2, <1>6 DEF StructsDone, StructTypes
<1>7. stErrors = 0 => OpensFirst(stText)
  BY <1>1, <1>2 DEF StructsAlive
<1>8. stErrors = 0 /\ pStructCurrent = Freed => ~StructOpened(stText, stPos)
  BY <1>1, <1>2 DEF StructsAlive
<1>9. stErrors = 0 /\ c.op \in {"ends", "elem"} => StructOpened(stText, stPos)
  <2>1. PICK i \in 1 .. Len(stText) : i = stPos + 1
    BY <1>4
  <2>2. stErrors = 0 /\ stText[i].op \in {"ends", "elem"} => StructOpened(stText, i - 1)
    BY <1>7 DEF OpensFirst
  <2>3. i - 1 = stPos
    BY <1>3, <2>1
  <2> QED
    BY <2>1, <2>2, <2>3 DEF c
<1>10. freedUsed' => stErrors' > 0
  <2>1. freedUsed' => stErrors # 0
    BY <1>2, <1>6, <1>8, <1>9, <1>16 DEF StructsDone, StructsAlive
  <2> QED
    BY <1>16, <2>1
<1>11. pStructCurrent' = Freed /\ stErrors' = 0 => ~StructOpened(stText, stPos + 1)
  <2> SUFFICES ASSUME pStructCurrent' = Freed, stErrors' = 0,
                      NEW j \in 1 .. stPos + 1, stText[j].op = "struct"
               PROVE  FALSE
    BY DEF StructOpened
  <2>1. pStructCurrent = Freed /\ c.op # "struct" /\ stErrors = 0
    BY <1>6, <1>16 DEF StructsDone
  <2>2. j # stPos + 1
    BY <2>1 DEF c
  <2>3. j \in 1 .. stPos
    BY <1>3, <2>2
  <2> QED
    BY <1>8, <2>1, <2>3 DEF StructOpened
<1>12. (stErrors' = 0 => OpensFirst(stText')) /\ stPos' <= Len(stText')
  BY <1>1, <1>3, <1>5, <1>7, <1>16
<1>13. pStructCurrent' = Freed /\ stErrors' = 0 => ~StructOpened(stText', stPos')
  <2>1. stErrors' = 0 => stPos' = stPos + 1
    BY <1>1, <1>16
  <2> QED
    BY <1>1, <1>11, <2>1
<1>14. StructsAlive'
  BY <1>1, <1>10, <1>12, <1>13 DEF StructsAlive, OpensFirst, StructOpened
<1> QED
  BY <1>6, <1>14 DEF StructInv

(* A step of the rest of the assembler keeps the invariant.                *)
LEMMA StructStutter ==
    ASSUME StructInv, UNCHANGED structVars
    PROVE  StructInv'
<1>1. /\ bigEndian' = bigEndian /\ stPass' = stPass /\ stText' = stText
      /\ stPos' = stPos /\ stErrors' = stErrors /\ structs' = structs
      /\ pStructCurrent' = pStructCurrent /\ scopes' = scopes
      /\ pScopeCurrent' = pScopeCurrent /\ answer' = answer
      /\ freedUsed' = freedUsed
  BY DEF structVars
<1>2. StructTypes'
  BY <1>1 DEF StructInv, StructTypes
<1>3. LayoutsRight'
  <2>1. LayoutsRight
    BY DEF StructInv
  <2>2. (\A i \in 1 .. Len(structs) : Packed(structs[i].elems))'
    BY <1>1, <2>1 DEF LayoutsRight, Packed
  <2>3. ASSUME NEW i \in 1 .. Len(scopes'), NEW j \in 1 .. Len(scopes'[i].assigns)
        PROVE  AssignRight(scopes[i].assigns[j])'
    <3>1. PICK a : a = scopes[i].assigns[j]
      OBVIOUS
    <3>2. AssignRight(a)
      BY <1>1, <2>1, <3>1 DEF LayoutsRight
    <3>3. AssignRight(a)'
      BY <1>1, <3>2, RightStill
    <3> QED
      BY <1>1, <3>1, <3>3
  <2>4. \A i \in 1 .. Len(scopes') : Len(scopes'[i].assigns) <= stPos'
    BY <1>1, <2>1 DEF LayoutsRight
  <2> QED
    BY <2>2, <2>3, <2>4 DEF LayoutsRight
<1>4. AnswerRight'
  <2> DEFINE r == answer.ref
  <2>1. r' = r
    BY <1>1
  <2>2. /\ Visible(r.name)' = Visible(r.name)
        /\ ValueIn(r, AssignFind(r.name).elems)' = ValueIn(r, AssignFind(r.name).elems)
    BY <1>1 DEF Visible, AssignFind, ValueIn, TotalSize, HasElement,
                ElementNamed, GetFinalSize, GetFinalOffset, ExtFits
  <2> QED
    BY <1>1, <2>2 DEF StructInv, AnswerRight
<1>5. StructsAlive'
  BY <1>1 DEF StructInv, StructsAlive, OpensFirst, StructOpened
<1>6. ScopeCurrentOpen'
  BY <1>1 DEF StructInv, ScopeCurrentOpen
<1> QED
  BY <1>2, <1>3, <1>4, <1>5, <1>6 DEF StructInv

(* Every step keeps the invariant.                                         *)
LEMMA StructInvStep == StructInv /\ [StructNext]_structVars => StructInv'
<1> SUFFICES ASSUME StructInv, [StructNext]_structVars PROVE StructInv'
  OBVIOUS
<1>1. CASE StructBegin
  BY <1>1, BeginStep
<1>2. CASE NextPass
  BY <1>2, NextPassStep
<1>3. CASE SecondPass
  BY <1>3, SecondStep
<1>4. CASE \E cmd \in Commands : FirstPass(cmd)
  BY <1>4, FirstStep
<1>5. CASE UNCHANGED structVars
  BY <1>5, StructStutter
<1> QED
  BY <1>1, <1>2, <1>3, <1>4, <1>5 DEF StructNext

(* The invariant holds in every state.                                     *)
LEMMA StructInvAlways == StructSpec => []StructInv
<1>1. StructInit => StructInv
  BY StructInvInit
<1>2. StructInv /\ [StructNext]_structVars => StructInv'
  BY StructInvStep
<1> QED
  BY <1>1, <1>2, PTL DEF StructSpec

(* For every text of commands, byte order and number of elements of a      *)
(* structure: the elements of an assignment lie next to each other in the  *)
(* registers from the first to the last one given, and OFFSET and SIZE say *)
(* where.                                                                  *)
THEOREM LayoutsAgree == StructSpec => []ElementsWhereMapped
<1>1. StructInv => ElementsWhereMapped
  BY TilesRegisters, OffsetsMatch DEF StructInv, ElementsWhereMapped
<1> QED
  BY <1>1, StructInvAlways, PTL

(* The scope that assignments go to is open, and .ends and elements use    *)
(* the structure that the first pass freed only in a second pass that has  *)
(* failed, wherever in the files the lines are that fail.                  *)
THEOREM PointersAlive == StructSpec => [](ScopeCurrentOpen /\ FreedUsedInVain)
<1>1. StructInv => ScopeCurrentOpen /\ FreedUsedInVain
  BY DEF StructInv, StructsAlive, FreedUsedInVain
<1> QED
  BY <1>1, StructInvAlways, PTL

-----------------------------------------------------------------------------
(* PasmMacro: what the records are made of                                 *)

MacroWords == {line.word : line \in {l \in MacroLines : l.op = "macro"}}
MacroArgs == {line.arg : line \in {l \in MacroLines : l.op = "mparam"}}
LineParams(line) == {line.params[i] : i \in 1 .. Len(line.params)}
Defaults == {a.default : a \in MacroArgs}
MacroNames ==
    {NoName} \cup {line.label : line \in MacroLines} \cup {line.word : line \in MacroLines}
    \cup Defaults \cup (UNION {LineParams(line) : line \in MacroLines})
LabelTexts == {<<n[1], i, k>> : n \in MacroNames, i \in Nat, k \in Nat}
MacroValues == MacroNames \cup LabelTexts

MacroRecords ==
    [name : MacroWords, Id : Nat, InUse : BOOLEAN, args : Seq(MacroArgs),
     Required : Nat, labels : Seq(MacroNames), code : Seq(MacroLines), Expands : Nat]
Activations == [macro : Nat, cidx : Nat \ {0}, params : Seq(MacroValues)]
Usings == [label : MacroValues, word : MacroValues, params : Seq(MacroValues)]

(* A name is no label text of an expansion.                                *)
LEMMA NamesAre ==
    ASSUME NEW n \in MacroNames
    PROVE  /\ n = NoName \/ n = <<n[1]>>
           /\ Len(n) # 3
<1>1. n = NoName \/ IsName(n)
  <2>1. CASE \E l \in MacroLines : n = l.label \/ n = l.word
    BY <2>1, MacroAssumption
  <2>2. CASE \E l \in MacroLines : \E i \in 1 .. Len(l.params) : n = l.params[i]
    BY <2>2, MacroAssumption
  <2>3. CASE \E l \in MacroLines : l.op = "mparam" /\ n = l.arg.default
    BY <2>3, MacroAssumption
  <2>4. CASE n \in Defaults \/ n = NoName
    BY <2>3, <2>4 DEF Defaults, MacroArgs
  <2> QED
    BY <2>1, <2>2, <2>4 DEF MacroNames, LineParams
<1>2. n = NoName \/ n = <<n[1]>>
  BY <1>1 DEF IsName
<1>3. CASE n = NoName
  BY <1>3 DEF NoName
<1>4. CASE n = <<n[1]>>
  <2> DEFINE x == n[1]
  <2>1. n = <<x>>
    BY <1>4
  <2> HIDE DEF x
  <2>2. Len(n) = 1
    BY <2>1
  <2> QED
    BY <1>2, <2>2
<1> QED
  BY <1>2, <1>3, <1>4

(* A label text is made of the name, the macro and the expansion.          *)
LEMMA TextsAre ==
    ASSUME NEW t \in MacroValues, Len(t) = 3
    PROVE  t = <<t[1], t[2], t[3]>> /\ t[2] \in Nat /\ t[3] \in Nat
<1>1. t \in LabelTexts
  BY NamesAre DEF MacroValues
<1>2. PICK n \in MacroNames, i \in Nat, k \in Nat : t = <<n[1], i, k>>
  BY <1>1 DEF LabelTexts
<1> QED
  BY <1>2

(* What the fields of macros, activations and lines are.                   *)
LEMMA MacroFields ==
    /\ \A m \in MacroRecords :
          /\ m.name \in MacroWords /\ m.Id \in Nat /\ m.InUse \in BOOLEAN
          /\ m.args \in Seq(MacroArgs) /\ m.Required \in Nat
          /\ m.labels \in Seq(MacroNames) /\ m.code \in Seq(MacroLines)
          /\ m.Expands \in Nat
    /\ \A e \in Activations : e.macro \in Nat /\ e.cidx \in Nat \ {0}
                              /\ e.params \in Seq(MacroValues)
    /\ \A l \in MacroLines : /\ l.label \in MacroNames /\ l.word \in MacroNames
                             /\ l.params \in Seq(MacroNames)
    /\ \A a \in MacroArgs : a.default \in MacroNames /\ a.name # NoName
<1>1. \A m \in MacroRecords :
          /\ m.name \in MacroWords /\ m.Id \in Nat /\ m.InUse \in BOOLEAN
          /\ m.args \in Seq(MacroArgs) /\ m.Required \in Nat
          /\ m.labels \in Seq(MacroNames) /\ m.code \in Seq(MacroLines)
          /\ m.Expands \in Nat
  BY DEF MacroRecords
<1>2. \A e \in Activations : e.macro \in Nat /\ e.cidx \in Nat \ {0}
                             /\ e.params \in Seq(MacroValues)
  BY DEF Activations
<1>3. ASSUME NEW l \in MacroLines
      PROVE  /\ l.label \in MacroNames /\ l.word \in MacroNames
             /\ l.params \in Seq(MacroNames)
  <2>1. l.params \in Seq(LineParams(l))
    BY MacroAssumption DEF LineParams
  <2>2. LineParams(l) \subseteq MacroNames
    BY DEF MacroNames
  <2>3. l.params \in Seq(MacroNames)
    BY <2>1, <2>2
  <2> QED
    BY <2>3 DEF MacroNames
<1>4. ASSUME NEW a \in MacroArgs
      PROVE  a.default \in MacroNames /\ a.name # NoName
  <2>1. PICK l \in MacroLines : l.op = "mparam" /\ a = l.arg
    BY DEF MacroArgs
  <2>2. IsName(a.name)
    BY <2>1, MacroAssumption
  <2> DEFINE x == a.name[1]
  <2>3. a.name = <<x>>
    BY <2>2 DEF IsName
  <2> HIDE DEF x
  <2>4. a.name # NoName
    BY <2>3 DEF NoName
  <2>5. a.default \in Defaults
    BY DEF Defaults
  <2> QED
    BY <2>4, <2>5 DEF MacroNames
<1> QED
  BY <1>1, <1>2, <1>3, <1>4

-----------------------------------------------------------------------------
(* PasmMacro: the inductive invariant, of the macros ms, those of them hd  *)
(* that are being defined or were left without their end, the expansions   *)
(* ex and the labels md made.                                              *)

Held(fs, un) == {h \in Nat \ {0} : h \in un \/ \E k \in 1 .. Len(fs) : fs[k] = h}

Types(ms, hd, ex, md) ==
    /\ ms \in Seq(MacroRecords) /\ ex \in Seq(Activations) /\ md \in Seq(MacroValues)
    /\ hd \subseteq 1 .. Len(ms)
    /\ \A j \in 1 .. Len(ex) : ex[j].macro \in 1 .. Len(ms)

Known(ms, n) == \E i \in 1 .. Len(ms) : ms[i].name = n

(* A macro is in use while it is defined or expanded.                      *)
InUseRight(ms, hd, ex) ==
    /\ \A i, j \in 1 .. Len(ex) : ex[i].macro = ex[j].macro => i = j
    /\ \A i \in 1 .. Len(ms) : ms[i].InUse <=>
          i \in hd \/ \E j \in 1 .. Len(ex) : ex[j].macro = i

(* Arguments without a default come first; a macro that is being defined,  *)
(* or was left so, has not been expanded.                                  *)
MacroRight(m) ==
    /\ m.Required <= Len(m.args)
    /\ \A a \in 1 .. Len(m.args) : m.args[a].default = NoName => a <= m.Required
MacrosRight(ms, hd) ==
    /\ \A i \in 1 .. Len(ms) : ms[i].Id = i - 1 /\ MacroRight(ms[i])
    /\ \A i \in hd : ms[i].Expands = 0

(* The label text t was made for an expansion of its macro.                *)
Issued(ms, t) ==
    /\ t[2] \in Nat /\ t[2] + 1 <= Len(ms)
    /\ t[3] \in Nat /\ t[3] >= 1 /\ t[3] <= ms[t[2] + 1].Expands
Hands(ms, m, x) ==
    \E k \in 1 .. Len(m.code) :
        /\ \E p \in 1 .. Len(m.code[k].params) : m.code[k].params[p] = <<x>>
        /\ \/ Known(ms, m.code[k].word)
           \/ \E a \in 1 .. Len(m.args) : m.args[a].name = m.code[k].word
Handed(ms, t) == Issued(ms, t) /\ Hands(ms, ms[t[2] + 1], t[1])

(* An expansion has the arguments that are required, and those that are    *)
(* labels of an expansion were handed on by its macro.                     *)
ArgumentsRight(ms, ex) ==
    \A j \in 1 .. Len(ex) :
        /\ ms[ex[j].macro].Required <= Len(ex[j].params)
        /\ ms[ex[j].macro].Expands > 0
        /\ \A p \in 1 .. Len(ex[j].params) :
              Len(ex[j].params[p]) = 3 => Handed(ms, ex[j].params[p])

(* The label t is one of a line of its macro, which an expansion that is   *)
(* still going on has left behind.                                         *)
Placed(ms, ex, t) ==
    \E k \in 1 .. Len(ms[t[2] + 1].code) :
        /\ ms[t[2] + 1].code[k].label = <<t[1]>>
        /\ \A j \in 1 .. Len(ex) :
              ex[j].macro = t[2] + 1 /\ t[3] = ms[t[2] + 1].Expands => k < ex[j].cidx
LabelsPlaced(ms, ex, md) ==
    \A i \in 1 .. Len(md) :
        Len(md[i]) = 3 => \/ Handed(ms, md[i])
                          \/ Issued(ms, md[i]) /\ Placed(ms, ex, md[i])

Twice(m, x) ==
    \E k, l \in 1 .. Len(m.code) :
        k < l /\ m.code[k].label = <<x>> /\ m.code[l].label = <<x>>
LabelsDiffer(ms, md) ==
    \A i, j \in 1 .. Len(md) : md[i] = md[j] /\ Len(md[i]) = 3 =>
        i = j \/ Hands(ms, ms[md[i][2] + 1], md[i][1]) \/ Twice(ms[md[i][2] + 1], md[i][1])

MacrosFit(ms, hd, ex, md) ==
    /\ Types(ms, hd, ex, md) /\ InUseRight(ms, hd, ex) /\ MacrosRight(ms, hd)
    /\ ArgumentsRight(ms, ex) /\ LabelsPlaced(ms, ex, md) /\ LabelsDiffer(ms, md)

(* The macros mt are those of ms, later: the code of one that has been     *)
(* expanded is the same.                                                   *)
Later(ms, mt) ==
    /\ mt \in Seq(MacroRecords) /\ Len(ms) <= Len(mt)
    /\ \A i \in 1 .. Len(ms) :
          /\ mt[i].name = ms[i].name /\ mt[i].Expands >= ms[i].Expands
          /\ ms[i].Expands > 0 => /\ mt[i].code = ms[i].code /\ mt[i].args = ms[i].args
                                  /\ mt[i].Required = ms[i].Required

(* A label that was issued, handed on or there twice remains so.           *)
LEMMA HandedLater ==
    ASSUME NEW ms \in Seq(MacroRecords), NEW mt, Later(ms, mt), NEW t, Issued(ms, t)
    PROVE  /\ Issued(mt, t)
           /\ Hands(ms, ms[t[2] + 1], t[1]) => Hands(mt, mt[t[2] + 1], t[1])
           /\ Twice(ms[t[2] + 1], t[1]) => Twice(mt[t[2] + 1], t[1])
<1> DEFINE i == t[2] + 1
<1>1. /\ i \in 1 .. Len(ms) /\ i \in 1 .. Len(mt) /\ Len(ms) \in Nat
      /\ t[2] \in Nat /\ t[3] \in Nat /\ t[3] >= 1 /\ t[3] <= ms[i].Expands
      /\ mt \in Seq(MacroRecords)
  BY DEF Issued, Later
<1>2. ms[i].Expands \in Nat /\ mt[i].Expands \in Nat
  BY <1>1, MacroFields
<1>3. mt[i].code = ms[i].code /\ mt[i].args = ms[i].args /\ mt[i].Expands >= ms[i].Expands
  BY <1>1, <1>2 DEF Later
<1>4. \A n : Known(ms, n) => Known(mt, n)
  BY <1>1 DEF Known, Later
<1> DEFINE m == ms[i]
           u == mt[i]
<1>5. Issued(mt, t)
  BY <1>1, <1>2, <1>3 DEF Issued
<1>6. u.code = m.code /\ u.args = m.args
  BY <1>3
<1> HIDE DEF m, u
<1>7. Hands(ms, m, t[1]) => Hands(mt, u, t[1])
  BY <1>4, <1>6 DEF Hands
<1>8. Twice(m, t[1]) => Twice(u, t[1])
  BY <1>6 DEF Twice
<1> QED
  BY <1>5, <1>7, <1>8 DEF m, u

-----------------------------------------------------------------------------
(* PasmMacro: what stays right                                             *)

(* What a macro is made of is the same.                                    *)
SameMacro(m, u) ==
    /\ u.name = m.name /\ u.Id = m.Id /\ u.args = m.args /\ u.Required = m.Required
    /\ u.code = m.code /\ u.Expands >= m.Expands

(* Using a macro, or the end of it, changes nothing of its definition.     *)
LEMMA MacroChanged ==
    ASSUME NEW ms \in Seq(MacroRecords), NEW i \in 1 .. Len(ms), NEW u \in MacroRecords,
           SameMacro(ms[i], u), NEW hd, MacrosRight(ms, hd), i \notin hd,
           hd \subseteq 1 .. Len(ms)
    PROVE  LET mt == [ms EXCEPT ![i] = u]
           IN  /\ mt \in Seq(MacroRecords) /\ Len(mt) = Len(ms) /\ mt[i] = u
               /\ \A j \in 1 .. Len(ms) : j # i => mt[j] = ms[j]
               /\ Later(ms, mt) /\ MacrosRight(mt, hd)
<1> DEFINE mt == [ms EXCEPT ![i] = u]
<1>1. /\ mt \in Seq(MacroRecords) /\ Len(mt) = Len(ms) /\ mt[i] = u
      /\ \A j \in 1 .. Len(ms) : j # i => mt[j] = ms[j]
  OBVIOUS
<1> HIDE DEF mt
<1>2. \A j \in 1 .. Len(ms) : ms[j].Expands \in Nat
  BY MacroFields
<1>3. Later(ms, mt)
  BY <1>1, <1>2 DEF Later, SameMacro
<1>4. \A j \in 1 .. Len(ms) : MacroRight(ms[j]) /\ ms[j].Id = j - 1
  BY DEF MacrosRight
<1>5. MacroRight(u) /\ u.Id = i - 1
  BY <1>4 DEF MacroRight, SameMacro
<1>6. MacrosRight(mt, hd)
  BY <1>1, <1>4, <1>5 DEF MacrosRight
<1> QED
  BY <1>1, <1>3, <1>6 DEF mt

(* The expansions et are among ex, with the same requirement.              *)
Among(ms, mt, ex, et) ==
    \A j \in 1 .. Len(et) : \E h \in 1 .. Len(ex) :
        /\ et[j].macro = ex[h].macro /\ et[j].params = ex[h].params
        /\ mt[ex[h].macro].Required = ms[ex[h].macro].Required

(* The arguments of the expansions that are the same.                      *)
LEMMA ArgumentsStill ==
    ASSUME NEW ms \in Seq(MacroRecords), NEW mt, Later(ms, mt),
           NEW ex, ArgumentsRight(ms, ex), NEW et, Among(ms, mt, ex, et),
           \A j \in 1 .. Len(ex) : ex[j].macro \in 1 .. Len(ms)
    PROVE  ArgumentsRight(mt, et)
<1> SUFFICES ASSUME NEW j \in 1 .. Len(et)
             PROVE  /\ mt[et[j].macro].Required <= Len(et[j].params)
                    /\ mt[et[j].macro].Expands > 0
                    /\ \A p \in 1 .. Len(et[j].params) :
                          Len(et[j].params[p]) = 3 => Handed(mt, et[j].params[p])
  BY DEF ArgumentsRight
<1>1. PICK h \in 1 .. Len(ex) :
               /\ et[j].macro = ex[h].macro /\ et[j].params = ex[h].params
               /\ mt[ex[h].macro].Required = ms[ex[h].macro].Required
  BY DEF Among
<1>2. /\ ms[ex[h].macro].Required <= Len(ex[h].params)
      /\ ms[ex[h].macro].Expands > 0
      /\ \A p \in 1 .. Len(ex[h].params) :
            Len(ex[h].params[p]) = 3 => Handed(ms, ex[h].params[p])
  BY DEF ArgumentsRight
<1>3. \A t : Handed(ms, t) => Handed(mt, t)
  BY HandedLater DEF Handed
<1>4. mt[ex[h].macro].Expands > 0
  <2>1. ex[h].macro \in 1 .. Len(ms)
    OBVIOUS
  <2>2. ms[ex[h].macro].Expands \in Nat /\ mt[ex[h].macro].Expands \in Nat
    BY <2>1, MacroFields DEF Later
  <2> QED
    BY <1>2, <2>1, <2>2 DEF Later
<1> QED
  BY <1>1, <1>2, <1>3, <1>4

(* Every expansion has come at least as far as it was, or is a new one.    *)
Behind(ms, mt, ex, et) ==
    \A j \in 1 .. Len(et) :
        \/ mt[et[j].macro].Expands > ms[et[j].macro].Expands
        \/ \E h \in 1 .. Len(ex) : /\ ex[h].macro = et[j].macro
                                   /\ ex[h].cidx <= et[j].cidx

(* The labels that were made.                                              *)
LEMMA LabelsStill ==
    ASSUME NEW ms \in Seq(MacroRecords), NEW mt, Later(ms, mt),
           NEW ex \in Seq(Activations), NEW et \in Seq(Activations),
           Behind(ms, mt, ex, et), NEW md,
           LabelsPlaced(ms, ex, md), LabelsDiffer(ms, md)
    PROVE  LabelsPlaced(mt, et, md) /\ LabelsDiffer(mt, md)
<1>1. ASSUME NEW i \in 1 .. Len(md), Len(md[i]) = 3
      PROVE  /\ Issued(ms, md[i])
             /\ Handed(ms, md[i]) => Handed(mt, md[i])
             /\ Twice(ms[md[i][2] + 1], md[i][1]) => Twice(mt[md[i][2] + 1], md[i][1])
             /\ Hands(ms, ms[md[i][2] + 1], md[i][1])
                    => Hands(mt, mt[md[i][2] + 1], md[i][1])
  BY <1>1, HandedLater DEF LabelsPlaced, Handed
<1>2. ASSUME NEW t, Issued(ms, t), Placed(ms, ex, t)
      PROVE  Issued(mt, t) /\ Placed(mt, et, t)
  <2> DEFINE m == t[2] + 1
  <2>1. /\ m \in 1 .. Len(ms) /\ t[3] \in Nat /\ t[3] <= ms[m].Expands /\ t[3] >= 1
        /\ Issued(mt, t)
    BY <1>2, HandedLater DEF Issued
  <2>2. ms[m].Expands \in Nat /\ mt[m].Expands \in Nat
    BY <2>1, MacroFields DEF Later
  <2>3. mt[m].code = ms[m].code /\ mt[m].Expands >= ms[m].Expands
    BY <2>1, <2>2 DEF Later
  <2>4. PICK k \in 1 .. Len(ms[m].code) :
            /\ ms[m].code[k].label = <<t[1]>>
            /\ \A j \in 1 .. Len(ex) :
                  ex[j].macro = m /\ t[3] = ms[m].Expands => k < ex[j].cidx
    BY <1>2 DEF Placed
  <2>5. ms[m].code \in Seq(MacroLines)
    BY <2>1, MacroFields
  <2> HIDE DEF m
  <2>6. ASSUME NEW j \in 1 .. Len(et), et[j].macro = m, t[3] = mt[m].Expands
        PROVE  k < et[j].cidx
    <3>1. t[3] = ms[m].Expands /\ ~(mt[m].Expands > ms[m].Expands)
      BY <2>1, <2>2, <2>3, <2>6
    <3>2. PICK h \in 1 .. Len(ex) : ex[h].macro = m /\ ex[h].cidx <= et[j].cidx
      BY <2>6, <3>1 DEF Behind
    <3>3. k < ex[h].cidx
      BY <2>4, <3>1, <3>2
    <3>4. ex[h].cidx \in Nat /\ et[j].cidx \in Nat /\ k \in Int
      BY <2>5, MacroFields
    <3> QED
      BY <3>2, <3>3, <3>4
  <2>7. Placed(mt, et, t)
    BY <2>3, <2>4, <2>6 DEF Placed, m
  <2> QED
    BY <2>1, <2>7
<1>3. LabelsPlaced(mt, et, md)
  BY <1>1, <1>2 DEF LabelsPlaced
<1>4. LabelsDiffer(mt, md)
  BY <1>1 DEF LabelsDiffer
<1> QED
  BY <1>3, <1>4

-----------------------------------------------------------------------------
(* PasmMacro: what a step does to them                                     *)

(* A sequence without its last element.                                    *)
LEMMA OneShorter ==
    ASSUME NEW S, NEW s \in Seq(S), s # <<>>
    PROVE  /\ SubSeq(s, 1, Len(s) - 1) \in Seq(S)
           /\ Len(SubSeq(s, 1, Len(s) - 1)) = Len(s) - 1
           /\ \A j \in 1 .. Len(s) - 1 : SubSeq(s, 1, Len(s) - 1)[j] = s[j]
<1> DEFINE n == Len(s) - 1
<1>1. n \in Nat /\ n <= Len(s)
  OBVIOUS
<1>2. \A j \in 1 .. n : s[j] \in S /\ j \in 1 .. Len(s)
  BY <1>1
<1> HIDE DEF n
<1>3. SubSeq(s, 1, n) = [j \in 1 .. n |-> s[j]]
  BY <1>1
<1>4. SubSeq(s, 1, n) \in Seq(S) /\ Len(SubSeq(s, 1, n)) = n
  BY <1>1, <1>2, <1>3
<1> QED
  BY <1>3, <1>4 DEF n

(* The end of an expansion frees its macro.                                *)
LEMMA ReturnFits ==
    ASSUME NEW ms, NEW hd, NEW ex, NEW md, MacrosFit(ms, hd, ex, md), ex # <<>>
    PROVE  MacrosFit([ms EXCEPT ![ex[Len(ex)].macro].InUse = FALSE], hd,
                     SubSeq(ex, 1, Len(ex) - 1), md)
<1> DEFINE n == Len(ex)
           i == ex[n].macro
           u == [ms[i] EXCEPT !.InUse = FALSE]
           mt == [ms EXCEPT ![i] = u]
           et == SubSeq(ex, 1, n - 1)
<1>1. /\ ms \in Seq(MacroRecords) /\ ex \in Seq(Activations) /\ md \in Seq(MacroValues)
      /\ \A j \in 1 .. Len(ex) : ex[j].macro \in 1 .. Len(ms)
  BY DEF MacrosFit, Types
<1>16. hd \subseteq 1 .. Len(ms)
  BY DEF MacrosFit, Types
<1>2. n \in Nat /\ n \in 1 .. n /\ i \in 1 .. Len(ms)
  BY <1>1
<1>15. i \notin hd
  <2>1. ms[i].Expands > 0
    BY <1>2 DEF MacrosFit, ArgumentsRight
  <2>2. \A h \in hd : ms[h].Expands = 0
    BY DEF MacrosFit, MacrosRight
  <2> HIDE DEF i
  <2> QED
    BY <2>1, <2>2
<1>3. /\ et \in Seq(Activations) /\ Len(et) = n - 1
      /\ \A j \in 1 .. n - 1 : et[j] = ex[j]
  BY <1>1, <1>2, OneShorter
<1>4. ms[i] \in MacroRecords
  BY <1>1, <1>2
<1>5. /\ u \in MacroRecords /\ ~u.InUse /\ u.Required = ms[i].Required
      /\ u.name = ms[i].name /\ u.Id = ms[i].Id /\ u.args = ms[i].args
      /\ u.code = ms[i].code /\ u.Expands = ms[i].Expands
  BY <1>4 DEF MacroRecords
<1>6. SameMacro(ms[i], u)
  BY <1>4, <1>5, MacroFields DEF SameMacro
<1>7. /\ mt \in Seq(MacroRecords) /\ Len(mt) = Len(ms) /\ mt[i] = u
      /\ \A j \in 1 .. Len(ms) : j # i => mt[j] = ms[j]
      /\ Later(ms, mt) /\ MacrosRight(mt, hd)
  BY <1>1, <1>2, <1>5, <1>6, <1>15, <1>16, MacroChanged DEF MacrosFit
<1>8. [ms EXCEPT ![ex[Len(ex)].macro].InUse = FALSE] = mt
  BY <1>1, <1>2
<1>9. ms[i].InUse \in BOOLEAN /\ \A j \in 1 .. Len(ms) : ms[j].InUse \in BOOLEAN
  BY <1>1, <1>2, MacroFields
<1> HIDE DEF mt, u, et, n
<1>10. Types(mt, hd, et, md)
  <2>1. \A j \in 1 .. Len(et) : et[j] = ex[j] /\ j \in 1 .. Len(ex)
    BY <1>2, <1>3 DEF n
  <2>2. \A j \in 1 .. Len(et) : et[j].macro \in 1 .. Len(mt)
    BY <1>1, <1>7, <2>1
  <2>3. hd \subseteq 1 .. Len(mt)
    BY <1>7, <1>16
  <2> QED
    BY <1>1, <1>3, <1>7, <2>2, <2>3 DEF Types
<1>11. InUseRight(mt, hd, et)
  <2>1. \A j, h \in 1 .. n : ex[j].macro = ex[h].macro => j = h
    BY DEF MacrosFit, InUseRight, n
  <2>2. \A j \in 1 .. Len(ms) :
            ms[j].InUse <=> j \in hd \/ \E h \in 1 .. n : ex[h].macro = j
    BY DEF MacrosFit, InUseRight, n
  <2>3. \A j, h \in 1 .. Len(et) : et[j].macro = et[h].macro => j = h
    BY <1>2, <1>3, <2>1
  <2>4. ASSUME NEW j \in 1 .. Len(ms), j # i
        PROVE  mt[j].InUse <=> j \in hd \/ \E h \in 1 .. Len(et) : et[h].macro = j
    <3>1. (\E h \in 1 .. n : ex[h].macro = j) <=> \E h \in 1 .. n - 1 : ex[h].macro = j
      BY <1>2, <2>4
    <3> QED
      BY <1>3, <1>7, <2>2, <2>4, <3>1
  <2>5. ~mt[i].InUse /\ ~(\E h \in 1 .. Len(et) : et[h].macro = i)
    BY <1>2, <1>3, <1>5, <1>7, <2>1
  <2> QED
    BY <1>7, <1>15, <2>3, <2>4, <2>5 DEF InUseRight
<1>12. ArgumentsRight(mt, et)
  <2>1. \A j \in 1 .. Len(ms) : mt[j].Required = ms[j].Required
    BY <1>5, <1>7
  <2>2. Among(ms, mt, ex, et)
    <3>1. \A j \in 1 .. Len(et) : et[j] = ex[j] /\ j \in 1 .. Len(ex)
      BY <1>2, <1>3 DEF n
    <3> QED
      BY <1>1, <2>1, <3>1 DEF Among
  <2>3. ArgumentsRight(ms, ex)
    BY DEF MacrosFit
  <2> QED
    BY <1>1, <1>7, <2>2, <2>3, ArgumentsStill
<1>13. Behind(ms, mt, ex, et)
  <2>1. \A j \in 1 .. Len(et) : et[j] = ex[j] /\ j \in 1 .. Len(ex) /\ ex[j].cidx \in Nat
    BY <1>1, <1>2, <1>3, MacroFields DEF n
  <2> QED
    BY <2>1 DEF Behind
<1>14. LabelsPlaced(mt, et, md) /\ LabelsDiffer(mt, md)
  BY <1>1, <1>3, <1>7, <1>13, LabelsStill DEF MacrosFit
<1> QED
  BY <1>7, <1>8, <1>10, <1>11, <1>12, <1>14 DEF MacrosFit, n, et

(* A use of a macro that is free and has the arguments it requires.        *)
LEMMA UseFits ==
    ASSUME NEW ms, NEW hd, NEW ex, NEW md, MacrosFit(ms, hd, ex, md),
           NEW i \in 1 .. Len(ms), ~ms[i].InUse, NEW params \in Seq(MacroValues),
           ms[i].Required <= Len(params),
           \A p \in 1 .. Len(params) : Len(params[p]) = 3 => Handed(ms, params[p])
    PROVE  MacrosFit([ms EXCEPT ![i].InUse = TRUE, ![i].Expands = @ + 1], hd,
                     Append(ex, [macro |-> i, cidx |-> 1, params |-> params]), md)
<1> DEFINE n == Len(ex)
           u == [ms[i] EXCEPT !.InUse = TRUE, !.Expands = @ + 1]
           mt == [ms EXCEPT ![i] = u]
           e == [macro |-> i, cidx |-> 1, params |-> params]
           et == Append(ex, e)
<1>1. /\ ms \in Seq(MacroRecords) /\ ex \in Seq(Activations) /\ md \in Seq(MacroValues)
      /\ \A j \in 1 .. Len(ex) : ex[j].macro \in 1 .. Len(ms)
      /\ hd \subseteq 1 .. Len(ms) /\ i \notin hd
  BY DEF MacrosFit, Types, InUseRight
<1>2. n \in Nat /\ Len(ms) \in Nat
  BY <1>1
<1>3. /\ e \in Activations /\ e.macro = i /\ e.params = params
  BY <1>2 DEF Activations
<1> HIDE DEF e
<1>4. /\ et \in Seq(Activations) /\ Len(et) = n + 1 /\ et[n + 1] = e
      /\ \A j \in 1 .. n : et[j] = ex[j]
  BY <1>1, <1>2, <1>3
<1>5. ms[i] \in MacroRecords
  BY <1>1, <1>2
<1>6. /\ u \in MacroRecords /\ u.InUse /\ u.Required = ms[i].Required
      /\ u.name = ms[i].name /\ u.Id = ms[i].Id /\ u.args = ms[i].args
      /\ u.code = ms[i].code /\ u.Expands = ms[i].Expands + 1
      /\ ms[i].Expands \in Nat
  <2>1. ms[i].Expands \in Nat
    BY <1>5, MacroFields
  <2>2. /\ u.InUse /\ u.Required = ms[i].Required
        /\ u.name = ms[i].name /\ u.Id = ms[i].Id /\ u.args = ms[i].args
        /\ u.code = ms[i].code /\ u.Expands = ms[i].Expands + 1
    BY <1>5 DEF MacroRecords
  <2>3. u \in MacroRecords
    <3> DEFINE w == [ms[i] EXCEPT !.InUse = TRUE]
               x == w.Expands + 1
    <3>1. w \in MacroRecords /\ w.Expands = ms[i].Expands
      BY <1>5 DEF MacroRecords
    <3>2. u = [w EXCEPT !.Expands = x]
      OBVIOUS
    <3>3. x \in Nat
      BY <2>1, <3>1
    <3> HIDE DEF w, u, x
    <3> QED
      BY <3>1, <3>2, <3>3 DEF MacroRecords
  <2> QED
    BY <2>1, <2>2, <2>3
<1>7. SameMacro(ms[i], u)
  BY <1>6 DEF SameMacro
<1>8. /\ mt \in Seq(MacroRecords) /\ Len(mt) = Len(ms) /\ mt[i] = u
      /\ \A j \in 1 .. Len(ms) : j # i => mt[j] = ms[j]
      /\ Later(ms, mt) /\ MacrosRight(mt, hd)
  BY <1>1, <1>2, <1>6, <1>7, MacroChanged DEF MacrosFit
<1>9. [ms EXCEPT ![i].InUse = TRUE, ![i].Expands = @ + 1] = mt
  BY <1>1, <1>2
<1>10. \A j \in 1 .. Len(ms) : ms[j].InUse \in BOOLEAN
  BY <1>1, MacroFields
<1> HIDE DEF mt, u, et, n
<1>11. Types(mt, hd, et, md)
  <2>4. hd \subseteq 1 .. Len(mt)
    BY <1>1, <1>8
  <2>1. \A j \in 1 .. n : et[j].macro \in 1 .. Len(mt)
    BY <1>1, <1>4, <1>8 DEF n
  <2>2. et[n + 1].macro \in 1 .. Len(mt)
    BY <1>3, <1>4, <1>8
  <2>3. \A j \in 1 .. Len(et) : et[j].macro \in 1 .. Len(mt)
    BY <1>2, <1>4, <2>1, <2>2
  <2> QED
    BY <1>1, <1>2, <1>4, <1>8, <2>3, <2>4 DEF Types
<1>12. InUseRight(mt, hd, et)
  <2>1. \A j, h \in 1 .. n : ex[j].macro = ex[h].macro => j = h
    BY DEF MacrosFit, InUseRight, n
  <2>2. \A j \in 1 .. Len(ms) :
            ms[j].InUse <=> j \in hd \/ \E h \in 1 .. n : ex[h].macro = j
    BY DEF MacrosFit, InUseRight, n
  <2>3. \A h \in 1 .. n : ex[h].macro # i
    BY <2>2
  <2>4. \A j, h \in 1 .. Len(et) : et[j].macro = et[h].macro => j = h
    BY <1>2, <1>3, <1>4, <2>1, <2>3
  <2>5. ASSUME NEW j \in 1 .. Len(ms), j # i
        PROVE  mt[j].InUse <=> j \in hd \/ \E h \in 1 .. Len(et) : et[h].macro = j
    <3>1. (\E h \in 1 .. Len(et) : et[h].macro = j) <=> \E h \in 1 .. n : ex[h].macro = j
      BY <1>2, <1>3, <1>4, <2>5
    <3> QED
      BY <1>8, <2>2, <2>5, <3>1
  <2>6. mt[i].InUse /\ \E h \in 1 .. Len(et) : et[h].macro = i
    BY <1>2, <1>3, <1>4, <1>6, <1>8
  <2> QED
    BY <1>8, <2>4, <2>5, <2>6 DEF InUseRight
<1>13. ArgumentsRight(mt, et)
  <2>1. \A j \in 1 .. Len(ms) : mt[j].Required = ms[j].Required
    BY <1>6, <1>8
  <2>2. ArgumentsRight(mt, ex)
    <3>1. Among(ms, mt, ex, ex)
      BY <1>1, <2>1 DEF Among
    <3>2. ArgumentsRight(ms, ex)
      BY DEF MacrosFit
    <3> QED
      BY <1>1, <1>8, <3>1, <3>2, ArgumentsStill
  <2>3. \A p \in 1 .. Len(params) : Len(params[p]) = 3 => Handed(mt, params[p])
    BY <1>1, <1>8, HandedLater DEF Handed
  <2>4. mt[i].Required <= Len(params) /\ mt[i].Expands > 0
    BY <1>6, <1>8, <2>1
  <2>5. \A j \in 1 .. Len(et) : et[j] = e \/ \E h \in 1 .. Len(ex) : et[j] = ex[h]
    BY <1>2, <1>4 DEF n
  <2> QED
    BY <1>3, <2>2, <2>3, <2>4, <2>5 DEF ArgumentsRight
<1>14. Behind(ms, mt, ex, et)
  <2>1. mt[i].Expands > ms[i].Expands
    BY <1>6, <1>8
  <2>2. \A j \in 1 .. n : et[j] = ex[j] /\ j \in 1 .. Len(ex) /\ ex[j].cidx \in Nat
    BY <1>1, <1>4, MacroFields DEF n
  <2>3. \A j \in 1 .. Len(et) : j \in 1 .. n \/ j = n + 1
    BY <1>2, <1>4
  <2>4. ASSUME NEW j \in 1 .. n
        PROVE  \E h \in 1 .. Len(ex) : /\ ex[h].macro = et[j].macro
                                       /\ ex[h].cidx <= et[j].cidx
    BY <2>2
  <2>5. mt[et[n + 1].macro].Expands > ms[et[n + 1].macro].Expands
    BY <1>3, <1>4, <2>1
  <2> QED
    BY <2>3, <2>4, <2>5 DEF Behind
<1>15. LabelsPlaced(mt, et, md) /\ LabelsDiffer(mt, md)
  BY <1>1, <1>4, <1>8, <1>14, LabelsStill DEF MacrosFit
<1> QED
  BY <1>8, <1>9, <1>11, <1>12, <1>13, <1>15 DEF MacrosFit, et, e

-----------------------------------------------------------------------------
(* PasmMacro: an expanded line                                             *)

(* A label text of a name, a macro and an expansion.                       *)
LEMMA TextOf ==
    ASSUME NEW n \in MacroNames, NEW i \in Nat, NEW k \in Nat
    PROVE  <<n[1], i, k>> \in LabelTexts
BY DEF LabelTexts

(* What replaces a name of the body: a label text of this expansion, of    *)
(* one that has handed it on, or no label text.                            *)
LEMMA SubstituteIs ==
    ASSUME NEW ms \in Seq(MacroRecords), NEW i \in 1 .. Len(ms), ms[i].Id = i - 1,
           ms[i].Expands > 0, NEW params \in Seq(MacroValues),
           \A p \in 1 .. Len(params) : Len(params[p]) = 3 => Handed(ms, params[p]),
           NEW n \in MacroNames, NEW v, v = Substitute(ms[i], params, n)
    PROVE  /\ v \in MacroValues
           /\ Len(v) = 3 => \/ Handed(ms, v)
                            \/ /\ v[2] + 1 = i /\ v[3] = ms[i].Expands
                               /\ Issued(ms, v) /\ n = <<v[1]>>
<1> DEFINE m == ms[i]
           args == {j \in 1 .. Len(m.args) : m.args[j].name = n}
           a == CHOOSE j \in args : TRUE
<1>1. /\ m.Id \in Nat /\ m.args \in Seq(MacroArgs) /\ m.Expands \in Nat
      /\ m.Expands > 0 /\ m.Id + 1 = i
  BY MacroFields
<1>2. v = IF n = NoName THEN n
          ELSE IF args # {} THEN IF a <= Len(params) THEN params[a] ELSE m.args[a].default
          ELSE IF \E j \in 1 .. Len(m.labels) : m.labels[j] = n
          THEN <<n[1], m.Id, m.Expands>>
          ELSE n
  BY DEF Substitute
<1>3. CASE v = n
  BY <1>3, NamesAre DEF MacroValues
<1>4. CASE n # NoName /\ args # {}
  <2>1. a \in args
    BY <1>4
  <2> HIDE DEF a
  <2>2. a \in 1 .. Len(m.args)
    BY <2>1
  <2>3. CASE a <= Len(params)
    <3>1. v = params[a] /\ a \in 1 .. Len(params)
      BY <1>1, <1>2, <1>4, <2>2, <2>3
    <3> QED
      BY <3>1
  <2>4. CASE ~(a <= Len(params))
    <3>1. v = m.args[a].default /\ m.args[a] \in MacroArgs
      BY <1>1, <1>2, <1>4, <2>2, <2>4
    <3>2. v \in MacroNames
      BY <3>1, MacroFields
    <3> QED
      BY <3>2, NamesAre DEF MacroValues
  <2> QED
    BY <2>3, <2>4
<1>5. CASE v = <<n[1], m.Id, m.Expands>> /\ n # NoName
  <2>1. v \in LabelTexts
    BY <1>1, <1>5, TextOf
  <2>2. v[1] = n[1] /\ v[2] = m.Id /\ v[3] = m.Expands
    BY <1>5
  <2>3. Issued(ms, v)
    BY <1>1, <2>2 DEF Issued
  <2>4. n = <<v[1]>>
    BY <1>5, <2>2, NamesAre
  <2> QED
    BY <1>1, <2>1, <2>2, <2>3, <2>4 DEF MacroValues
<1> HIDE DEF a, args
<1> QED
  BY <1>2, <1>3, <1>4, <1>5

(* A label that belongs to no expansion.                                   *)
LEMMA PlainLabelFits ==
    ASSUME NEW ms, NEW hd, NEW ex, NEW md, MacrosFit(ms, hd, ex, md),
           NEW v \in MacroNames
    PROVE  MacrosFit(ms, hd, ex, Append(md, v))
<1> DEFINE mw == Append(md, v)
           n == Len(md)
<1>1. Len(v) # 3 /\ v \in MacroValues
  BY NamesAre DEF MacroValues
<1>2. md \in Seq(MacroValues)
  BY DEF MacrosFit, Types
<1>3. /\ mw \in Seq(MacroValues) /\ n \in Nat /\ Len(mw) = n + 1 /\ mw[n + 1] = v
      /\ \A i \in 1 .. n : mw[i] = md[i]
  BY <1>1, <1>2
<1> HIDE DEF mw
<1>4. \A i \in 1 .. Len(mw) : Len(mw[i]) = 3 => i \in 1 .. n /\ mw[i] = md[i]
  BY <1>1, <1>3
<1>5. LabelsPlaced(ms, ex, mw)
  BY <1>4 DEF MacrosFit, LabelsPlaced, n
<1>6. LabelsDiffer(ms, mw)
  BY <1>4 DEF MacrosFit, LabelsDiffer, n
<1> QED
  BY <1>3, <1>5, <1>6 DEF MacrosFit, Types, mw

(* The label of the line that the innermost expansion is at.               *)
Fresh(ms, ex, v) ==
    LET top == ex[Len(ex)]
    IN  /\ v[2] + 1 = top.macro /\ v[3] = ms[top.macro].Expands /\ Issued(ms, v)
        /\ top.cidx \in 1 .. Len(ms[top.macro].code)
        /\ ms[top.macro].code[top.cidx].label = <<v[1]>>

Advanced(ex) == [ex EXCEPT ![Len(ex)].cidx = @ + 1]

(* An expansion goes on to its next line.                                  *)
LEMMA AdvancedIs ==
    ASSUME NEW ex \in Seq(Activations), ex # <<>>
    PROVE  /\ Advanced(ex) \in Seq(Activations) /\ Len(Advanced(ex)) = Len(ex)
           /\ \A j \in 1 .. Len(ex) :
                 /\ Advanced(ex)[j].macro = ex[j].macro
                 /\ Advanced(ex)[j].params = ex[j].params
                 /\ Advanced(ex)[j].cidx = IF j = Len(ex) THEN ex[j].cidx + 1 ELSE ex[j].cidx
<1> DEFINE n == Len(ex)
           e == [ex[n] EXCEPT !.cidx = @ + 1]
<1>1. n \in 1 .. n /\ ex[n] \in Activations /\ ex[n].cidx \in Nat
  BY MacroFields
<1>2. /\ e \in Activations /\ e.cidx = ex[n].cidx + 1
      /\ e.macro = ex[n].macro /\ e.params = ex[n].params
  <2> DEFINE g == ex[n]
             x == g.cidx + 1
  <2>1. x \in Nat \ {0} /\ g \in Activations /\ e = [g EXCEPT !.cidx = x]
    BY <1>1
  <2>2. x = ex[n].cidx + 1 /\ g = ex[n]
    OBVIOUS
  <2> HIDE DEF g, x, e
  <2> QED
    BY <2>1, <2>2 DEF Activations
<1>3. Advanced(ex) = [ex EXCEPT ![n] = e]
  BY DEF Advanced
<1> HIDE DEF e, n
<1>4. /\ [ex EXCEPT ![n] = e] \in Seq(Activations) /\ Len([ex EXCEPT ![n] = e]) = Len(ex)
      /\ [ex EXCEPT ![n] = e][n] = e
      /\ \A j \in 1 .. Len(ex) : j # n => [ex EXCEPT ![n] = e][j] = ex[j]
  BY <1>1, <1>2 DEF n
<1> QED
  BY <1>2, <1>3, <1>4 DEF n

(* The next line of an expansion, with or without its label.               *)
LEMMA AdvanceFits ==
    ASSUME NEW ms, NEW hd, NEW ex, NEW md, MacrosFit(ms, hd, ex, md), ex # <<>>
    PROVE  MacrosFit(ms, hd, Advanced(ex), md)
<1> DEFINE et == Advanced(ex)
<1>1. /\ ms \in Seq(MacroRecords) /\ ex \in Seq(Activations) /\ md \in Seq(MacroValues)
      /\ \A j \in 1 .. Len(ex) : ex[j].macro \in 1 .. Len(ms)
      /\ hd \subseteq 1 .. Len(ms)
  BY DEF MacrosFit, Types
<1>2. /\ et \in Seq(Activations) /\ Len(et) = Len(ex)
      /\ \A j \in 1 .. Len(ex) :
            /\ et[j].macro = ex[j].macro /\ et[j].params = ex[j].params
            /\ et[j].cidx = IF j = Len(ex) THEN ex[j].cidx + 1 ELSE ex[j].cidx
  BY <1>1, AdvancedIs
<1> HIDE DEF et
<1>3. Types(ms, hd, et, md) /\ InUseRight(ms, hd, et)
  <2>1. Types(ms, hd, et, md)
    BY <1>1, <1>2 DEF Types
  <2>2. \A i, j \in 1 .. Len(et) : et[i].macro = et[j].macro => i = j
    BY <1>2 DEF MacrosFit, InUseRight
  <2>3. \A i : (\E j \in 1 .. Len(et) : et[j].macro = i)
                  <=> \E j \in 1 .. Len(ex) : ex[j].macro = i
    BY <1>2
  <2>4. \A i \in 1 .. Len(ms) : ms[i].InUse <=>
            i \in hd \/ \E j \in 1 .. Len(ex) : ex[j].macro = i
    BY DEF MacrosFit, InUseRight
  <2> QED
    BY <2>1, <2>2, <2>3, <2>4 DEF InUseRight
<1>4. \A j \in 1 .. Len(ex) : ex[j].cidx \in Nat
  BY <1>1, MacroFields
<1>5. Later(ms, ms)
  <2>1. \A j \in 1 .. Len(ms) : ms[j].Expands \in Nat
    BY <1>1, MacroFields
  <2> QED
    BY <1>1, <2>1 DEF Later
<1>6. ArgumentsRight(ms, et)
  BY <1>2 DEF MacrosFit, ArgumentsRight
<1>7. Behind(ms, ms, ex, et)
  BY <1>2, <1>4 DEF Behind
<1>8. LabelsPlaced(ms, et, md) /\ LabelsDiffer(ms, md)
  BY <1>1, <1>2, <1>5, <1>7, LabelsStill DEF MacrosFit
<1> QED
  BY <1>3, <1>6, <1>8 DEF MacrosFit, et

(* The label of a line of an expansion is one that was handed on or, the   *)
(* line being at hand, one that no other line of the expansion has made,   *)
(* unless they have the same label.                                        *)
LEMMA LabelFits ==
    ASSUME NEW ms, NEW hd, NEW ex, NEW md, MacrosFit(ms, hd, ex, md), ex # <<>>,
           NEW v \in MacroValues, Len(v) = 3 => Handed(ms, v) \/ Fresh(ms, ex, v)
    PROVE  MacrosFit(ms, hd, Advanced(ex), Append(md, v))
<1> DEFINE et == Advanced(ex)
           mw == Append(md, v)
           n == Len(md)
           k == ex[Len(ex)].cidx
           m == ms[v[2] + 1]
<1>1. /\ ms \in Seq(MacroRecords) /\ ex \in Seq(Activations) /\ md \in Seq(MacroValues)
  BY DEF MacrosFit, Types
<1>2. /\ MacrosFit(ms, hd, et, md)
  BY AdvanceFits
<1>3. /\ mw \in Seq(MacroValues) /\ n \in Nat /\ Len(mw) = n + 1 /\ mw[n + 1] = v
      /\ \A i \in 1 .. n : mw[i] = md[i]
  BY <1>1
<1>4. Types(ms, hd, et, mw)
  BY <1>2, <1>3 DEF MacrosFit, Types
<1>5. \A i \in 1 .. Len(mw) : i \in 1 .. n \/ i = n + 1
  BY <1>3
<1>6. ASSUME Fresh(ms, ex, v)
      PROVE  Placed(ms, et, v)
  <2>1. k \in 1 .. Len(m.code) /\ m.code[k].label = <<v[1]>> /\ v[2] + 1 = ex[Len(ex)].macro
    BY <1>6 DEF Fresh
  <2>2. ASSUME NEW j \in 1 .. Len(et), et[j].macro = v[2] + 1
        PROVE  k < et[j].cidx
    <3>1. /\ Len(et) = Len(ex) /\ Len(ex) \in 1 .. Len(ex) /\ k \in Nat
          /\ et[Len(ex)].cidx = k + 1 /\ et[Len(ex)].macro = ex[Len(ex)].macro
      BY <1>1, AdvancedIs, MacroFields
    <3>2. \A i \in 1 .. Len(et) : et[i].macro = et[j].macro => i = j
      BY <1>2 DEF MacrosFit, InUseRight
    <3>3. j = Len(ex)
      BY <2>1, <2>2, <3>1, <3>2
    <3> QED
      BY <3>1, <3>3
  <2> HIDE DEF k
  <2> QED
    BY <2>1, <2>2 DEF Placed
<1> HIDE DEF mw, et
<1>7. LabelsPlaced(ms, et, mw)
  <2>1. Len(v) = 3 => Handed(ms, v) \/ (Issued(ms, v) /\ Placed(ms, et, v))
    BY <1>6 DEF Fresh
  <2>2. \A i \in 1 .. n : Len(md[i]) = 3 =>
            Handed(ms, md[i]) \/ (Issued(ms, md[i]) /\ Placed(ms, et, md[i]))
    BY <1>2 DEF MacrosFit, LabelsPlaced, n
  <2> QED
    BY <1>3, <1>5, <2>1, <2>2 DEF LabelsPlaced
<1>8. ASSUME NEW i \in 1 .. n, md[i] = v, Len(v) = 3
      PROVE  Hands(ms, m, v[1]) \/ Twice(m, v[1])
  <2>1. Handed(ms, v) \/ (Issued(ms, v) /\ Placed(ms, ex, v))
    BY <1>8 DEF MacrosFit, LabelsPlaced, n
  <2>2. CASE Handed(ms, v)
    BY <2>2 DEF Handed
  <2>3. CASE Placed(ms, ex, v) /\ Fresh(ms, ex, v)
    <3>1. /\ k \in 1 .. Len(m.code) /\ m.code[k].label = <<v[1]>>
          /\ v[2] + 1 = ex[Len(ex)].macro /\ v[3] = m.Expands
      BY <2>3 DEF Fresh
    <3>2. PICK l \in 1 .. Len(m.code) :
              /\ m.code[l].label = <<v[1]>>
              /\ \A j \in 1 .. Len(ex) : ex[j].macro = v[2] + 1 /\ v[3] = m.Expands
                                            => l < ex[j].cidx
      BY <2>3 DEF Placed
    <3>3. Len(ex) \in 1 .. Len(ex)
      BY <1>1
    <3>4. l < k
      BY <3>1, <3>2, <3>3
    <3> HIDE DEF k, m
    <3> QED
      BY <3>1, <3>2, <3>4 DEF Twice
  <2> QED
    BY <1>8, <2>1, <2>2, <2>3
<1>9. LabelsDiffer(ms, mw)
  <2> DEFINE Same(t) == \/ Hands(ms, ms[t[2] + 1], t[1])
                        \/ Twice(ms[t[2] + 1], t[1])
  <2>1. \A i, j \in 1 .. n : md[i] = md[j] /\ Len(md[i]) = 3 => i = j \/ Same(md[i])
    BY DEF MacrosFit, LabelsDiffer, n
  <2>2. \A i \in 1 .. n : md[i] = v /\ Len(v) = 3 => Same(v)
    BY <1>8
  <2> HIDE DEF Same
  <2>3. \A i, j \in 1 .. Len(mw) : mw[i] = mw[j] /\ Len(mw[i]) = 3 => i = j \/ Same(mw[i])
    BY <1>3, <1>5, <2>1, <2>2
  <2> QED
    BY <2>3 DEF LabelsDiffer, Same
<1> QED
  BY <1>2, <1>4, <1>7, <1>9 DEF MacrosFit, mw, et

-----------------------------------------------------------------------------
(* PasmMacro: the lines outside a definition                               *)

(* A source line: its label is made, and the macro it uses, if it uses one,*)
(* is expanded.                                                            *)
LEMMA SourceFits ==
    ASSUME NEW line, NEW stack, ProcessSourceLine(line, stack), NEW hd,
           line.params \in Seq(MacroValues),
           line.label = NoName => MacrosFit(macros, hd, stack, made),
           line.label # NoName => MacrosFit(macros, hd, stack, Append(made, line.label)),
           Known(macros, line.word) =>
               \A p \in 1 .. Len(line.params) :
                  Len(line.params[p]) = 3 => Handed(macros, line.params[p])
    PROVE  /\ MacrosFit(macros', hd, expanding', made')
           /\ files' = files /\ unfinished' = unfinished
<1> DEFINE i == TheMacro(line.word)
           isUse == line.word # NoName /\ CheckMacro(line.word)
           lab == IF LabelNew(line) THEN mLabels \cup {line.label} ELSE mLabels
<1>1. /\ made' = IF line.label = NoName THEN made ELSE Append(made, line.label)
      /\ files' = files /\ unfinished' = unfinished
      /\ IF isUse /\ TextLineOK(line, lab)
         THEN /\ macros' = [macros EXCEPT ![i].InUse = TRUE, ![i].Expands = @ + 1]
              /\ expanding' = Append(stack, [macro |-> i, cidx |-> 1, params |-> line.params])
         ELSE expanding' = stack /\ macros' = macros
  BY DEF ProcessSourceLine
<1>2. MacrosFit(macros, hd, stack, made')
  BY <1>1
<1>3. CASE ~(isUse /\ TextLineOK(line, lab))
  BY <1>1, <1>2, <1>3
<1>4. CASE isUse /\ TextLineOK(line, lab)
  <2>1. i \in MacroFind(line.word)
    BY <1>4 DEF CheckMacro, TheMacro
  <2>2. i \in 1 .. Len(macros) /\ macros[i].name = line.word
    BY <2>1 DEF MacroFind
  <2>3. UseOK(i, line.params)
    BY <1>4 DEF TextLineOK
  <2>4. Known(macros, line.word)
    BY <2>2 DEF Known
  <2> HIDE DEF i, isUse, lab
  <2>5. ~macros[i].InUse /\ macros[i].Required <= Len(line.params)
    BY <2>3 DEF UseOK
  <2>6. MacrosFit([macros EXCEPT ![i].InUse = TRUE, ![i].Expands = @ + 1], hd,
                  Append(stack, [macro |-> i, cidx |-> 1, params |-> line.params]), made')
    BY <1>2, <2>2, <2>4, <2>5, UseFits
  <2> QED
    BY <1>1, <1>4, <2>6
<1> QED
  BY <1>3, <1>4

(* A macro is known by what its line of the body says, or by an argument.  *)
LEMMA WordHands ==
    ASSUME NEW ms \in Seq(MacroRecords), NEW m \in MacroRecords, NEW params,
           NEW w, NEW v, v = Substitute(m, params, w), Known(ms, v)
    PROVE  Known(ms, w) \/ \E a \in 1 .. Len(m.args) : m.args[a].name = w
<1> DEFINE args == {j \in 1 .. Len(m.args) : m.args[j].name = w}
<1>1. PICK h \in 1 .. Len(ms) : ms[h].name = v
  BY DEF Known
<1>2. ms[h].name \in MacroWords
  BY MacroFields
<1>3. v \in MacroNames
  BY <1>1, <1>2 DEF MacroWords, MacroNames
<1>4. Len(v) # 3
  BY <1>3, NamesAre
<1>5. CASE args # {}
  BY <1>5
<1>6. CASE args = {}
  <2>1. v = w \/ v = <<w[1], m.Id, m.Expands>>
    BY <1>6 DEF Substitute
  <2> DEFINE t == <<w[1], m.Id, m.Expands>>
  <2>2. Len(t) = 3
    OBVIOUS
  <2> HIDE DEF t
  <2>3. v = w
    BY <1>4, <2>1, <2>2 DEF t
  <2>4. Known(ms, w)
    BY <2>3
  <2> QED
    BY <2>4
<1> QED
  BY <1>5, <1>6

(* The next line of the innermost expansion.                               *)
LEMMA ExpandFits ==
    ASSUME NEW hd, MacrosFit(macros, hd, expanding, made), ExpandLine
    PROVE  /\ MacrosFit(macros', hd, expanding', made')
           /\ files' = files /\ unfinished' = unfinished
<1> DEFINE n == Len(expanding)
           e == expanding[n]
           i == e.macro
           m == macros[i]
           k == e.cidx
           c == m.code[k]
           line == Expanded(m, e.params, c)
<1>1. /\ macros \in Seq(MacroRecords) /\ expanding \in Seq(Activations)
      /\ made \in Seq(MacroValues) /\ expanding # <<>>
      /\ \A j \in 1 .. Len(expanding) : expanding[j].macro \in 1 .. Len(macros)
  BY DEF MacrosFit, Types, ExpandLine
<1>2. n \in 1 .. Len(expanding) /\ e \in Activations /\ i \in 1 .. Len(macros)
  BY <1>1
<1>3. /\ m \in MacroRecords /\ m.Id = i - 1 /\ m.code \in Seq(MacroLines)
      /\ e.params \in Seq(MacroValues) /\ k \in Nat \ {0}
  BY <1>1, <1>2, MacroFields DEF MacrosFit, MacrosRight
<1>4. /\ m.Expands > 0
      /\ \A p \in 1 .. Len(e.params) : Len(e.params[p]) = 3 => Handed(macros, e.params[p])
  BY <1>2 DEF MacrosFit, ArgumentsRight
<1>5. k <= Len(m.code) /\ ProcessSourceLine(line, Advanced(expanding))
  BY DEF ExpandLine, Inner, Body, Advanced
<1>6. k \in 1 .. Len(m.code) /\ c \in MacroLines
  BY <1>3, <1>5
<1>7. c.label \in MacroNames /\ c.word \in MacroNames /\ c.params \in Seq(MacroNames)
  BY <1>6, MacroFields
<1>8. /\ line.label = Substitute(m, e.params, c.label)
      /\ line.word = Substitute(m, e.params, c.word)
      /\ line.params = [p \in 1 .. Len(c.params) |-> Substitute(m, e.params, c.params[p])]
      /\ m = macros[i]
  BY DEF Expanded
<1> DEFINE given == e.params
<1> HIDE DEF line, c, k, m, i, given
<1>9. ASSUME NEW x \in MacroNames, NEW v, v = Substitute(m, given, x)
      PROVE  /\ v \in MacroValues
             /\ Len(v) = 3 => \/ Handed(macros, v)
                              \/ /\ v[2] + 1 = i /\ v[3] = m.Expands
                                 /\ Issued(macros, v) /\ x = <<v[1]>>
  <2>1. given \in Seq(MacroValues) /\ macros[i].Id = i - 1 /\ macros[i].Expands > 0
    BY <1>3, <1>4, <1>8 DEF given
  <2>2. \A p \in 1 .. Len(given) : Len(given[p]) = 3 => Handed(macros, given[p])
    BY <1>4 DEF given
  <2>3. v = Substitute(macros[i], given, x) /\ i \in 1 .. Len(macros)
    BY <1>2, <1>8, <1>9 DEF i
  <2>4. macros \in Seq(MacroRecords)
    BY <1>1
  <2>5. /\ v \in MacroValues
        /\ Len(v) = 3 => \/ Handed(macros, v)
                         \/ /\ v[2] + 1 = i /\ v[3] = macros[i].Expands
                            /\ Issued(macros, v) /\ x = <<v[1]>>
    BY ONLY <1>9, <2>1, <2>2, <2>3, <2>4, SubstituteIs
  <2> QED
    BY <1>8, <2>5
<1>10. /\ line.params \in Seq(MacroValues) /\ Len(line.params) = Len(c.params)
       /\ \A p \in 1 .. Len(c.params) :
             line.params[p] = Substitute(m, given, c.params[p])
  <2> DEFINE names == c.params
             texts == [p \in 1 .. Len(names) |-> Substitute(m, given, names[p])]
  <2>1. names \in Seq(MacroNames)
    BY <1>7
  <2> HIDE DEF names
  <2>2. Len(names) \in Nat /\ \A p \in 1 .. Len(names) : names[p] \in MacroNames
    BY <2>1
  <2>3. \A p \in 1 .. Len(names) : Substitute(m, given, names[p]) \in MacroValues
    BY <1>9, <2>2
  <2>4. texts \in Seq(MacroValues) /\ Len(texts) = Len(names)
    BY <2>2, <2>3
  <2> QED
    BY <1>8, <2>4 DEF names, given
<1>11. line.label # NoName =>
           MacrosFit(macros, hd, Advanced(expanding), Append(made, line.label))
  <2> DEFINE v == line.label
  <2>1. /\ v \in MacroValues
        /\ Len(v) = 3 => \/ Handed(macros, v)
                         \/ /\ v[2] + 1 = i /\ v[3] = m.Expands
                            /\ Issued(macros, v) /\ c.label = <<v[1]>>
    BY <1>7, <1>8, <1>9 DEF given
  <2>2. Len(v) = 3 => Handed(macros, v) \/ Fresh(macros, expanding, v)
    BY <1>6, <2>1 DEF Fresh, c, k, m, i
  <2> HIDE DEF v
  <2>3. MacrosFit(macros, hd, Advanced(expanding), Append(made, v))
    BY <1>1, <2>1, <2>2, LabelFits
  <2> QED
    BY <2>3 DEF v
<1>12. MacrosFit(macros, hd, Advanced(expanding), made)
  BY <1>1, AdvanceFits
<1>13. ASSUME Known(macros, line.word), NEW p \in 1 .. Len(line.params),
              Len(line.params[p]) = 3
       PROVE  Handed(macros, line.params[p])
  <2> DEFINE v == line.params[p]
  <2>1. p \in 1 .. Len(c.params) /\ c.params[p] \in MacroNames
    BY <1>7, <1>10
  <2>2. \/ Handed(macros, v)
        \/ /\ v[2] + 1 = i /\ v[3] = m.Expands
           /\ Issued(macros, v) /\ c.params[p] = <<v[1]>>
    BY <1>9, <1>10, <1>13, <2>1
  <2>3. Known(macros, c.word) \/ \E a \in 1 .. Len(m.args) : m.args[a].name = c.word
    <3> DEFINE w == c.word
               u == Substitute(m, given, w)
    <3>1. Known(macros, u)
      BY <1>8, <1>13 DEF given
    <3>2. macros \in Seq(MacroRecords) /\ m \in MacroRecords
      BY <1>1, <1>3
    <3>3. u = Substitute(m, given, w)
      OBVIOUS
    <3> HIDE DEF u, w
    <3>4. Known(macros, w) \/ \E a \in 1 .. Len(m.args) : m.args[a].name = w
      BY ONLY <3>1, <3>2, <3>3, WordHands
    <3> QED
      BY <3>4 DEF w
  <2>4. CASE v[2] + 1 = i /\ Issued(macros, v) /\ c.params[p] = <<v[1]>>
    <3>1. Hands(macros, m, v[1])
      BY <1>6, <2>1, <2>3, <2>4 DEF Hands, c
    <3> QED
      BY <2>4, <3>1 DEF Handed, m
  <2> QED
    BY <2>2, <2>4
<1> QED
  BY <1>5, <1>10, <1>11, <1>12, <1>13, SourceFits
-----------------------------------------------------------------------------
(* PasmMacro: the lines of a definition                                    *)

(* A line of the body adds to the definition: a label, an argument, which  *)
(* is required only where all before it are, or itself.                    *)
LEMMA StoredIs ==
    ASSUME NEW m \in MacroRecords, NEW line \in MacroLines, MacroRight(m),
           NEW u, u = Stored(m, line)
    PROVE  /\ u \in MacroRecords /\ MacroRight(u)
           /\ u.name = m.name /\ u.Id = m.Id /\ u.Expands = m.Expands
           /\ u.InUse = IF line.op = "endm" THEN FALSE ELSE m.InUse
<1> DEFINE l == Labelled(m, line)
<1>1. /\ l \in MacroRecords /\ l.name = m.name /\ l.Id = m.Id /\ l.Expands = m.Expands
      /\ l.InUse = m.InUse /\ l.args = m.args /\ l.Required = m.Required
      /\ l.code = m.code
  <2> DEFINE x == Append(m.labels, line.label)
  <2>1. x \in Seq(MacroNames)
    BY MacroFields
  <2>2. l = m \/ l = [m EXCEPT !.labels = x]
    BY DEF Labelled
  <2> HIDE DEF x, l
  <2> QED
    BY <2>1, <2>2 DEF MacroRecords
<1> HIDE DEF l
<1>2. MacroRight(l)
  BY <1>1 DEF MacroRight
<1>3. CASE line.op = "mparam" /\ MacroAddArg(m, line.arg)
  <2> DEFINE a == line.arg
             x == Append(m.args, a)
             r == IF a.default = NoName THEN m.Required + 1 ELSE m.Required
             w == [l EXCEPT !.args = x]
  <2>1. a \in MacroArgs /\ m.args \in Seq(MacroArgs) /\ m.Required \in Nat
    BY <1>3, MacroFields DEF MacroArgs
  <2>2. u = [w EXCEPT !.Required = r]
    BY <1>1, <1>3 DEF Stored, WithArg, l
  <2> HIDE DEF a
  <2>3. /\ x \in Seq(MacroArgs) /\ Len(x) = Len(m.args) + 1 /\ x[Len(x)] = a
        /\ \A i \in 1 .. Len(m.args) : x[i] = m.args[i]
    BY <2>1
  <2>4. r \in Nat /\ (a.default = NoName => r = m.Required + 1)
        /\ (a.default # NoName => r = m.Required)
    BY <2>1
  <2> HIDE DEF x, r
  <2>5. w \in MacroRecords /\ w.name = m.name /\ w.Id = m.Id /\ w.Expands = m.Expands
        /\ w.InUse = m.InUse /\ w.args = x
    BY <1>1, <2>3 DEF MacroRecords
  <2> HIDE DEF w
  <2>6. /\ u \in MacroRecords /\ u.name = m.name /\ u.Id = m.Id /\ u.Expands = m.Expands
        /\ u.InUse = m.InUse /\ u.args = x /\ u.Required = r
    BY <2>2, <2>4, <2>5 DEF MacroRecords
  <2>7. a.default = NoName => Len(m.args) = m.Required
    BY <1>3 DEF MacroAddArg, a
  <2>8. /\ m.Required <= Len(m.args) /\ Len(m.args) \in Nat
        /\ \A i \in 1 .. Len(m.args) : m.args[i].default = NoName => i <= m.Required
    BY <2>1 DEF MacroRight
  <2>9. r <= Len(x)
    BY <2>1, <2>3, <2>4, <2>7, <2>8
  <2>10. ASSUME NEW i \in 1 .. Len(x), x[i].default = NoName
         PROVE  i <= r
    <3>1. CASE i = Len(x)
      BY <2>1, <2>3, <2>4, <2>7, <2>8, <2>10, <3>1
    <3>2. CASE i # Len(x)
      <4>1. i \in 1 .. Len(m.args) /\ m.args[i].default = NoName
        BY <2>3, <2>8, <2>10, <3>2
      <4>2. i <= m.Required /\ m.Required <= r
        BY <2>1, <2>4, <2>8, <4>1
      <4> QED
        BY <2>1, <2>4, <4>2
    <3> QED
      BY <3>1, <3>2
  <2>11. MacroRight(u)
    BY <2>6, <2>9, <2>10 DEF MacroRight
  <2> QED
    BY <1>3, <2>6, <2>11
<1>4. CASE line.op = "endm"
  <2>1. u = [l EXCEPT !.InUse = FALSE]
    BY <1>4 DEF Stored, l
  <2>2. /\ u \in MacroRecords /\ u.name = l.name /\ u.Id = l.Id /\ u.Expands = l.Expands
        /\ u.InUse = FALSE /\ u.args = l.args /\ u.Required = l.Required
    BY <1>1, <2>1 DEF MacroRecords
  <2>3. MacroRight(u)
    BY <1>2, <2>2 DEF MacroRight
  <2> QED
    BY <1>1, <1>4, <2>2, <2>3
<1>5. CASE line.op = "text" /\ Len(m.code) < MACRO_MAX_LINES
  <2> DEFINE x == Append(m.code, line)
  <2>1. u = [l EXCEPT !.code = x]
    BY <1>1, <1>5 DEF Stored, l
  <2>2. x \in Seq(MacroLines)
    BY MacroFields
  <2> HIDE DEF x
  <2>3. /\ u \in MacroRecords /\ u.name = l.name /\ u.Id = l.Id /\ u.Expands = l.Expands
        /\ u.InUse = l.InUse /\ u.args = l.args /\ u.Required = l.Required
    BY <1>1, <2>1, <2>2 DEF MacroRecords
  <2>4. MacroRight(u)
    BY <1>2, <2>3 DEF MacroRight
  <2> QED
    BY <1>1, <1>5, <2>3, <2>4
<1>6. CASE /\ ~(line.op = "mparam" /\ MacroAddArg(m, line.arg))
           /\ line.op # "endm"
           /\ ~(line.op = "text" /\ Len(m.code) < MACRO_MAX_LINES)
  <2>1. u = l
    BY <1>6 DEF Stored, l
  <2> QED
    BY <1>1, <1>2, <1>6, <2>1
<1> QED
  BY <1>3, <1>4, <1>5, <1>6

(* A macro that is defined or has a line added, none being expanded.       *)
LEMMA DefinitionFits ==
    ASSUME NEW ms, NEW hd, NEW md, MacrosFit(ms, hd, <<>>, md),
           NEW mt, NEW ht, Later(ms, mt), MacrosRight(mt, ht), ht \subseteq 1 .. Len(mt),
           \A i \in 1 .. Len(mt) : mt[i].InUse <=> i \in ht
    PROVE  MacrosFit(mt, ht, <<>>, md)
<1> DEFINE none == <<>>
<1>1. /\ ms \in Seq(MacroRecords) /\ none \in Seq(Activations) /\ md \in Seq(MacroValues)
      /\ mt \in Seq(MacroRecords) /\ Len(none) = 0
  BY DEF MacrosFit, Types, Later
<1> HIDE DEF none
<1>2. Behind(ms, mt, none, none) /\ ArgumentsRight(mt, none) /\ InUseRight(mt, ht, none)
  BY <1>1 DEF Behind, ArgumentsRight, InUseRight
<1>3. LabelsPlaced(mt, none, md) /\ LabelsDiffer(mt, md)
  BY <1>1, <1>2, LabelsStill DEF MacrosFit, none
<1>4. Types(mt, ht, none, md)
  BY <1>1 DEF Types, none
<1> QED
  BY <1>2, <1>3, <1>4 DEF MacrosFit, none

(* The files that are open: a macro is defined in one of them at most, and *)
(* not any more when it was left without its end.                          *)
FilesRight(fs, un) ==
    /\ fs \in Seq(Nat) /\ fs # <<>>
    /\ \A k, l \in 1 .. Len(fs) : fs[k] = fs[l] /\ fs[k] # 0 => k = l
    /\ \A k \in 1 .. Len(fs) : fs[k] # 0 => fs[k] \notin un

MacrosHeld == Held(files, unfinished)

(* The macro of the innermost file is another one, or none.                *)
LEMMA TopChanges ==
    ASSUME NEW fs, NEW un, FilesRight(fs, un), NEW n \in Nat,
           n \notin Held(fs, un)
    PROVE  LET ft == [fs EXCEPT ![Len(fs)] = n]
           IN  /\ FilesRight(ft, un)
               /\ Held(ft, un) = (Held(fs, un) \ {fs[Len(fs)]})
                                    \cup {i \in {n} : i # 0}
<1> DEFINE e == Len(fs)
           ft == [fs EXCEPT ![e] = n]
<1>1. fs \in Seq(Nat) /\ e \in 1 .. e
  BY DEF FilesRight
<1>2. /\ ft \in Seq(Nat) /\ Len(ft) = e /\ ft[e] = n
      /\ \A k \in 1 .. e : k # e => ft[k] = fs[k]
  BY <1>1
<1> HIDE DEF ft
<1>3. \A k \in 1 .. e : fs[k] # 0 => fs[k] \in Held(fs, un)
  BY <1>1 DEF Held
<1>4. n # 0 => \A k \in 1 .. e : fs[k] # n
  BY <1>3
<1>5. n # 0 => n \notin un
  BY DEF Held
<1>6. \A k, l \in 1 .. e : fs[k] = fs[l] /\ fs[k] # 0 => k = l
  BY DEF FilesRight
<1>7. \A k \in 1 .. e : fs[k] # 0 => fs[k] \notin un
  BY DEF FilesRight
<1>8. \A k, l \in 1 .. e : ft[k] = ft[l] /\ ft[k] # 0 => k = l
  <2> SUFFICES ASSUME NEW k \in 1 .. e, NEW l \in 1 .. e, ft[k] = ft[l], ft[k] # 0
               PROVE  k = l
    OBVIOUS
  <2>1. CASE k # e /\ l # e
    BY <1>2, <1>6, <2>1
  <2>2. CASE k = e \/ l = e
    BY <1>2, <1>4, <2>2
  <2> QED
    BY <2>1, <2>2
<1>9. \A k \in 1 .. e : ft[k] # 0 => ft[k] \notin un
  BY <1>2, <1>5, <1>7
<1>10. FilesRight(ft, un)
  BY <1>1, <1>2, <1>8, <1>9 DEF FilesRight
<1>11. ASSUME NEW i \in Nat \ {0}
       PROVE  i \in Held(ft, un) <=> i = n \/ (i # fs[e] /\ i \in Held(fs, un))
  <2>1. i \in Held(ft, un) <=> i \in un \/ \E k \in 1 .. e : ft[k] = i
    BY <1>2 DEF Held
  <2>2. i \in Held(fs, un) <=> i \in un \/ \E k \in 1 .. e : fs[k] = i
    BY DEF Held
  <2>3. (\E k \in 1 .. e : ft[k] = i) <=> i = n \/ \E k \in 1 .. e : k # e /\ fs[k] = i
    BY <1>1, <1>2
  <2>4. i = fs[e] => i \notin un /\ \A k \in 1 .. e : fs[k] = i => k = e
    BY <1>1, <1>6, <1>7
  <2> QED
    BY <2>1, <2>2, <2>3, <2>4
<1>12. Held(ft, un) \subseteq Nat \ {0} /\ Held(fs, un) \subseteq Nat \ {0}
  BY DEF Held
<1>13. Held(ft, un) = (Held(fs, un) \ {fs[e]}) \cup {i \in {n} : i # 0}
  <2>1. \A i : i \in Held(ft, un) => i \in (Held(fs, un) \ {fs[e]}) \cup {j \in {n} : j # 0}
    BY <1>11, <1>12
  <2>2. \A i : i \in (Held(fs, un) \ {fs[e]}) \cup {j \in {n} : j # 0} => i \in Held(ft, un)
    BY <1>11, <1>12
  <2> QED
    BY <2>1, <2>2
<1> QED
  BY <1>10, <1>13 DEF ft

(* #include opens a file in which no macro is defined yet.                 *)
LEMMA IncludeFits ==
    ASSUME IncludeFile, FilesRight(files, unfinished)
    PROVE  /\ FilesRight(files', unfinished')
           /\ Held(files', unfinished') = MacrosHeld
<1> DEFINE e == Len(files)
           ft == Append(files, 0)
<1>1. files \in Seq(Nat) /\ e \in 1 .. e /\ files' = ft /\ unfinished' = unfinished
  BY DEF FilesRight, IncludeFile
<1>2. /\ ft \in Seq(Nat) /\ Len(ft) = e + 1 /\ ft[e + 1] = 0 /\ ft # <<>>
      /\ \A k \in 1 .. e : ft[k] = files[k]
      /\ \A k \in 1 .. Len(ft) : k \in 1 .. e \/ k = e + 1
  BY <1>1
<1> HIDE DEF ft
<1>3. \A k, l \in 1 .. Len(ft) : ft[k] = ft[l] /\ ft[k] # 0 => k = l
  <2>1. \A k, l \in 1 .. e : files[k] = files[l] /\ files[k] # 0 => k = l
    BY DEF FilesRight
  <2> QED
    BY <1>2, <2>1
<1>4. \A k \in 1 .. Len(ft) : ft[k] # 0 => ft[k] \notin unfinished
  <2>1. \A k \in 1 .. e : files[k] # 0 => files[k] \notin unfinished
    BY DEF FilesRight
  <2> QED
    BY <1>2, <2>1
<1>5. \A i \in Nat \ {0} : (\E k \in 1 .. Len(ft) : ft[k] = i) <=> \E k \in 1 .. e : files[k] = i
  <2>1. \A k \in 1 .. e : k \in 1 .. Len(ft)
    BY <1>1, <1>2
  <2> QED
    BY <1>2, <2>1
<1>6. Held(ft, unfinished) = MacrosHeld
  BY <1>5 DEF Held, MacrosHeld
<1> QED
  BY <1>1, <1>2, <1>3, <1>4, <1>6 DEF FilesRight

(* The end of an included file leaves a macro that is still being defined  *)
(* without its end.                                                        *)
LEMMA CloseFits ==
    ASSUME CloseFile, FilesRight(files, unfinished)
    PROVE  /\ FilesRight(files', unfinished')
           /\ Held(files', unfinished') = MacrosHeld
<1> DEFINE e == Len(files)
           d == files[e]
           ft == SubSeq(files, 1, e - 1)
           ut == IF d = 0 THEN unfinished ELSE unfinished \cup {d}
<1>1. files \in Seq(Nat) /\ e \in Nat /\ e > 1 /\ files' = ft /\ unfinished' = ut
  BY DEF FilesRight, CloseFile, Defining
<1>2. ft \in Seq(Nat) /\ Len(ft) = e - 1 /\ \A k \in 1 .. e - 1 : ft[k] = files[k]
  <2>1. files # <<>> /\ files \in Seq(Nat)
    BY <1>1
  <2> QED
    BY <2>1, OneShorter, Zenon
<1> HIDE DEF ft
<1>3. ft # <<>>
  BY <1>1, <1>2
<1>4. \A k, l \in 1 .. e : files[k] = files[l] /\ files[k] # 0 => k = l
  BY DEF FilesRight
<1>5. \A k \in 1 .. e : files[k] # 0 => files[k] \notin unfinished
  BY DEF FilesRight
<1>6. \A k \in 1 .. e : k \in 1 .. e - 1 \/ k = e
  BY <1>1
<1>7. \A k \in 1 .. e - 1 : k \in 1 .. e /\ k # e
  BY <1>1
<1> HIDE DEF e
<1>8. \A k, l \in 1 .. Len(ft) : ft[k] = ft[l] /\ ft[k] # 0 => k = l
  BY <1>2, <1>4, <1>7
<1>9. e \in 1 .. e
  BY <1>1
<1>10. \A k \in 1 .. Len(ft) : ft[k] # 0 => ft[k] \notin ut
  BY <1>2, <1>4, <1>5, <1>7, <1>9
<1>11. d # 0 => d \in ut
  OBVIOUS
<1>12. \A i : i \in ut <=> i \in unfinished \/ (i = d /\ d # 0)
  OBVIOUS
<1>13. \A i \in Nat \ {0} : (i \in ut \/ \E k \in 1 .. Len(ft) : ft[k] = i)
                         <=> (i \in unfinished \/ \E k \in 1 .. e : files[k] = i)
  <2> SUFFICES ASSUME NEW i \in Nat \ {0}
               PROVE  (i \in ut \/ \E k \in 1 .. Len(ft) : ft[k] = i)
                          <=> (i \in unfinished \/ \E k \in 1 .. e : files[k] = i)
    OBVIOUS
  <2>1. (\E k \in 1 .. e : files[k] = i) <=> i = d \/ \E k \in 1 .. e - 1 : files[k] = i
    BY <1>6, <1>7, <1>9
  <2>2. (\E k \in 1 .. Len(ft) : ft[k] = i) <=> \E k \in 1 .. e - 1 : files[k] = i
    BY <1>2
  <2> HIDE DEF ut, d
  <2> QED
    BY <1>12, <2>1, <2>2
<1> HIDE DEF ut
<1>14. Held(ft, ut) = MacrosHeld
  BY <1>13 DEF Held, MacrosHeld, e
<1> QED
  BY <1>1, <1>2, <1>3, <1>8, <1>10, <1>14 DEF FilesRight

(* The first line of a definition.                                         *)
LEMMA EnterFits ==
    ASSUME NEW n \in MacroWords, MacroEnter(n), expanding = <<>>, Defining = 0,
           FilesRight(files, unfinished),
           MacrosFit(macros, MacrosHeld, expanding, made)
    PROVE  /\ MacrosFit(macros', Held(files', unfinished'), expanding', made')
           /\ FilesRight(files', unfinished')
<1>1. CASE ~NameFree(n)
  BY <1>1 DEF MacroEnter, NothingExpands, MacrosHeld
<1>2. CASE NameFree(n)
  <2> DEFINE u == [name |-> n, Id |-> Len(macros), InUse |-> TRUE, args |-> <<>>,
                   Required |-> 0, labels |-> <<>>, code |-> <<>>, Expands |-> 0]
             mt == Append(macros, u)
             c == Len(macros) + 1
             ht == MacrosHeld \cup {c}
  <2>1. /\ macros' = mt /\ expanding' = <<>> /\ made' = made
        /\ files' = [files EXCEPT ![Len(files)] = c] /\ unfinished' = unfinished
    BY <1>2 DEF MacroEnter, NothingExpands
  <2>2. macros \in Seq(MacroRecords) /\ Len(macros) \in Nat /\ MacrosHeld \subseteq 1 .. Len(macros)
    BY DEF MacrosFit, Types
  <2>3. u \in MacroRecords /\ u.Id = Len(macros) /\ u.InUse /\ u.Expands = 0 /\ MacroRight(u)
    <3>1. u \in MacroRecords
      BY <2>2 DEF MacroRecords
    <3>2. MacroRight(u)
      BY DEF MacroRight
    <3> QED
      BY <3>1, <3>2
  <2> HIDE DEF u
  <2>4. /\ mt \in Seq(MacroRecords) /\ Len(mt) = c /\ mt[c] = u
        /\ \A i \in 1 .. Len(macros) : mt[i] = macros[i]
        /\ \A i \in 1 .. Len(mt) : i \in 1 .. Len(macros) \/ i = c
    BY <2>2, <2>3
  <2>5. \A i \in 1 .. Len(macros) : macros[i].Expands \in Nat /\ macros[i].InUse \in BOOLEAN
    BY <2>2, MacroFields
  <2>6. c \in Nat /\ c # 0 /\ c \notin MacrosHeld /\ c \in 1 .. c /\ Len(macros) = c - 1
    BY <2>2
  <2>7. FilesRight(files', unfinished') /\ Held(files', unfinished') = ht
    <3>1. LET ft == [files EXCEPT ![Len(files)] = c]
          IN  /\ FilesRight(ft, unfinished)
              /\ Held(ft, unfinished) = (MacrosHeld \ {Defining}) \cup {i \in {c} : i # 0}
      BY <2>6, TopChanges DEF MacrosHeld, Defining
    <3>2. MacrosHeld \ {Defining} = MacrosHeld
      BY DEF MacrosHeld, Held
    <3>3. {i \in {c} : i # 0} = {c}
      BY <2>6
    <3> HIDE DEF c
    <3> QED
      BY <2>1, <3>1, <3>2, <3>3
  <2> HIDE DEF mt, c
  <2>8. Later(macros, mt)
    BY <2>2, <2>4, <2>5, <2>6 DEF Later
  <2>9. MacrosRight(mt, ht)
    <3>1. \A i \in 1 .. Len(macros) : macros[i].Id = i - 1 /\ MacroRight(macros[i])
      BY DEF MacrosFit, MacrosRight
    <3>2. \A i \in MacrosHeld : macros[i].Expands = 0
      BY DEF MacrosFit, MacrosRight
    <3>3. \A i \in ht : mt[i].Expands = 0
      BY <2>2, <2>3, <2>4, <3>2
    <3>4. \A i \in 1 .. Len(mt) : mt[i].Id = i - 1 /\ MacroRight(mt[i])
      BY <2>3, <2>4, <2>6, <3>1
    <3> QED
      BY <3>3, <3>4 DEF MacrosRight
  <2>10. \A i \in 1 .. Len(mt) : mt[i].InUse <=> i \in ht
    <3>1. \A i \in 1 .. Len(macros) : macros[i].InUse <=> i \in MacrosHeld
      BY <2>5 DEF MacrosFit, InUseRight
    <3>2. \A i \in 1 .. Len(macros) : i # c
      BY <2>6
    <3>3. \A i \in 1 .. Len(macros) : mt[i].InUse <=> i \in ht
      BY <2>4, <3>1, <3>2
    <3>4. mt[c].InUse /\ c \in ht
      BY <2>3, <2>4
    <3> QED
      BY <2>4, <3>3, <3>4
  <2>11. ht \subseteq 1 .. Len(mt)
    <3>1. 1 .. c - 1 \subseteq 1 .. c
      BY <2>6
    <3> QED
      BY <2>2, <2>4, <2>6, <3>1
  <2>12. MacrosFit(mt, ht, <<>>, made)
    BY <2>8, <2>9, <2>10, <2>11, DefinitionFits
  <2> QED
    BY <2>1, <2>7, <2>12
<1> QED
  BY <1>1, <1>2

(* Another line of a definition.                                           *)
LEMMA BodyLineFits ==
    ASSUME NEW line \in MacroLines, BodyLine(line), expanding = <<>>, Defining # 0,
           FilesRight(files, unfinished),
           MacrosFit(macros, MacrosHeld, expanding, made)
    PROVE  /\ MacrosFit(macros', Held(files', unfinished'), expanding', made')
           /\ FilesRight(files', unfinished')
<1> DEFINE d == Defining
           m == macros[d]
           u == Stored(m, line)
           mt == [macros EXCEPT ![d] = u]
           ht == IF line.op = "endm" THEN MacrosHeld \ {d} ELSE MacrosHeld
<1>1. /\ macros' = mt /\ expanding' = <<>> /\ made' = made /\ unfinished' = unfinished
      /\ files' = IF line.op = "endm" THEN [files EXCEPT ![Len(files)] = 0] ELSE files
  BY DEF BodyLine, NothingExpands
<1>2. /\ macros \in Seq(MacroRecords) /\ d \in MacrosHeld /\ d \in 1 .. Len(macros)
      /\ Len(macros) \in Nat /\ MacrosHeld \subseteq 1 .. Len(macros)
  <2>1. macros \in Seq(MacroRecords) /\ MacrosHeld \subseteq 1 .. Len(macros)
    BY DEF MacrosFit, Types
  <2>2. files \in Seq(Nat) /\ Len(files) \in 1 .. Len(files)
    BY DEF FilesRight
  <2>3. d \in Nat \ {0} /\ d = files[Len(files)]
    BY <2>2 DEF Defining
  <2>4. d \in MacrosHeld
    BY <2>2, <2>3 DEF MacrosHeld, Held
  <2> QED
    BY <2>1, <2>4
<1>3. m \in MacroRecords /\ MacroRight(m) /\ m.Id = d - 1 /\ m.Expands = 0
  BY <1>2 DEF MacrosFit, MacrosRight
<1>4. /\ u \in MacroRecords /\ MacroRight(u)
      /\ u.name = m.name /\ u.Id = m.Id /\ u.Expands = m.Expands
      /\ u.InUse = IF line.op = "endm" THEN FALSE ELSE m.InUse
  BY <1>3, StoredIs
<1>5. Held(files', unfinished') = ht /\ FilesRight(files', unfinished')
  <2>1. CASE line.op # "endm"
    BY <1>1, <2>1 DEF MacrosHeld
  <2>2. CASE line.op = "endm"
    <3>1. 0 \notin MacrosHeld
      BY <1>2
    <3>2. LET ft == [files EXCEPT ![Len(files)] = 0]
          IN  /\ FilesRight(ft, unfinished)
              /\ Held(ft, unfinished) = (MacrosHeld \ {Defining}) \cup {i \in {0} : i # 0}
      BY <3>1, TopChanges DEF MacrosHeld, Defining
    <3>3. {i \in {0} : i # 0} = {}
      OBVIOUS
    <3> QED
      BY <1>1, <2>2, <3>2, <3>3
  <2> QED
    BY <2>1, <2>2
<1> HIDE DEF u, d
<1>6. /\ mt \in Seq(MacroRecords) /\ Len(mt) = Len(macros) /\ mt[d] = u
      /\ \A i \in 1 .. Len(macros) : i # d => mt[i] = macros[i]
  BY <1>2, <1>4
<1>7. \A i \in 1 .. Len(macros) : macros[i].Expands \in Nat /\ macros[i].InUse \in BOOLEAN
  BY <1>2, MacroFields
<1> HIDE DEF mt
<1>8. Later(macros, mt)
  BY <1>2, <1>3, <1>4, <1>6, <1>7 DEF Later
<1>9. MacrosRight(mt, ht)
  <2>1. \A i \in 1 .. Len(macros) : macros[i].Id = i - 1 /\ MacroRight(macros[i])
    BY DEF MacrosFit, MacrosRight
  <2>2. \A i \in MacrosHeld : macros[i].Expands = 0
    BY DEF MacrosFit, MacrosRight
  <2>3. \A i \in MacrosHeld : mt[i].Expands = 0
    BY <1>2, <1>3, <1>4, <1>6, <2>2
  <2>4. ht \subseteq MacrosHeld
    OBVIOUS
  <2>5. \A i \in 1 .. Len(mt) : mt[i].Id = i - 1 /\ MacroRight(mt[i])
    BY <1>2, <1>3, <1>4, <1>6, <2>1
  <2> HIDE DEF ht
  <2> QED
    BY <2>3, <2>4, <2>5 DEF MacrosRight
<1>10. \A i \in 1 .. Len(mt) : mt[i].InUse <=> i \in ht
  <2>1. \A i \in 1 .. Len(macros) : macros[i].InUse <=> i \in MacrosHeld
    BY <1>7 DEF MacrosFit, InUseRight
  <2>2. mt[d].InUse <=> d \in ht
    BY <1>2, <1>4, <1>6, <2>1
  <2>3. \A i \in 1 .. Len(macros) : i # d => (mt[i].InUse <=> i \in ht)
    BY <1>6, <2>1
  <2> QED
    BY <1>6, <2>2, <2>3
<1>11. ht \subseteq 1 .. Len(mt)
  BY <1>2, <1>6
<1> HIDE DEF ht
<1>12. MacrosFit(mt, ht, <<>>, made)
  BY <1>8, <1>9, <1>10, <1>11, DefinitionFits
<1> QED
  BY <1>1, <1>5, <1>12
-----------------------------------------------------------------------------
(* PasmMacro: the invariant, and the theorems                              *)

MacroInv ==
    /\ MacrosFit(macros, MacrosHeld, expanding, made)
    /\ FilesRight(files, unfinished)
    /\ expanding # <<>> => Defining = 0
    /\ mText \in Seq(MacroLines) /\ mPos \in Nat
    /\ mPass = 2 => mPos <= Len(mText)

(* No macro at all.                                                        *)
LEMMA NoMacrosFit ==
    /\ MacrosFit(<<>>, Held(<<0>>, {}), <<>>, <<>>)
    /\ FilesRight(<<0>>, {})
<1> DEFINE none == <<>>
           one == <<0>>
<1>1. /\ none \in Seq(MacroRecords) /\ none \in Seq(Activations)
      /\ none \in Seq(MacroValues) /\ Len(none) = 0
  OBVIOUS
<1>2. one \in Seq(Nat) /\ Len(one) = 1 /\ one[1] = 0 /\ one # <<>>
  OBVIOUS
<1> HIDE DEF none, one
<1>3. FilesRight(one, {})
  BY <1>2 DEF FilesRight
<1>4. Held(one, {}) = {}
  BY <1>2 DEF Held
<1>5. MacrosFit(none, {}, none, none)
  BY <1>1 DEF MacrosFit, Types, InUseRight, MacrosRight, ArgumentsRight,
              LabelsPlaced, LabelsDiffer, none
<1> QED
  BY <1>3, <1>4, <1>5 DEF none, one

(* A line of the text, in either pass.                                     *)
LEMMA ProcessFits ==
    ASSUME NEW line \in MacroLines, Process(line), expanding = <<>>,
           FilesRight(files, unfinished),
           MacrosFit(macros, MacrosHeld, expanding, made)
    PROVE  /\ MacrosFit(macros', Held(files', unfinished'), expanding', made')
           /\ FilesRight(files', unfinished')
           /\ expanding' # <<>> => files'[Len(files')] = 0
<1>1. CASE line.op = "include"
  <2>1. IncludeFile
    BY <1>1 DEF Process
  <2>2. macros' = macros /\ expanding' = <<>> /\ made' = made
    BY <2>1 DEF IncludeFile, NothingExpands
  <2> QED
    BY <2>1, <2>2, IncludeFits
<1>2. CASE line.op = "eof"
  <2>1. CloseFile
    BY <1>2 DEF Process
  <2>2. macros' = macros /\ expanding' = <<>> /\ made' = made
    BY <2>1 DEF CloseFile, NothingExpands
  <2> QED
    BY <2>1, <2>2, CloseFits
<1>3. CASE Defining # 0 /\ line.op \notin {"include", "eof"}
  <2>1. BodyLine(line)
    BY <1>3 DEF Process
  <2>2. expanding' = <<>>
    BY <2>1 DEF BodyLine, NothingExpands
  <2> QED
    BY <1>3, <2>1, <2>2, BodyLineFits
<1>4. CASE Defining = 0 /\ line.op = "macro"
  <2>1. MacroEnter(line.word)
    BY <1>4 DEF Process
  <2>2. line.word \in MacroWords
    BY <1>4 DEF MacroWords
  <2>3. expanding' = <<>>
    BY <2>1 DEF MacroEnter, NothingExpands
  <2> QED
    BY <1>4, <2>1, <2>2, <2>3, EnterFits
<1>5. CASE Defining = 0 /\ line.op = "text"
  <2>1. ProcessSourceLine(line, <<>>)
    BY <1>5 DEF Process
  <2>2. /\ line.label \in MacroNames /\ line.params \in Seq(MacroNames)
        /\ line.params \in Seq(MacroValues)
    <3>1. MacroNames \subseteq MacroValues
      BY DEF MacroValues
    <3> QED
      BY <3>1, MacroFields
  <2>3. MacrosFit(macros, MacrosHeld, <<>>, made)
    OBVIOUS
  <2>4. MacrosFit(macros, MacrosHeld, <<>>, Append(made, line.label))
    BY <2>2, <2>3, PlainLabelFits
  <2>5. \A p \in 1 .. Len(line.params) : Len(line.params[p]) # 3
    BY <2>2, NamesAre
  <2>6. /\ MacrosFit(macros', MacrosHeld, expanding', made')
        /\ files' = files /\ unfinished' = unfinished
    BY <2>1, <2>2, <2>3, <2>4, <2>5, SourceFits
  <2> QED
    BY <1>5, <2>6 DEF MacrosHeld, Defining
<1>6. CASE Defining = 0 /\ line.op \notin {"include", "eof", "macro", "text"}
  <2>1. /\ macros' = macros /\ expanding' = <<>> /\ made' = made
        /\ files' = files /\ unfinished' = unfinished
    BY <1>6 DEF Process, NothingExpands
  <2> QED
    BY <2>1 DEF MacrosHeld
<1> QED
  BY <1>1, <1>2, <1>3, <1>4, <1>5, <1>6

(* Definitions, expansions and labels stay right in every step of the two  *)
(* passes: MacroInv is inductive.                                          *)
THEOREM MacroInvariant == MacroSpec => []MacroInv
<1>1. MacroInit => MacroInv
  BY NoMacrosFit DEF MacroInit, MacroInv, MacrosHeld
<1>2. MacroInv /\ [MacroNext]_macroVars => MacroInv'
  <2> SUFFICES ASSUME MacroInv, [MacroNext]_macroVars
               PROVE  /\ MacrosFit(macros', Held(files', unfinished'), expanding', made')
                      /\ FilesRight(files', unfinished')
                      /\ expanding' # <<>> => files'[Len(files')] = 0
                      /\ mText' \in Seq(MacroLines) /\ mPos' \in Nat
                      /\ mPass' = 2 => mPos' <= Len(mText')
    BY DEF MacroInv, MacrosHeld, Defining
  <2>1. /\ MacrosFit(macros, MacrosHeld, expanding, made)
        /\ FilesRight(files, unfinished)
        /\ expanding # <<>> => files[Len(files)] = 0
        /\ mText \in Seq(MacroLines) /\ mPos \in Nat /\ Len(mText) \in Nat
        /\ mPass = 2 => mPos <= Len(mText)
    BY DEF MacroInv, Defining
  <2>2. ASSUME NEW line \in MacroLines, Process(line), expanding = <<>>
        PROVE  /\ MacrosFit(macros', Held(files', unfinished'), expanding', made')
               /\ FilesRight(files', unfinished')
               /\ expanding' # <<>> => files'[Len(files')] = 0
    BY <2>1, <2>2, ProcessFits
  <2>3. CASE \E line \in MacroLines : ReadFirst(line)
    <3>1. PICK line \in MacroLines : ReadFirst(line)
      BY <2>3
    <3>2. /\ Process(line) /\ expanding = <<>> /\ mPos' = mPos + 1 /\ mPass' = 1
          /\ mText' = Append(mText, line) \/ mText' = <<>>
      BY <3>1 DEF ReadFirst, MayRead
    <3>3. mText' \in Seq(MacroLines)
      <4>1. Append(mText, line) \in Seq(MacroLines) /\ <<>> \in Seq(MacroLines)
        BY <2>1
      <4> QED
        BY <3>2, <4>1, Zenon
    <3> QED
      BY <2>1, <2>2, <3>2, <3>3
  <2>4. CASE ReadAgain
    <3>1. /\ mPass = 2 /\ mPass' = mPass /\ mText' = mText /\ expanding = <<>>
          /\ mPos < Len(mText) /\ Process(mText[mPos + 1])
          /\ mPos' = LastOfFile(mText, mPos + 1) \/ mPos' = mPos + 1
      BY <2>4 DEF ReadAgain, MayRead
    <3>2. mPos + 1 \in 1 .. Len(mText) /\ mText[mPos + 1] \in MacroLines
      BY <2>1, <3>1
    <3>3. LastOfFile(mText, mPos + 1) \in mPos + 1 .. Len(mText)
      BY <2>1, <3>2, LastIs
    <3>4. mPos' \in Nat /\ mPos' <= Len(mText)
      BY <2>1, <3>1, <3>2, <3>3
    <3>5. /\ MacrosFit(macros', Held(files', unfinished'), expanding', made')
          /\ FilesRight(files', unfinished')
          /\ expanding' # <<>> => files'[Len(files')] = 0
      BY <2>2, <3>1, <3>2
    <3> QED
      BY <2>1, <3>1, <3>4, <3>5
  <2>5. CASE ExpandLine
    <3>1. expanding # <<>> /\ mPass' = mPass /\ mText' = mText /\ mPos' = mPos
      BY <2>5 DEF ExpandLine
    <3>2. /\ MacrosFit(macros', MacrosHeld, expanding', made')
          /\ files' = files /\ unfinished' = unfinished
      BY <2>1, <2>5, ExpandFits
    <3> QED
      BY <2>1, <3>1, <3>2 DEF MacrosHeld
  <2>6. CASE ExpansionReturns
    <3>1. /\ expanding # <<>> /\ mPass' = mPass /\ mText' = mText /\ made' = made
          /\ files' = files /\ unfinished' = unfinished
          /\ macros' = [macros EXCEPT ![expanding[Len(expanding)].macro].InUse = FALSE]
          /\ expanding' = SubSeq(expanding, 1, Len(expanding) - 1)
          /\ mPos' = mPos \/ (mPass = 2 /\ mPos' = LastOfFile(mText, mPos))
      BY <2>6 DEF ExpansionReturns, Inner
    <3>2. MacrosFit(macros', MacrosHeld, expanding', made')
      BY <2>1, <3>1, ReturnFits
    <3>3. mPos' \in Nat /\ (mPass = 2 => mPos' <= Len(mText))
      <4>1. mPass = 2 => LastOfFile(mText, mPos) \in mPos .. Len(mText)
        BY <2>1, LastIs
      <4> QED
        BY <2>1, <3>1, <4>1
    <3> QED
      BY <2>1, <3>1, <3>2, <3>3 DEF MacrosHeld
  <2>7. CASE MissingEndm
    <3>1. /\ macros' = macros /\ files' = files /\ unfinished' = unfinished
          /\ expanding' = expanding /\ made' = made /\ mText' = mText
          /\ mPos' = mPos /\ mPass' = 3
      BY <2>7 DEF MissingEndm, NothingExpands
    <3> QED
      BY <2>1, <3>1 DEF MacrosHeld
  <2>8. CASE MacroNextPass
    <3>1. /\ files' = <<0>> /\ unfinished' = {} /\ macros' = <<>> /\ made' = <<>>
          /\ expanding' = <<>> /\ mText' = mText /\ mPos' = 0
      BY <2>8 DEF MacroNextPass
    <3> QED
      BY <2>1, <3>1, NoMacrosFit
  <2>9. CASE UNCHANGED macroVars
    BY <2>1, <2>9 DEF macroVars, MacrosHeld
  <2> QED
    BY <2>3, <2>4, <2>5, <2>6, <2>7, <2>8, <2>9 DEF MacroNext
<1> QED
  BY <1>1, <1>2, PTL DEF MacroSpec

(* A macro is marked in use exactly while it is defined or expanded, or    *)
(* after a definition without its end, and none is expanded inside its own *)
(* expansion.                                                              *)
THEOREM InUseRightly == MacroSpec => []InUseWhileExpanding
<1>1. ASSUME MacroInv, NEW i \in 1 .. Len(macros)
      PROVE  macros[i].InUse <=>
                 \/ i \in unfinished
                 \/ \E k \in 1 .. Len(files) : files[k] = i
                 \/ \E j \in 1 .. Len(expanding) : expanding[j].macro = i
  <2>1. macros[i].InUse <=>
            i \in MacrosHeld \/ \E j \in 1 .. Len(expanding) : expanding[j].macro = i
    BY <1>1 DEF MacroInv, MacrosFit, InUseRight
  <2>2. i \in MacrosHeld <=>
            i \in unfinished \/ \E k \in 1 .. Len(files) : files[k] = i
    <3>1. i \in Nat \ {0}
      OBVIOUS
    <3> QED
      BY <3>1 DEF MacrosHeld, Held
  <2> QED
    BY <2>1, <2>2
<1>2. MacroInv => \A i, j \in 1 .. Len(expanding) :
                     expanding[i].macro = expanding[j].macro => i = j
  BY DEF MacroInv, MacrosFit, InUseRight
<1>3. MacroInv => InUseWhileExpanding
  BY <1>1, <1>2 DEF InUseWhileExpanding
<1> QED
  BY <1>3, MacroInvariant, PTL

(* ProcessMacro finds a value for every argument of the macro.             *)
THEOREM ArgumentsFound == MacroSpec => []MissingArgumentsHaveDefaults
<1>1. ASSUME MacroInv, NEW j \in 1 .. Len(expanding)
      PROVE  \A a \in Len(expanding[j].params) + 1 .. Len(macros[expanding[j].macro].args) :
                macros[expanding[j].macro].args[a].default # NoName
  <2> DEFINE i == expanding[j].macro
             m == macros[i]
             given == expanding[j].params
  <2>1. /\ macros \in Seq(MacroRecords) /\ expanding \in Seq(Activations)
        /\ i \in 1 .. Len(macros)
    BY <1>1 DEF MacroInv, MacrosFit, Types
  <2>2. MacroRight(m) /\ m.Required <= Len(given)
    BY <1>1, <2>1 DEF MacroInv, MacrosFit, MacrosRight, ArgumentsRight
  <2>3. m.Required \in Nat /\ Len(m.args) \in Nat /\ Len(given) \in Nat
    BY <2>1, MacroFields
  <2> HIDE DEF m, given
  <2>4. \A a \in Len(given) + 1 .. Len(m.args) : m.args[a].default # NoName
    BY <2>2, <2>3 DEF MacroRight
  <2> QED
    BY <2>4 DEF m, given
<1>2. MacroInv => MissingArgumentsHaveDefaults
  BY <1>1 DEF MissingArgumentsHaveDefaults
<1> QED
  BY <1>2, MacroInvariant, PTL

(* Every expansion makes labels of its own.                                *)
THEOREM LabelsOfTheirOwn == MacroSpec => []LocalLabelsDiffer
<1>1. \A n : Known(macros, n) <=> CheckMacro(n)
  BY DEF Known, CheckMacro, MacroFind
<1>2. \A m, x : Hands(macros, m, x) <=> PassedOn(m, x)
  BY <1>1 DEF Hands, PassedOn
<1>3. MacroInv => LabelsDiffer(macros, made)
  BY DEF MacroInv, MacrosFit
<1>4. LabelsDiffer(macros, made) => LocalLabelsDiffer
  BY <1>2 DEF LabelsDiffer, LocalLabelsDiffer, Twice
<1> QED
  BY <1>3, <1>4, MacroInvariant, PTL
-----------------------------------------------------------------------------
(* PasmMacro: pass 2 does again what pass 1 did                            *)

Now == [pos |-> mPos, macros |-> macros, files |-> files,
        expanding |-> expanding, made |-> made]
Start == [pos |-> 0, macros |-> <<>>, files |-> <<0>>, expanding |-> <<>>, made |-> <<>>]

(* What follows when there is no error: for a source line, for a line of   *)
(* the text, and for an expansion.                                         *)
Named(ms, n) == {i \in 1 .. Len(ms) : ms[i].name = n}
AfterSource(p, ms, fs, md, line, stack) ==
    LET i == CHOOSE h \in Named(ms, line.word) : TRUE
        isUse == line.word # NoName /\ Named(ms, line.word) # {}
    IN  [pos |-> p,
         macros |-> IF isUse THEN [ms EXCEPT ![i].InUse = TRUE, ![i].Expands = @ + 1] ELSE ms,
         files |-> fs,
         expanding |-> IF isUse THEN Append(stack, [macro |-> i, cidx |-> 1,
                                                    params |-> line.params])
                       ELSE stack,
         made |-> IF line.label = NoName THEN md ELSE Append(md, line.label)]

AfterLine(s, line) ==
    LET top == s.files[Len(s.files)]
        Next(ms, fs) == [pos |-> s.pos + 1, macros |-> ms, files |-> fs,
                         expanding |-> s.expanding, made |-> s.made]
    IN  IF line.op = "include" THEN Next(s.macros, Append(s.files, 0))
        ELSE IF line.op = "eof"
        THEN Next(s.macros, SubSeq(s.files, 1, Len(s.files) - 1))
        ELSE IF top # 0
        THEN Next([s.macros EXCEPT ![top] = Stored(s.macros[top], line)],
                  IF line.op = "endm" THEN [s.files EXCEPT ![Len(s.files)] = 0]
                  ELSE s.files)
        ELSE CASE line.op = "macro" ->
                     Next(Append(s.macros,
                             [name |-> line.word, Id |-> Len(s.macros), InUse |-> TRUE,
                              args |-> <<>>, Required |-> 0, labels |-> <<>>,
                              code |-> <<>>, Expands |-> 0]),
                          [s.files EXCEPT ![Len(s.files)] = Len(s.macros) + 1])
               [] line.op = "text" ->
                     AfterSource(s.pos + 1, s.macros, s.files, s.made, line, <<>>)
               [] OTHER -> Next(s.macros, s.files)

AfterExpansion(s) ==
    LET e == s.expanding[Len(s.expanding)]
        m == s.macros[e.macro]
    IN  IF e.cidx <= Len(m.code)
        THEN AfterSource(s.pos, s.macros, s.files, s.made,
                         Expanded(m, e.params, m.code[e.cidx]), Advanced(s.expanding))
        ELSE [pos |-> s.pos, macros |-> [s.macros EXCEPT ![e.macro].InUse = FALSE],
              files |-> s.files,
              expanding |-> SubSeq(s.expanding, 1, Len(s.expanding) - 1),
              made |-> s.made]

After(s, text) ==
    IF s.expanding # <<>> THEN AfterExpansion(s) ELSE AfterLine(s, text[s.pos + 1])

(* past: the first n steps through the text.                               *)
Run(past, n, text) ==
    /\ past[0] = Start
    /\ \A k \in 0 .. n - 1 :
          /\ past[k + 1] = After(past[k], text)
          /\ past[k].expanding = <<>> => past[k].pos \in 0 .. Len(text) - 1
Ended(s, text) == s.expanding = <<>> /\ s.pos = Len(text)
AllMade(past, n, known) ==
    \A k \in 0 .. n : \A i \in 1 .. Len(past[k].made) : past[k].made[i] \in known

(* A step without an error does what follows, and its label is known.      *)
Replays(after) ==
    mErrors' = 0 => /\ Now' = after /\ mLabels \subseteq mLabels'
                    /\ mPass = 1 =>
                          made' = made \/ \E x \in mLabels' : made' = Append(made, x)

(* A source line.                                                          *)
LEMMA SourceReplays ==
    ASSUME NEW line, NEW stack, ProcessSourceLine(line, stack),
           mPass \in {1, 2}, mErrors = 0
    PROVE  Replays(AfterSource(mPos', macros, files, made, line, stack))
<1> DEFINE i == TheMacro(line.word)
           isUse == line.word # NoName /\ CheckMacro(line.word)
           lab == IF LabelNew(line) THEN mLabels \cup {line.label} ELSE mLabels
           ok == TextLineOK(line, lab)
           after == AfterSource(mPos', macros, files, made, line, stack)
<1>1. /\ mLabels' = lab
      /\ made' = IF line.label = NoName THEN made ELSE Append(made, line.label)
      /\ files' = files
      /\ ok => mErrors' = 0 + LabelErrors(line)
      /\ ~ok => mErrors' = 0 + (LabelErrors(line) + 1)
      /\ IF isUse /\ ok
         THEN /\ macros' = [macros EXCEPT ![i].InUse = TRUE, ![i].Expands = @ + 1]
              /\ expanding' = Append(stack, [macro |-> i, cidx |-> 1, params |-> line.params])
         ELSE expanding' = stack /\ macros' = macros
  BY DEF ProcessSourceLine, CountError
<1>2. LabelErrors(line) \in {0, 1}
  BY DEF LabelErrors
<1>3. after =
        [pos |-> mPos',
         macros |-> IF isUse THEN [macros EXCEPT ![i].InUse = TRUE, ![i].Expands = @ + 1]
                    ELSE macros,
         files |-> files,
         expanding |-> IF isUse THEN Append(stack, [macro |-> i, cidx |-> 1,
                                                    params |-> line.params])
                       ELSE stack,
         made |-> IF line.label = NoName THEN made ELSE Append(made, line.label)]
  BY Zenon DEF AfterSource, Named, MacroFind, TheMacro, CheckMacro
<1>4. mLabels \subseteq lab
  OBVIOUS
<1>5. LabelErrors(line) = 0 /\ mPass = 1 => line.label = NoName \/ line.label \in lab
  BY DEF LabelErrors, LabelNew
<1> HIDE DEF i, isUse, lab, ok, after
<1>6. mErrors' = 0 => ok /\ LabelErrors(line) = 0
  BY <1>1, <1>2
<1>7. ok => Now' = after
  BY <1>1, <1>3 DEF Now
<1>8. mErrors' = 0 /\ mPass = 1 => made' = made \/ \E x \in mLabels' : made' = Append(made, x)
  BY <1>1, <1>5, <1>6
<1>9. Replays(after)
  BY <1>1, <1>4, <1>6, <1>7, <1>8 DEF Replays
<1> QED
  BY <1>9 DEF after

(* A line of the text.                                                     *)
LEMMA LineReplays ==
    ASSUME NEW line, Process(line), expanding = <<>>,
           mErrors' = 0 => mPos' = mPos + 1,
           mPass \in {1, 2}, mErrors = 0
    PROVE  Replays(AfterLine(Now, line))
<1> SUFFICES ASSUME mErrors' = 0 PROVE Replays(AfterLine(Now, line))
  BY DEF Replays
<1> DEFINE after == AfterLine(Now, line)
           top == files[Len(files)]
           Next(ms, fs) == [pos |-> mPos + 1, macros |-> ms, files |-> fs,
                            expanding |-> expanding, made |-> made]
<1>1. /\ Now.pos = mPos /\ Now.macros = macros /\ Now.files = files
      /\ Now.expanding = expanding /\ Now.made = made /\ Defining = top
  BY DEF Now, Defining
<1>2. after = IF line.op = "include" THEN Next(macros, Append(files, 0))
              ELSE IF line.op = "eof" THEN Next(macros, SubSeq(files, 1, Len(files) - 1))
              ELSE IF top # 0
              THEN Next([macros EXCEPT ![top] = Stored(macros[top], line)],
                        IF line.op = "endm" THEN [files EXCEPT ![Len(files)] = 0]
                        ELSE files)
              ELSE CASE line.op = "macro" ->
                        Next(Append(macros,
                             [name |-> line.word, Id |-> Len(macros), InUse |-> TRUE,
                              args |-> <<>>, Required |-> 0, labels |-> <<>>,
                              code |-> <<>>, Expands |-> 0]),
                             [files EXCEPT ![Len(files)] = Len(macros) + 1])
                     [] line.op = "text" ->
                        AfterSource(mPos + 1, macros, files, made, line, <<>>)
                     [] OTHER -> Next(macros, files)
  BY <1>1, Zenon DEF AfterLine
<1>3. ASSUME mLabels' = mLabels, made' = made, Now' = after
      PROVE  Replays(after)
  BY <1>3 DEF Replays
<1>4. ASSUME NEW ms, NEW fs, macros' = ms, files' = fs, expanding' = expanding, made' = made
      PROVE  Now' = Next(ms, fs)
  BY <1>4 DEF Now
<1> HIDE DEF after
<1>5. CASE line.op = "include"
  <2>1. /\ mLabels' = mLabels /\ made' = made /\ expanding' = expanding
        /\ macros' = macros /\ files' = Append(files, 0)
    BY <1>5 DEF Process, IncludeFile, NothingExpands
  <2>2. after = Next(macros, Append(files, 0))
    BY <1>2, <1>5
  <2>3. Now' = after
    BY <1>4, <2>1, <2>2
  <2> QED
    BY <1>3, <2>1, <2>3 DEF after
<1>6. CASE line.op = "eof"
  <2>1. /\ mLabels' = mLabels /\ made' = made /\ expanding' = expanding
        /\ macros' = macros /\ files' = SubSeq(files, 1, Len(files) - 1)
    BY <1>6 DEF Process, CloseFile, NothingExpands
  <2>2. after = Next(macros, SubSeq(files, 1, Len(files) - 1))
    BY <1>2, <1>6
  <2>3. Now' = after
    BY <1>4, <2>1, <2>2
  <2> QED
    BY <1>3, <2>1, <2>3 DEF after
<1>7. CASE top # 0 /\ line.op \notin {"include", "eof"}
  <2>1. BodyLine(line)
    BY <1>1, <1>7 DEF Process
  <2> DEFINE ms == [macros EXCEPT ![top] = Stored(macros[top], line)]
             fs == IF line.op = "endm" THEN [files EXCEPT ![Len(files)] = 0] ELSE files
  <2>2. /\ mLabels' = mLabels /\ made' = made /\ expanding' = expanding
        /\ macros' = ms /\ files' = fs
    BY <1>1, <2>1 DEF BodyLine, NothingExpands
  <2>3. after = Next(ms, fs)
    BY <1>2, <1>7
  <2> HIDE DEF ms, fs
  <2>4. Now' = after
    BY <1>4, <2>2, <2>3
  <2> QED
    BY <1>3, <2>2, <2>4 DEF after
<1>8. CASE top = 0 /\ line.op = "macro"
  <2>1. MacroEnter(line.word)
    BY <1>1, <1>8 DEF Process
  <2> DEFINE ms == Append(macros,
                     [name |-> line.word, Id |-> Len(macros), InUse |-> TRUE,
                      args |-> <<>>, Required |-> 0, labels |-> <<>>,
                      code |-> <<>>, Expands |-> 0])
             fs == [files EXCEPT ![Len(files)] = Len(macros) + 1]
  <2>2. NameFree(line.word)
    BY <2>1 DEF MacroEnter, CountError
  <2>3. /\ mLabels' = mLabels /\ made' = made /\ expanding' = expanding
        /\ macros' = ms /\ files' = fs
    BY <2>1, <2>2 DEF MacroEnter, NothingExpands
  <2>4. after = Next(ms, fs)
    BY <1>2, <1>8
  <2> HIDE DEF ms, fs
  <2>5. Now' = after
    BY <1>4, <2>3, <2>4
  <2> QED
    BY <1>3, <2>3, <2>5 DEF after
<1>9. CASE top = 0 /\ line.op = "text"
  <2>1. ProcessSourceLine(line, <<>>)
    BY <1>1, <1>9 DEF Process
  <2>2. after = AfterSource(mPos', macros, files, made, line, <<>>)
    BY <1>2, <1>9
  <2>3. Replays(AfterSource(mPos', macros, files, made, line, <<>>))
    BY <2>1, SourceReplays
  <2> QED
    BY <2>2, <2>3 DEF after
<1>10. CASE top = 0 /\ line.op \notin {"include", "eof", "macro", "text"}
  <2>1. /\ mLabels' = mLabels /\ made' = made /\ expanding' = expanding
        /\ macros' = macros /\ files' = files
    BY <1>1, <1>10 DEF Process, NothingExpands
  <2>2. after = Next(macros, files)
    BY <1>2, <1>10
  <2>3. Now' = after
    BY <1>4, <2>1, <2>2
  <2> QED
    BY <1>3, <2>1, <2>3 DEF after
<1> QED
  BY <1>5, <1>6, <1>7, <1>8, <1>9, <1>10

(* A line of an expansion, or its end.                                     *)
LEMMA ExpansionReplays ==
    ASSUME ExpandLine \/ ExpansionReturns,
           mPass \in {1, 2}, mErrors = 0, failed = FALSE, MacroInv
    PROVE  Replays(AfterExpansion(Now))
<1> DEFINE after == AfterExpansion(Now)
<1>1. /\ Now.pos = mPos /\ Now.macros = macros /\ Now.files = files
      /\ Now.expanding = expanding /\ Now.made = made
  BY DEF Now
<1>2. CASE ExpandLine
  <2> DEFINE line == Expanded(Body, Inner.params, Body.code[Inner.cidx])
  <2>1. /\ ProcessSourceLine(line, Advanced(expanding)) /\ mPos' = mPos
        /\ Inner.cidx <= Len(Body.code)
    BY <1>2 DEF ExpandLine, Advanced
  <2>2. after = AfterSource(mPos', macros, files, made, line, Advanced(expanding))
    BY <1>1, <2>1 DEF AfterExpansion, Inner, Body
  <2> HIDE DEF line
  <2>3. Replays(AfterSource(mPos', macros, files, made, line, Advanced(expanding)))
    BY <2>1, SourceReplays
  <2> QED
    BY <2>2, <2>3
<1>3. CASE ExpansionReturns /\ ~(Inner.cidx <= Len(Body.code))
  <2>1. /\ mLabels' = mLabels /\ mErrors' = 0 /\ made' = made
        /\ macros' = [macros EXCEPT ![Inner.macro].InUse = FALSE]
        /\ expanding' = SubSeq(expanding, 1, Len(expanding) - 1)
        /\ mPos' = mPos /\ files' = files
    BY <1>3 DEF ExpansionReturns, Works
  <2>2. Now' = after
    BY <1>1, <1>3, <2>1 DEF AfterExpansion, Now, Inner, Body
  <2> HIDE DEF after
  <2>3. Replays(after)
    BY <2>1, <2>2 DEF Replays
  <2> QED
    BY <2>3 DEF after
<1>4. CASE ExpansionReturns /\ Inner.cidx <= Len(Body.code)
  <2>1. /\ macros \in Seq(MacroRecords) /\ expanding \in Seq(Activations)
        /\ \A j \in 1 .. Len(expanding) : expanding[j].macro \in 1 .. Len(macros)
        /\ expanding # <<>> /\ Inner.cidx > Len(Body.code)
    BY <1>4 DEF MacroInv, MacrosFit, Types, ExpansionReturns
  <2>2. Inner \in Activations /\ Inner.macro \in 1 .. Len(macros)
    BY <2>1 DEF Inner
  <2>3. Body \in MacroRecords
    BY <2>1, <2>2 DEF Body
  <2>4. Inner.cidx \in Nat /\ Len(Body.code) \in Nat
    BY <2>2, <2>3, MacroFields
  <2> QED
    BY <1>4, <2>1, <2>4
<1> QED
  BY <1>2, <1>3, <1>4

MacroFirstPass ==
    /\ mPos = Len(mText)
    /\ \E n, past : /\ n \in Nat /\ Run(past, n, mText)
                    /\ AllMade(past, n, mLabels) /\ past[n] = Now

MacroSecondPass ==
    \E n, past :
        /\ n \in Nat
        /\ Run(past, n, mText) /\ AllMade(past, n, mLabels) /\ Ended(past[n], mText)
        /\ \E k \in 0 .. n : past[k] = Now

ReplayInv ==
    /\ mErrors \in Nat /\ failed \in BOOLEAN /\ (failed => mErrors # 0)
    /\ mErrors = 0 => /\ mPass \in {1, 2}
                      /\ mPass = 1 => MacroFirstPass
                      /\ mPass = 2 => MacroSecondPass

(* What was read of a text is read of it when it is longer.                *)
LEMMA TextGrows ==
    ASSUME NEW S, NEW text \in Seq(S), NEW line \in S,
           NEW n \in Nat, NEW past, Run(past, n, text)
    PROVE  Run(past, n, Append(text, line))
<1> DEFINE longer == Append(text, line)
<1>1. /\ Len(text) \in Nat /\ Len(longer) = Len(text) + 1
      /\ \A i \in 1 .. Len(text) : longer[i] = text[i]
  OBVIOUS
<1> HIDE DEF longer
<1>2. ASSUME NEW k \in 0 .. n - 1
      PROVE  /\ past[k + 1] = After(past[k], longer)
             /\ past[k].expanding = <<>> => past[k].pos \in 0 .. Len(longer) - 1
  <2> DEFINE p == past[k].pos
  <2>1. /\ past[k + 1] = After(past[k], text)
        /\ past[k].expanding = <<>> => p \in 0 .. Len(text) - 1
    BY DEF Run
  <2> HIDE DEF p
  <2>2. p \in 0 .. Len(text) - 1 => p \in 0 .. Len(longer) - 1 /\ longer[p + 1] = text[p + 1]
    BY <1>1
  <2> QED
    BY <2>1, <2>2 DEF After, p
<1>3. past[0] = Start
  BY DEF Run
<1> QED
  BY <1>2, <1>3 DEF Run, longer

(* A step of pass 1 without an error.                                      *)
LEMMA FirstGoesOn ==
    ASSUME NEW n \in Nat, NEW past, Run(past, n, mText'), AllMade(past, n, mLabels),
           past[n] = Now, Replays(After(Now, mText')), mErrors' = 0, mPass = 1,
           expanding = <<>> => mPos \in 0 .. Len(mText') - 1, mPos' = Len(mText'),
           made \in Seq(MacroValues)
    PROVE  MacroFirstPass'
<1> DEFINE more == [k \in 0 .. n + 1 |-> IF k <= n THEN past[k] ELSE Now']
<1>1. more[n + 1] = Now' /\ \A k \in 0 .. n : more[k] = past[k]
  OBVIOUS
<1> HIDE DEF more
<1>2. Now' = After(Now, mText') /\ mLabels \subseteq mLabels'
  BY DEF Replays
<1>3. Run(more, n + 1, mText')
  <2>1. more[0] = Start
    BY <1>1 DEF Run
  <2>2. ASSUME NEW k \in 0 .. n - 1
        PROVE  /\ more[k + 1] = After(more[k], mText')
               /\ more[k].expanding = <<>> => more[k].pos \in 0 .. Len(mText') - 1
    <3>1. k \in 0 .. n /\ k + 1 \in 0 .. n
      OBVIOUS
    <3>2. more[k] = past[k] /\ more[k + 1] = past[k + 1]
      BY <1>1, <3>1
    <3> QED
      BY <3>2 DEF Run
  <2>3. /\ more[n + 1] = After(more[n], mText')
        /\ more[n].expanding = <<>> => more[n].pos \in 0 .. Len(mText') - 1
    <3>1. more[n] = Now
      BY <1>1
    <3> QED
      BY <1>1, <1>2, <3>1 DEF Now
  <2>4. \A k \in 0 .. (n + 1) - 1 : k \in 0 .. n - 1 \/ k = n
    OBVIOUS
  <2> QED
    BY <2>1, <2>2, <2>3, <2>4 DEF Run
<1>4. AllMade(more, n + 1, mLabels')
  <2>1. \A k \in 0 .. n : \A i \in 1 .. Len(more[k].made) : more[k].made[i] \in mLabels'
    BY <1>1, <1>2 DEF AllMade
  <2>2. \A i \in 1 .. Len(made) : made[i] \in mLabels'
    <3>1. past[n].made = made
      BY DEF Now
    <3> QED
      BY <1>2, <3>1 DEF AllMade
  <2>3. \A i \in 1 .. Len(made') : made'[i] \in mLabels'
    <3>1. CASE made' = made
      BY <2>2, <3>1
    <3>2. ASSUME NEW x \in mLabels', made' = Append(made, x)
          PROVE  \A i \in 1 .. Len(made') : made'[i] \in mLabels'
      <4> DEFINE w == Append(made, x)
      <4>1. Len(w) = Len(made) + 1 /\ w[Len(made) + 1] = x /\ Len(made) \in Nat
            /\ \A i \in 1 .. Len(made) : w[i] = made[i]
        <5>1. made \in Seq(MacroValues \cup {x}) /\ x \in MacroValues \cup {x}
          OBVIOUS
        <5> QED
          BY <5>1
      <4> HIDE DEF w
      <4>2. \A i \in 1 .. Len(w) : w[i] \in mLabels'
        BY <2>2, <4>1
      <4> QED
        BY <3>2, <4>2 DEF w
    <3> QED
      BY <3>1, <3>2 DEF Replays
  <2>4. more[n + 1].made = made'
    BY <1>1 DEF Now
  <2>5. \A k \in 0 .. n + 1 : k \in 0 .. n \/ k = n + 1
    OBVIOUS
  <2> QED
    BY <2>1, <2>3, <2>4, <2>5 DEF AllMade
<1>5. n + 1 \in Nat
  OBVIOUS
<1> QED
  BY <1>1, <1>3, <1>4, <1>5 DEF MacroFirstPass

(* A step of pass 2 without an error: pass 1 has come further.             *)
LEMMA SecondGoesOn ==
    ASSUME MacroSecondPass, Replays(After(Now, mText)), mErrors' = 0, mText' = mText,
           expanding = <<>> => mPos < Len(mText), mPos \in Nat, Len(mText) \in Nat
    PROVE  MacroSecondPass'
<1>1. PICK n, past :
          /\ n \in Nat
          /\ Run(past, n, mText) /\ AllMade(past, n, mLabels) /\ Ended(past[n], mText)
          /\ \E k \in 0 .. n : past[k] = Now
  BY DEF MacroSecondPass
<1>2. PICK k \in 0 .. n : past[k] = Now
  BY <1>1
<1>3. Now.pos = mPos /\ Now.expanding = expanding
  BY DEF Now
<1>4. k # n
  BY <1>1, <1>2, <1>3 DEF Ended
<1>5. k \in 0 .. n - 1 /\ k + 1 \in 0 .. n
  BY <1>1, <1>4
<1>6. past[k + 1] = After(Now, mText)
  BY <1>1, <1>2, <1>5 DEF Run
<1>7. past[k + 1] = Now' /\ mLabels \subseteq mLabels'
  BY <1>6 DEF Replays
<1>8. AllMade(past, n, mLabels')
  BY <1>1, <1>7 DEF AllMade
<1> QED
  BY <1>1, <1>5, <1>7, <1>8 DEF MacroSecondPass

(* A step of the text without an error keeps the two passes together.      *)
LEMMA WorkGoesOn ==
    ASSUME MacroInv, ReplayInv, mErrors = 0, Replays(After(Now, mText')), mErrors' = 0,
           mPass = 1 => /\ mPos' = Len(mText')
                        /\ expanding = <<>> => mPos \in 0 .. Len(mText') - 1
                        /\ mText' = mText \/ \E line \in MacroLines : mText' = Append(mText, line),
           mPass = 2 => mText' = mText /\ (expanding = <<>> => mPos < Len(mText))
    PROVE  /\ mPass = 1 => MacroFirstPass'
           /\ mPass = 2 => MacroSecondPass'
<1>1. /\ mText \in Seq(MacroLines) /\ made \in Seq(MacroValues) /\ mPos \in Nat
  BY DEF MacroInv, MacrosFit, Types
<1>2. ASSUME mPass = 1
      PROVE  MacroFirstPass'
  <2>1. PICK n, past :
            n \in Nat /\ Run(past, n, mText) /\ AllMade(past, n, mLabels) /\ past[n] = Now
    BY <1>2 DEF ReplayInv, MacroFirstPass
  <2>2. Run(past, n, mText')
    BY <1>1, <1>2, <2>1, TextGrows
  <2> QED
    BY <1>1, <1>2, <2>1, <2>2, FirstGoesOn
<1>3. ASSUME mPass = 2
      PROVE  MacroSecondPass'
  <2>1. MacroSecondPass /\ mText' = mText /\ (expanding = <<>> => mPos < Len(mText))
    BY <1>3 DEF ReplayInv
  <2>2. Replays(After(Now, mText)) /\ Len(mText) \in Nat
    BY <1>1, <2>1
  <2> QED
    BY <1>1, <2>1, <2>2, SecondGoesOn
<1> QED
  BY <1>2, <1>3

(* Errors are not taken back, and a line that fails counts one.            *)
LEMMA MacroErrorsStay ==
    ASSUME MacroNext, mErrors \in Nat, failed \in BOOLEAN, failed => mErrors # 0
    PROVE  /\ mErrors' \in Nat /\ (mErrors # 0 => mErrors' # 0)
           /\ failed' \in BOOLEAN /\ (failed' => mErrors' # 0)
<1>1. ASSUME NEW line, NEW stack, ProcessSourceLine(line, stack)
      PROVE  /\ mErrors' \in Nat /\ (mErrors # 0 => mErrors' # 0)
             /\ failed' \in BOOLEAN /\ (failed' => mErrors' # 0)
  <2>1. PICK ok \in BOOLEAN :
            IF ok THEN mErrors' = mErrors + LabelErrors(line) /\ failed' = FALSE
            ELSE mErrors' = mErrors + (LabelErrors(line) + 1) /\ failed' = (stack # <<>>)
    BY <1>1, Zenon DEF ProcessSourceLine, CountError
  <2>2. LabelErrors(line) \in {0, 1}
    BY DEF LabelErrors
  <2>3. mErrors' \in Nat /\ (mErrors # 0 => mErrors' # 0) /\ (~ok => mErrors' # 0)
    BY <2>1, <2>2
  <2>4. failed' \in BOOLEAN /\ (failed' => ~ok)
    BY <2>1, Zenon
  <2> QED
    BY <2>3, <2>4, Zenon
<1>2. ASSUME mErrors' = mErrors \/ mErrors' = mErrors + 1,
             failed' \in BOOLEAN, failed' => failed
      PROVE  /\ mErrors' \in Nat /\ (mErrors # 0 => mErrors' # 0)
             /\ failed' \in BOOLEAN /\ (failed' => mErrors' # 0)
  <2>1. mErrors' \in Nat /\ (mErrors # 0 => mErrors' # 0)
    BY <1>2
  <2> QED
    BY <1>2, <2>1, Zenon
<1>3. ASSUME NEW line, Process(line)
      PROVE  \/ ProcessSourceLine(line, <<>>)
             \/ (mErrors' = mErrors \/ mErrors' = mErrors + 1) /\ failed' = failed
  <2>1. CASE line.op = "include"
    BY <1>3, <2>1 DEF Process, IncludeFile, Works, NothingExpands
  <2>2. CASE line.op = "eof"
    BY <1>3, <2>2 DEF Process, CloseFile, Works, CountError, NothingExpands
  <2>3. CASE Defining # 0 /\ line.op \notin {"include", "eof"}
    <3>1. BodyLine(line)
      BY <1>3, <2>3 DEF Process
    <3> QED
      BY <3>1 DEF BodyLine, Works, CountError, NothingExpands
  <2>4. CASE Defining = 0 /\ line.op = "macro"
    <3>1. MacroEnter(line.word)
      BY <1>3, <2>4 DEF Process
    <3> QED
      BY <3>1 DEF MacroEnter, Works, CountError, NothingExpands
  <2>5. CASE Defining = 0 /\ line.op = "text"
    BY <1>3, <2>5 DEF Process
  <2>6. CASE Defining = 0 /\ line.op \notin {"include", "eof", "macro", "text"}
    BY <1>3, <2>6 DEF Process, Works, CountError, NothingExpands
  <2> QED
    BY <2>1, <2>2, <2>3, <2>4, <2>5, <2>6
<1>4. ASSUME NEW line, Process(line)
      PROVE  /\ mErrors' \in Nat /\ (mErrors # 0 => mErrors' # 0)
             /\ failed' \in BOOLEAN /\ (failed' => mErrors' # 0)
  BY <1>1, <1>2, <1>3, <1>4, Zenon
<1>5. CASE (\E line \in MacroLines : ReadFirst(line)) \/ ReadAgain
  BY <1>4, <1>5, Zenon DEF ReadFirst, ReadAgain
<1>6. CASE ExpandLine
  BY <1>1, <1>6, Zenon DEF ExpandLine
<1>7. CASE ExpansionReturns
  <2>1. mErrors' = mErrors \/ mErrors' = mErrors + 1
    BY <1>7 DEF ExpansionReturns, Works, CountError
  <2>2. failed' = (failed /\ Len(expanding) > 1)
    BY <1>7 DEF ExpansionReturns
  <2>3. failed' \in BOOLEAN /\ (failed' => failed)
    BY <2>2, Zenon
  <2> QED
    BY <1>2, <2>1, <2>3, Zenon
<1>8. CASE MissingEndm \/ MacroNextPass
  <2>1. (mErrors' = mErrors \/ mErrors' = mErrors + 1) /\ (failed' <=> failed)
        /\ failed' \in BOOLEAN
    BY <1>8 DEF MissingEndm, MacroNextPass, CountError, NothingExpands
  <2> QED
    BY <1>2, <2>1, Zenon
<1> QED
  BY <1>5, <1>6, <1>7, <1>8 DEF MacroNext

(* Until there is an error, pass 2 goes through the states of pass 1:      *)
(* ReplayInv is inductive.                                                 *)
THEOREM ReplayInvariant == MacroSpec => []ReplayInv
<1>1. MacroInit => ReplayInv
  <2> SUFFICES ASSUME MacroInit PROVE ReplayInv
    OBVIOUS
  <2>1. /\ mPass = 1 /\ mText = <<>> /\ mPos = 0 /\ mErrors = 0 /\ macros = <<>>
        /\ files = <<0>> /\ expanding = <<>> /\ failed = FALSE /\ made = <<>>
    BY DEF MacroInit
  <2> DEFINE past == [k \in 0 .. 0 |-> Start]
  <2>2. past[0] = Start /\ 0 \in Nat
    OBVIOUS
  <2>3. Start = Now /\ Start.made = <<>>
    BY <2>1 DEF Start, Now
  <2> HIDE DEF past
  <2>4. Run(past, 0, mText) /\ AllMade(past, 0, mLabels)
    BY <2>2, <2>3 DEF Run, AllMade
  <2>5. MacroFirstPass
    BY <2>1, <2>2, <2>3, <2>4 DEF MacroFirstPass
  <2>6. failed \in BOOLEAN /\ ~failed
    BY <2>1, Zenon
  <2> QED
    BY <2>1, <2>5, <2>6 DEF ReplayInv
<1>2. MacroInv /\ ReplayInv /\ [MacroNext]_macroVars => ReplayInv'
  <2> SUFFICES ASSUME MacroInv, ReplayInv, MacroNext
               PROVE  ReplayInv'
    <3>1. CASE UNCHANGED macroVars
      <4>1. MacroFirstPass => MacroFirstPass'
        BY <3>1 DEF MacroFirstPass, Now, macroVars
      <4>2. MacroSecondPass => MacroSecondPass'
        BY <3>1 DEF MacroSecondPass, Now, macroVars
      <4> QED
        BY <3>1, <4>1, <4>2 DEF ReplayInv, macroVars
    <3> QED
      BY <3>1
  <2>1. /\ mText \in Seq(MacroLines) /\ Len(mText) \in Nat /\ mPos \in Nat
        /\ failed \in BOOLEAN /\ (failed => mErrors # 0) /\ mErrors \in Nat
        /\ mErrors = 0 => mPass \in {1, 2}
        /\ mPass = 1 /\ mErrors = 0 => mPos = Len(mText)
    BY DEF MacroInv, ReplayInv, MacroFirstPass
  <2>2. mErrors = 0 => failed = FALSE
    BY <2>1, Zenon
  <2>3. /\ mErrors' \in Nat /\ (mErrors # 0 => mErrors' # 0)
        /\ failed' \in BOOLEAN /\ (failed' => mErrors' # 0)
    BY <2>1, MacroErrorsStay
  <2>4. SUFFICES ASSUME mErrors = 0, mErrors' = 0
                 PROVE  /\ mPass' \in {1, 2}
                        /\ mPass' = 1 => MacroFirstPass'
                        /\ mPass' = 2 => MacroSecondPass'
    BY <2>3 DEF ReplayInv
  <2>5. Now.pos = mPos /\ Now.expanding = expanding
    BY DEF Now
  <2>6. CASE \E line \in MacroLines : ReadFirst(line)
    <3>1. PICK line \in MacroLines : ReadFirst(line)
      BY <2>6
    <3>2. /\ mPass = 1 /\ expanding = <<>> /\ Process(line)
          /\ mText' = Append(mText, line) /\ mPos' = mPos + 1 /\ mPass' = mPass
      BY <2>4, <3>1 DEF ReadFirst, MayRead
    <3>3. Replays(AfterLine(Now, line))
      BY <2>4, <3>2, LineReplays
    <3>4. mText'[mPos + 1] = line /\ Len(mText') = mPos + 1
      BY <2>1, <2>4, <3>2
    <3>5. After(Now, mText') = AfterLine(Now, line)
      BY <2>5, <3>2, <3>4 DEF After
    <3>6. mPos' = Len(mText') /\ mPos \in 0 .. Len(mText') - 1
      BY <2>1, <3>2, <3>4
    <3>7. \E l \in MacroLines : mText' = Append(mText, l)
      BY <3>2
    <3>8. MacroFirstPass'
      BY <2>4, <3>2, <3>3, <3>5, <3>6, <3>7, WorkGoesOn
    <3> QED
      BY <3>2, <3>8
  <2>7. CASE ReadAgain
    <3>1. /\ mPass = 2 /\ expanding = <<>> /\ mPos < Len(mText)
          /\ Process(mText[mPos + 1]) /\ mText' = mText /\ mPos' = mPos + 1
          /\ mPass' = mPass
      BY <2>4, <2>7 DEF ReadAgain, MayRead
    <3>2. Replays(AfterLine(Now, mText[mPos + 1]))
      BY <2>4, <3>1, LineReplays
    <3>3. After(Now, mText') = AfterLine(Now, mText[mPos + 1])
      BY <2>5, <3>1 DEF After
    <3>4. MacroSecondPass'
      BY <2>4, <3>1, <3>2, <3>3, WorkGoesOn
    <3> QED
      BY <3>1, <3>4
  <2>8. CASE ExpandLine \/ ExpansionReturns
    <3>1. /\ expanding # <<>> /\ mText' = mText /\ mPass' = mPass
      BY <2>8 DEF ExpandLine, ExpansionReturns
    <3>2. mPos' = mPos
      BY <2>2, <2>4, <2>8 DEF ExpandLine, ExpansionReturns
    <3>3. Replays(AfterExpansion(Now))
      BY <2>1, <2>2, <2>4, <2>8, ExpansionReplays
    <3>4. After(Now, mText') = AfterExpansion(Now)
      BY <2>5, <3>1 DEF After
    <3>5. /\ mPass = 1 => MacroFirstPass'
          /\ mPass = 2 => MacroSecondPass'
      BY <2>1, <2>4, <3>1, <3>2, <3>3, <3>4, WorkGoesOn
    <3> QED
      BY <2>1, <2>4, <3>1, <3>5
  <2>9. CASE MissingEndm
    <3>1. mErrors' = mErrors + 1
      BY <2>9 DEF MissingEndm, CountError
    <3> QED
      BY <2>4, <3>1
  <2>10. CASE MacroNextPass
    <3>1. /\ mPass = 1 /\ files = <<0>> /\ expanding = <<>>
          /\ mPass' = 2 /\ mPos' = 0 /\ macros' = <<>> /\ made' = <<>>
          /\ mText' = mText /\ files' = files
          /\ expanding' = expanding /\ mLabels' = mLabels
      BY <2>10 DEF MacroNextPass
    <3>2. PICK n, past :
              n \in Nat /\ Run(past, n, mText) /\ AllMade(past, n, mLabels) /\ past[n] = Now
      BY <2>4, <3>1 DEF ReplayInv, MacroFirstPass
    <3>3. Ended(past[n], mText)
      BY <2>1, <2>4, <2>5, <3>1, <3>2 DEF Ended
    <3>4. past[0] = Now'
      <4>1. past[0] = Start
        BY <3>2 DEF Run
      <4>2. Start = Now'
        BY <3>1 DEF Start, Now
      <4> QED
        BY <4>1, <4>2
    <3>5. 0 \in 0 .. n
      BY <3>2
    <3>6. MacroSecondPass'
      BY <3>1, <3>2, <3>3, <3>4, <3>5 DEF MacroSecondPass
    <3> QED
      BY <3>1, <3>6
  <2> QED
    BY <2>6, <2>7, <2>8, <2>9, <2>10 DEF MacroNext
<1> QED
  BY <1>1, <1>2, MacroInvariant, PTL DEF MacroSpec

(* Until an error, pass 2 comes to the labels that pass 1 created; every   *)
(* expansion has labels of its own and finds its arguments.                *)
THEOREM ExpansionsAgree == MacroSpec => []ExpansionsFit
<1>1. ReplayInv => LabelsOfBothPasses
  BY DEF ReplayInv, MacroSecondPass, AllMade, LabelsOfBothPasses, Now
<1>2. MacroSpec => []LabelsOfBothPasses
  BY <1>1, ReplayInvariant, PTL
<1>3. LabelsOfBothPasses /\ LocalLabelsDiffer /\ MissingArgumentsHaveDefaults
          => ExpansionsFit
  BY DEF ExpansionsFit
<1> QED
  BY <1>2, <1>3, LabelsOfTheirOwn, ArgumentsFound, PTL

-----------------------------------------------------------------------------
(* PasmExpand: the invariant                                               *)

Characters == STRING
WordModes == {"READY", "NONLABEL", "QUOTED", "LABEL"}
CallRecords == [src : Seq(Characters), srcIdx : Nat, wordFlag : WordModes,
                word : Seq(Characters), kept : BOOLEAN, owner : Seq(Characters)]

(* An activation stays inside its text and its word buffer; a word that is *)
(* being read is not empty.                                                *)
CallRight(r) ==
    /\ r \in CallRecords
    /\ r.srcIdx \in 1 .. Len(r.src) + 1 /\ Len(r.word) < TOKEN_MAX_LEN
    /\ r.wordFlag = "LABEL" => r.word # <<>> /\ ~r.kept

(* The line itself has no equate; every other activation has one of its    *)
(* own, which is busy.                                                     *)
OwnersRight(cs, busy) ==
    /\ cs # <<>> => cs[1].owner = <<>>
    /\ \A i \in 2 .. Len(cs) : cs[i].owner # <<>>
    /\ \A i, j \in 1 .. Len(cs) : cs[i].owner = cs[j].owner => i = j
    /\ busy = {cs[i].owner : i \in 2 .. Len(cs)}

CallsRight(cs, busy) ==
    /\ cs \in Seq(CallRecords) /\ \A i \in 1 .. Len(cs) : CallRight(cs[i])
    /\ OwnersRight(cs, busy)

ExpandInv ==
    /\ CallsRight(calls, Busy) /\ Busy \subseteq Equates
    /\ eqData \in [Equates -> Seq(Characters)]
    /\ out \in Seq(Characters) /\ Len(out) < MAX_SOURCE_LINE
    /\ expandErrors \in Nat /\ exRes \in {"idle", "run", "fail", "done"}
    /\ exRes \in {"run", "fail"} <=> calls # <<>>

(* The innermost activation goes on.                                       *)
LEMMA CallGoesOn ==
    ASSUME NEW cs, NEW busy, CallsRight(cs, busy), cs # <<>>,
           NEW r, CallRight(r), r.owner = cs[Len(cs)].owner
    PROVE  /\ CallsRight([cs EXCEPT ![Len(cs)] = r], busy)
           /\ [cs EXCEPT ![Len(cs)] = r] # <<>>
<1> DEFINE n == Len(cs)
           ct == [cs EXCEPT ![n] = r]
<1>1. cs \in Seq(CallRecords) /\ n \in 1 .. n /\ r \in CallRecords
  BY DEF CallsRight, CallRight
<1>2. /\ ct \in Seq(CallRecords) /\ Len(ct) = n
      /\ \A i \in 1 .. n : ct[i] = IF i = n THEN r ELSE cs[i]
  BY <1>1
<1> HIDE DEF ct
<1>3. \A i \in 1 .. n : ct[i].owner = cs[i].owner
  BY <1>2
<1>4. ct # <<>>
  BY <1>1, <1>2
<1>5. \A i \in 1 .. Len(ct) : CallRight(ct[i])
  BY <1>2 DEF CallsRight
<1>6. OwnersRight(ct, busy)
  <2>1. /\ cs[1].owner = <<>> /\ \A i \in 2 .. n : cs[i].owner # <<>>
        /\ \A i, j \in 1 .. n : cs[i].owner = cs[j].owner => i = j
        /\ busy = {cs[i].owner : i \in 2 .. n}
    BY DEF CallsRight, OwnersRight
  <2>2. 1 \in 1 .. n /\ \A i \in 2 .. n : i \in 1 .. n
    BY <1>1
  <2>3. {ct[i].owner : i \in 2 .. n} = {cs[i].owner : i \in 2 .. n}
    BY <1>3, <2>2
  <2> QED
    BY <1>2, <1>3, <2>1, <2>2, <2>3 DEF OwnersRight
<1> QED
  BY <1>2, <1>4, <1>5, <1>6 DEF CallsRight, ct

(* The text of an equate that is not busy.                                 *)
LEMMA CallBegins ==
    ASSUME NEW cs, NEW busy, CallsRight(cs, busy), cs # <<>>,
           NEW r, CallRight(r), r.owner \notin busy, r.owner # <<>>
    PROVE  /\ CallsRight(Append(cs, r), busy \cup {r.owner})
           /\ Append(cs, r) # <<>>
<1> DEFINE n == Len(cs)
           ct == Append(cs, r)
<1>1. cs \in Seq(CallRecords) /\ n \in Nat /\ n >= 1 /\ r \in CallRecords
  BY DEF CallsRight, CallRight
<1>2. /\ ct \in Seq(CallRecords) /\ Len(ct) = n + 1 /\ ct[n + 1] = r
      /\ \A i \in 1 .. n : ct[i] = cs[i]
  BY <1>1
<1> HIDE DEF ct
<1>3. \A i \in 1 .. n + 1 : i \in 1 .. n \/ i = n + 1
  BY <1>1
<1>4. ct # <<>>
  BY <1>1, <1>2
<1>5. \A i \in 1 .. Len(ct) : CallRight(ct[i])
  BY <1>2, <1>3 DEF CallsRight
<1>6. OwnersRight(ct, busy \cup {r.owner})
  <2>1. /\ cs[1].owner = <<>> /\ \A i \in 2 .. n : cs[i].owner # <<>>
        /\ \A i, j \in 1 .. n : cs[i].owner = cs[j].owner => i = j
        /\ busy = {cs[i].owner : i \in 2 .. n}
    BY DEF CallsRight, OwnersRight
  <2>2. \A i \in 1 .. n : cs[i].owner # r.owner
    <3>1. \A i \in 2 .. n : cs[i].owner # r.owner
      BY <2>1
    <3>2. \A i \in 1 .. n : i = 1 \/ i \in 2 .. n
      BY <1>1
    <3> QED
      BY <2>1, <3>1, <3>2
  <2>3. \A i, j \in 1 .. Len(ct) : ct[i].owner = ct[j].owner => i = j
    BY <1>1, <1>2, <1>3, <2>1, <2>2
  <2>4. \A i \in 2 .. n + 1 : i \in 2 .. n \/ i = n + 1
    BY <1>1
  <2>5. \A i \in 2 .. n : i \in 1 .. n /\ i \in 2 .. n + 1
    BY <1>1
  <2>6. n + 1 \in 2 .. n + 1 /\ 1 \in 1 .. n
    BY <1>1
  <2>7. {ct[i].owner : i \in 2 .. n + 1} = {cs[i].owner : i \in 2 .. n} \cup {r.owner}
    <3>1. ASSUME NEW i \in 2 .. n + 1
          PROVE  ct[i].owner \in {cs[j].owner : j \in 2 .. n} \cup {r.owner}
      BY <1>2, <2>4, <2>5
    <3>2. ASSUME NEW i \in 2 .. n
          PROVE  cs[i].owner \in {ct[j].owner : j \in 2 .. n + 1}
      BY <1>2, <2>5
    <3>3. r.owner \in {ct[j].owner : j \in 2 .. n + 1}
      BY <1>2, <2>6
    <3> QED
      BY <3>1, <3>2, <3>3
  <2>8. ct[1].owner = <<>> /\ \A i \in 2 .. n + 1 : ct[i].owner # <<>>
    BY <1>2, <2>1, <2>4, <2>5, <2>6
  <2> QED
    BY <1>2, <2>1, <2>3, <2>7, <2>8 DEF OwnersRight
<1> QED
  BY <1>2, <1>4, <1>5, <1>6 DEF CallsRight, ct

(* The end of an activation frees its equate.                              *)
LEMMA CallEnds ==
    ASSUME NEW cs, NEW busy, CallsRight(cs, busy), cs # <<>>
    PROVE  CallsRight(SubSeq(cs, 1, Len(cs) - 1), busy \ {cs[Len(cs)].owner})
<1> DEFINE n == Len(cs)
           ct == SubSeq(cs, 1, n - 1)
           e == cs[n].owner
<1>1. cs \in Seq(CallRecords) /\ n \in Nat /\ n >= 1
  BY DEF CallsRight
<1>2. /\ ct \in Seq(CallRecords) /\ Len(ct) = n - 1
      /\ \A i \in 1 .. n - 1 : ct[i] = cs[i]
  BY <1>1, OneShorter
<1> HIDE DEF ct
<1>3. /\ \A i \in 1 .. n - 1 : i \in 1 .. n
      /\ \A i \in 2 .. n - 1 : i \in 1 .. n - 1 /\ i \in 2 .. n
      /\ \A i \in 2 .. n : i \in 2 .. n - 1 \/ i = n
      /\ \A i \in 1 .. n : i \in 2 .. n \/ i = 1
      /\ n \in 1 .. n
  BY <1>1
<1>4. \A i \in 1 .. Len(ct) : CallRight(ct[i])
  BY <1>2, <1>3 DEF CallsRight
<1>5. OwnersRight(ct, busy \ {e})
  <2>1. /\ cs[1].owner = <<>> /\ \A i \in 2 .. n : cs[i].owner # <<>>
        /\ \A i, j \in 1 .. n : cs[i].owner = cs[j].owner => i = j
        /\ busy = {cs[i].owner : i \in 2 .. n}
    BY DEF CallsRight, OwnersRight
  <2>2. {ct[i].owner : i \in 2 .. n - 1} = {cs[i].owner : i \in 2 .. n} \ {e}
    <3>1. ASSUME NEW i \in 2 .. n - 1
          PROVE  ct[i].owner \in {cs[j].owner : j \in 2 .. n} \ {e}
      <4>1. ct[i].owner = cs[i].owner /\ i # n
        BY <1>1, <1>2, <1>3
      <4> QED
        BY <1>3, <2>1, <4>1
    <3>2. ASSUME NEW i \in 2 .. n, cs[i].owner # e
          PROVE  cs[i].owner \in {ct[j].owner : j \in 2 .. n - 1}
      BY <1>2, <1>3, <3>2
    <3> QED
      BY <3>1, <3>2
  <2>3. ct # <<>> => ct[1].owner = <<>>
    <3>1. ct # <<>> => 1 \in 1 .. n - 1
      BY <1>1, <1>2
    <3> QED
      BY <1>2, <2>1, <3>1
  <2>4. \A i \in 2 .. n - 1 : ct[i].owner # <<>>
    BY <1>2, <1>3, <2>1
  <2>5. \A i, j \in 1 .. n - 1 : ct[i].owner = ct[j].owner => i = j
    BY <1>2, <1>3, <2>1
  <2> QED
    BY <1>2, <2>1, <2>2, <2>3, <2>4, <2>5 DEF OwnersRight
<1> QED
  BY <1>2, <1>4, <1>5 DEF CallsRight, ct, e

(* The innermost activation, and the character it is at.                   *)
LEMMA MeIs ==
    ASSUME ExpandInv, calls # <<>>
    PROVE  /\ CallRight(Me) /\ Me = calls[Len(calls)] /\ Me \in CallRecords
           /\ Me.src \in Seq(Characters) /\ Me.srcIdx \in Nat /\ Me.wordFlag \in WordModes
           /\ Me.word \in Seq(Characters) /\ Me.kept \in BOOLEAN
           /\ Ch # "nul" => Ch \in Characters /\ Me.srcIdx + 1 \in 1 .. Len(Me.src) + 1
           /\ \A first : LabelChar(Ch, first) => Ch # "nul"
<1>1. /\ calls \in Seq(CallRecords) /\ \A i \in 1 .. Len(calls) : CallRight(calls[i])
  BY DEF ExpandInv, CallsRight
<1>2. Len(calls) \in 1 .. Len(calls) /\ Me = calls[Len(calls)]
  BY <1>1 DEF Me
<1>3. CallRight(Me) /\ Me \in CallRecords
  BY <1>1, <1>2
<1>4. /\ Me.src \in Seq(Characters) /\ Me.srcIdx \in Nat /\ Me.wordFlag \in WordModes
      /\ Me.word \in Seq(Characters) /\ Me.kept \in BOOLEAN
  BY <1>3 DEF CallRecords
<1>5. ASSUME Ch # "nul"
      PROVE  Ch \in Characters /\ Me.srcIdx + 1 \in 1 .. Len(Me.src) + 1
  <2>1. ~(Me.srcIdx > Len(Me.src)) /\ Ch = Me.src[Me.srcIdx]
    BY <1>5 DEF Ch
  <2>2. Me.srcIdx \in 1 .. Len(Me.src)
    BY <1>3, <1>4, <2>1 DEF CallRight
  <2> QED
    BY <1>4, <2>1, <2>2
<1>6. \A first : LabelChar(Ch, first) => Ch # "nul"
  BY DEF LabelChar, Letter
<1> QED
  BY <1>2, <1>3, <1>4, <1>5, <1>6

(* A step of the innermost activation keeps the rest.                      *)
LEMMA GoesOn ==
    ASSUME ExpandInv, calls # <<>>, NEW r, CallRight(r), r.owner = Me.owner,
           calls' = Set(r), Busy' = Busy, eqData' = eqData,
           out' \in Seq(Characters), Len(out') < MAX_SOURCE_LINE,
           expandErrors' = expandErrors, exRes' = exRes
    PROVE  ExpandInv'
<1>1. CallsRight(calls', Busy') /\ calls' # <<>>
  BY CallGoesOn DEF ExpandInv, Me, Set
<1> QED
  BY <1>1 DEF ExpandInv

(* What a word or a character ends with.                                   *)
LEMMA ModeAfter ==
    ASSUME ExpandInv, calls # <<>>
    PROVE  /\ CallRight(AfterWord) /\ AfterWord.owner = Me.owner
           /\ OutsideWord => NewFlag \in WordModes \ {"LABEL"}
<1>1. /\ CallRight(Me) /\ Me \in CallRecords /\ Me.kept \in BOOLEAN /\ Me.srcIdx \in Nat
      /\ Me.word \in Seq(Characters) /\ Me.wordFlag \in WordModes
  BY MeIs
<1> DEFINE f == IF Ch = "quote" THEN "QUOTED" ELSE "READY"
           m == Me
<1>2. f \in WordModes /\ f # "LABEL"
  BY DEF WordModes
<1>3. AfterWord = [m EXCEPT !.kept = TRUE, !.wordFlag = f]
  BY DEF AfterWord
<1> HIDE DEF f, m
<1>4. CallRight(m) /\ m \in CallRecords
  BY <1>1 DEF m
<1>5. AfterWord \in CallRecords /\ AfterWord.src = m.src /\ AfterWord.srcIdx = m.srcIdx
      /\ AfterWord.word = m.word /\ AfterWord.wordFlag = f /\ AfterWord.owner = m.owner
  BY <1>2, <1>3, <1>4 DEF CallRecords
<1>6. CallRight(AfterWord)
  BY <1>2, <1>4, <1>5 DEF CallRight
<1>7. ASSUME OutsideWord
      PROVE  NewFlag \in WordModes \ {"LABEL"}
  <2>1. CASE Me.kept
    BY <1>1, <2>1 DEF NewFlag, CallRight
  <2>2. CASE ~Me.kept
    BY <1>1, <1>7, <2>2 DEF NewFlag, OutsideWord, InWord, WordModes
  <2> QED
    BY <1>1, <2>1, <2>2
<1> QED
  BY <1>5, <1>6, <1>7 DEF m

(* The first character of a word.                                          *)
LEMMA StartWordFits ==
    ASSUME ExpandInv, StartWord PROVE ExpandInv'
<1>1. calls # <<>>
  BY DEF StartWord, Running, ExpandInv
<1> DEFINE m == Me
           x == m.srcIdx + 1
           w == <<Ch>>
           r == [m EXCEPT !.wordFlag = "LABEL", !.word = w, !.srcIdx = x]
<1>2. /\ CallRight(m) /\ m \in CallRecords /\ m.src \in Seq(Characters) /\ m.srcIdx \in Nat
      /\ x \in 1 .. Len(m.src) + 1 /\ Ch \in Characters /\ m.kept \in BOOLEAN /\ ~m.kept
  BY <1>1, MeIs DEF StartWord
<1>3. calls' = Set(r)
  BY DEF StartWord
<1>4. w \in Seq(Characters) /\ Len(w) = 1 /\ w # <<>> /\ "LABEL" \in WordModes
  BY <1>2 DEF WordModes
<1>5. m = Me
  OBVIOUS
<1> HIDE DEF m, w
<1>6. x \in Nat
  BY <1>2
<1> HIDE DEF x
<1>7. /\ r \in CallRecords /\ r.wordFlag = "LABEL" /\ r.word = w
      /\ r.kept = m.kept /\ r.srcIdx = x /\ r.src = m.src /\ r.owner = m.owner
  BY <1>2, <1>4, <1>6 DEF CallRecords, WordModes
<1> HIDE DEF r
<1>8. ~r.kept
  BY <1>2, <1>7, Zenon
<1>9. Len(w) < TOKEN_MAX_LEN
  BY <1>4, ExpandAssumption
<1>10. CallRight(r)
  BY <1>2, <1>4, <1>7, <1>8, <1>9 DEF CallRight
<1> QED
  BY <1>1, <1>3, <1>5, <1>7, <1>10, GoesOn DEF StartWord, ExpandInv

(* Another character of a word, for which the buffer has room.             *)
LEMMA BuildWordFits ==
    ASSUME ExpandInv, BuildWord PROVE ExpandInv'
<1>1. calls # <<>>
  BY DEF BuildWord, Running, ExpandInv
<1> DEFINE m == Me
           x == m.srcIdx + 1
           w == Append(m.word, Ch)
           r == [m EXCEPT !.word = w, !.srcIdx = x]
<1>2. /\ CallRight(m) /\ m \in CallRecords /\ m.src \in Seq(Characters) /\ m.srcIdx \in Nat
      /\ x \in 1 .. Len(m.src) + 1 /\ Ch \in Characters /\ m.kept \in BOOLEAN /\ ~m.kept
      /\ m.word \in Seq(Characters) /\ m.wordFlag = "LABEL"
  BY <1>1, MeIs DEF BuildWord, InWord, WordEnds
<1>3. calls' = Set(r)
  BY DEF BuildWord
<1>4. /\ w \in Seq(Characters) /\ Len(w) = Len(m.word) + 1 /\ w # <<>>
      /\ Len(m.word) < TOKEN_MAX_LEN - 1 /\ Len(m.word) \in Nat
  <2>1. ~(Len(m.word) >= TOKEN_MAX_LEN - 1)
    BY DEF BuildWord, WordEnds
  <2>2. Len(m.word) \in Nat
    BY <1>2
  <2>3. Len(m.word) < TOKEN_MAX_LEN - 1
    BY <2>1, <2>2, ExpandAssumption
  <2>4. w \in Seq(Characters) /\ Len(w) = Len(m.word) + 1 /\ w # <<>>
    <3> DEFINE v == m.word
               d == Ch
    <3>1. v \in Seq(Characters) /\ d \in Characters
      BY <1>2
    <3> HIDE DEF v, d
    <3> DEFINE u == Append(v, d)
    <3>2. u \in Seq(Characters) /\ Len(u) = Len(v) + 1 /\ Len(v) \in Nat
      BY <3>1
    <3> HIDE DEF u
    <3>3. u # <<>>
      BY <3>2
    <3> QED
      BY <3>2, <3>3 DEF u, v, d
  <2> QED
    BY <2>2, <2>3, <2>4
<1>5. m = Me
  OBVIOUS
<1> HIDE DEF m, w
<1>6. x \in Nat
  BY <1>2
<1> HIDE DEF x
<1>7. /\ r \in CallRecords /\ r.wordFlag = m.wordFlag /\ r.word = w
      /\ r.kept = m.kept /\ r.srcIdx = x /\ r.src = m.src /\ r.owner = m.owner
  BY <1>2, <1>4, <1>6 DEF CallRecords, WordModes
<1> HIDE DEF r
<1>8. ~r.kept
  BY <1>2, <1>7, Zenon
<1>9. Len(w) < TOKEN_MAX_LEN
  BY <1>4, ExpandAssumption
<1>10. CallRight(r)
  BY <1>2, <1>4, <1>7, <1>8, <1>9 DEF CallRight
<1> QED
  BY <1>1, <1>3, <1>5, <1>7, <1>10, GoesOn DEF BuildWord, ExpandInv

(* The end of a word that is an equate: its text is expanded.              *)
LEMMA ExpandWordFits ==
    ASSUME ExpandInv, ExpandWord PROVE ExpandInv'
<1>1. calls # <<>>
  BY DEF ExpandWord, Running, ExpandInv
<1> DEFINE w == Me.word
           cs == Set(AfterWord)
           r == Call(eqData[w], w)
<1>2. /\ CallRight(Me) /\ Me.wordFlag = "LABEL" /\ w \in Seq(Characters)
      /\ w \in Equates /\ w \notin Busy
  BY <1>1, MeIs DEF ExpandWord, InWord, EquateFound
<1>3. /\ calls' = Append(cs, r) /\ Busy' = Busy \cup {w}
      /\ eqData' = eqData /\ out' = out /\ expandErrors' = expandErrors /\ exRes' = exRes
  BY DEF ExpandWord
<1>4. CallsRight(cs, Busy) /\ cs # <<>>
  BY <1>1, MeIs, ModeAfter, CallGoesOn DEF ExpandInv, Set
<1>5. w # <<>>
  BY <1>2 DEF CallRight
<1>6. CallRight(r) /\ r.owner = w
  <2> DEFINE text == eqData[w]
  <2>1. text \in Seq(Characters) /\ Len(text) \in Nat
    BY <1>2 DEF ExpandInv
  <2> HIDE DEF text, w
  <2>2. /\ Call(text, w).src = text /\ Call(text, w).srcIdx = 1
        /\ Call(text, w).wordFlag = "READY" /\ Call(text, w).word = <<>>
        /\ Call(text, w).owner = w /\ Call(text, w) \in CallRecords
    BY <1>2, <2>1 DEF Call, CallRecords, WordModes
  <2>3. CallRight(Call(text, w))
    BY <2>1, <2>2, ExpandAssumption DEF CallRight
  <2> QED
    BY <2>2, <2>3 DEF text
<1> HIDE DEF w, cs, r
<1>7. CallsRight(Append(cs, r), Busy \cup {w}) /\ Append(cs, r) # <<>>
  BY <1>2, <1>4, <1>5, <1>6, CallBegins
<1>8. Busy \cup {w} \subseteq Equates
  BY <1>2 DEF ExpandInv
<1> QED
  BY <1>1, <1>3, <1>7, <1>8 DEF ExpandInv

(* An error leaves the activations to Unwind.                              *)
LEMMA FailFits ==
    ASSUME ExpandInv, Running, Fails, out' \in Seq(Characters), Len(out') < MAX_SOURCE_LINE
    PROVE  ExpandInv'
<1>1. calls # <<>>
  BY DEF Running, ExpandInv
<1> QED
  BY <1>1 DEF Fails, ExpandInv

(* The end of another word: it is copied, if there is room for it.         *)
LEMMA CopyWordFits ==
    ASSUME ExpandInv, CopyWord PROVE ExpandInv'
<1>1. calls # <<>>
  BY DEF CopyWord, Running, ExpandInv
<1> DEFINE w == Me.word
           longer == out \o w
<1>2. w \in Seq(Characters) /\ out \in Seq(Characters) /\ MAX_SOURCE_LINE \in Nat \ {0}
  BY <1>1, MeIs, ExpandAssumption DEF ExpandInv
<1> HIDE DEF w
<1>3. longer \in Seq(Characters) /\ Len(longer) = Len(out) + Len(w)
      /\ Len(out) \in Nat /\ Len(w) \in Nat
  BY <1>2
<1>4. CASE Len(out) + Len(w) < MAX_SOURCE_LINE
  <2>1. /\ out' = longer /\ calls' = Set(AfterWord) /\ eqData' = eqData
        /\ Busy' = Busy /\ expandErrors' = expandErrors /\ exRes' = exRes
    BY <1>4 DEF CopyWord, w
  <2> HIDE DEF longer
  <2> QED
    BY <1>1, <1>3, <1>4, <2>1, ModeAfter, GoesOn
<1>5. CASE ~(Len(out) + Len(w) < MAX_SOURCE_LINE)
  <2> DEFINE n == MAX_SOURCE_LINE - 1
  <2>1. out' = SubSeq(longer, 1, n) /\ Fails /\ Running
    BY <1>5 DEF CopyWord, w
  <2> HIDE DEF longer
  <2>2. n \in Nat /\ n <= Len(longer) /\ n < MAX_SOURCE_LINE
    BY <1>2, <1>3, <1>5
  <2> HIDE DEF n
  <2>3. SubSeq(longer, 1, n) = [i \in 1 .. n |-> longer[i]]
    BY <1>3, <2>2
  <2>4. \A i \in 1 .. n : longer[i] \in Characters
    BY <1>3, <2>2
  <2>5. SubSeq(longer, 1, n) \in Seq(Characters) /\ Len(SubSeq(longer, 1, n)) = n
    BY <2>2, <2>3, <2>4
  <2> QED
    BY <2>1, <2>2, <2>5, FailFits
<1> QED
  BY <1>4, <1>5

(* A character outside words.                                              *)
LEMMA CopyChFits ==
    ASSUME ExpandInv, CopyCh PROVE ExpandInv'
<1>1. calls # <<>> /\ Running
  BY DEF CopyCh, Running, ExpandInv
<1> DEFINE m == Me
           x == m.srcIdx + 1
           f == NewFlag
           r == [m EXCEPT !.wordFlag = f, !.kept = FALSE, !.srcIdx = x]
<1>2. /\ CallRight(m) /\ m \in CallRecords /\ m.src \in Seq(Characters) /\ m.srcIdx \in Nat
      /\ x \in 1 .. Len(m.src) + 1 /\ Ch \in Characters
      /\ f \in WordModes \ {"LABEL"}
  BY <1>1, MeIs, ModeAfter DEF CopyCh
<1>3. out \in Seq(Characters) /\ Len(out) < MAX_SOURCE_LINE
      /\ MAX_SOURCE_LINE \in Nat /\ Len(out) \in Nat
  BY ExpandAssumption DEF ExpandInv
<1>4. CASE Len(out) < MAX_SOURCE_LINE - 1
  <2>1. /\ out' = Append(out, Ch) /\ calls' = Set(r) /\ eqData' = eqData
        /\ Busy' = Busy /\ expandErrors' = expandErrors /\ exRes' = exRes
    BY <1>4 DEF CopyCh
  <2>2. out' \in Seq(Characters) /\ Len(out') < MAX_SOURCE_LINE
    <3> DEFINE d == Ch
    <3>1. d \in Characters /\ out' = Append(out, d)
      BY <1>2, <2>1
    <3> HIDE DEF d
    <3>2. Append(out, d) \in Seq(Characters) /\ Len(Append(out, d)) = Len(out) + 1
      BY <1>3, <3>1
    <3>3. Len(out) + 1 < MAX_SOURCE_LINE
      BY <1>3, <1>4
    <3> QED
      BY <3>1, <3>2, <3>3
  <2>3. m = Me /\ x \in Nat
    BY <1>2
  <2> HIDE DEF m, x, f
  <2>4. /\ r \in CallRecords /\ r.wordFlag = f /\ r.word = m.word
        /\ r.srcIdx = x /\ r.src = m.src /\ r.owner = m.owner
    BY <1>2, <2>3 DEF CallRecords
  <2> HIDE DEF r
  <2>5. CallRight(r)
    BY <1>2, <2>4 DEF CallRight
  <2> QED
    BY <1>1, <2>1, <2>2, <2>3, <2>4, <2>5, GoesOn
<1>5. CASE ~(Len(out) < MAX_SOURCE_LINE - 1)
  <2>1. out' = out /\ Fails
    BY <1>5 DEF CopyCh
  <2> QED
    BY <1>1, <1>3, <2>1, FailFits
<1> QED
  BY <1>4, <1>5

(* The innermost activation ends.                                          *)
LEMMA EndFits ==
    ASSUME ExpandInv, calls # <<>>, Busy' = Busy \ {Me.owner}, calls' = Pop,
           exRes' = IF Pop = <<>> THEN "done" ELSE exRes,
           eqData' = eqData, out' = out, expandErrors' \in Nat
    PROVE  ExpandInv'
<1>1. CallsRight(Pop, Busy \ {Me.owner})
  BY CallEnds DEF ExpandInv, Pop, Me
<1> DEFINE rest == Pop
<1>2. /\ calls' = rest /\ exRes' = IF rest = <<>> THEN "done" ELSE exRes
      /\ CallsRight(rest, Busy')
  BY <1>1
<1> HIDE DEF rest
<1>3. exRes' \in {"run", "fail"} <=> calls' # <<>>
  BY <1>2 DEF ExpandInv
<1>4. exRes' \in {"idle", "run", "fail", "done"}
  BY <1>2 DEF ExpandInv
<1> QED
  BY <1>2, <1>3, <1>4 DEF ExpandInv

(* The types, and which equates are busy, in every step of ParseSource.    *)
THEOREM ExpandInvariant == ExpandSpec => []ExpandInv
<1>1. ExpandInit => ExpandInv
  <2> SUFFICES ASSUME ExpandInit PROVE ExpandInv
    OBVIOUS
  <2> DEFINE none == <<>>
  <2>1. /\ none \in Seq(CallRecords) /\ none \in Seq(Characters) /\ Len(none) = 0
        /\ calls = none /\ out = none /\ Busy = {} /\ expandErrors = 0 /\ exRes = "idle"
        /\ eqData = [e \in Equates |-> none]
    BY DEF ExpandInit
  <2> HIDE DEF none
  <2>2. CallsRight(none, {}) /\ none = <<>>
    BY <2>1 DEF CallsRight, OwnersRight, none
  <2> QED
    BY <2>1, <2>2, ExpandAssumption DEF ExpandInv
<1>2. ExpandInv /\ [ExpandNext]_expandVars => ExpandInv'
  <2> SUFFICES ASSUME ExpandInv, [ExpandNext]_expandVars PROVE ExpandInv'
    OBVIOUS
  <2>1. CASE BeginExpansion
    <3>1. PICK s \in LineChoices, d \in DataChoices :
              eqData' = d /\ calls' = <<Call(s, <<>>)>>
      BY <2>1 DEF BeginExpansion
    <3>2. /\ exRes = "idle" /\ exRes' = "run" /\ Busy' = Busy /\ out' = out
          /\ expandErrors' = expandErrors
      BY <2>1 DEF BeginExpansion
    <3>3. s \in Seq(Characters) /\ d \in [Equates -> Seq(Characters)]
      BY ExpandAssumption DEF Characters
    <3> DEFINE none == <<>>
               r == Call(s, none)
               cs == <<r>>
    <3>4. none \in Seq(Characters) /\ Len(none) = 0 /\ calls' = cs
      BY <3>1
    <3>5. Busy = {}
      BY <3>2 DEF ExpandInv, CallsRight, OwnersRight
    <3>6. none = <<>>
      OBVIOUS
    <3> HIDE DEF none
    <3>7. /\ r.src = s /\ r.srcIdx = 1 /\ r.wordFlag = "READY" /\ r.word = none
          /\ r.owner = none /\ r \in CallRecords
      BY <3>3, <3>4, <3>6 DEF Call, CallRecords, WordModes
    <3> HIDE DEF r
    <3>8. CallRight(r)
      <4>1. Len(s) \in Nat
        BY <3>3
      <4> QED
        BY <3>4, <3>7, <4>1, ExpandAssumption DEF CallRight
    <3>9. cs \in Seq(CallRecords) /\ Len(cs) = 1 /\ cs[1] = r
      BY <3>7
    <3> HIDE DEF cs
    <3>10. CallsRight(cs, {}) /\ cs # <<>>
      <4>1. cs # <<>>
        BY <3>9
      <4>2. \A i \in 1 .. Len(cs) : i = 1
        BY <3>9
      <4>3. 2 .. Len(cs) = {}
        BY <3>9
      <4>4. cs[1].owner = <<>>
        BY <3>6, <3>7, <3>9
      <4>5. {cs[i].owner : i \in 2 .. Len(cs)} = {}
        BY <4>3
      <4>6. OwnersRight(cs, {})
        BY <4>2, <4>3, <4>4, <4>5 DEF OwnersRight
      <4>7. \A i \in 1 .. Len(cs) : CallRight(cs[i])
        BY <3>8, <3>9, <4>2
      <4> QED
        BY <3>9, <4>1, <4>6, <4>7 DEF CallsRight
    <3> QED
      BY <3>1, <3>2, <3>3, <3>4, <3>5, <3>10 DEF ExpandInv
  <2>2. CASE StartWord
    BY <2>2, StartWordFits
  <2>3. CASE BuildWord
    BY <2>3, BuildWordFits
  <2>4. CASE ExpandWord
    BY <2>4, ExpandWordFits
  <2>5. CASE CopyWord
    BY <2>5, CopyWordFits
  <2>6. CASE CopyCh
    BY <2>6, CopyChFits
  <2>7. CASE ReturnExpanded
    <3>1. calls # <<>> /\ expandErrors' \in Nat
      BY <2>7 DEF ReturnExpanded, Running, ExpandInv
    <3> QED
      BY <2>7, <3>1, EndFits DEF ReturnExpanded, Running
  <2>8. CASE Unwind
    <3>1. calls # <<>> /\ expandErrors' \in Nat
      BY <2>8 DEF Unwind, ExpandInv
    <3> QED
      BY <2>8, <3>1, EndFits DEF Unwind
  <2>9. CASE UNCHANGED expandVars
    BY <2>9 DEF expandVars, ExpandInv
  <2> QED
    BY <2>1, <2>2, <2>3, <2>4, <2>5, <2>6, <2>7, <2>8, <2>9 DEF ExpandNext, ExpandStep
<1> QED
  BY <1>1, <1>2, PTL DEF ExpandSpec

(* Words and output stay inside TOKEN_MAX_LEN and MAX_SOURCE_LINE.         *)
THEOREM ExpandTypes == ExpandSpec => []ExpandTypeOK
<1>1. ExpandInv => ExpandTypeOK
  BY DEF ExpandInv, ExpandTypeOK, CallsRight, CallRight, CallRecords, WordModes
<1> QED
  BY <1>1, ExpandInvariant, PTL

(* An equate is marked busy exactly while its text is expanded, however    *)
(* the expansion ends.                                                     *)
THEOREM BusyRightly == ExpandSpec => []BusyIffExpanding
<1>1. ExpandInv => BusyIffExpanding
  BY DEF ExpandInv, CallsRight, OwnersRight, BusyIffExpanding
<1> QED
  BY <1>1, ExpandInvariant, PTL

(* Equates and macros are free after their expansion, the scope at hand    *)
(* is open and a structure is used after it was freed only in a pass that  *)
(* failed: the return paths of ParseSource and ProcessMacro, the walk of   *)
(* ScopeClose and the pointer StructCleanup leaves, for lines of any kind, *)
(* in any order and in any files, that fail anywhere.                      *)
THEOREM NothingStaysMarked ==
    ExpandSpec /\ StructSpec /\ MacroSpec => []NothingLeftMarked
<1>1. /\ BusyIffExpanding /\ InUseWhileExpanding
      /\ ScopeCurrentOpen /\ FreedUsedInVain
      => NothingLeftMarked
  BY DEF NothingLeftMarked
<1> QED
  BY <1>1, BusyRightly, InUseRightly, PointersAlive, PTL
=============================================================================
