----------------------------- MODULE PasmOutput -----------------------------
(***************************************************************************)
(* What surrounds the two passes in main (pasm.c): the command line and    *)
(* its options before them, the output files and the exit code after them. *)
(*                                                                         *)
(* An argument is [file, dot, exists, flags]: the name of a file (dot: it  *)
(* has a single '.') or a sequence of flags: "V0" .. "V3", "x", "X", "I",  *)
(* "D", "C" (which take the rest of the argument) or an option's letter.   *)
(* The passes are reduced to their outcome: the errors, the image, the     *)
(* labels and the source files.  An image has for each address the file    *)
(* and the line of its word, or Unwritten, which is all zeros in           *)
(* ProgramImage: file 0, line 0, AddrOffset 0.  Names too long are left    *)
(* out.                                                                    *)
(***************************************************************************)
EXTENDS Integers, Sequences, FiniteSets

CONSTANTS Arguments,        \* the arguments tried
          ArgumentMax,      \* bound: arguments of a command line
          Images,           \* the images the passes may leave
          FileLines,        \* <<lines of file 0, of file 1, ...>>
          EndsWithNewline,  \* whether the last line of the files does
          LabelRecords,     \* numbers of labels the passes may leave
          MAX_CMD_EQUATE,   \* 8 in the code
          Unwritten

(* Every word but an unwritten one comes from a line of a source file.     *)
Positions == UNION {{i} \X (1 .. FileLines[i + 1]) : i \in 0 .. Len(FileLines) - 1}

(* Numbers of the source files the passes have opened: 0 .. sfIndex - 1.   *)
Sources == 0 .. Len(FileLines) - 1

ASSUME OutputAssumption ==
    /\ ArgumentMax \in Nat /\ MAX_CMD_EQUATE \in Nat /\ LabelRecords \subseteq Nat
    /\ Arguments \subseteq [file : BOOLEAN, dot : BOOLEAN, exists : BOOLEAN,
                            flags : Seq(STRING)]
    /\ FileLines \in Seq(Nat) /\ EndsWithNewline \in BOOLEAN
    /\ Unwritten \notin Positions /\ Images \subseteq Seq(Positions \cup {Unwritten})

VARIABLES step, argv, outCore, Options, equates, files, argi,
          outErrors, image, labelCount, written, exitCode

outVars == <<step, argv, outCore, Options, equates, files, argi,
             outErrors, image, labelCount, written, exitCode>>

(* Options and the files they ask for, in the order main writes them.      *)
Outputs == <<"c", "f", "m", "d", "L", "b", "B">>
Formats == {Outputs[i] : i \in DOMAIN Outputs}
Plain == Formats \cup {"E", "l", "z"}
CoreOf(flag) == CASE flag \in {"V0", "x"} -> 0 [] flag = "V1" -> 1
                  [] flag \in {"V2", "X"} -> 2 [] flag = "V3" -> 3
CoreFlags == {"V0", "V1", "V2", "V3", "x", "X"}
NoCore == -1

IsFile(a) == a.file

OutInit ==
    /\ step = "argv" /\ argv = <<>> /\ argi = 1
    /\ outCore = NoCore /\ Options = {} /\ equates = 0 /\ files = <<>>
    /\ outErrors = 0 /\ image = <<>> /\ labelCount = 0
    /\ written = {} /\ exitCode = "none"

Exit(code) == step' = "exit" /\ exitCode' = code
Engine == <<outErrors, image, labelCount, written>>

(* The command line the user types.                                        *)
Type(a) ==
    /\ step = "argv" /\ Len(argv) < ArgumentMax
    /\ argv' = Append(argv, a)
    /\ UNCHANGED <<step, outCore, Options, equates, files, argi, exitCode>>
    /\ UNCHANGED Engine

(* All names first: the input, then the base name of the outputs.          *)
GetNames ==
    /\ step = "argv"
    /\ files' = SelectSeq(argv, IsFile)
    /\ IF argv = <<>> \/ Len(files') > 2 THEN Exit("usage")
       ELSE step' = "flags" /\ UNCHANGED exitCode
    /\ UNCHANGED <<argv, outCore, Options, equates, argi>> /\ UNCHANGED Engine

(* Then the flags: s has the options, the core and the equates so far.     *)
Flag(s, flag) ==
    IF s.bad \/ s.rest THEN s
    ELSE CASE flag \in CoreFlags ->
                IF s.core # NoCore THEN [s EXCEPT !.bad = TRUE]
                ELSE [s EXCEPT !.core = CoreOf(flag)]
           [] flag = "D" ->
                IF s.equates = MAX_CMD_EQUATE THEN [s EXCEPT !.bad = TRUE]
                ELSE [s EXCEPT !.equates = @ + 1, !.rest = TRUE]
           [] flag \in {"I", "C"} -> [s EXCEPT !.rest = TRUE]
           [] flag \in Plain -> [s EXCEPT !.options = @ \cup {flag}]
           [] OTHER -> [s EXCEPT !.bad = TRUE]

Flags(word) ==
    LET upTo[i \in 0 .. Len(word)] ==
            IF i = 0 THEN [options |-> Options, core |-> outCore,
                           equates |-> equates, bad |-> FALSE, rest |-> FALSE]
            ELSE Flag(upTo[i - 1], word[i])
    IN  upTo[Len(word)]

GetFlags ==
    /\ step = "flags" /\ argi <= Len(argv)
    /\ LET s == Flags(argv[argi].flags)
       IN  /\ Options' = s.options /\ outCore' = s.core /\ equates' = s.equates
           /\ IF s.bad THEN Exit("usage") ELSE UNCHANGED <<step, exitCode>>
    /\ argi' = argi + 1
    /\ UNCHANGED <<argv, files>> /\ UNCHANGED Engine

(* The checks before the passes, and the defaults; opened says whether the *)
(* listing file -l could be created.                                       *)
Prepare(opened) ==
    /\ step = "flags" /\ argi > Len(argv)
    /\ outCore' = IF outCore = NoCore THEN 1 ELSE outCore
    /\ IF files = <<>> THEN Exit("usage") /\ UNCHANGED Options
       ELSE IF (Len(files) = 2 /\ files[2].dot) \/ ~files[1].exists
       THEN Exit("error") /\ UNCHANGED Options
       ELSE /\ Options' = IF Options \cap (Formats \ {"L"}) = {}
                          THEN Options \cup {"c"} ELSE Options
            /\ IF "l" \in Options /\ ~opened THEN Exit("error")
               ELSE step' = "passes" /\ UNCHANGED exitCode
    /\ UNCHANGED <<argv, equates, files, argi>> /\ UNCHANGED Engine

(* The passes end (Pasm): with errors, or an image of CodeOffset words.    *)
Passes(errors, im, labels) ==
    /\ step = "passes"
    /\ outErrors' = errors /\ image' = im /\ labelCount' = labels
    /\ Options' = IF errors > 0 \/ Len(im) = 0 THEN {} ELSE Options
    /\ step' = "outputs" /\ argi' = 1
    /\ UNCHANGED <<argv, outCore, equates, files, written, exitCode>>

CodeOffset == Len(image)

-----------------------------------------------------------------------------
(* The contents of the files: words in address order; bytes of words.      *)
Words == [i \in 1 .. CodeOffset |-> i - 1]
BinBytes == [k \in 1 .. 4 * CodeOffset |-> <<(k - 1) \div 4, (k - 1) % 4>>]
BibBytes == [k \in 1 .. 4 * CodeOffset |-> <<(k - 1) \div 4, 3 - ((k - 1) % 4)>>]

(* The debug file: a header with the counts and offsets of the sections,   *)
(* then labels, files and code, in bytes.                                  *)
HeaderSize == 36
RecordSize == [label |-> 68, file |-> 64, code |-> 16]
DbgFile ==
    LET labelOffset == HeaderSize
        fileOffset == labelOffset + labelCount * RecordSize.label
        codeOffset == fileOffset + Len(FileLines) * RecordSize.file
    IN  [header |-> [label |-> <<labelCount, labelOffset>>,
                     file |-> <<Len(FileLines), fileOffset>>,
                     code |-> <<CodeOffset, codeOffset>>],
         records |-> [r \in 1 .. labelCount |-> "label"]
                     \o [r \in DOMAIN FileLines |-> "file"]
                     \o [r \in 1 .. CodeOffset |-> "code"]]

(* GetInfoFromAddr: "entry has been set" is AddrOffset = address, which    *)
(* holds of address 0 unwritten, too.                                      *)
Info(a) == IF image[a + 1] # Unwritten THEN {image[a + 1]}
           ELSE IF a = 0 THEN {<<0, 0>>} ELSE {}
Has(a, f) == \E i \in Info(a) : i[1] = f
(* Slip: the file of a word is not looked at.                              *)
Any_At(a, f, l) == \E i \in Info(a) : i[2] = l

At(a, f, l) == Info(a) = {<<f, l>>}

(* ListFile: the number of words, and the addresses shown at each line;    *)
(* the line at which the file ends shows one word only.                    *)
ListFile(f) ==
    LET all(l) == {a \in 0 .. CodeOffset - 1 : At(a, f, l)}
        last == FileLines[f + 1] + IF EndsWithNewline THEN 1 ELSE 0
        first(S) == {a \in S : \A b \in S : a <= b}
    IN  [count |-> Cardinality({a \in 0 .. CodeOffset - 1 : Has(a, f)}),
         lines |-> [l \in 1 .. last |-> IF l = last THEN first(all(l)) ELSE all(l)]]

(* found: the sources that can be opened again; of the others the listing  *)
(* says "(File Not Found ...)".                                            *)
Content(format, found) ==
    CASE format \in {"c", "f", "m"} -> Words
      [] format = "b" -> BinBytes
      [] format = "B" -> BibBytes
      [] format = "d" -> DbgFile
      [] format = "L" -> [f \in found |-> ListFile(f)]

(* What becomes of the bytes of a file: all of them arrive; an fprintf or  *)
(* fwrite is short; or those stdio has buffered are lost in fclose.        *)
Losses == {"none", "fwrite", "fclose"}

(* A file that is opened is written, and kept, whatever is lost of it; the *)
(* results are looked at for the debug file alone, and never fclose's.  One*)
(* error stands for those of its several short writes.                     *)
WriteFile(format, lost, found) ==
    /\ written' = written \cup {[name |-> format, lost |-> lost,
                                 content |-> Content(format, found)]}
    /\ outErrors' = outErrors + IF format = "d" /\ lost = "fwrite" THEN 1 ELSE 0

(* One output after the other; a file that cannot be created is an error,  *)
(* and the others are written.                                             *)
WriteOutput(opened, lost, found) ==
    /\ step = "outputs" /\ argi <= Len(Outputs)
    /\ argi' = argi + 1
    /\ LET format == Outputs[argi]
       IN  \/ format \notin Options /\ UNCHANGED <<written, outErrors>>
           \/ format \in Options /\ ~opened
              /\ outErrors' = outErrors + 1 /\ UNCHANGED written
           \/ format \in Options /\ opened /\ WriteFile(format, lost, found)
    /\ UNCHANGED <<step, argv, outCore, Options, equates, files, image,
                   labelCount, exitCode>>

Return ==
    /\ step = "outputs" /\ argi > Len(Outputs)
    /\ Exit(IF outErrors > 0 \/ CodeOffset = 0 THEN "error" ELSE "success")
    /\ UNCHANGED <<argv, outCore, Options, equates, files, argi>>
    /\ UNCHANGED Engine

OutNext == \/ \E a \in Arguments : Type(a)
           \/ GetNames
           \/ GetFlags
           \/ \E opened \in BOOLEAN : Prepare(opened)
           \/ \E e \in 0 .. 1, im \in Images, n \in LabelRecords : Passes(e, im, n)
           \/ \E opened \in BOOLEAN, lost \in Losses, found \in SUBSET Sources :
                  WriteOutput(opened, lost, found)
           \/ Return

OutSpec == OutInit /\ [][OutNext]_outVars

-----------------------------------------------------------------------------
(* The exit code tells what happened to the files: success is a file for   *)
(* every option typed before an I, D or C (the C array if there is none),  *)
(* and no short write of the debug file; assembly errors leave every file  *)
(* as it was; an error after a good assembly is a file that could not be   *)
(* made or a short write of the debug file.                                *)
ExitTellsOutputs ==
    step = "exit" =>
        LET names == {w.name : w \in written}
            short == \E w \in written : w.name = "d" /\ w.lost = "fwrite"
        IN  /\ names \subseteq Options
            /\ exitCode = "success" => /\ names = Options \cap Formats /\ ~short
                                       /\ names \ {"L"} # {} /\ image # <<>>
            /\ exitCode = "usage" => names = {}
            /\ exitCode = "error" /\ names # {} =>
                   names # Options \cap Formats \/ short

(* One core at most is accepted: of two flags that name one the second is  *)
(* refused, in the same argument or another; never is a ninth equate.      *)
OneCore ==
    step \in {"passes", "outputs"} =>
        /\ equates <= MAX_CMD_EQUATE /\ outCore \in 0 .. 3
        /\ LET read(i, k) == /\ argv[i].flags[k] \in CoreFlags
                             /\ \A n \in 1 .. k :
                                    argv[i].flags[n] \notin {"I", "D", "C"}
           IN  \A i, j \in DOMAIN argv :
                   \A k \in DOMAIN argv[i].flags, m \in DOMAIN argv[j].flags :
                       read(i, k) /\ read(j, m) => <<i, k>> = <<j, m>>

(* The files of which nothing was lost.                                    *)
Complete == {w \in written : w.lost = "none"}

(* The offsets in the header of a whole debug file are where its sections  *)
(* are.                                                                    *)
DbgSectionsMeet ==
    \A w \in Complete : w.name = "d" =>
        LET d == w.content
            offset(r) == LET before(k) == Cardinality({q \in 1 .. r - 1 : d.records[q] = k})
                         IN  HeaderSize + before("label") * RecordSize.label
                             + before("file") * RecordSize.file
                             + before("code") * RecordSize.code
        IN  \A k \in {"label", "file", "code"} :
               LET section == {r \in DOMAIN d.records : d.records[r] = k}
               IN  /\ Cardinality(section) = d.header[k][1]
                   /\ \A r \in section : (\A q \in section : r <= q)
                                         => offset(r) = d.header[k][2]

(* A whole listing shows every word of the image once, at the line it comes*)
(* from, but for the further words of a last line without a newline, and   *)
(* those of a source that is not found: they are shown nowhere.            *)
ListingShowsWords ==
    \A w \in Complete : w.name = "L" =>
        \A a \in 0 .. CodeOffset - 1 : image[a + 1] # Unwritten =>
            LET f == image[a + 1][1]
                l == image[a + 1][2]
                shown == w.content[f].lines
            IN  /\ f \in DOMAIN w.content =>
                       a \in shown[l] \/ (l = FileLines[f + 1] /\ ~EndsWithNewline
                                         /\ \E b \in shown[l] : b < a)
                /\ \A g \in DOMAIN w.content : \A m \in DOMAIN w.content[g].lines :
                       a \in w.content[g].lines[m] => <<g, m>> = <<f, l>>

Count(f) == Cardinality({a \in 0 .. CodeOffset - 1 :
                            image[a + 1] # Unwritten /\ image[a + 1][1] = f})

(* "N Instructions Generated" counts the words of a file, but for the first*)
(* file, when nothing is at address 0: there it counts one more.           *)
CountsOfListing ==
    \A w \in Complete : w.name = "L" =>
        \A f \in DOMAIN w.content :
            w.content[f].count = Count(f)
                + IF f = 0 /\ image[1] = Unwritten THEN 1 ELSE 0

(* What is said about the run: by its exit code, and by its one core.      *)
CommandLineKept == ExitTellsOutputs /\ OneCore

(* What debuggers and people read about the image agrees with it.          *)
DescriptionsMatchImage == DbgSectionsMeet /\ ListingShowsWords /\ CountsOfListing

(* What is written, counted and returned is what was asked for, of the     *)
(* image that was assembled.                                               *)
OutputsAsAsked == CommandLineKept /\ DescriptionsMatchImage
=============================================================================
