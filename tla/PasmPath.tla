------------------------------ MODULE PasmPath ------------------------------
(***************************************************************************)
(* Where the assembler finds the files of #include: the directories of -I  *)
(* (path_utils.c) and the records of InitSourceFile (pasmpp.c), which the  *)
(* words of the image name by their index until the output is written.     *)
(*                                                                         *)
(* A path is a sequence of components, the base name last; "/" as the last *)
(* component of a directory is the trailing '/' the code strips.  Its      *)
(* length, in the buffers of Size characters, is its number of components. *)
(* That hides one byte: get_absolute takes dlen + flen = sz - 1 to fit,    *)
(* where '/' and the final 0 need sz + 1 bytes of its scratch buffer.      *)
(***************************************************************************)
EXTENDS Integers, Sequences, SequencesExt

CONSTANTS Directories,  \* arguments of -I
          SourceNames,  \* names that follow #include
          Readable,     \* the paths access() finds readable
          DirectoryMax, \* bound: directories of a command line
          RecordMax,    \* SOURCEFILE_MAX
          OpenLimit,    \* 15 in InitSourceFile
          Size          \* SOURCE_BASE_DIR

VARIABLES include_dirs, records, opened, lastOpen, fatalPath

pathVars == <<include_dirs, records, opened, lastOpen, fatalPath>>

NoPath == <<>>
Closed == [path |-> NoPath, asked |-> NoPath, angled |-> FALSE]

PathInit ==
    /\ include_dirs = <<>> /\ records = <<>> /\ opened = <<>>
    /\ lastOpen = Closed /\ fatalPath = FALSE

(* The directory without its trailing slashes.                             *)
StripSlashes(dir) ==
    SubSeq(dir, 1, CHOOSE n \in 0 .. Len(dir) :
                       /\ n = 0 \/ dir[n] # "/"
                       /\ \A i \in n + 1 .. Len(dir) : dir[i] = "/")

(* -I, before the first source file is opened.                             *)
add_include_dir(dir) ==
    /\ records = <<>> /\ Len(include_dirs) < DirectoryMax
    /\ include_dirs' = Append(include_dirs, StripSlashes(dir))
    /\ UNCHANGED <<records, opened, lastOpen, fatalPath>>

(* Slip: the last directory that has the file.                             *)
Last_get_absolute(name) ==
    LET tooLong == {i \in DOMAIN include_dirs :
                      Len(include_dirs[i]) + Len(name) >= Size}
        found == {i \in DOMAIN include_dirs : include_dirs[i] \o name \in Readable}
        stops == tooLong \cup found
    IN  IF stops = {} THEN NoPath
        ELSE LET i == CHOOSE j \in stops : \A k \in stops : j >= k
             IN  IF i \in tooLong THEN NoPath ELSE include_dirs[i] \o name

(* The directories are tried in order: one too long ends the search.       *)
get_absolute(name) ==
    LET tooLong == {i \in DOMAIN include_dirs :
                      Len(include_dirs[i]) + Len(name) >= Size}
        found == {i \in DOMAIN include_dirs : include_dirs[i] \o name \in Readable}
        stops == tooLong \cup found
    IN  IF stops = {} THEN NoPath
        ELSE LET i == CHOOSE j \in stops : \A k \in stops : j <= k
             IN  IF i \in tooLong THEN NoPath ELSE include_dirs[i] \o name

is_definite(name) == Head(name) \in {"/", "."}

get_dirname(name) == IF Len(name) = 1 THEN <<".">> ELSE Front(name)
get_basename(name) == Last(name)

Resolve(name, angled) ==
    IF angled /\ ~is_definite(name) THEN get_absolute(name) ELSE name

(* The record of a file closed before, or a new one.                       *)
Reusable(name) ==
    {i \in DOMAIN records : /\ name # NoPath /\ ~records[i].InUse
                            /\ records[i].SourceName = get_basename(name)
                            /\ records[i].SourceBaseDir = get_dirname(name)}

Record(name) ==
    [SourceName |-> get_basename(name), SourceBaseDir |-> get_dirname(name),
     InUse |-> TRUE]

(* A file that cannot be opened leaves its record in use; every failure is *)
(* fatal.  opened has the records of the open files, the innermost last.   *)
InitSourceFile(name, angled) ==
    LET path == Resolve(name, angled)
        reused == Reusable(path)
        i == IF reused = {} THEN Len(records) + 1
             ELSE CHOOSE j \in reused : \A k \in reused : j <= k
    IN  /\ ~fatalPath
        /\ IF \/ Len(opened) = OpenLimit
              \/ path = NoPath
              \/ reused = {} /\ Len(records) = RecordMax
           THEN fatalPath' = TRUE /\ UNCHANGED <<records, opened, lastOpen>>
           ELSE /\ records' = IF reused = {} THEN Append(records, Record(path))
                              ELSE [records EXCEPT ![i] = Record(path)]
                /\ fatalPath' = (path \notin Readable)
                /\ IF path \in Readable
                   THEN /\ opened' = Append(opened, i)
                        /\ lastOpen' = [path |-> path, asked |-> name,
                                        angled |-> angled]
                   ELSE UNCHANGED <<opened, lastOpen>>
        /\ UNCHANGED include_dirs

CloseSourceFile ==
    /\ opened # <<>>
    /\ records' = [records EXCEPT ![Last(opened)].InUse = FALSE]
    /\ opened' = Front(opened)
    /\ UNCHANGED <<include_dirs, lastOpen, fatalPath>>

PathNext ==
    \/ \E dir \in Directories : add_include_dir(dir)
    \/ \E name \in SourceNames : \E angled \in BOOLEAN : InitSourceFile(name, angled)
    \/ CloseSourceFile

PathSpec == PathInit /\ [][PathNext]_pathVars
-----------------------------------------------------------------------------
(* A name in <> that is not absolute or explicitly relative opens the file *)
(* of the first -I directory that has one: no file of a later directory,   *)
(* and none beside the assembler, can hide it.                             *)
FirstDirectoryWins ==
    lastOpen.angled /\ ~is_definite(lastOpen.asked) =>
        \E i \in DOMAIN include_dirs :
            /\ lastOpen.path = include_dirs[i] \o lastOpen.asked
            /\ \A j \in 1 .. i - 1 : include_dirs[j] \o lastOpen.asked \notin Readable

(* The words of the image and the records of the debug file name a source  *)
(* file by its index: however the files are opened, closed and opened      *)
(* again in the second pass, an index keeps the file it was given.         *)
RecordsKeepTheirFile ==
    [][\A i \in DOMAIN records :
          /\ records'[i].SourceName = records[i].SourceName
          /\ records'[i].SourceBaseDir = records[i].SourceBaseDir]_pathVars

(* Two open files never share a record, however deep a file includes       *)
(* itself: each keeps its own line number and its own file pointer.        *)
OpenFilesApart ==
    /\ \A i, j \in DOMAIN opened : i # j => opened[i] # opened[j]
    /\ \A i \in DOMAIN opened : records[opened[i]].InUse

(* Includes find their file, and the index of a file stays its own.        *)
IncludesResolved ==
    [](FirstDirectoryWins /\ OpenFilesApart) /\ RecordsKeepTheirFile
=============================================================================
