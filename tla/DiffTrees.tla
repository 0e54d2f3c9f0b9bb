------------------------------ MODULE DiffTrees ------------------------------
(***************************************************************************)
(* virt-diff (diff/diff.c): walks two guests, merges the two lists of      *)
(* files by path, and prints what differs.  Standard output is written by  *)
(* two: by the program, through the buffer of stdio, and by the diff       *)
(* command that it runs for each file whose content differs.  The walk of  *)
(* a guest (visit), libguestfs and diff are external.                      *)
(***************************************************************************)
EXTENDS Integers, Sequences, FiniteSets, SequencesExt

CONSTANTS MaxPath,    \* paths are numbered in the order of strcmp
          Walks,      \* orders in which visit may meet them
          GuestPairs, \* what the two guests contain: functions on sets of paths
          OptionSets  \* the command lines that are tried

Paths == 1..MaxPath
Kinds == {"reg", "dir", "lnk"}

\* "stat" stands for mode, uid, gid, rdev, blksize and blocks; "nsec" for the
\* nanoseconds of the times.
File == [kind : Kinds, stat : Nat, nlink : Nat, ino : Nat, size : Nat, atime : Nat,
         mtime : Nat, ctime : Nat, nsec : Nat, xattrs : Nat, content : Nat]

Options == [atime : BOOLEAN, dirLinks : BOOLEAN, dirTimes : BOOLEAN, checksum : BOOLEAN,
            csv : BOOLEAN, human : BOOLEAN, uids : BOOLEAN, times : BOOLEAN,
            extraStats : BOOLEAN, xattrs : BOOLEAN, drives : 0..2]

ASSUME OptionsAssumption == OptionSets \subseteq Options
ASSUME MaxPathAssumption == MaxPath \in Nat
ASSUME WalksAssumption ==
  \A w \in Walks : w \in Seq(Paths) /\ ToSet(w) = Paths /\ Len(w) = MaxPath

\* The content of a file is a number too; 0 is kept for a checksum that is missing.
ASSUME GuestPairsAssumption ==
  \A g \in GuestPairs : \A n \in 1..2 :
    /\ DOMAIN g[n] \subseteq Paths
    /\ \A p \in DOMAIN g[n] : g[n][p] \in File /\ g[n][p].content # 0

VARIABLES guest,   \* guest[n], n \in 1..2: its files
          walk,    \* the order of visit
          opt,     \* the command line
          at,      \* position in main
          tree,    \* tree[n]: paths found so far, in the order of the walk
          failed,  \* guests whose tree is NULL
          next,    \* next[n]: index in tree[n] of the merge (i1 and i2)
          buffer,  \* what stdio holds back
          stdout,  \* what has been written
          full,    \* no space left on standard output
          exit     \* exit status, -1 while the program runs

vars == <<guest, walk, opt, at, tree, failed, next, buffer, stdout, full, exit>>

Init ==
  /\ guest \in GuestPairs
  /\ walk \in Walks
  /\ opt \in OptionSets
  /\ at = "options"
  /\ tree = <<<<>>, <<>>>>
  /\ failed = {}
  /\ next = <<1, 1>>
  /\ buffer = <<>> /\ stdout = <<>> /\ full = FALSE
  /\ exit = -1

Running == exit = -1
Input == <<guest, walk, opt>>
Output == <<buffer, stdout, full>>

-----------------------------------------------------------------------------
(* What visit_entry keeps of a file.                                         *)

\* The checksum, of regular files only; 0 stands for NULL.
Csum(f) == IF opt.checksum /\ f.kind = "reg" THEN f.content ELSE 0

Flattened(f) ==
  LET times == f.kind # "dir" \/ opt.dirTimes
  IN [f EXCEPT !.atime = IF opt.atime /\ times THEN @ ELSE 0,
               !.nlink = IF f.kind # "dir" \/ opt.dirLinks THEN @ ELSE 0,
               !.mtime = IF times THEN @ ELSE 0,
               !.ctime = IF times THEN @ ELSE 0,
               !.nsec  = IF times THEN @ ELSE 0,
               !.content = Csum(f)]

Entry(n, p) == Flattened(guest[n][p])

-----------------------------------------------------------------------------
(* Output.                                                                   *)

\* The fields of output_file; a missing checksum has no field, not an empty one.
FileFields(f) ==
  <<"type", "perms", "size">>
  \o (IF opt.uids THEN <<"uid", "gid">> ELSE <<>>)
  \o (IF opt.times /\ opt.atime THEN <<"atime">> ELSE <<>>)
  \o (IF opt.times THEN <<"mtime", "ctime">> ELSE <<>>)
  \o (IF opt.extraStats THEN <<"dev", "ino", "nlink", "rdev", "blocks">> ELSE <<>>)
  \o (IF f.content # 0 THEN <<"csum">> ELSE <<>>)
  \o <<"path">>
  \o (IF f.kind = "lnk" THEN <<"link">> ELSE <<>>)
  \o (IF opt.xattrs /\ f.xattrs # 0 THEN <<"attrname", "attrval">> ELSE <<>>)

Line(sign, n, p) == [sign |-> sign, path |-> p, fields |-> FileFields(Entry(n, p))]

\* The fields that are named in a line with "#".
ChangedFields(f1, f2) ==
  {k \in {"stat", "nlink", "size", "atime", "mtime", "ctime", "xattrs"} :
     f1[k] # f2[k] \/ (k = "stat" /\ f1.kind # f2.kind)}
ChangedLine(p) == [sign |-> "#", path |-> p, fields |-> ChangedFields(Entry(1, p), Entry(2, p))]

DiffOf(p) == [sign |-> "diff", path |-> p, fields |-> <<>>]
EndOfDiff(p) == [sign |-> "@@", path |-> p, fields |-> <<>>]

-----------------------------------------------------------------------------
(* main, up to the two trees.                                                *)

\* Without two guests, or with -h and --csv, the program stops at once.
CheckOptions ==
  /\ Running /\ at = "options"
  /\ IF opt.drives < 2 \/ (opt.human /\ opt.csv)
     THEN exit' = 1 /\ UNCHANGED at
     ELSE at' = "open1" /\ UNCHANGED exit
  /\ UNCHANGED <<Input, tree, failed, next, Output>>

At(place, n) == Running /\ at = <<"open1", "open2", "visit1", "visit2">>[place + n]
Then(n) == IF n = 1 THEN "open2" ELSE "merge"

\* Drives are added, the appliance is launched, the guest is inspected and mounted.
OpenGuest(n) ==
  /\ At(0, n)
  /\ \/ at' = <<"visit1", "visit2">>[n] /\ UNCHANGED exit
     \/ exit' = 1 /\ UNCHANGED at
  /\ UNCHANGED <<Input, tree, failed, next, Output>>

\* Positions in the walk of the files that visit has not met yet.
Left(n) == {i \in DOMAIN walk : walk[i] \in DOMAIN guest[n] \ ToSet(tree[n])}

VisitEntry(n) ==
  /\ At(2, n)
  /\ \E i \in Left(n) : /\ \A j \in Left(n) : i <= j
                         /\ tree' = [tree EXCEPT ![n] = Append(@, walk[i])]
  /\ UNCHANGED <<Input, at, failed, next, Output, exit>>

EndVisit(n) ==
  /\ At(2, n)
  /\ Left(n) = {}
  /\ at' = Then(n)
  /\ UNCHANGED <<Input, tree, failed, next, Output, exit>>

\* visit or visit_entry fails, and the tree is freed; the other guest is visited
\* all the same.
VisitFails(n) ==
  /\ At(2, n)
  /\ tree' = [tree EXCEPT ![n] = <<>>]
  /\ failed' = failed \cup {n}
  /\ at' = Then(n)
  /\ UNCHANGED <<Input, next, Output, exit>>

-----------------------------------------------------------------------------
(* diff_guests.                                                              *)

Merging == Running /\ at = "merge" /\ failed = {}
Rest(n) == SubSeq(tree[n], next[n], Len(tree[n]))
Path(n) == tree[n][next[n]]

Write(lines) == buffer' = buffer \o lines /\ UNCHANGED <<stdout, full>>

\* A file of the first guest that the second does not have, or only later.
Deleted ==
  /\ Merging
  /\ Rest(1) # <<>> /\ (Rest(2) # <<>> => Path(1) < Path(2))
  /\ Write(<<Line("-", 1, Path(1))>>)
  /\ next' = [next EXCEPT ![1] = @ + 1]
  /\ UNCHANGED <<Input, at, tree, failed, exit>>

Added ==
  /\ Merging
  /\ Rest(2) # <<>> /\ (Rest(1) # <<>> => Path(2) < Path(1))
  /\ Write(<<Line("+", 2, Path(2))>>)
  /\ next' = [next EXCEPT ![2] = @ + 1]
  /\ UNCHANGED <<Input, at, tree, failed, exit>>

Stats(f) == [f EXCEPT !.content = 0]

\* compare_stats: all fields of statns, also those that are never named, and the
\* extended attributes.
StatsDiffer(p) == Stats(Entry(1, p)) # Stats(Entry(2, p))

\* Checksums are only compared when the stats are equal.
CsumsDiffer(p) == /\ ~StatsDiffer(p)
                  /\ Csum(guest[1][p]) # 0 /\ Csum(guest[2][p]) # 0
                  /\ Csum(guest[1][p]) # Csum(guest[2][p])

ContentChanged(p) ==
  LET f1 == Entry(1, p)  f2 == Entry(2, p)
  IN \/ CsumsDiffer(p)
     \/ /\ StatsDiffer(p)
        /\ f1.kind = "reg" /\ f2.kind = "reg"
        /\ f1.mtime # f2.mtime \/ f1.ctime # f2.ctime \/ f1.size # f2.size

Both == Merging /\ Rest(1) # <<>> /\ Rest(2) # <<>> /\ Path(1) = Path(2)

Same_Mutant ==
  /\ Both
  /\ ~StatsDiffer(Path(1))
  /\ next' = <<next[1] + 1, next[2] + 1>>
  /\ UNCHANGED <<Input, at, tree, failed, Output, exit>>

Same ==
  /\ Both
  /\ ~StatsDiffer(Path(1)) /\ ~ContentChanged(Path(1))
  /\ next' = <<next[1] + 1, next[2] + 1>>
  /\ UNCHANGED <<Input, at, tree, failed, Output, exit>>

OnlyStatsChanged ==
  /\ Both
  /\ StatsDiffer(Path(1)) /\ ~ContentChanged(Path(1))
  /\ Write(<<Line("-", 1, Path(1)), Line("+", 2, Path(1)), ChangedLine(Path(1))>>)
  /\ next' = <<next[1] + 1, next[2] + 1>>
  /\ UNCHANGED <<Input, at, tree, failed, exit>>

FileChanged_Mutant ==
  /\ Both
  /\ ContentChanged(Path(1))
  /\ IF opt.csv
     THEN /\ Write(<<Line("=", 1, Path(1))>>)
          /\ next' = <<next[1] + 1, next[2] + 1>>
          /\ UNCHANGED <<at, exit>>
     ELSE /\ buffer' = Append(buffer, Line("=", 1, Path(1)))
          /\ at' = "diff"
          /\ UNCHANGED <<stdout, full, next, exit>>
  /\ UNCHANGED <<Input, tree, failed>>

\* In text mode the buffer is flushed before diff writes to the same file.
FileChanged ==
  /\ Both
  /\ ContentChanged(Path(1))
  /\ IF opt.csv
     THEN /\ Write(<<Line("=", 1, Path(1))>>)
          /\ next' = <<next[1] + 1, next[2] + 1>>
          /\ UNCHANGED <<at, exit>>
     ELSE IF full
     THEN exit' = 1 /\ UNCHANGED <<Output, at, next>>
     ELSE /\ stdout' = stdout \o Append(buffer, Line("=", 1, Path(1)))
          /\ buffer' = <<>>
          /\ at' = "diff"
          /\ UNCHANGED <<full, next, exit>>
  /\ UNCHANGED <<Input, tree, failed>>

\* Both files are downloaded and compared by diff, which writes straight to
\* standard output.  A failure, also after that, is only a message, and leaves out
\* the last line.
RunDiff ==
  /\ Running /\ at = "diff"
  /\ \/ UNCHANGED <<stdout, buffer>>
     \/ /\ ~full
        /\ stdout' = Append(stdout, DiffOf(Path(1)))
        /\ buffer' \in {buffer, Append(buffer, EndOfDiff(Path(1)))}
  /\ at' = "merge"
  /\ next' = <<next[1] + 1, next[2] + 1>>
  /\ UNCHANGED <<Input, tree, failed, full, exit>>

\* No temporary directory can be made for the two files.
NoTmpdir ==
  /\ Running /\ at = "diff"
  /\ exit' = 1
  /\ UNCHANGED <<Input, at, tree, failed, next, Output>>

Finish_Mutant ==
  /\ Running /\ at = "merge"
  /\ failed # {} \/ Rest(1) = <<>> \/ Rest(2) = <<>>
  /\ IF failed = {} /\ ~(full /\ buffer # <<>>)
     THEN exit' = 0 /\ stdout' = stdout \o buffer /\ buffer' = <<>>
     ELSE exit' = 1 /\ UNCHANGED <<stdout, buffer>>
  /\ UNCHANGED <<Input, at, tree, failed, next, full>>

\* The end of both lists: output_flush, and the exit status.
Finish ==
  /\ Running /\ at = "merge"
  /\ failed # {} \/ (Rest(1) = <<>> /\ Rest(2) = <<>>)
  /\ IF failed = {} /\ ~(full /\ buffer # <<>>)
     THEN exit' = 0 /\ stdout' = stdout \o buffer /\ buffer' = <<>>
     ELSE exit' = 1 /\ UNCHANGED <<stdout, buffer>>
  /\ UNCHANGED <<Input, at, tree, failed, next, full>>

-----------------------------------------------------------------------------
(* The surroundings.                                                         *)

\* stdio writes its buffer whenever it is full; if that fails, putchar or printf
\* reports it, and the program exits.
BufferFull ==
  /\ Running /\ at = "merge" /\ buffer # <<>>
  /\ IF full THEN exit' = 1 /\ UNCHANGED <<stdout, buffer>>
             ELSE stdout' = stdout \o buffer /\ buffer' = <<>> /\ UNCHANGED exit
  /\ UNCHANGED <<Input, at, tree, failed, next, full>>

DiskFull ==
  /\ Running /\ ~full
  /\ full' = TRUE
  /\ UNCHANGED <<Input, at, tree, failed, next, buffer, stdout, exit>>

Next ==
  \/ CheckOptions
  \/ \E n \in 1..2 : OpenGuest(n) \/ VisitEntry(n) \/ EndVisit(n) \/ VisitFails(n)
  \/ Deleted \/ Added \/ Same \/ OnlyStatsChanged \/ FileChanged \/ RunDiff \/ NoTmpdir
  \/ Finish \/ BufferFull \/ DiskFull

Spec == Init /\ [][Next]_vars

-----------------------------------------------------------------------------
(* Properties.                                                               *)

\* The lines of the program itself among those of diff.
OwnLines(s) ==
  FlattenSeq([i \in DOMAIN s |-> IF s[i].sign \in {"diff", "@@"} THEN <<>> ELSE <<s[i]>>])
Lines == OwnLines(stdout)
Shown(sign) == {stdout[i].path : i \in {j \in DOMAIN stdout : stdout[j].sign = sign}}

\* The lines for one path, from the two guests alone.
Expected(p) ==
  CASE p \notin DOMAIN guest[2] -> <<Line("-", 1, p)>>
    [] p \notin DOMAIN guest[1] -> <<Line("+", 2, p)>>
    [] OTHER ->
         IF Entry(1, p) = Entry(2, p) \/ (~StatsDiffer(p) /\ ~opt.checksum) THEN <<>>
         ELSE IF ContentChanged(p) THEN <<Line("=", 1, p)>>
         ELSE <<Line("-", 1, p), Line("+", 2, p), ChangedLine(p)>>

\* When the walks are sorted by path, as the comment at struct tree says, a
\* successful run has printed exactly the difference, in the order of the paths:
\* the merge (diff.c 616-653) reports no file twice, as deleted and added, or not at
\* all, and no line is lost to a full disk.
ReportIsTheDifference ==
  exit = 0 /\ walk = [p \in Paths |-> p] =>
    Lines = FlattenSeq([p \in Paths |->
              IF p \in DOMAIN guest[1] \cup DOMAIN guest[2] THEN Expected(p) ELSE <<>>])

\* Whatever the order of the walks, no difference goes unreported.
NothingIsMissed ==
  exit = 0 =>
    /\ DOMAIN guest[1] \ DOMAIN guest[2] \subseteq Shown("-")
    /\ DOMAIN guest[2] \ DOMAIN guest[1] \subseteq Shown("+")
    /\ \A p \in DOMAIN guest[1] \cap DOMAIN guest[2] :
         Entry(1, p) # Entry(2, p) => p \in Shown("=") \cup (Shown("-") \cap Shown("+"))

\* The output of diff comes directly after the line of its file, and its end mark
\* directly after it, although two processes write to the same file.
DiffFollowsItsLine ==
  \A i \in DOMAIN stdout :
    /\ stdout[i].sign = "diff" => /\ i > 1
                                  /\ stdout[i - 1].sign = "="
                                  /\ stdout[i - 1].path = stdout[i].path
    /\ stdout[i].sign = "@@" => stdout[i - 1] = DiffOf(stdout[i].path)
=============================================================================
