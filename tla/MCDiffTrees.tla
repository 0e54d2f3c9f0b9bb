----------------------------- MODULE MCDiffTrees -----------------------------
(* Three paths, "/a", "/a.b" and "/a/b", in the order of strcmp and in that  *)
(* of a walk directory by directory.  The second guest has each of them      *)
(* unchanged, changed in one way, or not at all.                             *)
EXTENDS DiffTrees

Base(kind) == [kind |-> kind, stat |-> 1, nlink |-> 1, ino |-> 1, size |-> 1, atime |-> 1,
               mtime |-> 1, ctime |-> 1, nsec |-> 1, xattrs |-> 0, content |-> 1]

Variants(kind) ==
  LET f == Base(kind)
  IN {f, [f EXCEPT !.nlink = 2, !.atime = 2, !.ino = 2], [f EXCEPT !.stat = 2, !.content = 2]}
     \cup IF kind = "reg" THEN {[f EXCEPT !.content = 2], [f EXCEPT !.mtime = 2, !.nsec = 2],
                                [f EXCEPT !.size = 2, !.xattrs = 1]}
                          ELSE {[f EXCEPT !.mtime = 2, !.ctime = 2], Base("reg")}

Sub(f, S) == [p \in S |-> f[p]]
MCGuestPairs ==
  {<<Sub([p \in {1} |-> Base("dir")] @@ [p \in 2..3 |-> Base("reg")], s),
     Sub([p \in {1} |-> d] @@ [p \in {2} |-> f] @@ [p \in {3} |-> Base("reg")], t)>> :
      d \in Variants("dir"), f \in Variants("reg"), s \in {1..3, {1, 3}, {1, 2}}, t \in {1..3, {1, 2}, {1, 3}}}

MCWalks == {<<1, 2, 3>>, <<1, 3, 2>>}

Plain == [atime |-> FALSE, dirLinks |-> FALSE, dirTimes |-> FALSE, checksum |-> FALSE,
          csv |-> FALSE, human |-> FALSE, uids |-> FALSE, times |-> FALSE,
          extraStats |-> FALSE, xattrs |-> FALSE, drives |-> 2]
MCOptionSets ==
  {Plain, [Plain EXCEPT !.checksum = TRUE], [Plain EXCEPT !.csv = TRUE, !.dirTimes = TRUE, !.times = TRUE],
   [Plain EXCEPT !.atime = TRUE, !.dirLinks = TRUE, !.xattrs = TRUE, !.uids = TRUE],
   [Plain EXCEPT !.human = TRUE, !.csv = TRUE], [Plain EXCEPT !.drives = 1]}
=============================================================================
