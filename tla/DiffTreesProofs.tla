-------------------------- MODULE DiffTreesProofs --------------------------
(***************************************************************************)
(* Theorems about DiffTrees: what a successful run has reported, for any   *)
(* two guests, any options and any order of the walk, and where the output *)
(* of diff stands.                                                         *)
(***************************************************************************)
EXTENDS DiffTrees, FlattenTheorems

-----------------------------------------------------------------------------
(* The inductive invariant.                                                *)

FieldNames == {"type", "perms", "size", "uid", "gid", "atime", "mtime", "ctime", "dev", "ino",
               "nlink", "rdev", "blocks", "csum", "path", "link", "attrname", "attrval",
               "stat", "xattrs"}
LineType == [sign : {"-", "+", "=", "#", "diff", "@@"}, path : Paths,
             fields : Seq(FieldNames) \cup SUBSET FieldNames]

(* What has been written and what stdio still holds back.                  *)
All == stdout \o buffer

TypeOK ==
  /\ guest \in GuestPairs /\ walk \in Walks /\ opt \in OptionSets
  /\ at \in {"options", "open1", "open2", "visit1", "visit2", "merge", "diff"}
  /\ tree \in [1..2 -> Seq(Paths)]
  /\ failed \subseteq 1..2
  /\ next \in [1..2 -> Nat \ {0}]
  /\ buffer \in Seq(LineType) /\ stdout \in Seq(LineType)
  /\ full \in BOOLEAN
  /\ exit \in {-1, 0, 1}

Comparing == at \in {"merge", "diff"}

(* Nothing is written before both guests have been walked.                 *)
Fresh == ~Comparing => next = <<1, 1>> /\ buffer = <<>> /\ stdout = <<>>

(* A tree holds files of its guest only, and at last all of them, unless   *)
(* it is NULL.                                                             *)
Walked(n) == Comparing \/ (n = 1 /\ at \in {"open2", "visit2"})
TreeInv ==
  \A n \in 1..2 :
    /\ ToSet(tree[n]) \subseteq DOMAIN guest[n]
    /\ Walked(n) /\ n \notin failed => DOMAIN guest[n] \subseteq ToSet(tree[n])
    /\ next[n] <= Len(tree[n]) + 1

Has(s, sign, p) == \E i \in 1..Len(s) : s[i].sign = sign /\ s[i].path = p

(* The two sides of a path are alike, or the path was reported.            *)
Covered(s, p) ==
  /\ p \in DOMAIN guest[1] /\ p \in DOMAIN guest[2]
  /\ \/ Entry(1, p) = Entry(2, p)
     \/ Has(s, "=", p)
     \/ Has(s, "-", p) /\ Has(s, "+", p)

CoverageInv ==
  \A n \in 1..2 : \A k \in 1..(next[n] - 1) :
    \/ Covered(All, tree[n][k])
    \/ Has(All, <<"-", "+">>[n], tree[n][k])

(* Each line of diff and its end mark follow what they belong to.          *)
Follows(s) ==
  \A i \in 1..Len(s) :
    /\ s[i].sign = "diff" =>
         i > 1 /\ s[i - 1].sign = "=" /\ s[i - 1].path = s[i].path
    /\ s[i].sign = "@@" => i > 1 /\ s[i - 1] = DiffOf(s[i].path)
FollowsInv == Follows(All)

(* When diff is run the line of its file is the last one that was written. *)
DiffInv ==
  at = "diff" =>
    /\ failed = {}
    /\ \A n \in 1..2 : next[n] <= Len(tree[n])
    /\ Path(1) = Path(2) /\ ContentChanged(Path(1))
    /\ buffer = <<>> /\ stdout # <<>>
    /\ stdout[Len(stdout)] = Line("=", 1, Path(1))

EndInv ==
  exit = 0 => /\ at = "merge" /\ failed = {} /\ buffer = <<>>
              /\ \A n \in 1..2 : next[n] = Len(tree[n]) + 1

IInv == /\ TypeOK /\ Fresh /\ TreeInv /\ CoverageInv /\ FollowsInv /\ DiffInv /\ EndInv

-----------------------------------------------------------------------------
(* In a walk sorted by path.                                               *)

Sorted == \A i \in 1..MaxPath : walk[i] = i

OrderInv ==
  Sorted => \A n \in 1..2 :
    /\ \A i, j \in 1..Len(tree[n]) : i < j => tree[n][i] < tree[n][j]
    /\ \A p \in DOMAIN guest[n] \ ToSet(tree[n]), k \in 1..Len(tree[n]) :
         Walked(n) \/ tree[n][k] < p

(* The report on the paths up to c.                                        *)
Block(p) == IF p \in DOMAIN guest[1] \cup DOMAIN guest[2] THEN Expected(p) ELSE <<>>
Report(c) == FlattenSeq([p \in 1..c |-> Block(p)])

(* The merge has dealt with the paths up to c.                             *)
MergedUpto(c) ==
  /\ \A n \in 1..2 : /\ \A k \in 1..(next[n] - 1) : tree[n][k] <= c
                     /\ \A k \in next[n]..Len(tree[n]) : tree[n][k] > c
  /\ OwnLines(All) = Report(c) \o (IF at = "diff" THEN <<Line("=", 1, Path(1))>> ELSE <<>>)
ReportInv == Sorted /\ Comparing /\ failed = {} => \E c \in 0..MaxPath : MergedUpto(c)

SortedInv == OrderInv /\ ReportInv

-----------------------------------------------------------------------------
(* The guests, and what is compared.                                       *)

LEMMA GuestTypes ==
  ASSUME TypeOK, NEW n \in 1..2
  PROVE  /\ DOMAIN guest[n] \subseteq Paths
         /\ \A p \in DOMAIN guest[n] : guest[n][p] \in File /\ guest[n][p].content # 0
BY GuestPairsAssumption DEF TypeOK

LEMMA OptionTypes == ASSUME TypeOK PROVE opt \in Options
BY OptionsAssumption DEF TypeOK

LEMMA WalkTypes ==
  ASSUME TypeOK
  PROVE  /\ walk \in Seq(Paths) /\ DOMAIN walk = 1..MaxPath /\ Len(walk) = MaxPath
         /\ \A p \in Paths : \E i \in 1..MaxPath : walk[i] = p
<1>1. walk \in Seq(Paths) /\ ToSet(walk) = Paths /\ Len(walk) = MaxPath
  BY WalksAssumption DEF TypeOK
<1>2. DOMAIN walk = 1..MaxPath
  BY <1>1, LenProperties
<1> QED
  BY <1>1, <1>2 DEF ToSet

LEMMA FieldTypes == ASSUME NEW f PROVE FileFields(f) \in Seq(FieldNames)
<1> DEFINE T == Seq(FieldNames)
<1>1. \A s, t \in T : s \o t \in T
  BY ConcatProperties
<1>2. \A a \in FieldNames : <<>> \in T /\ <<a>> \in T
  OBVIOUS
<1>3. /\ <<"uid", "gid">> \in T /\ <<"mtime", "ctime">> \in T /\ <<"attrname", "attrval">> \in T
  <2>1. \A a, b \in FieldNames : <<a, b>> \in T
    OBVIOUS
  <2> HIDE DEF T
  <2> QED
    BY <2>1 DEF FieldNames
<1>4. <<"type", "perms", "size">> \in T
  <2>1. \A a, b, c \in FieldNames : <<a, b, c>> \in T
    OBVIOUS
  <2> HIDE DEF T
  <2> QED
    BY <2>1 DEF FieldNames
<1>5. <<"dev", "ino", "nlink", "rdev", "blocks">> \in T
  <2>1. \A a, b, c, d, e \in FieldNames : <<a, b, c, d, e>> \in T
    OBVIOUS
  <2>2. /\ "dev" \in FieldNames /\ "ino" \in FieldNames /\ "nlink" \in FieldNames
        /\ "rdev" \in FieldNames /\ "blocks" \in FieldNames
    BY DEF FieldNames
  <2> HIDE DEF T
  <2> QED
    BY <2>1, <2>2, Zenon
<1>6. <<>> \in T /\ <<"path">> \in T /\ <<"atime">> \in T /\ <<"csum">> \in T /\ <<"link">> \in T
  <2> HIDE DEF T
  <2> QED
    BY <1>2 DEF FieldNames
<1> HIDE DEF T
<1>7. PICK s1 \in T : s1 = IF opt.uids THEN <<"uid", "gid">> ELSE <<>>
  BY <1>3, <1>6
<1>8. PICK s2 \in T : s2 = IF opt.times /\ opt.atime THEN <<"atime">> ELSE <<>>
  BY <1>6
<1>9. PICK s3 \in T : s3 = IF opt.times THEN <<"mtime", "ctime">> ELSE <<>>
  BY <1>3, <1>6
<1>10. PICK s4 \in T :
         s4 = IF opt.extraStats THEN <<"dev", "ino", "nlink", "rdev", "blocks">> ELSE <<>>
  BY <1>5, <1>6
<1>11. PICK s5 \in T : s5 = IF f.content # 0 THEN <<"csum">> ELSE <<>>
  BY <1>6
<1>12. PICK s6 \in T : s6 = IF f.kind = "lnk" THEN <<"link">> ELSE <<>>
  BY <1>6
<1>13. PICK s7 \in T :
         s7 = IF opt.xattrs /\ f.xattrs # 0 THEN <<"attrname", "attrval">> ELSE <<>>
  BY <1>3, <1>6
<1>14. PICK s0 \in T : s0 = <<"type", "perms", "size">>
  BY <1>4
<1>15. PICK s8 \in T : s8 = <<"path">>
  BY <1>6
<1>16. FileFields(f) = s0 \o s1 \o s2 \o s3 \o s4 \o s5 \o s8 \o s6 \o s7
  BY <1>7, <1>8, <1>9, <1>10, <1>11, <1>12, <1>13, <1>14, <1>15, Zenon DEF FileFields
<1> HIDE <1>2, <1>3, <1>4, <1>5, <1>6
<1>17. s0 \o s1 \o s2 \o s3 \o s4 \o s5 \o s8 \o s6 \o s7 \in T
  BY ONLY <1>1, s0 \in T, s1 \in T, s2 \in T, s3 \in T, s4 \in T, s5 \in T, s6 \in T,
          s7 \in T, s8 \in T, Zenon
<1> QED
  BY <1>16, <1>17 DEF T

LEMMA LineTypes ==
  ASSUME NEW p \in Paths
  PROVE  /\ \A n \in 1..2 : Line("-", n, p) \in LineType /\ Line("+", n, p) \in LineType
                            /\ Line("=", n, p) \in LineType
         /\ ChangedLine(p) \in LineType
         /\ DiffOf(p) \in LineType /\ EndOfDiff(p) \in LineType
<1> DEFINE F == Seq(FieldNames) \cup SUBSET FieldNames
<1>1. \A sign \in {"-", "+", "=", "#", "diff", "@@"}, fields \in F :
        [sign |-> sign, path |-> p, fields |-> fields] \in LineType
  BY DEF LineType
<1>2. ChangedFields(Entry(1, p), Entry(2, p)) \in F
  <2>1. {"stat", "nlink", "size", "atime", "mtime", "ctime", "xattrs"} \subseteq FieldNames
    BY DEF FieldNames
  <2>2. ChangedFields(Entry(1, p), Entry(2, p))
          \subseteq {"stat", "nlink", "size", "atime", "mtime", "ctime", "xattrs"}
    BY DEF ChangedFields
  <2> QED
    BY <2>1, <2>2
<1>3. <<>> \in F
  OBVIOUS
<1>4. \A n \in 1..2 : FileFields(Entry(n, p)) \in F
  BY FieldTypes
<1> HIDE DEF F
<1>5. ChangedLine(p) \in LineType
  BY <1>1, <1>2 DEF ChangedLine
<1>6. DiffOf(p) \in LineType /\ EndOfDiff(p) \in LineType
  BY <1>1, <1>3 DEF DiffOf, EndOfDiff
<1> QED
  BY <1>1, <1>4, <1>5, <1>6 DEF Line

(* Two files that are found to be the same are, and two whose content is   *)
(* found to have changed are not.                                          *)
LEMMA StatsDecide ==
  ASSUME NEW f \in File, NEW g \in File
  PROVE  /\ Stats(f) = Stats(g) <=> \A k \in DOMAIN f \ {"content"} : f[k] = g[k]
         /\ Stats(f) = Stats(g) /\ f.content = g.content => f = g
BY DEF File, Stats

LEMMA EntryTypes ==
  ASSUME TypeOK, NEW n \in 1..2, NEW p \in DOMAIN guest[n]
  PROVE  /\ Entry(n, p) \in File
         /\ Entry(n, p).content = Csum(guest[n][p])
         /\ Entry(n, p).kind = guest[n][p].kind
         /\ Csum(guest[n][p]) # 0 <=> opt.checksum /\ guest[n][p].kind = "reg"
<1>1. guest[n][p] \in File /\ guest[n][p].content # 0
  BY GuestTypes
<1>2. opt.checksum \in BOOLEAN
  BY OptionTypes DEF Options
<1> QED
  BY <1>1, <1>2 DEF Entry, Flattened, Csum, File

LEMMA Compared ==
  ASSUME TypeOK, NEW p, p \in DOMAIN guest[1], p \in DOMAIN guest[2]
  PROVE  /\ ~StatsDiffer(p) /\ ~ContentChanged(p) => Entry(1, p) = Entry(2, p)
         /\ StatsDiffer(p) => Entry(1, p) # Entry(2, p)
         /\ ContentChanged(p) => /\ Entry(1, p) # Entry(2, p)
                                 /\ StatsDiffer(p) \/ opt.checksum
<1>1. /\ Entry(1, p) \in File /\ Entry(2, p) \in File
      /\ Entry(1, p).content = Csum(guest[1][p]) /\ Entry(2, p).content = Csum(guest[2][p])
      /\ Csum(guest[1][p]) # 0 <=> opt.checksum /\ Entry(1, p).kind = "reg"
      /\ Csum(guest[2][p]) # 0 <=> opt.checksum /\ Entry(2, p).kind = "reg"
  BY EntryTypes
<1>2. ~StatsDiffer(p) => Entry(1, p).kind = Entry(2, p).kind
  BY <1>1 DEF StatsDiffer, Stats, File
<1>3. ASSUME ~StatsDiffer(p), ~ContentChanged(p) PROVE Entry(1, p) = Entry(2, p)
  <2>1. ~CsumsDiffer(p)
    BY <1>3 DEF ContentChanged
  <2>2. Csum(guest[1][p]) = Csum(guest[2][p])
    BY <1>1, <1>2, <1>3, <2>1 DEF CsumsDiffer
  <2> QED
    BY <1>1, <1>3, <2>2, StatsDecide DEF StatsDiffer
<1>4. StatsDiffer(p) => Entry(1, p) # Entry(2, p)
  BY DEF StatsDiffer
<1>5. ASSUME ContentChanged(p)
      PROVE  Entry(1, p) # Entry(2, p) /\ (StatsDiffer(p) \/ opt.checksum)
  <2>1. CsumsDiffer(p) \/ StatsDiffer(p)
    BY <1>5 DEF ContentChanged
  <2>2. CsumsDiffer(p) => Entry(1, p) # Entry(2, p) /\ opt.checksum
    BY <1>1 DEF CsumsDiffer
  <2> QED
    BY <1>4, <2>1, <2>2
<1> QED
  BY <1>3, <1>4, <1>5

-----------------------------------------------------------------------------
(* What a step may change.                                                 *)

LEMMA SameInput ==
  ASSUME UNCHANGED Input
  PROVE  /\ guest' = guest /\ walk' = walk /\ opt' = opt
         /\ \A n, p : Entry(n, p)' = Entry(n, p)
         /\ \A p : ContentChanged(p)' = ContentChanged(p)
         /\ \A sign, n, p : Line(sign, n, p)' = Line(sign, n, p)
         /\ \A p : Block(p)' = Block(p)
         /\ \A s, p : Covered(s, p)' = Covered(s, p)
<1>1. guest' = guest /\ walk' = walk /\ opt' = opt
  BY DEF Input
<1>2. \A f : Csum(f)' = Csum(f) /\ Flattened(f)' = Flattened(f) /\ FileFields(f)' = FileFields(f)
  BY <1>1 DEF Csum, Flattened, FileFields
<1>3. \A n, p : Entry(n, p)' = Entry(n, p)
  BY <1>1 DEF Entry, Flattened, Csum
<1>4. \A p : StatsDiffer(p)' = StatsDiffer(p)
  BY <1>3 DEF StatsDiffer
<1>5. \A p : CsumsDiffer(p)' = CsumsDiffer(p)
  BY <1>1, <1>4 DEF CsumsDiffer, Csum
<1>6. \A p : ContentChanged(p)' = ContentChanged(p)
  BY <1>3, <1>4, <1>5 DEF ContentChanged
<1>7. \A sign, n, p : Line(sign, n, p)' = Line(sign, n, p)
  BY <1>2, <1>3 DEF Line
<1>8. \A p : ChangedLine(p)' = ChangedLine(p)
  BY <1>3 DEF ChangedLine
<1>9. \A p : Expected(p)' = Expected(p)
  BY <1>1, <1>3, <1>4, <1>6, <1>7, <1>8 DEF Expected
<1>10. \A p : Block(p)' = Block(p)
  BY <1>1, <1>9 DEF Block
<1>11. \A s, p : Covered(s, p)' = Covered(s, p)
  BY <1>1, <1>3 DEF Covered
<1> QED
  BY <1>1, <1>3, <1>6, <1>7, <1>10, <1>11

LEMMA NextInput == ASSUME Next PROVE UNCHANGED Input
BY DEF Next, CheckOptions, OpenGuest, VisitEntry, EndVisit, VisitFails, Deleted, Added, Same,
       OnlyStatsChanged, FileChanged, RunDiff, NoTmpdir, Finish, BufferFull, DiskFull

(* What is left of a tree, and the file that the merge has come to.        *)
LEMMA RestOf ==
  ASSUME TypeOK, NEW n \in 1..2, next[n] <= Len(tree[n]) + 1
  PROVE  /\ Len(tree[n]) \in Nat /\ DOMAIN tree[n] = 1..Len(tree[n])
         /\ \A k \in 1..Len(tree[n]) : tree[n][k] \in Paths
         /\ Rest(n) # <<>> => next[n] \in 1..Len(tree[n]) /\ Path(n) \in Paths
         /\ Rest(n) = <<>> => next[n] = Len(tree[n]) + 1
<1>1. tree[n] \in Seq(Paths) /\ next[n] \in Nat \ {0}
  BY DEF TypeOK
<1>2. PICK s \in Seq(Paths), i \in Nat \ {0}, l \in Nat : s = tree[n] /\ i = next[n] /\ l = Len(s)
  BY <1>1, LenProperties
<1>3. DOMAIN s = 1..l /\ \A k \in 1..l : s[k] \in Paths
  BY <1>2, LenProperties, ElementOfSeq
<1>4. i = l + 1 => SubSeq(s, i, l) = <<>>
  BY <1>2
<1>5. i <= l => SubSeq(s, i, l) # <<>>
  <2> SUFFICES ASSUME i <= l PROVE Len(SubSeq(s, i, l)) # 0
    BY LenProperties, EmptySeq
  <2>1. i \in 1..l /\ l \in i..l
    BY <1>2
  <2> QED
    BY <1>2, <2>1, SubSeqProperties
<1> QED
  BY <1>2, <1>3, <1>4, <1>5 DEF Rest, Path

LEMMA AllTypes ==
  ASSUME TypeOK
  PROVE  /\ All \in Seq(LineType)
         /\ buffer = <<>> => All = stdout
         /\ \A l \in Seq(LineType) : stdout \o (buffer \o l) = All \o l
         /\ \A l \in LineType : stdout \o Append(buffer, l) = Append(All, l)
<1>1. stdout \in Seq(LineType) /\ buffer \in Seq(LineType)
  BY DEF TypeOK
<1>2. PICK s \in Seq(LineType), t \in Seq(LineType) : s = stdout /\ t = buffer
  BY <1>1
<1>3. s \o t \in Seq(LineType) /\ s \o <<>> = s
  BY ConcatProperties, ConcatEmptySeq
<1>4. \A l \in Seq(LineType) : s \o (t \o l) = (s \o t) \o l
  BY ONLY s \in Seq(LineType), t \in Seq(LineType), Associative
<1>5. \A l \in LineType : s \o Append(t, l) = Append(s \o t, l)
  <2> SUFFICES ASSUME NEW l \in LineType PROVE s \o Append(t, l) = Append(s \o t, l)
    OBVIOUS
  <2>1. <<l>> \in Seq(LineType)
    OBVIOUS
  <2>2. Append(t, l) = t \o <<l>> /\ Append(s \o t, l) = (s \o t) \o <<l>>
    BY <1>3, AppendIsConcat
  <2> QED
    BY <1>4, <2>1, <2>2
<1> QED
  BY <1>2, <1>3, <1>4, <1>5 DEF All

LEMMA Appended ==
  ASSUME NEW s \in Seq(LineType), NEW l \in LineType
  PROVE  /\ Append(s, l) \in Seq(LineType) /\ s \o <<l>> = Append(s, l)
         /\ Len(s) \in Nat /\ Len(Append(s, l)) = Len(s) + 1
         /\ Append(s, l)[Len(s) + 1] = l
         /\ \A i \in 1..Len(s) : Append(s, l)[i] = s[i]
BY AppendProperties, AppendIsConcat, LenProperties

LEMMA HasMore ==
  ASSUME NEW s \in Seq(LineType), NEW l \in Seq(LineType), NEW sign, NEW p,
         Has(s, sign, p) \/ Has(l, sign, p)
  PROVE  Has(s \o l, sign, p)
<1>1. /\ Len(s) \in Nat /\ Len(l) \in Nat /\ Len(s \o l) = Len(s) + Len(l)
      /\ \A i \in 1..(Len(s) + Len(l)) :
           (s \o l)[i] = IF i <= Len(s) THEN s[i] ELSE l[i - Len(s)]
  BY ConcatProperties, LenProperties
<1>2. CASE Has(s, sign, p)
  <2>1. PICK i \in 1..Len(s) : s[i].sign = sign /\ s[i].path = p
    BY <1>2 DEF Has
  <2>2. i \in 1..(Len(s) + Len(l)) /\ (s \o l)[i] = s[i]
    BY <1>1
  <2> QED
    BY <1>1, <2>1, <2>2 DEF Has
<1>3. CASE Has(l, sign, p)
  <2>1. PICK i \in 1..Len(l) : l[i].sign = sign /\ l[i].path = p
    BY <1>3 DEF Has
  <2>2. PICK j \in 1..(Len(s) + Len(l)) : j = Len(s) + i /\ ~(j <= Len(s)) /\ j - Len(s) = i
    BY <1>1
  <2>3. (s \o l)[j] = l[i]
    BY <1>1, <2>2
  <2> QED
    BY <1>1, <2>1, <2>3 DEF Has
<1> QED
  BY <1>2, <1>3

LEMMA HasLast ==
  ASSUME NEW s \in Seq(LineType), NEW l \in LineType
  PROVE  /\ Has(Append(s, l), l.sign, l.path)
         /\ \A sign, p : Has(s, sign, p) => Has(Append(s, l), sign, p)
<1>1. Len(s) + 1 \in 1..Len(Append(s, l)) /\ Append(s, l)[Len(s) + 1] = l
  BY Appended
<1>2. \A i \in 1..Len(s) : i \in 1..Len(Append(s, l)) /\ Append(s, l)[i] = s[i]
  BY Appended
<1> QED
  BY <1>1, <1>2 DEF Has

LEMMA LineSigns ==
  ASSUME NEW n, NEW p
  PROVE  /\ \A sign : Line(sign, n, p).sign = sign /\ Line(sign, n, p).path = p
         /\ ChangedLine(p).sign = "#" /\ DiffOf(p).sign = "diff" /\ DiffOf(p).path = p
         /\ EndOfDiff(p).sign = "@@" /\ EndOfDiff(p).path = p
BY DEF Line, ChangedLine, DiffOf, EndOfDiff

(* Lines are only ever added behind those that were written, and what the  *)
(* merge passes is covered by then.                                        *)
LEMMA CoverageStep ==
  ASSUME TypeOK, CoverageInv, UNCHANGED <<Input, tree>>, next' \in [1..2 -> Nat \ {0}],
         \A sign, p : Has(All, sign, p) => Has(All', sign, p),
         \A n \in 1..2 :
           \/ next'[n] = next[n]
           \/ /\ next'[n] = next[n] + 1
              /\ Covered(All', Path(n)) \/ Has(All', <<"-", "+">>[n], Path(n))
  PROVE  CoverageInv'
<1>1. SUFFICES ASSUME NEW n \in 1..2, NEW k \in 1..(next'[n] - 1)
               PROVE  \/ Covered(All, tree[n][k])'
                      \/ Has(All', <<"-", "+">>[n], tree[n][k])
  BY DEF CoverageInv
<1>2. \A s, p : Covered(s, p)' = Covered(s, p)
  BY SameInput
<1>3. Covered(All, tree[n][k])' <=> Covered(All', tree[n][k])
  BY <1>2
<1>4. next[n] \in Nat \ {0}
  BY DEF TypeOK
<1>5. CASE k \in 1..(next[n] - 1)
  <2>1. Covered(All, tree[n][k]) \/ Has(All, <<"-", "+">>[n], tree[n][k])
    BY <1>5 DEF CoverageInv
  <2>2. Covered(All, tree[n][k]) => Covered(All', tree[n][k])
    BY DEF Covered
  <2> QED
    BY <1>3, <2>1, <2>2
<1>6. CASE k \notin 1..(next[n] - 1)
  <2>1. next'[n] = next[n] + 1 /\ k = next[n]
    BY <1>4, <1>6
  <2> QED
    BY <1>3, <1>4, <2>1 DEF Path
<1> QED
  BY <1>5, <1>6

LEMMA FollowsStep ==
  ASSUME NEW s \in Seq(LineType), Follows(s), NEW l \in LineType,
         l.sign = "diff" => s # <<>> /\ s[Len(s)].sign = "=" /\ s[Len(s)].path = l.path,
         l.sign = "@@" => s # <<>> /\ s[Len(s)] = DiffOf(l.path)
  PROVE  Follows(Append(s, l))
<1>1. PICK t \in Seq(LineType), m \in Nat :
        /\ t = Append(s, l) /\ m = Len(s) /\ Len(t) = m + 1 /\ t[m + 1] = l
        /\ \A i \in 1..m : t[i] = s[i]
  BY Appended
<1>2. s # <<>> => m # 0
  BY <1>1, EmptySeq
<1>3. \A i \in 1..m : i # 1 => i - 1 \in 1..m
  BY <1>1
<1>4. ASSUME NEW i \in 1..m
      PROVE  /\ t[i].sign = "diff" =>
                  i > 1 /\ t[i - 1].sign = "=" /\ t[i - 1].path = t[i].path
             /\ t[i].sign = "@@" => i > 1 /\ t[i - 1] = DiffOf(t[i].path)
  <2>1. t[i] = s[i] /\ (i > 1 => t[i - 1] = s[i - 1])
    BY <1>1, <1>3
  <2> QED
    BY <1>1, <2>1 DEF Follows
<1>5. CASE m = 0
  BY <1>1, <1>2, <1>5 DEF Follows
<1>6. CASE m # 0
  <2>1. (m + 1) - 1 = m /\ m + 1 > 1 /\ t[m] = s[m]
    BY <1>1, <1>6
  <2>2. ASSUME NEW i \in 1..(m + 1) PROVE i \in 1..m \/ i = m + 1
    OBVIOUS
  <2> QED
    BY <1>1, <1>4, <2>1, <2>2 DEF Follows
<1> QED
  BY <1>1, <1>5, <1>6

-----------------------------------------------------------------------------
(* The steps of the merge.                                                 *)

LEMMA ToMerge ==
  ASSUME TypeOK, TreeInv, NEW n \in 1..2, Rest(n) # <<>>
  PROVE  /\ next[n] \in 1..Len(tree[n]) /\ next[n] + 1 <= Len(tree[n]) + 1
         /\ Path(n) \in Paths /\ Path(n) \in DOMAIN guest[n]
<1>1. next[n] <= Len(tree[n]) + 1 /\ ToSet(tree[n]) \subseteq DOMAIN guest[n]
  BY DEF TreeInv
<1>2. /\ Len(tree[n]) \in Nat /\ DOMAIN tree[n] = 1..Len(tree[n])
      /\ next[n] \in 1..Len(tree[n]) /\ Path(n) \in Paths
  BY <1>1, RestOf
<1>3. Path(n) \in ToSet(tree[n])
  BY <1>2 DEF Path, ToSet
<1> QED
  BY <1>1, <1>2, <1>3

LEMMA Written ==
  ASSUME TypeOK, NEW l \in Seq(LineType), Write(l)
  PROVE  /\ stdout' = stdout /\ full' = full /\ buffer' \in Seq(LineType)
         /\ All' = All \o l
         /\ \A sign, p : Has(All, sign, p) \/ Has(l, sign, p) => Has(All', sign, p)
<1>1. stdout' = stdout /\ full' = full /\ buffer' = buffer \o l
  BY DEF Write
<1>2. buffer \o l \in Seq(LineType)
  BY ConcatProperties DEF TypeOK
<1>3. All' = All \o l /\ All \in Seq(LineType)
  BY <1>1, AllTypes DEF All
<1>4. \A sign, p : Has(All, sign, p) \/ Has(l, sign, p) => Has(All \o l, sign, p)
  BY <1>3, HasMore
<1> QED
  BY <1>1, <1>2, <1>3, <1>4

(* The trees and their order do not change in the merge.                   *)
LEMMA TreeKept ==
  ASSUME TreeInv, Comparing, UNCHANGED <<Input, tree, failed>>,
         \A n \in 1..2 : next'[n] <= Len(tree[n]) + 1
  PROVE  TreeInv'
<1>1. guest' = guest /\ \A n \in 1..2 : Walked(n)
  BY SameInput DEF Walked
<1> QED
  BY <1>1 DEF TreeInv

LEMMA FollowsSame ==
  ASSUME FollowsInv, All' = All PROVE FollowsInv'
<1>1. Follows(All')
  BY DEF FollowsInv
<1>2. Follows(All)' <=> Follows(All')
  BY DEF Follows, DiffOf
<1> QED
  BY <1>1, <1>2 DEF FollowsInv

LEMMA FollowsOne ==
  ASSUME TypeOK, FollowsInv, NEW l \in LineType, l.sign \notin {"diff", "@@"},
         All' = Append(All, l)
  PROVE  FollowsInv'
<1>1. Follows(Append(All, l))
  BY AllTypes, FollowsStep DEF FollowsInv
<1>2. Follows(All)' <=> Follows(All')
  BY DEF Follows, DiffOf
<1> QED
  BY <1>1, <1>2 DEF FollowsInv

(* A step of the merge that passes files and has written of each that it   *)
(* passes what has to be written.                                          *)
LEMMA MergeStep ==
  ASSUME IInv, TypeOK', UNCHANGED <<Input, tree, failed>>, Running, at = "merge",
         at' \in {"merge", "diff"}, exit' # 0,
         \A n \in 1..2 :
           \/ next'[n] = next[n]
           \/ /\ Rest(n) # <<>>
              /\ next'[n] = next[n] + 1
              /\ Covered(All', Path(n)) \/ Has(All', <<"-", "+">>[n], Path(n)),
         \A sign, p : Has(All, sign, p) => Has(All', sign, p),
         FollowsInv', DiffInv'
  PROVE  IInv'
<1>1. TypeOK /\ TreeInv /\ CoverageInv
  BY DEF IInv
<1>2. next' \in [1..2 -> Nat \ {0}]
  BY DEF TypeOK
<1>3. \A n \in 1..2 : next'[n] <= Len(tree[n]) + 1
  BY <1>1, ToMerge DEF TreeInv
<1>4. TreeInv'
  BY <1>1, <1>3, TreeKept DEF Comparing
<1>5. CoverageInv'
  BY <1>1, <1>2, CoverageStep
<1>6. Fresh' /\ EndInv'
  BY DEF Fresh, Comparing, EndInv
<1> QED
  BY <1>4, <1>5, <1>6 DEF IInv

LEMMA DeletedStep == ASSUME IInv, Deleted PROVE IInv' /\ All' = Append(All, Line("-", 1, Path(1)))
<1>1. TypeOK /\ TreeInv /\ FollowsInv
  BY DEF IInv
<1>2. /\ Running /\ at = "merge" /\ Rest(1) # <<>>
      /\ Write(<<Line("-", 1, Path(1))>>)
      /\ next' = [next EXCEPT ![1] = @ + 1]
      /\ UNCHANGED <<Input, at, tree, failed, exit>>
  BY DEF Deleted, Merging
<1>3. Path(1) \in Paths
  BY <1>1, <1>2, ToMerge
<1>4. PICK l \in LineType : l = Line("-", 1, Path(1))
  BY <1>3, LineTypes
<1>5. <<l>> \in Seq(LineType) /\ All \in Seq(LineType)
  BY <1>1, AllTypes
<1>6. /\ stdout' = stdout /\ full' = full /\ buffer' \in Seq(LineType)
      /\ All' = All \o <<l>>
      /\ \A sign, p : Has(All, sign, p) => Has(All', sign, p)
  BY <1>1, <1>2, <1>4, <1>5, Written
<1>7. All' = Append(All, l) /\ l.sign = "-" /\ l.path = Path(1)
  BY <1>4, <1>5, <1>6, Appended, LineSigns
<1>8. Has(All', "-", Path(1))
  BY <1>5, <1>7, HasLast
<1>9. TypeOK'
  BY <1>1, <1>2, <1>6, SameInput DEF TypeOK
<1>10. FollowsInv'
  BY <1>1, <1>7, FollowsOne
<1>11. next'[1] = next[1] + 1 /\ next'[2] = next[2]
  BY <1>1, <1>2 DEF TypeOK
<1>12. DiffInv' /\ exit' # 0
  BY <1>2 DEF DiffInv, Running
<1>13. \A n \in 1..2 :
         \/ next'[n] = next[n]
         \/ /\ Rest(n) # <<>>
            /\ next'[n] = next[n] + 1
            /\ Covered(All', Path(n)) \/ Has(All', <<"-", "+">>[n], Path(n))
  BY <1>2, <1>8, <1>11
<1>14. IInv'
  BY <1>2, <1>6, <1>9, <1>10, <1>12, <1>13, MergeStep
<1> QED
  BY <1>4, <1>7, <1>14

LEMMA AddedStep == ASSUME IInv, Added PROVE IInv' /\ All' = Append(All, Line("+", 2, Path(2)))
<1>1. TypeOK /\ TreeInv /\ FollowsInv
  BY DEF IInv
<1>2. /\ Running /\ at = "merge" /\ Rest(2) # <<>>
      /\ Write(<<Line("+", 2, Path(2))>>)
      /\ next' = [next EXCEPT ![2] = @ + 1]
      /\ UNCHANGED <<Input, at, tree, failed, exit>>
  BY DEF Added, Merging
<1>3. Path(2) \in Paths
  BY <1>1, <1>2, ToMerge
<1>4. PICK l \in LineType : l = Line("+", 2, Path(2))
  BY <1>3, LineTypes
<1>5. <<l>> \in Seq(LineType) /\ All \in Seq(LineType)
  BY <1>1, AllTypes
<1>6. /\ stdout' = stdout /\ full' = full /\ buffer' \in Seq(LineType)
      /\ All' = All \o <<l>>
      /\ \A sign, p : Has(All, sign, p) => Has(All', sign, p)
  BY <1>1, <1>2, <1>4, <1>5, Written
<1>7. All' = Append(All, l) /\ l.sign = "+" /\ l.path = Path(2)
  BY <1>4, <1>5, <1>6, Appended, LineSigns
<1>8. Has(All', "+", Path(2))
  BY <1>5, <1>7, HasLast
<1>9. TypeOK'
  BY <1>1, <1>2, <1>6, SameInput DEF TypeOK
<1>10. FollowsInv'
  BY <1>1, <1>7, FollowsOne
<1>11. next'[2] = next[2] + 1 /\ next'[1] = next[1]
  BY <1>1, <1>2 DEF TypeOK
<1>12. DiffInv' /\ exit' # 0
  BY <1>2 DEF DiffInv, Running
<1>13. \A n \in 1..2 :
         \/ next'[n] = next[n]
         \/ /\ Rest(n) # <<>>
            /\ next'[n] = next[n] + 1
            /\ Covered(All', Path(n)) \/ Has(All', <<"-", "+">>[n], Path(n))
  BY <1>2, <1>8, <1>11
<1>14. IInv'
  BY <1>2, <1>6, <1>9, <1>10, <1>12, <1>13, MergeStep
<1> QED
  BY <1>4, <1>7, <1>14

(* Both guests have the file that the merge has come to.                   *)
LEMMA BothOf ==
  ASSUME IInv, Both
  PROVE  /\ TypeOK /\ TreeInv /\ FollowsInv
         /\ Running /\ at = "merge" /\ failed = {}
         /\ Rest(1) # <<>> /\ Rest(2) # <<>> /\ Path(1) = Path(2)
         /\ Path(1) \in Paths /\ Path(1) \in DOMAIN guest[1] /\ Path(1) \in DOMAIN guest[2]
         /\ \A n \in 1..2 : next[n] <= Len(tree[n])
<1>1. /\ TypeOK /\ TreeInv /\ FollowsInv
      /\ Running /\ at = "merge" /\ failed = {}
      /\ Rest(1) # <<>> /\ Rest(2) # <<>> /\ Path(1) = Path(2)
  BY DEF IInv, Both, Merging
<1> QED
  BY <1>1, ToMerge

(* Both files are passed together: it is enough that they are covered.     *)
LEMMA PassedBoth ==
  ASSUME IInv, Both, TypeOK', next' = <<next[1] + 1, next[2] + 1>>,
         UNCHANGED <<Input, at, tree, failed, exit>>,
         \A sign, p : Has(All, sign, p) => Has(All', sign, p),
         FollowsInv', Covered(All', Path(1))
  PROVE  IInv'
<1>1. /\ Running /\ at = "merge" /\ at' = "merge" /\ exit' # 0
      /\ Rest(1) # <<>> /\ Rest(2) # <<>> /\ Path(1) = Path(2)
  BY BothOf DEF Running
<1>2. next'[1] = next[1] + 1 /\ next'[2] = next[2] + 1
  OBVIOUS
<1>3. DiffInv'
  BY <1>1 DEF DiffInv
<1>4. \A n \in 1..2 :
        \/ next'[n] = next[n]
        \/ /\ Rest(n) # <<>>
           /\ next'[n] = next[n] + 1
           /\ Covered(All', Path(n)) \/ Has(All', <<"-", "+">>[n], Path(n))
  BY <1>1, <1>2
<1> QED
  BY <1>1, <1>3, <1>4, MergeStep

LEMMA SameStep ==
  ASSUME IInv, Same PROVE IInv' /\ All' = All /\ Entry(1, Path(1)) = Entry(2, Path(1))
<1>1. /\ Both /\ ~StatsDiffer(Path(1)) /\ ~ContentChanged(Path(1))
      /\ next' = <<next[1] + 1, next[2] + 1>>
      /\ UNCHANGED <<Input, at, tree, failed, Output, exit>>
  BY DEF Same
<1>2. /\ TypeOK /\ TreeInv /\ FollowsInv
      /\ Path(1) \in DOMAIN guest[1] /\ Path(1) \in DOMAIN guest[2]
  BY <1>1, BothOf
<1>3. Entry(1, Path(1)) = Entry(2, Path(1))
  BY <1>1, <1>2, Compared
<1>4. Covered(All', Path(1))
  BY <1>2, <1>3 DEF Covered
<1>5. All' = All /\ buffer' = buffer /\ stdout' = stdout /\ full' = full
  BY <1>1 DEF All, Output
<1>6. TypeOK'
  BY <1>1, <1>2, <1>5, SameInput DEF TypeOK
<1>7. FollowsInv'
  BY <1>2, <1>5, FollowsSame
<1>8. \A sign, p : Has(All, sign, p) => Has(All', sign, p)
  BY <1>5
<1>9. IInv'
  BY <1>1, <1>4, <1>6, <1>7, <1>8, PassedBoth
<1> QED
  BY <1>3, <1>5, <1>9

LEMMA OnlyStatsChangedStep ==
  ASSUME IInv, OnlyStatsChanged
  PROVE  /\ IInv'
         /\ All' = Append(Append(Append(All, Line("-", 1, Path(1))), Line("+", 2, Path(1))),
                          ChangedLine(Path(1)))
<1>1. /\ Both /\ StatsDiffer(Path(1)) /\ ~ContentChanged(Path(1))
      /\ Write(<<Line("-", 1, Path(1)), Line("+", 2, Path(1)), ChangedLine(Path(1))>>)
      /\ next' = <<next[1] + 1, next[2] + 1>>
      /\ UNCHANGED <<Input, at, tree, failed, exit>>
  BY DEF OnlyStatsChanged
<1>2. /\ TypeOK /\ TreeInv /\ FollowsInv
      /\ Path(1) \in Paths /\ Path(1) \in DOMAIN guest[1] /\ Path(1) \in DOMAIN guest[2]
  BY <1>1, BothOf
<1>3. PICK l \in LineType, m \in LineType, h \in LineType :
        /\ l = Line("-", 1, Path(1)) /\ m = Line("+", 2, Path(1)) /\ h = ChangedLine(Path(1))
  BY <1>2, LineTypes
<1>4. /\ l.sign = "-" /\ l.path = Path(1) /\ m.sign = "+" /\ m.path = Path(1) /\ h.sign = "#"
  BY <1>3, LineSigns
<1>5. PICK a \in Seq(LineType) : a = All
  BY <1>2, AllTypes
<1>6. <<l, m, h>> \in Seq(LineType)
  OBVIOUS
<1>7. /\ stdout' = stdout /\ full' = full /\ buffer' \in Seq(LineType)
      /\ All' = a \o <<l, m, h>>
      /\ \A sign, p : Has(All, sign, p) => Has(All', sign, p)
  BY <1>1, <1>2, <1>3, <1>5, <1>6, Written
<1>8. a \o <<l, m, h>> = Append(Append(Append(a, l), m), h)
  <2>1. <<l, m>> = Append(<<l>>, m) /\ <<l, m, h>> = Append(<<l, m>>, h)
    OBVIOUS
  <2>2. <<l>> \in Seq(LineType) /\ <<l, m>> \in Seq(LineType) /\ <<m>> \in Seq(LineType)
        /\ <<h>> \in Seq(LineType)
    OBVIOUS
  <2>3. <<l, m>> = <<l>> \o <<m>> /\ <<l, m, h>> = <<l, m>> \o <<h>>
    BY <2>1, <2>2, Appended
  <2>4. a \o (<<l, m>> \o <<h>>) = (a \o <<l, m>>) \o <<h>>
    BY <2>2, Associative
  <2>5. a \o (<<l>> \o <<m>>) = (a \o <<l>>) \o <<m>>
    BY <2>2, Associative
  <2>6. a \o <<l>> = Append(a, l) /\ Append(a, l) \in Seq(LineType)
    BY Appended
  <2>7. Append(a, l) \o <<m>> = Append(Append(a, l), m) /\ Append(Append(a, l), m) \in Seq(LineType)
    BY <2>6, Appended
  <2>8. Append(Append(a, l), m) \o <<h>> = Append(Append(Append(a, l), m), h)
    BY <2>7, Appended
  <2> QED
    BY ONLY <2>3, <2>4, <2>5, <2>6, <2>7, <2>8
<1>9. /\ Append(a, l) \in Seq(LineType) /\ Append(Append(a, l), m) \in Seq(LineType)
  BY Appended
<1>10. Has(All', "-", Path(1)) /\ Has(All', "+", Path(1))
  <2>1. Has(Append(a, l), "-", Path(1))
    BY <1>4, HasLast
  <2>2. Has(Append(Append(a, l), m), "-", Path(1)) /\ Has(Append(Append(a, l), m), "+", Path(1))
    BY <1>4, <1>9, <2>1, HasLast
  <2> QED
    BY <1>7, <1>8, <1>9, <2>2, HasLast
<1>11. Covered(All', Path(1))
  BY <1>2, <1>10 DEF Covered
<1>12. TypeOK'
  BY <1>1, <1>2, <1>7, SameInput DEF TypeOK
<1>13. FollowsInv'
  <2>1. Follows(Append(a, l))
    BY <1>2, <1>4, <1>5, FollowsStep DEF FollowsInv
  <2>2. Follows(Append(Append(a, l), m))
    BY <1>4, <1>9, <2>1, FollowsStep
  <2>3. Follows(All')
    BY <1>4, <1>7, <1>8, <1>9, <2>2, FollowsStep
  <2>4. Follows(All)' <=> Follows(All')
    BY DEF Follows, DiffOf
  <2> QED
    BY <2>3, <2>4 DEF FollowsInv
<1>14. IInv'
  BY <1>1, <1>7, <1>11, <1>12, <1>13, PassedBoth
<1> QED
  BY <1>3, <1>5, <1>7, <1>8, <1>14

LEMMA FileChangedStep ==
  ASSUME IInv, FileChanged
  PROVE  /\ IInv'
         /\ \/ All' = All /\ UNCHANGED <<at, next>> /\ exit' = 1
            \/ /\ All' = Append(All, Line("=", 1, Path(1)))
               /\ \/ UNCHANGED at /\ next' = <<next[1] + 1, next[2] + 1>>
                  \/ at' = "diff" /\ UNCHANGED next
<1>1. /\ TypeOK /\ TreeInv /\ FollowsInv
      /\ Both /\ Running /\ at = "merge" /\ failed = {} /\ ContentChanged(Path(1))
      /\ Rest(1) # <<>> /\ Rest(2) # <<>> /\ Path(1) = Path(2)
      /\ Path(1) \in Paths /\ Path(1) \in DOMAIN guest[1] /\ Path(1) \in DOMAIN guest[2]
      /\ \A n \in 1..2 : next[n] <= Len(tree[n])
      /\ UNCHANGED <<Input, tree, failed>>
  BY BothOf DEF FileChanged
<1>2. PICK l \in LineType : l = Line("=", 1, Path(1))
  BY <1>1, LineTypes
<1>3. l.sign = "=" /\ l.path = Path(1)
  BY <1>2, LineSigns
<1>4. <<l>> \in Seq(LineType) /\ All \in Seq(LineType)
  BY <1>1, AllTypes
<1>5. ASSUME opt.csv, Write(<<l>>), next' = <<next[1] + 1, next[2] + 1>>, UNCHANGED <<at, exit>>
      PROVE  IInv' /\ All' = Append(All, l)
  <2>1. /\ stdout' = stdout /\ full' = full /\ buffer' \in Seq(LineType)
        /\ All' = Append(All, l)
        /\ \A sign, p : Has(All, sign, p) => Has(All', sign, p)
    BY <1>1, <1>4, <1>5, Written, Appended
  <2>2. Has(All', "=", Path(1))
    BY <1>3, <1>4, <2>1, HasLast
  <2>3. Covered(All', Path(1))
    BY <1>1, <2>2 DEF Covered
  <2>4. TypeOK'
    BY <1>1, <1>5, <2>1, SameInput DEF TypeOK
  <2>5. FollowsInv'
    BY <1>1, <1>3, <2>1, FollowsOne
  <2>6. IInv'
    BY <1>1, <1>5, <2>1, <2>3, <2>4, <2>5, PassedBoth
  <2> QED
    BY <2>1, <2>6
<1>6. ASSUME exit' = 1, UNCHANGED <<Output, at, next>>
      PROVE  IInv' /\ All' = All
  <2>1. All' = All /\ buffer' = buffer /\ stdout' = stdout /\ full' = full
    BY <1>6 DEF All, Output
  <2>2. TypeOK'
    BY <1>1, <1>6, <2>1, SameInput DEF TypeOK
  <2>3. FollowsInv' /\ DiffInv'
    BY <1>1, <1>6, <2>1, FollowsSame DEF DiffInv
  <2>4. IInv'
    BY <1>1, <1>6, <2>1, <2>2, <2>3, MergeStep
  <2> QED
    BY <2>1, <2>4
<1>7. ASSUME stdout' = stdout \o Append(buffer, l), buffer' = <<>>, at' = "diff",
             UNCHANGED <<full, next, exit>>
      PROVE  IInv' /\ All' = Append(All, l)
  <2>1. stdout' = Append(All, l) /\ stdout' \in Seq(LineType)
    BY <1>1, <1>4, <1>7, AllTypes, Appended
  <2>2. All' = stdout'
    BY <1>7, <2>1, ConcatEmptySeq DEF All
  <2>3. \A sign, p : Has(All, sign, p) => Has(All', sign, p)
    BY <1>4, <2>1, <2>2, HasLast
  <2>4. FollowsInv'
    BY <1>1, <1>3, <2>1, <2>2, FollowsOne
  <2>5. TypeOK'
    <3>1. buffer' \in Seq(LineType)
      BY <1>7, EmptySeq
    <3> QED
      BY <1>1, <1>7, <2>1, <3>1, SameInput DEF TypeOK
  <2>6. Len(stdout') = Len(All) + 1 /\ Len(All) \in Nat /\ stdout'[Len(All) + 1] = l
    BY <1>4, <2>1, Appended
  <2>7. stdout' # <<>> /\ stdout'[Len(stdout')] = l
    BY <2>1, <2>6, EmptySeq
  <2>8. Path(1)' = Path(1) /\ Path(2)' = Path(2)
    BY <1>1, <1>7 DEF Path
  <2>9. ContentChanged(Path(1))'
    BY <1>1, <2>8, SameInput
  <2>10. Line("=", 1, Path(1))' = l
    BY <1>1, <1>2, <2>8, SameInput
  <2>11. DiffInv'
    BY <1>1, <1>7, <2>7, <2>8, <2>9, <2>10 DEF DiffInv
  <2>12. exit' # 0
    BY <1>1, <1>7 DEF Running
  <2>13. IInv'
    BY <1>1, <1>7, <2>3, <2>4, <2>5, <2>11, <2>12, MergeStep
  <2> QED
    BY <2>1, <2>2, <2>13
<1>8. \/ opt.csv /\ Write(<<l>>) /\ next' = <<next[1] + 1, next[2] + 1>> /\ UNCHANGED <<at, exit>>
      \/ exit' = 1 /\ UNCHANGED <<Output, at, next>>
      \/ /\ stdout' = stdout \o Append(buffer, l) /\ buffer' = <<>> /\ at' = "diff"
         /\ UNCHANGED <<full, next, exit>>
  BY <1>2 DEF FileChanged
<1> QED
  BY <1>2, <1>5, <1>6, <1>7, <1>8

LEMMA RunDiffStep ==
  ASSUME IInv, RunDiff
  PROVE  /\ IInv'
         /\ next' = <<next[1] + 1, next[2] + 1>> /\ at' = "merge"
         /\ \/ All' = All
            \/ All' = Append(All, DiffOf(Path(1)))
            \/ All' = Append(Append(All, DiffOf(Path(1))), EndOfDiff(Path(1)))
<1>1. /\ TypeOK /\ TreeInv /\ FollowsInv /\ CoverageInv /\ DiffInv
      /\ Running /\ at = "diff" /\ at' = "merge"
      /\ next' = <<next[1] + 1, next[2] + 1>>
      /\ UNCHANGED <<Input, tree, failed, full, exit>>
  BY DEF IInv, RunDiff
<1>2. /\ failed = {} /\ \A n \in 1..2 : next[n] <= Len(tree[n])
      /\ Path(1) = Path(2) /\ buffer = <<>> /\ stdout # <<>>
      /\ stdout[Len(stdout)] = Line("=", 1, Path(1))
      /\ next[1] <= Len(tree[1]) /\ next[2] <= Len(tree[2])
  BY <1>1 DEF DiffInv
<1>3. /\ next[1] \in Nat \ {0} /\ next[2] \in Nat \ {0}
      /\ Len(tree[1]) \in Nat /\ Len(tree[2]) \in Nat
      /\ DOMAIN tree[1] = 1..Len(tree[1]) /\ DOMAIN tree[2] = 1..Len(tree[2])
      /\ Path(1) \in Paths
  <2>1. tree[1] \in Seq(Paths) /\ tree[2] \in Seq(Paths)
    BY <1>1 DEF TypeOK
  <2>2. next[1] \in Nat \ {0} /\ next[2] \in Nat \ {0}
    BY <1>1 DEF TypeOK
  <2>3. Len(tree[1]) \in Nat /\ Len(tree[2]) \in Nat
    BY <2>1, LenProperties
  <2>4. DOMAIN tree[1] = 1..Len(tree[1]) /\ DOMAIN tree[2] = 1..Len(tree[2])
    BY <2>1, LenProperties
  <2>5. Path(1) \in Paths
    BY <1>2, <2>1, <2>2, <2>3, ElementOfSeq DEF Path
  <2> QED
    BY <2>2, <2>3, <2>4, <2>5
<1>4. Path(1) \in DOMAIN guest[1] /\ Path(1) \in DOMAIN guest[2]
  <2>1. Path(1) \in ToSet(tree[1]) /\ Path(2) \in ToSet(tree[2])
    BY <1>2, <1>3 DEF Path, ToSet
  <2> QED
    BY <1>1, <1>2, <2>1 DEF TreeInv
<1>5. PICK l \in LineType, m \in LineType : l = DiffOf(Path(1)) /\ m = EndOfDiff(Path(1))
  BY <1>3, LineTypes
<1>6. /\ l.sign = "diff" /\ l.path = Path(1) /\ m.sign = "@@" /\ m.path = Path(1)
      /\ l = DiffOf(m.path)
  BY <1>5, LineSigns
<1>7. PICK a \in Seq(LineType) : a = All /\ a = stdout
  BY <1>1, <1>2, AllTypes
<1>8. a # <<>> /\ a[Len(a)].sign = "=" /\ a[Len(a)].path = Path(1)
  BY <1>2, <1>7, LineSigns
<1>9. /\ Append(a, l) \in Seq(LineType) /\ Append(Append(a, l), m) \in Seq(LineType)
      /\ Append(a, l) # <<>> /\ Append(a, l)[Len(Append(a, l))] = l
  <2>1. Append(a, l) \in Seq(LineType) /\ Len(Append(a, l)) = Len(a) + 1 /\ Len(a) \in Nat
        /\ Append(a, l)[Len(a) + 1] = l
    BY Appended
  <2> QED
    BY <2>1, Appended, EmptySeq
<1>10. \/ All' = a /\ stdout' = stdout /\ buffer' = buffer
       \/ /\ All' = Append(a, l)
          /\ stdout' \in Seq(LineType) /\ buffer' \in Seq(LineType)
       \/ /\ All' = Append(Append(a, l), m)
          /\ stdout' \in Seq(LineType) /\ buffer' \in Seq(LineType)
  <2>1. CASE UNCHANGED <<stdout, buffer>>
    BY <1>7, <2>1 DEF All
  <2>2. CASE /\ stdout' = Append(stdout, DiffOf(Path(1)))
             /\ buffer' \in {buffer, Append(buffer, EndOfDiff(Path(1)))}
    <3>1. stdout' = Append(a, l) /\ stdout' \in Seq(LineType)
      BY <1>5, <1>7, <1>9, <2>2
    <3>2. CASE buffer' = buffer
      <4>1. buffer' = <<>> /\ <<>> \in Seq(LineType)
        BY <1>2, <3>2, EmptySeq
      <4>2. All' = stdout'
        BY <3>1, <4>1, ConcatEmptySeq DEF All
      <4> QED
        BY <3>1, <4>1, <4>2
    <3>3. CASE buffer' = Append(buffer, EndOfDiff(Path(1)))
      <4>1. buffer' = <<m>> /\ <<m>> \in Seq(LineType)
        BY <1>2, <1>5, <3>3
      <4>2. All' = stdout' \o <<m>>
        BY <4>1 DEF All
      <4>3. Append(a, l) \o <<m>> = Append(Append(a, l), m)
        BY <1>9, Appended
      <4> QED
        BY <3>1, <4>1, <4>2, <4>3
    <3> QED
      BY <2>2, <3>2, <3>3
  <2> QED
    BY <2>1, <2>2 DEF RunDiff
<1>11. \A sign, p : Has(All, sign, p) => Has(All', sign, p)
  <2>1. \A sign, p : Has(a, sign, p) => Has(Append(a, l), sign, p)
    BY HasLast
  <2>2. \A sign, p : Has(Append(a, l), sign, p) => Has(Append(Append(a, l), m), sign, p)
    BY <1>9, HasLast
  <2> QED
    BY <1>7, <1>10, <2>1, <2>2
<1>12. Has(All', "=", Path(1))
  <2>1. Len(a) \in Nat \ {0}
    BY <1>8, EmptySeq, LenProperties
  <2>2. Has(a, "=", Path(1))
    BY <1>8, <2>1 DEF Has
  <2> QED
    BY <1>7, <1>11, <2>2
<1>13. Covered(All', Path(1)) /\ Covered(All', Path(2))
  BY <1>2, <1>4, <1>12 DEF Covered
<1>14. TypeOK'
  BY <1>1, <1>10, SameInput DEF TypeOK
<1>15. FollowsInv'
  <2>1. Follows(a)
    BY <1>1, <1>7 DEF FollowsInv
  <2>2. Follows(Append(a, l))
    BY <1>6, <1>8, <2>1, FollowsStep
  <2>3. Follows(Append(Append(a, l), m))
    BY <1>6, <1>9, <2>2, FollowsStep
  <2>4. Follows(All)' <=> Follows(All')
    BY DEF Follows, DiffOf
  <2> QED
    BY <1>10, <2>1, <2>2, <2>3, <2>4 DEF FollowsInv
<1>16. TreeInv'
  BY <1>1, <1>2, <1>3, TreeKept DEF Comparing
<1>17. CoverageInv'
  <2>1. next' \in [1..2 -> Nat \ {0}]
    BY <1>14 DEF TypeOK
  <2>2. next'[1] = next[1] + 1 /\ next'[2] = next[2] + 1
    BY <1>1
  <2>3. UNCHANGED <<Input, tree>>
    BY <1>1
  <2> QED
    BY <1>1, <1>11, <1>13, <2>1, <2>2, <2>3, CoverageStep
<1>18. Fresh' /\ DiffInv' /\ EndInv'
  BY <1>1 DEF Fresh, Comparing, DiffInv, EndInv, Running
<1>19. IInv'
  BY <1>14, <1>15, <1>16, <1>17, <1>18 DEF IInv
<1> QED
  BY <1>1, <1>5, <1>7, <1>10, <1>19

(* A step that only flushes the buffer, or ends the program.               *)
LEMMA KeptStep ==
  ASSUME IInv, TypeOK', UNCHANGED <<Input, at, tree, failed, next>>, All' = All,
         at # "merge" => UNCHANGED <<stdout, buffer>>,
         exit' = 0 => /\ at = "merge" /\ failed = {} /\ buffer' = <<>>
                      /\ \A n \in 1..2 : next[n] = Len(tree[n]) + 1
  PROVE  IInv'
<1>1. TypeOK /\ Fresh /\ TreeInv /\ CoverageInv /\ FollowsInv /\ DiffInv
  BY DEF IInv
<1>2. guest' = guest /\ \A n \in 1..2 : Walked(n)' <=> Walked(n)
  BY SameInput DEF Walked, Comparing
<1>3. TreeInv'
  BY <1>1, <1>2 DEF TreeInv
<1>4. CoverageInv'
  <2>1. next' \in [1..2 -> Nat \ {0}]
    BY DEF TypeOK
  <2> QED
    BY <1>1, <2>1, CoverageStep
<1>5. FollowsInv'
  BY <1>1, FollowsSame
<1>6. Fresh' /\ EndInv'
  BY <1>1 DEF Fresh, Comparing, EndInv
<1>7. DiffInv'
  <2>1. SUFFICES ASSUME at = "diff" PROVE DiffInv'
    BY DEF DiffInv
  <2>2. Path(1)' = Path(1) /\ Path(2)' = Path(2)
    BY DEF Path
  <2>3. ContentChanged(Path(1))' <=> ContentChanged(Path(1))
    BY <2>2, SameInput
  <2>4. Line("=", 1, Path(1))' = Line("=", 1, Path(1))
    BY <2>2, SameInput
  <2> QED
    BY <1>1, <2>1, <2>2, <2>3, <2>4 DEF DiffInv
<1> QED
  BY <1>3, <1>4, <1>5, <1>6, <1>7 DEF IInv

LEMMA Flushed ==
  ASSUME TypeOK, stdout' = stdout \o buffer, buffer' = <<>>
  PROVE  All' = All /\ stdout' \in Seq(LineType) /\ buffer' \in Seq(LineType)
<1>1. stdout' = All /\ All \in Seq(LineType)
  BY AllTypes DEF All
<1>2. All' = All /\ <<>> \in Seq(LineType)
  BY <1>1, ConcatEmptySeq, EmptySeq DEF All
<1> QED
  BY <1>1, <1>2

LEMMA FinishStep == ASSUME IInv, Finish PROVE IInv' /\ All' = All
<1>1. /\ TypeOK /\ TreeInv /\ at = "merge"
      /\ failed # {} \/ (Rest(1) = <<>> /\ Rest(2) = <<>>)
      /\ \/ failed = {} /\ exit' = 0 /\ stdout' = stdout \o buffer /\ buffer' = <<>>
         \/ exit' = 1 /\ UNCHANGED <<stdout, buffer>>
      /\ UNCHANGED <<Input, at, tree, failed, next, full>>
  BY DEF IInv, Finish
<1>2. All' = All /\ stdout' \in Seq(LineType) /\ buffer' \in Seq(LineType)
  BY <1>1, Flushed DEF All, TypeOK
<1>3. TypeOK'
  BY <1>1, <1>2, SameInput DEF TypeOK
<1>4. exit' = 0 => /\ failed = {} /\ buffer' = <<>>
                   /\ \A n \in 1..2 : next[n] = Len(tree[n]) + 1
  BY <1>1, RestOf DEF TreeInv
<1> QED
  BY <1>1, <1>2, <1>3, <1>4, KeptStep

LEMMA SurroundingsStep ==
  ASSUME IInv, NoTmpdir \/ BufferFull \/ DiskFull
  PROVE  IInv' /\ All' = All /\ UNCHANGED <<at, next, tree, failed>>
<1>1. /\ TypeOK /\ Running
      /\ \/ stdout' = stdout \o buffer /\ buffer' = <<>> /\ at = "merge"
         \/ UNCHANGED <<stdout, buffer>>
      /\ exit' \in {exit, 1}
      /\ full' \in {full, TRUE}
      /\ UNCHANGED <<Input, at, tree, failed, next>>
  BY DEF IInv, NoTmpdir, BufferFull, DiskFull, Output
<1>2. All' = All /\ stdout' \in Seq(LineType) /\ buffer' \in Seq(LineType)
  BY <1>1, Flushed DEF All, TypeOK
<1>3. TypeOK'
  BY <1>1, <1>2, SameInput DEF TypeOK
<1>4. exit' # 0
  BY <1>1 DEF Running
<1> QED
  BY <1>1, <1>2, <1>3, <1>4, KeptStep

-----------------------------------------------------------------------------
(* The steps before the merge.                                             *)

LEMMA NowhereElse ==
  ASSUME TypeOK, NEW n \in 1..2
  PROVE  /\ At(0, n) <=> Running /\ at = <<"open1", "open2">>[n]
         /\ At(2, n) <=> Running /\ at = <<"visit1", "visit2">>[n]
<1>1. CASE n = 1
  BY <1>1 DEF At
<1>2. CASE n = 2
  BY <1>2 DEF At
<1> QED
  BY <1>1, <1>2

(* A step that writes and passes nothing.                                  *)
LEMMA EarlyStep ==
  ASSUME IInv, TypeOK', ~Comparing, Running, UNCHANGED <<Input, next, Output>>,
         exit' # 0, at' # "diff", TreeInv'
  PROVE  IInv'
<1>1. TypeOK /\ Fresh /\ CoverageInv /\ FollowsInv
  BY DEF IInv
<1>2. next = <<1, 1>> /\ buffer = <<>> /\ stdout = <<>>
  BY <1>1 DEF Fresh
<1>3. next' = <<1, 1>> /\ buffer' = <<>> /\ stdout' = <<>> /\ All' = All
  BY <1>2 DEF Output, All
<1>4. CoverageInv'
  BY <1>3 DEF CoverageInv
<1>5. FollowsInv'
  BY <1>1, <1>3, FollowsSame
<1>6. Fresh' /\ DiffInv' /\ EndInv'
  BY <1>3 DEF Fresh, DiffInv, EndInv
<1> QED
  BY <1>4, <1>5, <1>6 DEF IInv

LEMMA OpeningStep ==
  ASSUME IInv, NEW n \in 1..2, CheckOptions \/ OpenGuest(n)
  PROVE  IInv' /\ UNCHANGED <<tree, failed>> /\ ~Comparing /\ ~Comparing'
<1>1. TypeOK /\ Fresh /\ TreeInv /\ next \in [1..2 -> Nat \ {0}]
  BY DEF IInv, TypeOK
<1>2. /\ Running /\ at \in {"options", "open1", "open2"}
      /\ at' \in {"options", "open1", "open2", "visit1", "visit2"}
      /\ at' \in {"open2", "visit2"} => at \in {"open2", "visit2"}
      /\ exit' \in {exit, 1}
      /\ UNCHANGED <<Input, tree, failed, next, Output>>
  <2>1. CASE CheckOptions
    BY <2>1 DEF CheckOptions
  <2>2. CASE OpenGuest(n) /\ n = 1
    BY <1>1, <2>2, NowhereElse DEF OpenGuest
  <2>3. CASE OpenGuest(n) /\ n = 2
    BY <1>1, <2>3, NowhereElse DEF OpenGuest
  <2> QED
    BY <2>1, <2>2, <2>3
<1>3. buffer' = buffer /\ stdout' = stdout /\ full' = full
  BY <1>2 DEF Output
<1>4. TypeOK'
  BY <1>1, <1>2, <1>3, SameInput DEF TypeOK, Running
<1>5. ~Comparing /\ ~Comparing' /\ exit' # 0 /\ at' # "diff"
  BY <1>2 DEF Comparing, Running
<1>6. \A m \in 1..2 : Walked(m)' => Walked(m)
  BY <1>2, <1>5 DEF Walked
<1>7. TreeInv'
  BY <1>1, <1>2, <1>6, SameInput DEF TreeInv
<1> QED
  BY <1>2, <1>4, <1>5, <1>7, EarlyStep

LEMMA ToSetAppend ==
  ASSUME NEW R, NEW s \in Seq(R), NEW x \in R
  PROVE  ToSet(Append(s, x)) = ToSet(s) \cup {x}
<1>1. /\ Len(s) \in Nat /\ DOMAIN s = 1..Len(s)
      /\ Append(s, x) \in Seq(R) /\ Len(Append(s, x)) = Len(s) + 1
      /\ Append(s, x)[Len(s) + 1] = x
      /\ \A i \in 1..Len(s) : Append(s, x)[i] = s[i]
  BY AppendProperties, LenProperties
<1>2. DOMAIN Append(s, x) = 1..(Len(s) + 1)
  BY <1>1, LenProperties
<1>3. \A i \in 1..(Len(s) + 1) : i \in 1..Len(s) \/ i = Len(s) + 1
  BY <1>1
<1>4. Len(s) + 1 \in 1..(Len(s) + 1) /\ \A i \in 1..Len(s) : i \in 1..(Len(s) + 1)
  BY <1>1
<1>5. ASSUME NEW y PROVE y \in ToSet(Append(s, x)) <=> y \in ToSet(s) \cup {x}
  BY <1>1, <1>2, <1>3, <1>4 DEF ToSet
<1> QED
  BY <1>5

LEMMA VisitEntryStep ==
  ASSUME IInv, NEW n \in 1..2, VisitEntry(n)
  PROVE  /\ IInv' /\ UNCHANGED <<failed, at>> /\ ~Comparing /\ ~Comparing' /\ ~Walked(n)
         /\ \E i \in Left(n) : /\ \A j \in Left(n) : i <= j
                               /\ tree' = [tree EXCEPT ![n] = Append(@, walk[i])]
                               /\ ToSet(tree'[n]) = ToSet(tree[n]) \cup {walk[i]}
<1>1. TypeOK /\ Fresh /\ TreeInv
  BY DEF IInv
<1>2. PICK i \in Left(n) : /\ \A j \in Left(n) : i <= j
                           /\ tree' = [tree EXCEPT ![n] = Append(@, walk[i])]
  BY DEF VisitEntry
<1>3. /\ Running /\ at = <<"visit1", "visit2">>[n]
      /\ UNCHANGED <<Input, at, failed, next, Output, exit>>
  BY <1>1, NowhereElse DEF VisitEntry
<1>4. ~Comparing /\ ~Comparing' /\ ~Walked(n)
  <2>1. CASE n = 1
    BY <1>3, <2>1 DEF Comparing, Walked
  <2>2. CASE n = 2
    BY <1>3, <2>2 DEF Comparing, Walked
  <2> QED
    BY <2>1, <2>2
<1>5. walk[i] \in Paths /\ walk[i] \in DOMAIN guest[n]
  <2>1. i \in DOMAIN walk /\ walk[i] \in DOMAIN guest[n]
    BY DEF Left
  <2> QED
    BY <1>1, <2>1, GuestTypes
<1>6. tree \in [1..2 -> Seq(Paths)] /\ next = <<1, 1>>
  BY <1>1, <1>4 DEF TypeOK, Fresh
<1>7. /\ Append(tree[n], walk[i]) \in Seq(Paths)
      /\ ToSet(Append(tree[n], walk[i])) = ToSet(tree[n]) \cup {walk[i]}
  BY <1>5, <1>6, AppendProperties, ToSetAppend
<1>8. /\ tree' \in [1..2 -> Seq(Paths)] /\ tree'[n] = Append(tree[n], walk[i])
      /\ \A m \in 1..2 \ {n} : tree'[m] = tree[m]
  BY <1>2, <1>6, <1>7
<1>9. buffer' = buffer /\ stdout' = stdout /\ full' = full
  BY <1>3 DEF Output
<1>10. TypeOK'
  BY <1>1, <1>3, <1>8, <1>9, SameInput DEF TypeOK
<1>11. \A m \in 1..2 : Walked(m)' => Walked(m) /\ m # n
  BY <1>3, <1>4 DEF Walked, Comparing
<1>12. \A m \in 1..2 : next'[m] = 1 /\ Len(tree'[m]) \in Nat
  BY <1>3, <1>6, <1>8, LenProperties
<1>13. TreeInv'
  <2>1. guest' = guest
    BY <1>3, SameInput
  <2>2. \A m \in 1..2 : ToSet(tree'[m]) \subseteq DOMAIN guest[m]
    BY <1>1, <1>5, <1>7, <1>8 DEF TreeInv
  <2>3. \A m \in 1..2 : Walked(m)' /\ m \notin failed => DOMAIN guest[m] \subseteq ToSet(tree'[m])
    BY <1>1, <1>8, <1>11 DEF TreeInv
  <2>4. \A m \in 1..2 : next'[m] <= Len(tree'[m]) + 1
    BY <1>12
  <2> QED
    BY <1>3, <2>1, <2>2, <2>3, <2>4 DEF TreeInv
<1>14. exit' # 0 /\ at' # "diff"
  BY <1>3, <1>4 DEF Running, Comparing
<1>15. IInv'
  BY <1>3, <1>4, <1>10, <1>13, <1>14, EarlyStep
<1> QED
  BY <1>2, <1>3, <1>4, <1>7, <1>8, <1>15

LEMMA AfterVisit ==
  ASSUME TypeOK, NEW n \in 1..2, Running, at = <<"visit1", "visit2">>[n], at' = Then(n)
  PROVE  /\ ~Comparing /\ at' \in {"open2", "merge"} /\ ~Walked(n)
         /\ \A m \in 1..2 : Walked(m)' => Walked(m) \/ m = n
<1>1. CASE n = 1
  BY <1>1 DEF Comparing, Walked, Then
<1>2. CASE n = 2
  BY <1>2 DEF Comparing, Walked, Then
<1> QED
  BY <1>1, <1>2

LEMMA EndVisitStep ==
  ASSUME IInv, NEW n \in 1..2, EndVisit(n)
  PROVE  IInv' /\ UNCHANGED <<tree, failed>> /\ ~Comparing /\ next' = <<1, 1>> /\ All' = <<>>
<1>1. TypeOK /\ Fresh /\ TreeInv
  BY DEF IInv
<1>2. /\ Running /\ at = <<"visit1", "visit2">>[n] /\ at' = Then(n) /\ Left(n) = {}
      /\ UNCHANGED <<Input, tree, failed, next, Output, exit>>
  BY <1>1, NowhereElse DEF EndVisit
<1>3. /\ ~Comparing /\ at' \in {"open2", "merge"}
      /\ \A m \in 1..2 : Walked(m)' => Walked(m) \/ m = n
  BY <1>1, <1>2, AfterVisit
<1>4. DOMAIN guest[n] \subseteq ToSet(tree[n])
  <2>1. ASSUME NEW p \in DOMAIN guest[n], p \notin ToSet(tree[n]) PROVE FALSE
    <3>1. PICK i \in 1..MaxPath : walk[i] = p
      BY <1>1, <2>1, GuestTypes, WalkTypes
    <3>2. i \in Left(n)
      BY <1>1, <2>1, <3>1, WalkTypes DEF Left
    <3> QED
      BY <1>2, <3>2
  <2> QED
    BY <2>1
<1>5. buffer' = buffer /\ stdout' = stdout /\ full' = full
  BY <1>2 DEF Output
<1>6. TypeOK'
  BY <1>1, <1>2, <1>3, <1>5, SameInput DEF TypeOK
<1>7. TreeInv'
  BY <1>1, <1>2, <1>3, <1>4, SameInput DEF TreeInv
<1>8. exit' # 0 /\ at' # "diff"
  BY <1>2, <1>3 DEF Running
<1>9. IInv'
  BY <1>2, <1>3, <1>6, <1>7, <1>8, EarlyStep
<1>10. next' = <<1, 1>> /\ All' = <<>>
  <2>1. next = <<1, 1>> /\ buffer = <<>> /\ stdout = <<>>
    BY <1>1, <1>3 DEF Fresh
  <2> QED
    BY <1>2, <1>5, <2>1 DEF All
<1> QED
  BY <1>2, <1>3, <1>9, <1>10

LEMMA VisitFailsStep ==
  ASSUME IInv, NEW n \in 1..2, VisitFails(n)
  PROVE  /\ IInv' /\ ~Comparing /\ failed' # {} /\ ~Walked(n)
         /\ tree' = [tree EXCEPT ![n] = <<>>]
         /\ \A m \in 1..2 : Walked(m)' => Walked(m) \/ m = n
<1>1. TypeOK /\ Fresh /\ TreeInv
  BY DEF IInv
<1>2. /\ Running /\ at = <<"visit1", "visit2">>[n] /\ at' = Then(n)
      /\ tree' = [tree EXCEPT ![n] = <<>>] /\ failed' = failed \cup {n}
      /\ UNCHANGED <<Input, next, Output, exit>>
  BY <1>1, NowhereElse DEF VisitFails
<1>3. /\ ~Comparing /\ at' \in {"open2", "merge"} /\ ~Walked(n)
      /\ \A m \in 1..2 : Walked(m)' => Walked(m) \/ m = n
  BY <1>1, <1>2, AfterVisit
<1>4. tree \in [1..2 -> Seq(Paths)] /\ next = <<1, 1>>
  BY <1>1, <1>3 DEF TypeOK, Fresh
<1>5. <<>> \in Seq(Paths) /\ ToSet(<<>>) = {}
  BY EmptySeq DEF ToSet
<1>6. /\ tree' \in [1..2 -> Seq(Paths)] /\ tree'[n] = <<>>
      /\ \A m \in 1..2 \ {n} : tree'[m] = tree[m]
  BY <1>2, <1>4, <1>5
<1>7. buffer' = buffer /\ stdout' = stdout /\ full' = full
  BY <1>2 DEF Output
<1>8. TypeOK'
  BY <1>1, <1>2, <1>3, <1>6, <1>7, SameInput DEF TypeOK
<1>9. TreeInv'
  <2>1. guest' = guest
    BY <1>2, SameInput
  <2>2. \A m \in 1..2 : ToSet(tree'[m]) \subseteq DOMAIN guest[m]
    BY <1>1, <1>5, <1>6 DEF TreeInv
  <2>3. \A m \in 1..2 : Walked(m)' /\ m \notin failed' => DOMAIN guest[m] \subseteq ToSet(tree'[m])
    BY <1>1, <1>2, <1>3, <1>6 DEF TreeInv
  <2>4. \A m \in 1..2 : next'[m] <= Len(tree'[m]) + 1
    BY <1>2, <1>4, <1>6, LenProperties
  <2> QED
    BY <1>2, <2>1, <2>2, <2>3, <2>4 DEF TreeInv
<1>10. exit' # 0 /\ at' # "diff"
  BY <1>2, <1>3 DEF Running
<1>11. IInv'
  BY <1>2, <1>3, <1>8, <1>9, <1>10, EarlyStep
<1> QED
  BY <1>2, <1>3, <1>11

-----------------------------------------------------------------------------
LEMMA InitIInv == ASSUME Init PROVE IInv
<1>1. <<>> \in Seq(Paths) /\ <<>> \in Seq(LineType) /\ ToSet(<<>>) = {} /\ Len(<<>>) = 0
  BY EmptySeq DEF ToSet
<1>2. tree = <<<<>>, <<>>>> /\ next = <<1, 1>>
  BY DEF Init
<1>3. /\ tree \in [1..2 -> Seq(Paths)] /\ next \in [1..2 -> Nat \ {0}]
      /\ \A n \in 1..2 : tree[n] = <<>> /\ next[n] = 1
  <2>1. \A n \in 1..2 : n = 1 \/ n = 2
    OBVIOUS
  <2>2. tree = [n \in 1..2 |-> <<>>] /\ next = [n \in 1..2 |-> 1]
    BY <1>2
  <2> QED
    BY <1>1, <2>2
<1>4. TypeOK
  BY <1>1, <1>3 DEF Init, TypeOK
<1>5. All = <<>>
  BY DEF Init, All
<1>6. FollowsInv
  BY <1>1, <1>5 DEF FollowsInv, Follows
<1>7. TreeInv
  BY <1>1, <1>3 DEF Init, TreeInv, Walked, Comparing
<1>8. CoverageInv
  BY <1>3 DEF CoverageInv
<1>9. Fresh /\ DiffInv /\ EndInv
  BY DEF Init, Fresh, DiffInv, EndInv
<1> QED
  BY <1>4, <1>6, <1>7, <1>8, <1>9 DEF IInv

LEMMA StutterStep == ASSUME IInv, UNCHANGED vars PROVE IInv'
<1>1. UNCHANGED <<Input, at, tree, failed, next, stdout, buffer, full, exit>>
  BY DEF vars, Input
<1>2. All' = All
  BY <1>1 DEF All
<1>3. TypeOK'
  BY <1>1, SameInput DEF IInv, TypeOK
<1>4. exit' = 0 => /\ at = "merge" /\ failed = {} /\ buffer' = <<>>
                   /\ \A n \in 1..2 : next[n] = Len(tree[n]) + 1
  BY <1>1 DEF IInv, EndInv
<1> QED
  BY <1>1, <1>2, <1>3, <1>4, KeptStep

(* The invariant holds in every state.                                     *)
THEOREM Invariance == Spec => []IInv
<1>1. IInv /\ [Next]_vars => IInv'
  <2> SUFFICES ASSUME IInv, [Next]_vars PROVE IInv'
    OBVIOUS
  <2>1. ASSUME NEW n \in 1..2, OpenGuest(n) \/ VisitEntry(n) \/ EndVisit(n) \/ VisitFails(n)
        PROVE  IInv'
    BY <2>1, OpeningStep, VisitEntryStep, EndVisitStep, VisitFailsStep
  <2>2. CASE CheckOptions
    <3>1. 1 \in 1..2
      OBVIOUS
    <3> QED
      BY <2>2, <3>1, OpeningStep
  <2>3. CASE Deleted \/ Added \/ Same \/ OnlyStatsChanged \/ FileChanged \/ RunDiff
    BY <2>3, DeletedStep, AddedStep, SameStep, OnlyStatsChangedStep, FileChangedStep, RunDiffStep
  <2>4. CASE Finish \/ NoTmpdir \/ BufferFull \/ DiskFull
    BY <2>4, FinishStep, SurroundingsStep
  <2>5. CASE UNCHANGED vars
    BY <2>5, StutterStep
  <2> QED
    BY <2>1, <2>2, <2>3, <2>4, <2>5 DEF Next
<1> QED
  BY <1>1, InitIInv, PTL DEF Spec

-----------------------------------------------------------------------------
(* What diff.c promises of its output.                                     *)

LEMMA WrittenFirst ==
  ASSUME TypeOK
  PROVE  /\ Len(stdout) \in Nat /\ Len(stdout) <= Len(All) /\ Len(All) \in Nat
         /\ DOMAIN stdout = 1..Len(stdout)
         /\ \A i \in 1..Len(stdout) : All[i] = stdout[i]
<1>1. stdout \in Seq(LineType) /\ buffer \in Seq(LineType)
  BY DEF TypeOK
<1>2. Len(stdout) \in Nat /\ Len(buffer) \in Nat /\ DOMAIN stdout = 1..Len(stdout)
  BY <1>1, LenProperties
<1>3. /\ Len(All) = Len(stdout) + Len(buffer)
      /\ \A i \in 1..(Len(stdout) + Len(buffer)) : i <= Len(stdout) => All[i] = stdout[i]
  BY <1>1, ConcatProperties DEF All
<1> QED
  BY <1>2, <1>3

(* The output of diff comes directly after the line of its file, and the   *)
(* end mark directly after it (the flush of diff.c 672 and system of 681), *)
(* although both are written by two processes and either may fail.         *)
THEOREM OutputOfDiffIsInPlace == Spec => []DiffFollowsItsLine
<1>1. IInv => DiffFollowsItsLine
  <2> SUFFICES ASSUME IInv PROVE DiffFollowsItsLine
    OBVIOUS
  <2>1. /\ Len(stdout) \in Nat /\ Len(stdout) <= Len(All) /\ Len(All) \in Nat
        /\ DOMAIN stdout = 1..Len(stdout)
        /\ \A i \in 1..Len(stdout) : All[i] = stdout[i]
    BY WrittenFirst DEF IInv
  <2>2. \A i \in 1..Len(stdout) : i \in 1..Len(All) /\ (i > 1 => i - 1 \in 1..Len(stdout))
    BY <2>1
  <2>3. Follows(All)
    BY DEF IInv, FollowsInv
  <2> QED
    BY <2>1, <2>2, <2>3 DEF Follows, DiffFollowsItsLine
<1> QED
  BY <1>1, Invariance, PTL

(* Whatever the order of the walks, what the disk does and which of the    *)
(* calls of diff fail, a run that ends with status 0 has printed a line    *)
(* for every file that only one guest has, and for every file that both    *)
(* have with a difference (the merge, diff.c 616-653).                     *)
THEOREM EveryDifferenceIsShown == Spec => []NothingIsMissed
<1>1. IInv => NothingIsMissed
  <2> SUFFICES ASSUME IInv, exit = 0 PROVE NothingIsMissed
    BY DEF NothingIsMissed
  <2>1. /\ TypeOK /\ TreeInv /\ CoverageInv
        /\ at = "merge" /\ failed = {} /\ buffer = <<>>
        /\ \A n \in 1..2 : next[n] = Len(tree[n]) + 1
    BY DEF IInv, EndInv
  <2>2. All = stdout
    BY <2>1, AllTypes
  <2>3. \A sign, p : Has(stdout, sign, p) => p \in Shown(sign)
    BY <2>1, WrittenFirst DEF Has, Shown
  <2>4. ASSUME NEW n \in 1..2, NEW p \in DOMAIN guest[n]
        PROVE  Covered(stdout, p) \/ Has(stdout, <<"-", "+">>[n], p)
    <3>1. p \in ToSet(tree[n])
      BY <2>1 DEF TreeInv, Walked, Comparing
    <3>2. tree[n] \in Seq(Paths) /\ Len(tree[n]) \in Nat /\ DOMAIN tree[n] = 1..Len(tree[n])
      BY <2>1, LenProperties DEF TypeOK
    <3>3. PICK k \in 1..Len(tree[n]) : p = tree[n][k]
      BY <3>1, <3>2 DEF ToSet
    <3>4. k \in 1..(next[n] - 1)
      BY <2>1, <3>2
    <3> QED
      BY <2>1, <2>2, <3>3, <3>4 DEF CoverageInv
  <2>5. ASSUME NEW p \in DOMAIN guest[1], p \notin DOMAIN guest[2] PROVE p \in Shown("-")
    BY <2>3, <2>4, <2>5 DEF Covered
  <2>6. ASSUME NEW p \in DOMAIN guest[2], p \notin DOMAIN guest[1] PROVE p \in Shown("+")
    BY <2>3, <2>4, <2>6 DEF Covered
  <2>7. ASSUME NEW p \in DOMAIN guest[1] \cap DOMAIN guest[2], Entry(1, p) # Entry(2, p)
        PROVE  p \in Shown("=") \cup (Shown("-") \cap Shown("+"))
    <3>1. Covered(stdout, p) \/ (Has(stdout, "-", p) /\ Has(stdout, "+", p))
      <4>1. Covered(stdout, p) \/ Has(stdout, <<"-", "+">>[1], p)
        BY <2>4
      <4>2. Covered(stdout, p) \/ Has(stdout, <<"-", "+">>[2], p)
        BY <2>4
      <4> QED
        BY <4>1, <4>2
    <3> QED
      BY <2>3, <2>7, <3>1 DEF Covered
  <2> QED
    BY <2>5, <2>6, <2>7 DEF NothingIsMissed
<1> QED
  BY <1>1, Invariance, PTL

-----------------------------------------------------------------------------
(* The report that is expected, and the lines that the program writes.     *)

OwnLine(l) == IF l.sign \in {"diff", "@@"} THEN <<>> ELSE <<l>>

LEMMA OwnLinesAppend ==
  ASSUME NEW s \in Seq(LineType), NEW l \in LineType
  PROVE  /\ OwnLines(s) \in Seq(LineType)
         /\ OwnLines(Append(s, l)) = OwnLines(s) \o OwnLine(l)
<1> DEFINE T == Seq(LineType)
<1>1. \A m \in LineType : OwnLine(m) \in T
  BY EmptySeq DEF OwnLine
<1>2. PICK n \in Nat : n = Len(s)
  BY LenProperties
<1>3. PICK t \in Seq(LineType) :
        /\ t = Append(s, l) /\ Len(t) = n + 1 /\ t[n + 1] = l
        /\ \A i \in 1..n : t[i] = s[i]
  BY <1>2, Appended
<1>4. /\ DOMAIN s = 1..n /\ DOMAIN t = 1..(n + 1)
      /\ \A i \in 1..n : s[i] \in LineType
      /\ \A i \in 1..(n + 1) : t[i] \in LineType
  BY <1>2, <1>3, LenProperties, ElementOfSeq
<1> DEFINE f == [i \in 1..n |-> OwnLine(s[i])]
<1> DEFINE g == [i \in 1..(n + 1) |-> OwnLine(t[i])]
<1>5. f \in [1..n -> T] /\ g \in [1..(n + 1) -> T]
  BY <1>1, <1>4
<1>6. /\ \A i \in 1..n : g[i] = f[i]
      /\ n + 1 \in 1..(n + 1) /\ g[n + 1] = OwnLine(l) /\ OwnLine(l) \in T
  BY <1>1, <1>3
<1>7. OwnLines(s) = FlattenSeq(f) /\ OwnLines(t) = FlattenSeq(g)
  BY <1>4 DEF OwnLines, OwnLine
<1> HIDE DEF f, g
<1>8. f \in Seq(T) /\ g = Append(f, OwnLine(l))
  BY <1>5, <1>6, AppendedFunction
<1>9. FlattenSeq(f) \in Seq(LineType) /\ FlattenSeq(g) = FlattenSeq(f) \o OwnLine(l)
  <2>1. f \in Seq(Seq(LineType)) /\ OwnLine(l) \in Seq(LineType)
    BY <1>6, <1>8
  <2>2. /\ FlattenSeq(f) \in Seq(LineType)
        /\ FlattenSeq(Append(f, OwnLine(l))) = FlattenSeq(f) \o OwnLine(l)
    BY ONLY <2>1, FlattenAppend
  <2> QED
    BY <1>8, <2>2
<1> QED
  BY <1>3, <1>7, <1>9

LEMMA NoOwnLines == OwnLines(<<>>) = <<>>
<1>1. [i \in DOMAIN <<>> |->
         IF <<>>[i].sign \in {"diff", "@@"} THEN <<>> ELSE <<(<<>>[i])>>] = <<>>
  OBVIOUS
<1> QED
  BY <1>1, FlattenNothing DEF OwnLines

LEMMA BlockType == ASSUME TypeOK, NEW p \in Paths PROVE Block(p) \in Seq(LineType)
<1>1. PICK l \in LineType, m \in LineType, h \in LineType, e \in LineType :
        /\ l = Line("-", 1, p) /\ m = Line("+", 2, p) /\ h = ChangedLine(p)
        /\ e = Line("=", 1, p)
  BY LineTypes
<1>2. /\ <<>> \in Seq(LineType) /\ <<l>> \in Seq(LineType) /\ <<m>> \in Seq(LineType)
      /\ <<e>> \in Seq(LineType) /\ <<l, m, h>> \in Seq(LineType)
  OBVIOUS
<1>3. Expected(p) \in {<<>>, <<l>>, <<m>>, <<e>>, <<l, m, h>>}
  BY <1>1, Zenon DEF Expected
<1> QED
  BY <1>2, <1>3 DEF Block

LEMMA ReportNext ==
  ASSUME TypeOK, NEW c \in Nat, c + 1 \in Paths
  PROVE  /\ Report(c) \in Seq(LineType)
         /\ Report(c + 1) = Report(c) \o Block(c + 1)
<1> DEFINE T == Seq(LineType)
<1> DEFINE f == [p \in 1..c |-> Block(p)]
<1> DEFINE g == [p \in 1..(c + 1) |-> Block(p)]
<1>1. \A p \in 1..(c + 1) : p \in Paths /\ Block(p) \in T
  BY BlockType, MaxPathAssumption DEF Paths
<1>2. f \in [1..c -> T] /\ g \in [1..(c + 1) -> T]
  BY <1>1
<1>3. /\ \A i \in 1..c : g[i] = f[i]
      /\ c + 1 \in 1..(c + 1) /\ g[c + 1] = Block(c + 1) /\ Block(c + 1) \in T
  BY <1>1
<1>4. Report(c) = FlattenSeq(f) /\ Report(c + 1) = FlattenSeq(g)
  BY DEF Report
<1> HIDE DEF f, g
<1>5. f \in Seq(T) /\ g = Append(f, Block(c + 1))
  BY <1>2, <1>3, AppendedFunction
<1>6. FlattenSeq(f) \in Seq(LineType) /\ FlattenSeq(g) = FlattenSeq(f) \o Block(c + 1)
  <2>1. f \in Seq(Seq(LineType)) /\ Block(c + 1) \in Seq(LineType)
    BY <1>3, <1>5
  <2>2. /\ FlattenSeq(f) \in Seq(LineType)
        /\ FlattenSeq(Append(f, Block(c + 1))) = FlattenSeq(f) \o Block(c + 1)
    BY ONLY <2>1, FlattenAppend
  <2> QED
    BY <1>5, <2>2
<1> QED
  BY <1>4, <1>6

LEMMA ReportNothing == Report(0) = <<>>
<1>1. [p \in 1..0 |-> Block(p)] = <<>>
  OBVIOUS
<1> QED
  BY <1>1, FlattenNothing DEF Report

LEMMA ReportType == ASSUME TypeOK, NEW c \in 0..MaxPath PROVE Report(c) \in Seq(LineType)
<1>1. CASE c = 0
  BY <1>1, ReportNothing, EmptySeq
<1>2. CASE c # 0
  <2>1. PICK b \in Nat : c = b + 1 /\ b + 1 \in Paths
    <3>1. c - 1 \in Nat /\ c = (c - 1) + 1 /\ c \in Paths
      BY <1>2, MaxPathAssumption DEF Paths
    <3> QED
      BY <3>1
  <2>2. /\ Report(b) \in Seq(LineType) /\ Block(b + 1) \in Seq(LineType)
        /\ Report(b + 1) = Report(b) \o Block(b + 1)
    BY <2>1, ReportNext, BlockType
  <2> QED
    BY <2>1, <2>2, ConcatProperties
<1> QED
  BY <1>1, <1>2

(* Paths that neither guest has add nothing to the report.                 *)
LEMMA ReportSame ==
  ASSUME TypeOK, NEW c \in 0..MaxPath, NEW d \in c..MaxPath,
         \A q \in (c + 1)..d : q \notin DOMAIN guest[1] \cup DOMAIN guest[2]
  PROVE  Report(d) = Report(c)
<1> DEFINE S == {e \in Nat : e \in c..d => Report(e) = Report(c)}
<1>1. ASSUME NEW e \in Nat, \A b \in 0..(e - 1) : b \in S PROVE e \in S
  <2> SUFFICES ASSUME e \in c..d, e # c PROVE Report(e) = Report(c)
    OBVIOUS
  <2>1. PICK b \in Nat : /\ e = b + 1 /\ b \in c..d /\ b \in 0..(e - 1)
                         /\ b + 1 \in Paths /\ b + 1 \in (c + 1)..d
    <3>1. /\ e - 1 \in Nat /\ e = (e - 1) + 1 /\ e - 1 \in c..d /\ e - 1 \in 0..(e - 1)
          /\ e \in Paths /\ e \in (c + 1)..d
      BY MaxPathAssumption DEF Paths
    <3> QED
      BY <3>1
  <2>2. Report(b) = Report(c)
    BY <1>1, <2>1
  <2>3. Report(b) \in Seq(LineType) /\ Report(b + 1) = Report(b) \o Block(b + 1)
    BY <2>1, ReportNext
  <2>4. Block(b + 1) = <<>>
    BY <2>1 DEF Block
  <2>5. Report(b) \o <<>> = Report(b)
    BY <2>3, ConcatEmptySeq
  <2> QED
    BY <2>1, <2>2, <2>3, <2>4, <2>5
<1> HIDE DEF S
<1>2. Nat \subseteq S
  BY <1>1, CompleteInduction
<1>3. d \in Nat /\ d \in c..d
  BY MaxPathAssumption
<1> QED
  BY <1>2, <1>3 DEF S

LEMMA ReportSkips ==
  ASSUME TypeOK, NEW c \in 0..MaxPath, NEW p \in Paths, c < p,
         \A q \in (c + 1)..(p - 1) : q \notin DOMAIN guest[1] \cup DOMAIN guest[2]
  PROVE  Report(p) = Report(c) \o Block(p)
<1>1. PICK b \in Nat : b = p - 1 /\ b \in c..MaxPath /\ b + 1 \in Paths /\ p = b + 1
  BY MaxPathAssumption DEF Paths
<1>2. Report(b) = Report(c)
  BY <1>1, ReportSame
<1> QED
  BY <1>1, <1>2, ReportNext

-----------------------------------------------------------------------------
(* In a walk sorted by path, the merge passes the files in order.          *)

LEMMA OrderKept ==
  ASSUME OrderInv, UNCHANGED <<Input, tree>>, \A n \in 1..2 : Walked(n) => Walked(n)'
  PROVE  OrderInv'
<1>1. guest' = guest /\ walk' = walk
  BY SameInput
<1> QED
  BY <1>1 DEF OrderInv, Sorted

LEMMA OrderVisit ==
  ASSUME IInv, OrderInv, NEW n \in 1..2, VisitEntry(n) PROVE OrderInv'
<1>1. /\ ~Walked(n) /\ TypeOK
      /\ UNCHANGED <<failed, at, Input>>
  BY VisitEntryStep DEF VisitEntry, IInv
<1>2. PICK i \in Left(n) : /\ \A j \in Left(n) : i <= j
                           /\ tree' = [tree EXCEPT ![n] = Append(@, walk[i])]
                           /\ ToSet(tree'[n]) = ToSet(tree[n]) \cup {walk[i]}
  BY VisitEntryStep
<1>3. SUFFICES ASSUME Sorted
               PROVE  \A m \in 1..2 :
                        /\ \A j, k \in 1..Len(tree'[m]) : j < k => tree'[m][j] < tree'[m][k]
                        /\ \A p \in DOMAIN guest[m] \ ToSet(tree'[m]), k \in 1..Len(tree'[m]) :
                             Walked(m) \/ tree'[m][k] < p
  <2>1. guest' = guest /\ walk' = walk
    BY <1>1, SameInput
  <2>2. \A m \in 1..2 : Walked(m)' <=> Walked(m)
    BY <1>1 DEF Walked, Comparing
  <2> QED
    BY <2>1, <2>2 DEF OrderInv, Sorted
<1>4. tree \in [1..2 -> Seq(Paths)] /\ tree[n] \in Seq(Paths)
  BY <1>1 DEF TypeOK
<1>5. PICK x \in Paths : /\ x = walk[i] /\ x \in DOMAIN guest[n] /\ x \notin ToSet(tree[n])
                         /\ x = i
  <2>1. i \in DOMAIN walk /\ walk[i] \in DOMAIN guest[n] /\ walk[i] \notin ToSet(tree[n])
    BY DEF Left
  <2>2. i \in 1..MaxPath
    BY <1>1, <2>1, WalkTypes
  <2> QED
    BY <1>1, <1>3, <2>1, <2>2, GuestTypes DEF Sorted, Paths
<1>6. tree'[n] = Append(tree[n], x) /\ \A m \in 1..2 \ {n} : tree'[m] = tree[m]
  BY <1>2, <1>4, <1>5
<1>7. PICK l \in Nat : /\ l = Len(tree[n]) /\ Len(tree'[n]) = l + 1
                       /\ tree'[n][l + 1] = x
                       /\ \A k \in 1..l : tree'[n][k] = tree[n][k] /\ tree[n][k] \in Paths
  BY <1>4, <1>6, AppendProperties, LenProperties, ElementOfSeq
<1>8. \A k \in 1..l : tree[n][k] < x
  BY <1>1, <1>3, <1>5, <1>7 DEF OrderInv
<1>9. \A j, k \in 1..l : j < k => tree[n][j] < tree[n][k]
  BY <1>3, <1>7 DEF OrderInv
<1>10. \A j, k \in 1..(l + 1) : j < k => tree'[n][j] < tree'[n][k]
  <2> SUFFICES ASSUME NEW j \in 1..(l + 1), NEW k \in 1..(l + 1), j < k
               PROVE  tree'[n][j] < tree'[n][k]
    OBVIOUS
  <2>1. j \in 1..l /\ (k \in 1..l \/ k = l + 1)
    OBVIOUS
  <2> QED
    BY <1>7, <1>8, <1>9, <2>1
<1>11. ASSUME NEW p \in DOMAIN guest[n] \ ToSet(tree'[n]), NEW k \in 1..(l + 1)
       PROVE  tree'[n][k] < p
  <2>1. p \in Paths /\ p \notin ToSet(tree[n]) /\ p # x
    BY <1>1, <1>2, <1>5, GuestTypes
  <2>2. p \in DOMAIN walk /\ walk[p] = p
    BY <1>1, <1>3, <2>1, WalkTypes DEF Sorted, Paths
  <2>3. p \in Left(n)
    BY <2>1, <2>2 DEF Left
  <2>4. x < p
    BY <1>2, <1>5, <2>1, <2>3, MaxPathAssumption DEF Paths
  <2>5. CASE k = l + 1
    BY <1>7, <2>4, <2>5
  <2>6. CASE k # l + 1
    <3>1. k \in 1..l
      BY <2>6
    <3>2. tree'[n][k] = tree[n][k] /\ tree[n][k] < x /\ tree[n][k] \in Paths
      BY <1>7, <1>8, <3>1
    <3> QED
      BY <2>1, <2>4, <3>2, MaxPathAssumption DEF Paths
  <2> QED
    BY <2>5, <2>6
<1>12. ASSUME NEW m \in 1..2
       PROVE  /\ \A j, k \in 1..Len(tree'[m]) : j < k => tree'[m][j] < tree'[m][k]
              /\ \A p \in DOMAIN guest[m] \ ToSet(tree'[m]), k \in 1..Len(tree'[m]) :
                   Walked(m) \/ tree'[m][k] < p
  <2>1. CASE m = n
    BY <1>7, <1>10, <1>11, <2>1
  <2>2. CASE m # n
    BY <1>3, <1>6, <2>2 DEF OrderInv
  <2> QED
    BY <2>1, <2>2
<1> QED
  BY <1>12

LEMMA OrderStep ==
  ASSUME IInv, OrderInv, [Next]_vars PROVE OrderInv'
<1>1. ASSUME UNCHANGED <<Input, tree>>, at' \in {at, "merge", "diff"} PROVE OrderInv'
  <2>1. \A n \in 1..2 : Walked(n) => Walked(n)'
    BY <1>1 DEF Walked, Comparing
  <2> QED
    BY <1>1, <2>1, OrderKept
<1>2. CASE UNCHANGED vars
  BY <1>1, <1>2 DEF vars, Input
<1>3. CASE \/ Deleted \/ Added \/ Same \/ OnlyStatsChanged \/ FileChanged \/ RunDiff \/ NoTmpdir
           \/ Finish \/ BufferFull \/ DiskFull
  BY <1>1, <1>3 DEF Deleted, Added, Same, OnlyStatsChanged, FileChanged, RunDiff, NoTmpdir, Finish,
                    BufferFull, DiskFull
<1>4. CASE CheckOptions
  <2>1. UNCHANGED <<Input, tree>> /\ at = "options"
    BY <1>4 DEF CheckOptions
  <2>2. \A n \in 1..2 : Walked(n) => Walked(n)'
    BY <2>1 DEF Walked, Comparing
  <2> QED
    BY <2>1, <2>2, OrderKept
<1>5. ASSUME NEW n \in 1..2, OpenGuest(n) \/ EndVisit(n) PROVE OrderInv'
  <2>1. TypeOK /\ UNCHANGED <<Input, tree>>
    BY <1>5 DEF IInv, OpenGuest, EndVisit
  <2>2. \/ n = 1 /\ at \in {"open1", "visit1"}
        \/ /\ n = 2 /\ at \in {"open2", "visit2"}
           /\ at' \in {"open2", "visit2", "merge"}
    <3>1. CASE n = 1
      BY <1>5, <2>1, <3>1, NowhereElse DEF OpenGuest, EndVisit
    <3>2. CASE n = 2
      BY <1>5, <2>1, <3>2, NowhereElse DEF OpenGuest, EndVisit, Then
    <3> QED
      BY <3>1, <3>2
  <2>3. \A m \in 1..2 : Walked(m) => Walked(m)'
    BY <2>2 DEF Walked, Comparing
  <2> QED
    BY <2>1, <2>3, OrderKept
<1>6. ASSUME NEW n \in 1..2, VisitFails(n) PROVE OrderInv'
  <2>1. /\ tree' = [tree EXCEPT ![n] = <<>>] /\ UNCHANGED Input /\ TypeOK
        /\ Running /\ at = <<"visit1", "visit2">>[n] /\ at' = Then(n)
    BY <1>6, NowhereElse DEF VisitFails, IInv
  <2>2. guest' = guest /\ walk' = walk
    BY <2>1, SameInput
  <2>3. \A m \in 1..2 : Walked(m) => Walked(m)'
    <3>1. CASE n = 1
      BY <2>1, <3>1 DEF Walked, Comparing
    <3>2. CASE n = 2
      BY <2>1, <3>2 DEF Walked, Comparing, Then
    <3> QED
      BY <3>1, <3>2
  <2>4. tree'[n] = <<>> /\ Len(tree'[n]) = 0 /\ \A m \in 1..2 \ {n} : tree'[m] = tree[m]
    BY <2>1, EmptySeq DEF TypeOK
  <2>5. SUFFICES ASSUME Sorted, NEW m \in 1..2
                 PROVE  /\ \A j, k \in 1..Len(tree'[m]) : j < k => tree'[m][j] < tree'[m][k]
                        /\ \A p \in DOMAIN guest[m] \ ToSet(tree'[m]), k \in 1..Len(tree'[m]) :
                             Walked(m)' \/ tree'[m][k] < p
    BY <2>2 DEF OrderInv, Sorted
  <2>6. CASE m = n
    BY <2>4, <2>6
  <2>7. CASE m # n
    BY <2>3, <2>4, <2>5, <2>7 DEF OrderInv
  <2> QED
    BY <2>6, <2>7
<1> QED
  BY <1>2, <1>3, <1>4, <1>5, <1>6, OrderVisit DEF Next

-----------------------------------------------------------------------------
(* The lines written so far are the report on the paths that were passed.  *)

LEMMA ReportKept ==
  ASSUME UNCHANGED Input PROVE Sorted' = Sorted /\ \A c : Report(c)' = Report(c)
<1>1. \A p : Block(p)' = Block(p)
  BY SameInput
<1>2. walk' = walk
  BY SameInput
<1> QED
  BY <1>1, <1>2 DEF Report, Sorted

LEMMA MergeStays ==
  ASSUME ReportInv, UNCHANGED <<Input, at, tree, failed, next>>, All' = All PROVE ReportInv'
<1> SUFFICES ASSUME Sorted', Comparing', failed' = {} PROVE \E c \in 0..MaxPath : MergedUpto(c)'
  BY DEF ReportInv
<1>1. Sorted /\ Comparing /\ failed = {}
  BY ReportKept DEF Comparing
<1>2. PICK c \in 0..MaxPath : MergedUpto(c)
  BY <1>1 DEF ReportInv
<1>3. Path(1)' = Path(1)
  BY DEF Path
<1>4. Line("=", 1, Path(1))' = Line("=", 1, Path(1))
  BY <1>3, SameInput
<1>5. Report(c)' = Report(c)
  BY ReportKept
<1>6. MergedUpto(c)'
  BY <1>2, <1>4, <1>5 DEF MergedUpto
<1> QED
  BY <1>6

(* A file that has not been reported is not in front of the one that the   *)
(* merge has come to.                                                      *)
LEMMA Ahead ==
  ASSUME IInv, OrderInv, Sorted, Comparing, failed = {}, NEW c \in 0..MaxPath, MergedUpto(c),
         NEW n \in 1..2
  PROVE  /\ \A q \in DOMAIN guest[n] : q > c => Rest(n) # <<>> /\ q >= Path(n)
         /\ Rest(n) # <<>> => /\ next[n] \in 1..Len(tree[n])
                              /\ Path(n) > c
                              /\ \A k \in (next[n] + 1)..Len(tree[n]) : tree[n][k] > Path(n)
<1>1. /\ TypeOK /\ DOMAIN guest[n] \subseteq ToSet(tree[n]) /\ next[n] <= Len(tree[n]) + 1
  BY DEF IInv, TreeInv, Walked
<1>2. PICK l \in Nat, m \in Nat \ {0} : /\ l = Len(tree[n]) /\ m = next[n]
                                        /\ DOMAIN tree[n] = 1..l
  BY <1>1, RestOf DEF TypeOK
<1>3. /\ \A k \in 1..l : tree[n][k] \in Nat
      /\ \A j, k \in 1..l : j < k => tree[n][j] < tree[n][k]
      /\ \A k \in 1..(m - 1) : tree[n][k] <= c
      /\ \A k \in m..l : tree[n][k] > c
  <2>1. \A k \in 1..l : tree[n][k] \in Nat
    BY <1>1, <1>2, RestOf, MaxPathAssumption DEF Paths
  <2>2. \A j, k \in 1..l : j < k => tree[n][j] < tree[n][k]
    BY <1>2 DEF OrderInv
  <2>3. /\ \A k \in 1..(m - 1) : tree[n][k] <= c
        /\ \A k \in m..l : tree[n][k] > c
    BY <1>2 DEF MergedUpto
  <2> QED
    BY <2>1, <2>2, <2>3
<1>4. Path(n) = tree[n][m]
  BY <1>2 DEF Path
<1>5. /\ Rest(n) # <<>> => m \in 1..l
      /\ Rest(n) = <<>> => m = l + 1
  BY <1>1, <1>2, RestOf
<1>6. ASSUME NEW q \in DOMAIN guest[n], q > c PROVE Rest(n) # <<>> /\ q >= Path(n)
  <2>1. PICK k \in 1..l : q = tree[n][k]
    BY <1>1, <1>2 DEF ToSet
  <2>2. k \in m..l
    <3>1. k \in 1..(m - 1) \/ k \in m..l
      BY <1>2
    <3> QED
      BY <1>3, <1>6, <2>1, <3>1
  <2>3. m \in 1..l /\ (k = m \/ m < k)
    BY <1>2, <2>2
  <2>4. tree[n][k] >= tree[n][m]
    BY <1>3, <2>3
  <2> QED
    BY <1>4, <1>5, <2>1, <2>3, <2>4
<1>7. ASSUME Rest(n) # <<>>
      PROVE  m \in 1..l /\ Path(n) > c /\ \A k \in (m + 1)..l : tree[n][k] > Path(n)
  BY <1>3, <1>4, <1>5, <1>7
<1> QED
  BY <1>2, <1>6, <1>7

(* The merge passes the least path that is left, in each guest that has it. *)
LEMMA MergePasses ==
  ASSUME IInv, OrderInv, Sorted, Comparing, failed = {}, NEW c \in 0..MaxPath, MergedUpto(c),
         NEW p \in Paths,
         \E n \in 1..2 : Rest(n) # <<>> /\ Path(n) = p,
         \A n \in 1..2 : Rest(n) # <<>> => p <= Path(n),
         UNCHANGED <<Input, tree>>, at' = "merge",
         \A n \in 1..2 : next'[n] = IF Rest(n) # <<>> /\ Path(n) = p THEN next[n] + 1 ELSE next[n],
         OwnLines(All') = Report(c) \o Block(p)
  PROVE  ReportInv'
<1>1. TypeOK /\ \A n \in 1..2 : next[n] <= Len(tree[n]) + 1
  BY DEF IInv, TreeInv
<1>2. p \in Nat /\ c \in Nat /\ p \in 0..MaxPath
  BY MaxPathAssumption DEF Paths
<1>3. c < p
  BY <1>2, Ahead
<1>4. \A q \in (c + 1)..(p - 1) : q \notin DOMAIN guest[1] \cup DOMAIN guest[2]
  <2> SUFFICES ASSUME NEW q \in (c + 1)..(p - 1), NEW n \in 1..2, q \in DOMAIN guest[n]
               PROVE  FALSE
    OBVIOUS
  <2>1. q > c /\ ~(q >= p)
    BY <1>2
  <2>2. Rest(n) # <<>> /\ q >= Path(n) /\ p <= Path(n) /\ Path(n) \in Nat
    BY <1>1, <2>1, Ahead, RestOf DEF Paths
  <2> QED
    BY <1>2, <2>1, <2>2
<1>5. Report(p) = Report(c) \o Block(p)
  BY <1>1, <1>3, <1>4, ReportSkips
<1>6. ASSUME NEW n \in 1..2
      PROVE  /\ \A k \in 1..(next'[n] - 1) : tree[n][k] <= p
             /\ \A k \in next'[n]..Len(tree[n]) : tree[n][k] > p
  <2>1. PICK l \in Nat, m \in Nat \ {0} : l = Len(tree[n]) /\ m = next[n]
    BY <1>1, RestOf DEF TypeOK
  <2>2. /\ \A k \in 1..l : tree[n][k] \in Nat
        /\ \A k \in 1..(m - 1) : tree[n][k] <= c
        /\ m <= l + 1 /\ Path(n) = tree[n][m]
    <3>1. \A k \in 1..l : tree[n][k] \in Nat
      <4>1. \A k \in 1..Len(tree[n]) : tree[n][k] \in Paths
        BY <1>1, RestOf
      <4> QED
        BY <2>1, <4>1, MaxPathAssumption DEF Paths
    <3>2. \A k \in 1..(m - 1) : tree[n][k] <= c
      BY <2>1 DEF MergedUpto
    <3> QED
      BY <1>1, <2>1, <3>1, <3>2 DEF Path
  <2>3. \A k \in 1..(m - 1) : tree[n][k] <= p
    <3> SUFFICES ASSUME NEW k \in 1..(m - 1) PROVE tree[n][k] <= p
      OBVIOUS
    <3>1. k \in 1..l /\ tree[n][k] \in Nat /\ tree[n][k] <= c
      BY <2>1, <2>2
    <3> QED
      BY <1>2, <1>3, <3>1
  <2>4. CASE Rest(n) = <<>>
    <3>1. m = l + 1 /\ next'[n] = m
      BY <1>1, <2>1, <2>4, RestOf
    <3> QED
      BY <2>1, <2>3, <3>1
  <2>5. CASE Rest(n) # <<>>
    <3>1. m \in 1..l /\ \A k \in (m + 1)..l : tree[n][k] > tree[n][m]
      BY <2>1, <2>2, <2>5, Ahead
    <3>2. CASE Path(n) = p
      <4>1. next'[n] = m + 1 /\ tree[n][m] = p
        BY <2>1, <2>2, <2>5, <3>2
      <4>2. \A k \in 1..m : k \in 1..(m - 1) \/ k = m
        OBVIOUS
      <4>3. /\ \A k \in 1..m : tree[n][k] <= p
            /\ \A k \in (m + 1)..l : tree[n][k] > p
        BY <1>2, <2>3, <3>1, <4>1, <4>2
      <4> QED
        BY <2>1, <4>1, <4>3
    <3>3. CASE Path(n) # p
      <4>1. next'[n] = m /\ p < tree[n][m]
        BY <1>2, <2>1, <2>2, <2>5, <3>1, <3>3
      <4>2. \A k \in m..l : tree[n][k] > p
        BY <1>2, <2>2, <3>1, <4>1
      <4> QED
        BY <2>1, <2>3, <4>1, <4>2
    <3> QED
      BY <3>2, <3>3
  <2> QED
    BY <2>4, <2>5
<1>7. Report(p)' = Report(p) /\ Report(p) \in Seq(LineType)
  BY <1>1, <1>2, ReportKept, ReportType
<1>8. OwnLines(All') = Report(p)' \o <<>>
  BY <1>5, <1>7, ConcatEmptySeq
<1>9. MergedUpto(p)'
  BY <1>6, <1>8 DEF MergedUpto
<1> QED
  BY <1>2, <1>9 DEF ReportInv

(* The block of a path that both guests have, for each way of passing it.  *)
LEMMA BlockOfBoth ==
  ASSUME TypeOK, NEW p, p \in DOMAIN guest[1], p \in DOMAIN guest[2]
  PROVE  /\ Entry(1, p) = Entry(2, p) => Block(p) = <<>>
         /\ ContentChanged(p) => Block(p) = <<Line("=", 1, p)>>
         /\ StatsDiffer(p) /\ ~ContentChanged(p) =>
              Block(p) = <<Line("-", 1, p), Line("+", 2, p), ChangedLine(p)>>
<1>1. Block(p) = IF Entry(1, p) = Entry(2, p) \/ (~StatsDiffer(p) /\ ~opt.checksum) THEN <<>>
                 ELSE IF ContentChanged(p) THEN <<Line("=", 1, p)>>
                 ELSE <<Line("-", 1, p), Line("+", 2, p), ChangedLine(p)>>
  BY DEF Block, Expected
<1> QED
  BY <1>1, Compared

LEMMA BlockOfOne ==
  ASSUME NEW p
  PROVE  /\ p \in DOMAIN guest[1] /\ p \notin DOMAIN guest[2] => Block(p) = <<Line("-", 1, p)>>
         /\ p \in DOMAIN guest[2] /\ p \notin DOMAIN guest[1] => Block(p) = <<Line("+", 2, p)>>
BY DEF Block, Expected

(* What the program's own lines become when lines are added.               *)
LEMMA OwnLinesOf ==
  ASSUME TypeOK, NEW l \in LineType, NEW s \in Seq(LineType)
  PROVE  /\ l.sign \in {"-", "+", "=", "#"} => OwnLines(Append(s, l)) = Append(OwnLines(s), l)
         /\ l.sign \in {"diff", "@@"} => OwnLines(Append(s, l)) = OwnLines(s)
         /\ OwnLines(s) \in Seq(LineType)
<1>1. /\ OwnLines(s) \in Seq(LineType)
      /\ OwnLines(Append(s, l)) = OwnLines(s) \o OwnLine(l)
  BY OwnLinesAppend
<1>2. OwnLines(s) \o <<>> = OwnLines(s) /\ OwnLines(s) \o <<l>> = Append(OwnLines(s), l)
  BY <1>1, ConcatEmptySeq, AppendIsConcat
<1>3. /\ l.sign \in {"-", "+", "=", "#"} => OwnLine(l) = <<l>>
      /\ l.sign \in {"diff", "@@"} => OwnLine(l) = <<>>
  BY DEF OwnLine
<1> QED
  BY <1>1, <1>2, <1>3

LEMMA SoFar ==
  ASSUME IInv, ReportInv, Sorted, Comparing, failed = {}
  PROVE  \E c \in 0..MaxPath :
           /\ MergedUpto(c) /\ Report(c) \in Seq(LineType)
           /\ at = "merge" => OwnLines(All) = Report(c)
           /\ at = "diff" => OwnLines(All) = Append(Report(c), Line("=", 1, Path(1)))
<1>1. PICK c \in 0..MaxPath : MergedUpto(c)
  BY DEF ReportInv
<1>2. TypeOK /\ Report(c) \in Seq(LineType)
  BY ReportType DEF IInv
<1>3. at = "merge" => OwnLines(All) = Report(c)
  BY <1>1, <1>2, ConcatEmptySeq DEF MergedUpto
<1>4. at = "diff" => OwnLines(All) = Append(Report(c), Line("=", 1, Path(1)))
  <2> SUFFICES ASSUME at = "diff" PROVE OwnLines(All) = Append(Report(c), Line("=", 1, Path(1)))
    OBVIOUS
  <2>1. Path(1) \in Paths
    <3>1. next[1] <= Len(tree[1]) /\ next[1] \in Nat \ {0}
      BY DEF IInv, DiffInv, TypeOK
    <3>2. Len(tree[1]) \in Nat /\ \A k \in 1..Len(tree[1]) : tree[1][k] \in Paths
      BY <1>2, RestOf DEF IInv, TreeInv
    <3> QED
      BY <3>1, <3>2 DEF Path
  <2>2. PICK l \in LineType : l = Line("=", 1, Path(1))
    BY <2>1, LineTypes
  <2>3. OwnLines(All) = Report(c) \o <<l>>
    BY <1>1, <2>2 DEF MergedUpto
  <2> QED
    BY <1>2, <2>2, <2>3, AppendIsConcat
<1> QED
  BY <1>1, <1>2, <1>3, <1>4

LEMMA ComeTo ==
  ASSUME IInv, NEW n \in 1..2, Rest(n) # <<>>
  PROVE  Path(n) \in Paths /\ Path(n) \in DOMAIN guest[n] /\ next[n] \in 1..Len(tree[n])
<1>1. TypeOK /\ next[n] <= Len(tree[n]) + 1 /\ ToSet(tree[n]) \subseteq DOMAIN guest[n]
  BY DEF IInv, TreeInv
<1>2. Path(n) \in Paths /\ next[n] \in 1..Len(tree[n]) /\ DOMAIN tree[n] = 1..Len(tree[n])
  BY <1>1, RestOf
<1> QED
  BY <1>1, <1>2 DEF Path, ToSet

LEMMA DeletedReported ==
  ASSUME IInv, OrderInv, ReportInv, Deleted PROVE ReportInv'
<1>1. /\ Running /\ at = "merge" /\ failed = {} /\ Comparing /\ UNCHANGED <<Input, tree, at, failed>>
      /\ Rest(1) # <<>> /\ (Rest(2) # <<>> => Path(1) < Path(2))
      /\ next' = [next EXCEPT ![1] = @ + 1]
  BY DEF Deleted, Merging, Comparing
<1> SUFFICES ASSUME Sorted PROVE ReportInv'
  BY <1>1, ReportKept DEF ReportInv
<1>2. PICK c \in 0..MaxPath : /\ MergedUpto(c) /\ Report(c) \in Seq(LineType)
                              /\ OwnLines(All) = Report(c)
  BY <1>1, SoFar
<1>3. PICK p \in Paths : p = Path(1) /\ p \in DOMAIN guest[1]
  BY <1>1, ComeTo
<1>4. TypeOK /\ All \in Seq(LineType)
  BY AllTypes DEF IInv
<1>5. p > c /\ (Rest(2) # <<>> => Path(2) \in Paths /\ p < Path(2))
  BY <1>1, <1>2, <1>3, Ahead, ComeTo
<1>6. p \notin DOMAIN guest[2]
  <2>1. p \in DOMAIN guest[2] => Rest(2) # <<>> /\ p >= Path(2)
    BY <1>1, <1>2, <1>5, Ahead
  <2> QED
    BY <1>5, <2>1, MaxPathAssumption DEF Paths
<1>7. Block(p) = <<Line("-", 1, p)>>
  BY <1>3, <1>6, BlockOfOne
<1>8. PICK l \in LineType : l = Line("-", 1, p) /\ l.sign = "-"
  BY LineTypes, LineSigns
<1>9. All' = Append(All, l)
  BY <1>3, <1>8, DeletedStep
<1>10. OwnLines(All') = Report(c) \o Block(p)
  <2>1. OwnLines(All') = Append(Report(c), l)
    BY <1>2, <1>4, <1>8, <1>9, OwnLinesOf
  <2> QED
    BY <1>2, <1>7, <1>8, <2>1, AppendIsConcat
<1>11. \A n \in 1..2 : Rest(n) # <<>> => p <= Path(n)
  BY <1>3, <1>5, MaxPathAssumption DEF Paths
<1>12. \A n \in 1..2 : next'[n] = IF Rest(n) # <<>> /\ Path(n) = p THEN next[n] + 1 ELSE next[n]
  <2>1. next \in [1..2 -> Nat \ {0}] /\ (Rest(2) # <<>> => Path(2) # p)
    BY <1>4, <1>5, MaxPathAssumption DEF TypeOK, Paths
  <2>2. next'[1] = next[1] + 1 /\ next'[2] = next[2]
    BY <1>1, <2>1
  <2>3. \A n \in 1..2 : n = 1 \/ n = 2
    OBVIOUS
  <2> QED
    BY <1>1, <1>3, <2>1, <2>2, <2>3
<1>13. \E n \in 1..2 : Rest(n) # <<>> /\ Path(n) = p
  BY <1>1, <1>3
<1> QED
  BY <1>1, <1>2, <1>10, <1>11, <1>12, <1>13, MergePasses

LEMMA AddedReported ==
  ASSUME IInv, OrderInv, ReportInv, Added PROVE ReportInv'
<1>1. /\ Running /\ at = "merge" /\ failed = {} /\ Comparing /\ UNCHANGED <<Input, tree, at, failed>>
      /\ Rest(2) # <<>> /\ (Rest(1) # <<>> => Path(2) < Path(1))
      /\ next' = [next EXCEPT ![2] = @ + 1]
  BY DEF Added, Merging, Comparing
<1> SUFFICES ASSUME Sorted PROVE ReportInv'
  BY <1>1, ReportKept DEF ReportInv
<1>2. PICK c \in 0..MaxPath : /\ MergedUpto(c) /\ Report(c) \in Seq(LineType)
                              /\ OwnLines(All) = Report(c)
  BY <1>1, SoFar
<1>3. PICK p \in Paths : p = Path(2) /\ p \in DOMAIN guest[2]
  BY <1>1, ComeTo
<1>4. TypeOK /\ All \in Seq(LineType)
  BY AllTypes DEF IInv
<1>5. p > c /\ (Rest(1) # <<>> => Path(1) \in Paths /\ p < Path(1))
  BY <1>1, <1>2, <1>3, Ahead, ComeTo
<1>6. p \notin DOMAIN guest[1]
  <2>1. p \in DOMAIN guest[1] => Rest(1) # <<>> /\ p >= Path(1)
    BY <1>1, <1>2, <1>5, Ahead
  <2> QED
    BY <1>5, <2>1, MaxPathAssumption DEF Paths
<1>7. Block(p) = <<Line("+", 2, p)>>
  BY <1>3, <1>6, BlockOfOne
<1>8. PICK l \in LineType : l = Line("+", 2, p) /\ l.sign = "+"
  BY LineTypes, LineSigns
<1>9. All' = Append(All, l)
  BY <1>3, <1>8, AddedStep
<1>10. OwnLines(All') = Report(c) \o Block(p)
  <2>1. OwnLines(All') = Append(Report(c), l)
    BY <1>2, <1>4, <1>8, <1>9, OwnLinesOf
  <2> QED
    BY <1>2, <1>7, <1>8, <2>1, AppendIsConcat
<1>11. \A n \in 1..2 : Rest(n) # <<>> => p <= Path(n)
  BY <1>3, <1>5, MaxPathAssumption DEF Paths
<1>12. \A n \in 1..2 : next'[n] = IF Rest(n) # <<>> /\ Path(n) = p THEN next[n] + 1 ELSE next[n]
  <2>1. next \in [1..2 -> Nat \ {0}] /\ (Rest(1) # <<>> => Path(1) # p)
    BY <1>4, <1>5, MaxPathAssumption DEF TypeOK, Paths
  <2>2. next'[2] = next[2] + 1 /\ next'[1] = next[1]
    BY <1>1, <2>1
  <2>3. \A n \in 1..2 : n = 1 \/ n = 2
    OBVIOUS
  <2> QED
    BY <1>1, <1>3, <2>1, <2>2, <2>3
<1>13. \E n \in 1..2 : Rest(n) # <<>> /\ Path(n) = p
  BY <1>1, <1>3
<1> QED
  BY <1>1, <1>2, <1>10, <1>11, <1>12, <1>13, MergePasses

(* A path that both guests have is passed in both.                         *)
LEMMA BothReported ==
  ASSUME IInv, OrderInv, Sorted, Comparing, failed = {}, NEW c \in 0..MaxPath, MergedUpto(c),
         NEW p \in Paths, \A n \in 1..2 : Rest(n) # <<>> /\ Path(n) = p,
         UNCHANGED <<Input, tree>>, at' = "merge", next' = <<next[1] + 1, next[2] + 1>>,
         OwnLines(All') = Report(c) \o Block(p)
  PROVE  ReportInv'
<1>1. \A n \in 1..2 : next'[n] = IF Rest(n) # <<>> /\ Path(n) = p THEN next[n] + 1 ELSE next[n]
  <2>1. next'[1] = next[1] + 1 /\ next'[2] = next[2] + 1
    OBVIOUS
  <2>2. \A n \in 1..2 : n = 1 \/ n = 2
    OBVIOUS
  <2> QED
    BY <2>1, <2>2
<1>2. (\E n \in 1..2 : Rest(n) # <<>> /\ Path(n) = p) /\ p <= p
  BY MaxPathAssumption DEF Paths
<1> QED
  BY <1>1, <1>2, MergePasses

LEMMA BothSoFar ==
  ASSUME IInv, OrderInv, ReportInv, Sorted, Both
  PROVE  \E c \in 0..MaxPath, p \in Paths :
           /\ MergedUpto(c) /\ Report(c) \in Seq(LineType) /\ OwnLines(All) = Report(c)
           /\ p = Path(1) /\ p \in DOMAIN guest[1] /\ p \in DOMAIN guest[2]
           /\ \A n \in 1..2 : Rest(n) # <<>> /\ Path(n) = p
           /\ Comparing /\ failed = {} /\ TypeOK /\ All \in Seq(LineType)
<1>1. /\ TypeOK /\ at = "merge" /\ Comparing /\ failed = {}
      /\ Rest(1) # <<>> /\ Rest(2) # <<>> /\ Path(1) = Path(2)
      /\ Path(1) \in Paths /\ Path(1) \in DOMAIN guest[1] /\ Path(1) \in DOMAIN guest[2]
  BY BothOf DEF Comparing
<1>2. PICK c \in 0..MaxPath : /\ MergedUpto(c) /\ Report(c) \in Seq(LineType)
                              /\ OwnLines(All) = Report(c)
  BY <1>1, SoFar
<1>3. \A n \in 1..2 : Rest(n) # <<>> /\ Path(n) = Path(1)
  <2>1. \A n \in 1..2 : n = 1 \/ n = 2
    OBVIOUS
  <2> QED
    BY <1>1, <2>1
<1>4. All \in Seq(LineType)
  BY <1>1, AllTypes
<1> QED
  BY <1>1, <1>2, <1>3, <1>4

LEMMA SameReported ==
  ASSUME IInv, OrderInv, ReportInv, Same PROVE ReportInv'
<1>1. /\ Both /\ UNCHANGED <<Input, tree, at, failed>> /\ at = "merge"
      /\ next' = <<next[1] + 1, next[2] + 1>>
  BY DEF Same, Both, Merging
<1> SUFFICES ASSUME Sorted PROVE ReportInv'
  BY <1>1, ReportKept DEF ReportInv
<1>2. PICK c \in 0..MaxPath, p \in Paths :
           /\ MergedUpto(c) /\ Report(c) \in Seq(LineType) /\ OwnLines(All) = Report(c)
           /\ p = Path(1) /\ p \in DOMAIN guest[1] /\ p \in DOMAIN guest[2]
           /\ \A n \in 1..2 : Rest(n) # <<>> /\ Path(n) = p
           /\ Comparing /\ failed = {} /\ TypeOK /\ All \in Seq(LineType)
  BY <1>1, BothSoFar
<1>3. Block(p) = <<>>
  BY <1>2, SameStep, BlockOfBoth
<1>4. OwnLines(All') = Report(c) \o Block(p)
  BY <1>2, <1>3, SameStep, ConcatEmptySeq
<1> QED
  BY <1>1, <1>2, <1>4, BothReported

LEMMA OnlyStatsReported ==
  ASSUME IInv, OrderInv, ReportInv, OnlyStatsChanged PROVE ReportInv'
<1>1. /\ Both /\ UNCHANGED <<Input, tree, at, failed>> /\ at = "merge"
      /\ next' = <<next[1] + 1, next[2] + 1>>
      /\ StatsDiffer(Path(1)) /\ ~ContentChanged(Path(1))
  BY DEF OnlyStatsChanged, Both, Merging
<1> SUFFICES ASSUME Sorted PROVE ReportInv'
  BY <1>1, ReportKept DEF ReportInv
<1>2. PICK c \in 0..MaxPath, p \in Paths :
           /\ MergedUpto(c) /\ Report(c) \in Seq(LineType) /\ OwnLines(All) = Report(c)
           /\ p = Path(1) /\ p \in DOMAIN guest[1] /\ p \in DOMAIN guest[2]
           /\ \A n \in 1..2 : Rest(n) # <<>> /\ Path(n) = p
           /\ Comparing /\ failed = {} /\ TypeOK /\ All \in Seq(LineType)
  BY <1>1, BothSoFar
<1>3. PICK l \in LineType, m \in LineType, h \in LineType :
        /\ l = Line("-", 1, p) /\ m = Line("+", 2, p) /\ h = ChangedLine(p)
        /\ l.sign = "-" /\ m.sign = "+" /\ h.sign = "#"
  BY LineTypes, LineSigns
<1>4. Block(p) = <<l, m, h>>
  BY <1>1, <1>2, <1>3, BlockOfBoth
<1>5. All' = Append(Append(Append(All, l), m), h)
  BY <1>2, <1>3, OnlyStatsChangedStep
<1>6. OwnLines(All') = Append(Append(Append(OwnLines(All), l), m), h)
  <2>1. PICK s1 \in Seq(LineType), s2 \in Seq(LineType) :
          s1 = Append(All, l) /\ s2 = Append(s1, m)
    BY <1>2, <1>3, AppendProperties
  <2>2. OwnLines(s1) = Append(OwnLines(All), l)
    BY <1>2, <1>3, <2>1, OwnLinesOf
  <2>3. OwnLines(s2) = Append(OwnLines(s1), m)
    BY <1>2, <1>3, <2>1, OwnLinesOf
  <2>4. OwnLines(Append(s2, h)) = Append(OwnLines(s2), h)
    BY <1>2, <1>3, <2>1, OwnLinesOf
  <2> QED
    BY <1>5, <2>1, <2>2, <2>3, <2>4
<1>7. Append(Append(Append(Report(c), l), m), h) = Report(c) \o <<l, m, h>>
  <2>1. PICK s \in Seq(LineType) : s = Report(c)
    BY <1>2
  <2>2. Append(Append(Append(s, l), m), h) = s \o <<l, m, h>>
    OBVIOUS
  <2> QED
    BY <2>1, <2>2
<1>8. OwnLines(All') = Report(c) \o Block(p)
  BY <1>2, <1>4, <1>6, <1>7
<1> QED
  BY <1>1, <1>2, <1>8, BothReported

(* In text mode the line of the file is written, and the path is passed    *)
(* only when diff has run.                                                 *)
LEMMA FileChangedReported ==
  ASSUME IInv, OrderInv, ReportInv, FileChanged PROVE ReportInv'
<1>1. /\ Both /\ UNCHANGED <<Input, tree, failed>> /\ at = "merge" /\ ContentChanged(Path(1))
  BY DEF FileChanged, Both, Merging
<1> SUFFICES ASSUME Sorted PROVE ReportInv'
  BY <1>1, ReportKept DEF ReportInv
<1>2. PICK c \in 0..MaxPath, p \in Paths :
           /\ MergedUpto(c) /\ Report(c) \in Seq(LineType) /\ OwnLines(All) = Report(c)
           /\ p = Path(1) /\ p \in DOMAIN guest[1] /\ p \in DOMAIN guest[2]
           /\ \A n \in 1..2 : Rest(n) # <<>> /\ Path(n) = p
           /\ Comparing /\ failed = {} /\ TypeOK /\ All \in Seq(LineType)
  BY <1>1, BothSoFar
<1>3. PICK l \in LineType : l = Line("=", 1, p) /\ l.sign = "="
  BY LineTypes, LineSigns
<1>4. Block(p) = <<l>>
  BY <1>1, <1>2, <1>3, BlockOfBoth
<1>5. CASE All' = All /\ UNCHANGED <<at, next>>
  BY <1>1, <1>5, MergeStays
<1>6. ASSUME All' = Append(All, Line("=", 1, Path(1)))
      PROVE  OwnLines(All') = Report(c) \o <<l>>
  <2>1. OwnLines(Append(All, l)) = Append(OwnLines(All), l)
    BY <1>2, <1>3, OwnLinesOf
  <2>2. Append(Report(c), l) = Report(c) \o <<l>>
    BY <1>2, AppendIsConcat
  <2> QED
    BY <1>2, <1>3, <1>6, <2>1, <2>2
<1>7. CASE /\ All' = Append(All, Line("=", 1, Path(1)))
           /\ UNCHANGED at /\ next' = <<next[1] + 1, next[2] + 1>>
  BY <1>1, <1>2, <1>4, <1>6, <1>7, BothReported
<1>8. CASE All' = Append(All, Line("=", 1, Path(1))) /\ at' = "diff" /\ UNCHANGED next
  <2>1. Path(1)' = p
    BY <1>1, <1>2, <1>8 DEF Path
  <2>2. Line("=", 1, Path(1))' = l
    BY <1>1, <1>3, <2>1, SameInput
  <2>3. Report(c)' = Report(c)
    BY <1>1, ReportKept
  <2>4. MergedUpto(c)'
    BY <1>1, <1>2, <1>6, <1>8, <2>2, <2>3 DEF MergedUpto
  <2> QED
    BY <2>4 DEF ReportInv
<1> QED
  BY <1>5, <1>7, <1>8, FileChangedStep

LEMMA RunDiffReported ==
  ASSUME IInv, OrderInv, ReportInv, RunDiff PROVE ReportInv'
<1>1. /\ UNCHANGED <<Input, tree, failed>> /\ at = "diff" /\ Comparing
      /\ at' = "merge" /\ next' = <<next[1] + 1, next[2] + 1>>
  BY DEF RunDiff, Comparing
<1>2. /\ TypeOK /\ failed = {}
      /\ \A n \in 1..2 : next[n] <= Len(tree[n])
      /\ Path(1) = Path(2) /\ ContentChanged(Path(1))
  BY <1>1 DEF IInv, DiffInv
<1> SUFFICES ASSUME Sorted PROVE ReportInv'
  BY <1>1, ReportKept DEF ReportInv
<1>3. PICK c \in 0..MaxPath : /\ MergedUpto(c) /\ Report(c) \in Seq(LineType)
                              /\ OwnLines(All) = Append(Report(c), Line("=", 1, Path(1)))
  BY <1>1, <1>2, SoFar
<1>4. \A n \in 1..2 : Rest(n) # <<>>
  <2> SUFFICES ASSUME NEW n \in 1..2, Rest(n) = <<>> PROVE FALSE
    OBVIOUS
  <2>1. next[n] = Len(tree[n]) + 1 /\ Len(tree[n]) \in Nat
    BY <1>2, RestOf DEF IInv, TreeInv
  <2> QED
    BY <1>2, <2>1
<1>5. PICK p \in Paths : p = Path(1) /\ p \in DOMAIN guest[1] /\ p \in DOMAIN guest[2]
  <2>1. Path(1) \in Paths /\ Path(1) \in DOMAIN guest[1]
    BY <1>4, ComeTo
  <2>2. Path(2) \in DOMAIN guest[2]
    BY <1>4, ComeTo
  <2> QED
    BY <1>2, <2>1, <2>2
<1>6. \A n \in 1..2 : Rest(n) # <<>> /\ Path(n) = p
  <2>1. \A n \in 1..2 : n = 1 \/ n = 2
    OBVIOUS
  <2> QED
    BY <1>2, <1>4, <1>5, <2>1
<1>7. PICK l \in LineType, d \in LineType, e \in LineType :
        /\ l = Line("=", 1, p) /\ d = DiffOf(p) /\ e = EndOfDiff(p)
        /\ d.sign = "diff" /\ e.sign = "@@"
  BY LineTypes, LineSigns
<1>8. OwnLines(All') = OwnLines(All)
  <2>1. All \in Seq(LineType)
    BY <1>2, AllTypes
  <2>2. PICK s \in Seq(LineType) : s = Append(All, d)
    BY <2>1, AppendProperties
  <2>3. OwnLines(s) = OwnLines(All)
    BY <1>2, <1>7, <2>1, <2>2, OwnLinesOf
  <2>4. OwnLines(Append(s, e)) = OwnLines(s)
    BY <1>2, <1>7, <2>2, OwnLinesOf
  <2>5. All' = All \/ All' = s \/ All' = Append(s, e)
    BY <1>5, <1>7, <2>2, RunDiffStep
  <2> QED
    BY <2>3, <2>4, <2>5
<1>9. OwnLines(All') = Report(c) \o Block(p)
  <2>1. Block(p) = <<l>>
    BY <1>2, <1>5, <1>7, BlockOfBoth
  <2> QED
    BY <1>3, <1>5, <1>7, <1>8, <2>1, AppendIsConcat
<1> QED
  BY <1>1, <1>2, <1>3, <1>6, <1>9, BothReported

LEMMA VisitReported ==
  ASSUME IInv, NEW n \in 1..2, EndVisit(n) PROVE ReportInv'
<1>1. /\ IInv' /\ UNCHANGED <<Input, tree, failed>> /\ next' = <<1, 1>> /\ All' = <<>>
      /\ at' \in {"open2", "merge"} /\ TypeOK'
  <2>1. TypeOK /\ at = <<"visit1", "visit2">>[n] /\ Running /\ at' = Then(n) /\ UNCHANGED Input
    BY NowhereElse DEF IInv, EndVisit
  <2> QED
    BY <2>1, AfterVisit, EndVisitStep DEF IInv
<1>2. \A m \in 1..2 : next'[m] = 1
  <2>1. \A m \in 1..2 : m = 1 \/ m = 2
    OBVIOUS
  <2> QED
    BY <1>1, <2>1
<1>3. ASSUME NEW m \in 1..2, NEW k \in 1..Len(tree'[m]) PROVE tree'[m][k] > 0
  <2>1. TypeOK /\ next[m] <= Len(tree[m]) + 1
    BY DEF IInv, TreeInv
  <2>2. tree[m][k] \in Paths
    BY <1>1, <1>3, <2>1, RestOf
  <2> QED
    BY <1>1, <2>2, MaxPathAssumption DEF Paths
<1>4. OwnLines(All') = Report(0)' \o <<>>
  <2>1. Report(0)' = Report(0)
    BY <1>1, ReportKept
  <2> QED
    BY <1>1, <2>1, NoOwnLines, ReportNothing
<1>5. \A m \in 1..2 : /\ \A k \in 1..(next'[m] - 1) : tree'[m][k] <= 0
                      /\ \A k \in next'[m]..Len(tree'[m]) : tree'[m][k] > 0
  BY <1>2, <1>3
<1>6. at' # "diff"
  BY <1>1
<1>7. MergedUpto(0)'
  BY <1>4, <1>5, <1>6 DEF MergedUpto
<1> QED
  BY <1>7, MaxPathAssumption DEF ReportInv

LEMMA ReportStep ==
  ASSUME IInv, OrderInv, ReportInv, [Next]_vars PROVE ReportInv'
<1>1. CASE UNCHANGED vars
  BY <1>1, MergeStays DEF vars, Input, All
<1>2. CASE NoTmpdir \/ BufferFull \/ DiskFull
  BY <1>2, SurroundingsStep, MergeStays DEF NoTmpdir, BufferFull, DiskFull
<1>3. CASE Finish
  BY <1>3, FinishStep, MergeStays DEF Finish
<1>4. ASSUME NEW n \in 1..2, CheckOptions \/ OpenGuest(n) PROVE ReportInv'
  BY <1>4, OpeningStep DEF ReportInv
<1>5. ASSUME NEW n \in 1..2, VisitEntry(n) PROVE ReportInv'
  BY <1>5, VisitEntryStep DEF ReportInv
<1>6. ASSUME NEW n \in 1..2, VisitFails(n) PROVE ReportInv'
  BY <1>6, VisitFailsStep DEF ReportInv
<1>7. 1 \in 1..2
  OBVIOUS
<1> QED
  BY <1>1, <1>2, <1>3, <1>4, <1>5, <1>6, <1>7, DeletedReported, AddedReported, SameReported,
     OnlyStatsReported, FileChangedReported, RunDiffReported, VisitReported DEF Next

(* With sorted walks, the program's own lines are at every moment the      *)
(* report on the files up to some path, in the order of the paths.         *)
THEOREM ReportGrowsInOrder == Spec => [](OrderInv /\ ReportInv)
<1>1. Init => OrderInv /\ ReportInv
  <2> SUFFICES ASSUME Init PROVE OrderInv /\ ReportInv
    OBVIOUS
  <2>1. tree = <<<<>>, <<>>>> /\ at = "options"
    BY DEF Init
  <2>2. \A n \in 1..2 : tree[n] = <<>> /\ Len(tree[n]) = 0
    <3>1. \A n \in 1..2 : n = 1 \/ n = 2
      OBVIOUS
    <3> QED
      BY <2>1, <3>1, EmptySeq
  <2>3. OrderInv
    BY <2>2 DEF OrderInv
  <2> QED
    BY <2>1, <2>3 DEF ReportInv, Comparing
<1>2. IInv /\ OrderInv /\ ReportInv /\ [Next]_vars => (OrderInv /\ ReportInv)'
  BY OrderStep, ReportStep
<1> QED
  BY <1>1, <1>2, Invariance, PTL DEF Spec

(* A successful run over sorted walks has printed exactly the difference   *)
(* of the two guests, in the order of the paths (diff.c 616-653): no file  *)
(* twice, none as deleted and added, none left out, nothing else.          *)
THEOREM SortedRunsReportTheDifference == Spec => []ReportIsTheDifference
<1>1. IInv /\ OrderInv /\ ReportInv => ReportIsTheDifference
  <2> SUFFICES ASSUME IInv, OrderInv, ReportInv, exit = 0, walk = [p \in Paths |-> p]
               PROVE  Lines = FlattenSeq([p \in Paths |->
                        IF p \in DOMAIN guest[1] \cup DOMAIN guest[2] THEN Expected(p) ELSE <<>>])
    BY DEF ReportIsTheDifference
  <2>1. /\ TypeOK /\ at = "merge" /\ failed = {} /\ Comparing /\ buffer = <<>>
        /\ \A n \in 1..2 : next[n] = Len(tree[n]) + 1
    BY DEF IInv, EndInv, Comparing
  <2>2. Sorted
    BY DEF Sorted, Paths
  <2>3. PICK c \in 0..MaxPath : MergedUpto(c) /\ OwnLines(All) = Report(c)
    BY <2>1, <2>2, SoFar
  <2>4. ASSUME NEW q \in (c + 1)..MaxPath, NEW n \in 1..2, q \in DOMAIN guest[n]
        PROVE  FALSE
    <3>1. q > c
      BY MaxPathAssumption
    <3>2. Rest(n) # <<>>
      BY <2>1, <2>2, <2>3, <2>4, <3>1, Ahead
    <3>3. next[n] \in 1..Len(tree[n]) /\ Len(tree[n]) \in Nat
      BY <2>1, <3>2, ComeTo, RestOf
    <3> QED
      BY <2>1, <3>3
  <2>5. Report(MaxPath) = Report(c)
    <3>1. MaxPath \in c..MaxPath
      BY MaxPathAssumption
    <3>2. \A q \in (c + 1)..MaxPath : q \notin DOMAIN guest[1] \cup DOMAIN guest[2]
      BY <2>4
    <3> QED
      BY <2>1, <3>1, <3>2, ReportSame
  <2>6. All = stdout
    BY <2>1, AllTypes
  <2> QED
    BY <2>3, <2>5, <2>6 DEF Lines, Report, Block, Paths
<1> QED
  BY <1>1, Invariance, ReportGrowsInOrder, PTL
=============================================================================
