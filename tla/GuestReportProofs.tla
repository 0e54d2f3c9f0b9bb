-------------------------- MODULE GuestReportProofs --------------------------
(***************************************************************************)
(* Proofs about the tools that look into guests and report: GuestScan, for *)
(* virt-df and virt-alignment-scan, and FilesystemsReport, for             *)
(* virt-filesystems.                                                       *)
(***************************************************************************)
EXTENDS GuestScan, FilesystemsReport, FlattenTheorems

-----------------------------------------------------------------------------
(***************************************************************************)
(* GuestScan: the invariant, the exit status, and what a successful run    *)
(* has printed, for any guests and any number of threads.                  *)
(***************************************************************************)

(* A recursive function on the natural numbers.                            *)

(* The loop of scan that counts the zero bits ends: up to any offset there *)
(* is a function that agrees with it, and they agree with each other.      *)
Zeroes(n) ==
  {g \in [1..n -> Nat] :
     \A s \in 1..n : g[s] = IF s % 2 = 1 THEN 0 ELSE 1 + g[s \div 2]}

LEMMA Halved ==
  ASSUME NEW s \in Nat \ {0}, s % 2 # 1
  PROVE  s \div 2 \in Nat \ {0} /\ s \div 2 \in 1..(s - 1)
OBVIOUS

LEMMA ZeroesExist == \A n \in Nat : Zeroes(n) # {}
<1> DEFINE S == {n \in Nat : Zeroes(n) # {}}
<1>1. ASSUME NEW n \in Nat, \A m \in 0..(n - 1) : m \in S PROVE n \in S
  <2>1. CASE n = 0
    <3>1. [s \in 1..0 |-> 0] \in Zeroes(0)
      BY DEF Zeroes
    <3> QED
      BY <2>1, <3>1
  <2>2. CASE n # 0
    <3>1. n - 1 \in S
      BY <1>1, <2>2
    <3>2. PICK g : g \in Zeroes(n - 1)
      BY <3>1
    <3> DEFINE last == IF n % 2 = 1 THEN 0 ELSE 1 + g[n \div 2]
    <3> DEFINE h == [s \in 1..n |-> IF s = n THEN last ELSE g[s]]
    <3>3. /\ g \in [1..(n - 1) -> Nat]
          /\ \A s \in 1..(n - 1) : g[s] = IF s % 2 = 1 THEN 0 ELSE 1 + g[s \div 2]
      BY <3>2 DEF Zeroes
    <3>4. last \in Nat
      BY <2>2, <3>3, Halved
    <3>5. h \in [1..n -> Nat]
      BY <2>2, <3>3, <3>4
    <3>6. ASSUME NEW s \in 1..n, s % 2 # 1 PROVE h[s \div 2] = g[s \div 2]
      <4>1. s \div 2 \in 1..n /\ s \div 2 # n
        BY <3>6, Halved
      <4> QED
        BY <4>1
    <3>7. ASSUME NEW s \in 1..n PROVE h[s] = IF s % 2 = 1 THEN 0 ELSE 1 + h[s \div 2]
      <4>1. CASE s = n
        <5>1. h[s] = last
          BY <4>1
        <5> HIDE DEF h
        <5> QED
          BY <3>6, <4>1, <5>1
      <4>2. CASE s # n
        <5>1. h[s] = g[s] /\ s \in 1..(n - 1)
          BY <4>2
        <5> HIDE DEF h
        <5> QED
          BY <3>3, <3>6, <5>1
      <4> QED
        BY <4>1, <4>2
    <3>8. h \in Zeroes(n)
      <4> HIDE DEF h
      <4> QED
        BY <3>5, <3>7 DEF Zeroes
    <3> QED
      BY <3>8
  <2> QED
    BY <2>1, <2>2
<1> HIDE DEF S
<1>2. Nat \subseteq S
  BY <1>1, CompleteInduction
<1> QED
  BY <1>2 DEF S

LEMMA ZeroesAgree ==
  ASSUME NEW n \in Nat, NEW m \in Nat, NEW g \in Zeroes(n), NEW h \in Zeroes(m)
  PROVE  \A s \in Nat : s \in 1..n /\ s \in 1..m => g[s] = h[s]
<1> DEFINE S == {s \in Nat : s \in 1..n /\ s \in 1..m => g[s] = h[s]}
<1>1. ASSUME NEW s \in Nat, \A r \in 0..(s - 1) : r \in S PROVE s \in S
  <2> SUFFICES ASSUME s \in 1..n, s \in 1..m PROVE g[s] = h[s]
    OBVIOUS
  <2>1. /\ g[s] = IF s % 2 = 1 THEN 0 ELSE 1 + g[s \div 2]
        /\ h[s] = IF s % 2 = 1 THEN 0 ELSE 1 + h[s \div 2]
    BY DEF Zeroes
  <2>2. CASE s % 2 = 1
    BY <2>1, <2>2
  <2>3. CASE s % 2 # 1
    <3>1. s \div 2 \in Nat /\ s \div 2 \in 0..(s - 1) /\ s \div 2 \in 1..n /\ s \div 2 \in 1..m
      BY <2>3, Halved
    <3>2. g[s \div 2] = h[s \div 2]
      BY <1>1, <3>1
    <3> QED
      BY <2>1, <3>2
  <2> QED
    BY <2>2, <2>3
<1> HIDE DEF S
<1>2. Nat \subseteq S
  BY <1>1, CompleteInduction
<1> QED
  BY <1>2 DEF S

LEMMA TrailingZeroesDef ==
  TrailingZeroes = [s \in Nat \ {0} |-> IF s % 2 = 1 THEN 0
                                        ELSE 1 + TrailingZeroes[s \div 2]]
<1> DEFINE pick(s) == CHOOSE g : g \in Zeroes(s)
<1> DEFINE f == [s \in Nat \ {0} |-> pick(s)[s]]
<1>1. \A s \in Nat : pick(s) \in Zeroes(s)
  BY ZeroesExist
<1>2. ASSUME NEW s \in Nat \ {0} PROVE f[s] = IF s % 2 = 1 THEN 0 ELSE 1 + f[s \div 2]
  <2>1. pick(s)[s] = IF s % 2 = 1 THEN 0 ELSE 1 + pick(s)[s \div 2]
    <3>1. pick(s) \in Zeroes(s) /\ s \in 1..s
      BY <1>1
    <3> HIDE DEF pick
    <3> QED
      BY <3>1 DEF Zeroes
  <2>2. ASSUME s % 2 # 1 PROVE pick(s)[s \div 2] = pick(s \div 2)[s \div 2]
    <3>1. PICK r \in Nat \ {0} : r = s \div 2 /\ r \in 1..(s - 1)
      BY <2>2, Halved
    <3>2. pick(s) \in Zeroes(s) /\ pick(r) \in Zeroes(r)
      BY <1>1
    <3> HIDE DEF pick
    <3>3. r \in 1..r /\ r \in 1..s
      BY <3>1
    <3> QED
      BY <3>1, <3>2, <3>3, ZeroesAgree
  <2>3. f[s] = pick(s)[s] /\ (s % 2 # 1 => f[s \div 2] = pick(s \div 2)[s \div 2])
    <3> HIDE DEF pick
    <3> QED
      BY Halved
  <2> HIDE DEF f, pick
  <2> QED
    BY <2>1, <2>2, <2>3
<1>3. f = [s \in Nat \ {0} |-> IF s % 2 = 1 THEN 0 ELSE 1 + f[s \div 2]]
  <2>1. f = [s \in Nat \ {0} |-> f[s]]
    OBVIOUS
  <2> HIDE DEF f
  <2> QED
    BY <1>2, <2>1
<1> HIDE DEF f
<1> QED
  BY <1>3, Zenon DEF TrailingZeroes

LEMMA AlignmentType == ASSUME NEW start \in Nat PROVE AlignmentOf(start) \in Nat
<1> DEFINE S == {s \in Nat : s # 0 => TrailingZeroes[s] \in Nat}
<1>1. ASSUME NEW s \in Nat, \A r \in 0..(s - 1) : r \in S PROVE s \in S
  <2> SUFFICES ASSUME s # 0 PROVE TrailingZeroes[s] \in Nat
    OBVIOUS
  <2>1. TrailingZeroes[s] = IF s % 2 = 1 THEN 0 ELSE 1 + TrailingZeroes[s \div 2]
    BY TrailingZeroesDef, Zenon
  <2>2. ASSUME s % 2 # 1 PROVE TrailingZeroes[s \div 2] \in Nat
    <3>1. s \div 2 \in 0..(s - 1) /\ s \div 2 # 0
      BY <2>2, Halved
    <3> QED
      BY <1>1, <3>1
  <2> QED
    BY <2>1, <2>2
<1> HIDE DEF S
<1>2. Nat \subseteq S
  BY <1>1, CompleteInduction
<1> QED
  BY <1>2 DEF S, AlignmentOf

-----------------------------------------------------------------------------
(* The inductive invariant.                                                *)

Critical == {"compare", "assign", "unlock"}
Reading == {"device", "partition", "lock"} \cup Critical
Starting == {"launch", "list"}
Places == {"waiting", "add", "filesystem", "returned", "done"} \cup Starting \cup Reading
Call == [at : Places, todo : Seq(Device) \cup Seq(Filesystem), parts : Seq(Nat),
         alignment : Int, smaller : BOOLEAN, result : {0, -1}]
Rows == {ScanRow(d, start) : d \in Domains, start \in Nat}
          \cup {StatRow(d, fs) : d \in Domains, fs \in Filesystem}

TypeOK ==
  /\ \E s \in Setups : opt = s.opt /\ guest = s.guest
  /\ worst \in Nat
  /\ mutex \in DOMAIN guest \cup {Nobody}
  /\ work \in [DOMAIN guest -> Call]
  /\ stream \in [DOMAIN guest -> Seq(Rows)]
  /\ stdout = {d \in DOMAIN guest : work[d].at = "done"}
  /\ exit \in {-1, 0, 1, 2, 3}

(* One thread at a time compares and assigns.                              *)
MutexInv == \A d \in DOMAIN guest : work[d].at \in Critical <=> mutex = d

(* The local variables of a call fit the place that it is at.              *)
CallOK(d) ==
  /\ work[d].at \in Reading =>
       opt.program = "scan" /\ work[d].todo \in Seq(Device)
  /\ work[d].at = "filesystem" =>
       opt.program = "df" /\ work[d].todo \in Seq(Filesystem)
  /\ work[d].at \in Starting \cup Reading \cup {"filesystem"} => guest[d].addable
  /\ work[d].at \in {"device", "waiting", "add"} \cup Starting => work[d].parts = <<>>
  /\ work[d].at \in {"lock"} \cup Critical =>
       /\ work[d].parts # <<>>
       /\ work[d].alignment = AlignmentOf(Head(work[d].parts))
  /\ work[d].at = "assign" => (work[d].smaller <=> work[d].alignment < worst)
CallInv == \A d \in DOMAIN guest : CallOK(d)

(* The partitions that a call has still to compare with the worst; that of *)
(* which it has not yet let go of the lock is none of them.                *)
Ahead(d) ==
  CASE work[d].at \in {"waiting", "add"} \cup Starting -> Starts(guest[d].devices)
    [] work[d].at \in Reading \ {"unlock"} ->
         ToSet(work[d].parts) \cup Starts(work[d].todo)
    [] work[d].at = "unlock" -> ToSet(Tail(work[d].parts)) \cup Starts(work[d].todo)
    [] OTHER -> IF work[d].result = -1 THEN Starts(guest[d].devices) ELSE {}

(* No partition that has been compared is worse than the worst.            *)
Covered(d) ==
  /\ work[d].at \in Reading =>
       ToSet(work[d].parts) \cup Starts(work[d].todo) \subseteq Starts(guest[d].devices)
  /\ \A start \in Starts(guest[d].devices) \ Ahead(d) : worst <= AlignmentOf(start)
WorstInv ==
  opt.program = "scan" => /\ worst \in Alignments \cup {UintMax}
                          /\ \A d \in DOMAIN guest : Covered(d)

(* What has been printed and what is still to print are the full report.   *)
PartRows(d, starts) == IF opt.quiet THEN <<>> ELSE ScanRows(d, starts)
Printed(d) ==
  /\ work[d].at \in {"waiting", "add"} \cup Starting => stream[d] = <<>>
  /\ work[d].at \in Reading =>
       (stream[d] \o PartRows(d, work[d].parts)) \o ScanReport(d, work[d].todo)
         = FullReport(d)
  /\ work[d].at = "filesystem" =>
       stream[d] \o StatReport(d, work[d].todo) = FullReport(d)
  /\ work[d].at \in {"returned", "done"} /\ work[d].result = 0 =>
       stream[d] = FullReport(d)
PrintedInv == \A d \in DOMAIN guest : Printed(d)

(* The program only succeeds after all calls have.                         *)
ExitInv ==
  exit \in {0, 2, 3} =>
    /\ \A d \in DOMAIN guest : work[d].at = "done" /\ work[d].result = 0
    /\ opt.program = "scan" => exit = ScanStatus(worst)

IInv == TypeOK /\ MutexInv /\ CallInv /\ WorstInv /\ PrintedInv /\ ExitInv

-----------------------------------------------------------------------------
(* What the guests contain.                                                *)

LEMMA GuestType ==
  ASSUME TypeOK, NEW d \in DOMAIN guest
  PROVE  /\ guest[d].devices \in Seq(Device) /\ guest[d].fses \in Seq(Filesystem)
         /\ guest[d].addable \in BOOLEAN
         /\ d \in Domains /\ d # Nobody
         /\ opt.program \in {"scan", "df"}
<1>1. PICK s \in Setups : opt = s.opt /\ guest = s.guest
  BY DEF TypeOK
<1>2. opt \in Options /\ DOMAIN guest \subseteq Domains /\ guest \in [DOMAIN guest -> Guest]
  BY <1>1, SetupsAssumption
<1>3. guest[d] \in Guest
  BY <1>2
<1>4. opt.program \in {"scan", "df"}
  BY <1>2 DEF Options
<1> QED
  BY <1>2, <1>3, <1>4, ThreadsAssumption DEF Guest

LEMMA ToSetCons ==
  ASSUME NEW R, NEW s \in Seq(R), s # <<>>
  PROVE  /\ Head(s) \in R /\ Tail(s) \in Seq(R)
         /\ ToSet(s) = {Head(s)} \cup ToSet(Tail(s))
<1>1. /\ Len(s) \in Nat \ {0} /\ DOMAIN s = 1..Len(s)
      /\ Head(s) \in R /\ Head(s) = s[1]
      /\ Tail(s) \in Seq(R) /\ Len(Tail(s)) = Len(s) - 1
      /\ \A i \in 1..Len(Tail(s)) : Tail(s)[i] = s[i + 1]
  BY EmptySeq, LenProperties, HeadTailProperties
<1>2. DOMAIN Tail(s) = 1..Len(Tail(s))
  BY <1>1, LenProperties
<1>3. \A i \in 1..Len(s) : i = 1 \/ (i - 1 \in 1..Len(Tail(s)) /\ s[i] = Tail(s)[i - 1])
  BY <1>1
<1>4. \A i \in 1..Len(Tail(s)) : i + 1 \in 1..Len(s) /\ s[i + 1] = Tail(s)[i]
  BY <1>1
<1>5. 1 \in 1..Len(s)
  BY <1>1
<1> HIDE <1>1
<1>6. ToSet(s) = {s[1]} \cup ToSet(Tail(s))
  <2>1. ASSUME NEW x \in ToSet(s) PROVE x \in {s[1]} \cup ToSet(Tail(s))
    <3>1. PICK i \in 1..Len(s) : x = s[i]
      BY <1>1 DEF ToSet
    <3>2. CASE i = 1
      BY <3>1, <3>2
    <3>3. CASE i # 1
      <4>1. i - 1 \in DOMAIN Tail(s) /\ x = Tail(s)[i - 1]
        BY <1>2, <1>3, <3>1, <3>3
      <4> QED
        BY <4>1 DEF ToSet
    <3> QED
      BY <3>2, <3>3
  <2>2. ASSUME NEW x \in {s[1]} \cup ToSet(Tail(s)) PROVE x \in ToSet(s)
    BY <1>1, <1>2, <1>4, <1>5 DEF ToSet
  <2> QED
    BY <2>1, <2>2
<1> QED
  BY <1>1, <1>6

LEMMA ToSetType == ASSUME NEW R, NEW s \in Seq(R) PROVE ToSet(s) \subseteq R
BY LenProperties DEF ToSet

LEMMA NothingStarts == Starts(<<>>) = {} /\ ToSet(<<>>) = {}
BY DEF Starts, ToSet

(* Where the first disk starts partitions, and where the others do.        *)
LEMMA StartsCons ==
  ASSUME NEW devices \in Seq(Device), devices # <<>>
  PROVE  /\ Head(devices) \in Device /\ Tail(devices) \in Seq(Device)
         /\ Starts(devices) = (IF Head(devices).label THEN ToSet(Head(devices).starts)
                                                      ELSE {}) \cup Starts(Tail(devices))
<1>1. /\ Len(devices) \in Nat \ {0} /\ DOMAIN devices = 1..Len(devices)
      /\ Head(devices) \in Device /\ Head(devices) = devices[1]
      /\ Tail(devices) \in Seq(Device) /\ Len(Tail(devices)) = Len(devices) - 1
      /\ \A i \in 1..Len(Tail(devices)) : Tail(devices)[i] = devices[i + 1]
  BY EmptySeq, LenProperties, HeadTailProperties
<1>2. DOMAIN Tail(devices) = 1..Len(Tail(devices))
  BY <1>1, LenProperties
<1>3. \A i \in 1..Len(devices) :
        i = 1 \/ (i - 1 \in 1..Len(Tail(devices)) /\ devices[i] = Tail(devices)[i - 1])
  BY <1>1
<1>4. \A i \in 1..Len(Tail(devices)) :
        i + 1 \in 1..Len(devices) /\ devices[i + 1] = Tail(devices)[i]
  BY <1>1
<1>5. 1 \in 1..Len(devices)
  BY <1>1
<1>6. ASSUME NEW x
      PROVE  x \in Starts(devices) <=> \/ devices[1].label /\ x \in ToSet(devices[1].starts)
                                       \/ x \in Starts(Tail(devices))
  <2>1. x \in Starts(devices) <=>
          \E i \in 1..Len(devices) : devices[i].label /\ x \in ToSet(devices[i].starts)
    BY <1>1 DEF Starts
  <2>2. x \in Starts(Tail(devices)) <=>
          \E i \in 1..Len(Tail(devices)) :
            Tail(devices)[i].label /\ x \in ToSet(Tail(devices)[i].starts)
    BY <1>2 DEF Starts
  <2>3. ASSUME NEW i \in 1..Len(devices), devices[i].label, x \in ToSet(devices[i].starts)
        PROVE  \/ devices[1].label /\ x \in ToSet(devices[1].starts)
               \/ x \in Starts(Tail(devices))
    BY <1>3, <2>2, <2>3
  <2>4. ASSUME NEW i \in 1..Len(Tail(devices)),
               Tail(devices)[i].label, x \in ToSet(Tail(devices)[i].starts)
        PROVE  x \in Starts(devices)
    BY <1>4, <2>1, <2>4
  <2> QED
    BY <1>5, <2>1, <2>2, <2>3, <2>4
<1> QED
  BY <1>1, <1>6

LEMMA StartsType ==
  ASSUME NEW devices \in Seq(Device) PROVE Starts(devices) \subseteq Nat
<1> SUFFICES ASSUME NEW i \in DOMAIN devices PROVE ToSet(devices[i].starts) \subseteq Nat
  BY DEF Starts
<1>1. devices[i] \in Device
  BY LenProperties, ElementOfSeq
<1>2. devices[i].starts \in Seq(Nat)
  BY <1>1 DEF Device
<1> QED
  BY <1>2, ToSetType

-----------------------------------------------------------------------------
(* What is printed.                                                        *)

(* statvfs counts in blocks, of a size that is a power of two: scaling the *)
(* number of blocks is dividing the number of bytes.                       *)
LEMMA ScaleUp ==
  ASSUME NEW n \in Int, NEW q \in Nat PROVE (n * (1024 * q)) \div 1024 = n * q
<1>1. n * (1024 * q) = 1024 * (n * q) /\ n * q \in Int
  BY Z3
<1>2. \A m \in Int : (1024 * m) \div 1024 = m
  OBVIOUS
<1> QED
  BY <1>1, <1>2

LEMMA ScaleIsKilobytes ==
  ASSUME NEW n \in Int, NEW b \in BlockSizes
  PROVE  Scale(n, b, 1024) = (n * b) \div 1024
<1>1. b \in Nat \ {0} /\ (b % 1024 = 0 \/ 1024 % b = 0)
  BY DEF BlockSizes
<1>2. CASE b >= 1024
  <2>1. b % 1024 = 0
    <3>1. b > 1024 => 1024 % b = 1024
      BY <1>1
    <3>2. b = 1024 => b % 1024 = 0
      OBVIOUS
    <3> QED
      BY <1>1, <1>2, <3>1, <3>2
  <2>2. PICK q \in Nat : b = 1024 * q /\ q = b \div 1024
    BY <1>1, <2>1
  <2> QED
    BY <1>2, <2>2, ScaleUp DEF Scale
<1>3. CASE ~(b >= 1024)
  <2>1. 1024 % b = 0
    <3>1. b % 1024 = b
      BY <1>1, <1>3
    <3> QED
      BY <1>1, <3>1
  <2>2. PICK q \in Nat : q = 1024 \div b /\ 1024 = b * q + (1024 % b)
    BY <1>1
  <2>3. b * q = 1024
    <3>1. b * q \in Int
      BY <1>1
    <3> QED
      BY <2>1, <2>2, <3>1
  <2>4. q # 0
    <3>1. b * 0 = 0
      BY <1>1
    <3> QED
      BY <2>3, <3>1
  <2>5. (n * b) \div 1024 = n \div q
    <3>1. PICK m \in Int, r \in 0..(q - 1) : n = q * m + r /\ m = n \div q
      BY <2>4
    <3>2. n * b = 1024 * m + r * b
      <4>1. (q * m + r) * b = (b * q) * m + r * b
        BY <1>1, Z3
      <4> QED
        BY <2>3, <3>1, <4>1
    <3>3. r * b \in 0..1023
      <4>1. /\ r * b >= 0 /\ (q - 1 - r) * b >= 0
            /\ r * b \in Int /\ (q - 1 - r) * b \in Int
        BY <1>1, Z3
      <4>2. (q - 1 - r) * b = b * q - b - r * b
        BY <1>1, Z3
      <4> QED
        BY <1>1, <2>3, <4>1, <4>2
    <3>4. \A x \in Int, y \in 0..1023 : (1024 * x + y) \div 1024 = x
      OBVIOUS
    <3>5. PICK y \in 0..1023 : y = r * b
      BY <3>3
    <3>6. (1024 * m + y) \div 1024 = m
      BY <3>4
    <3> QED
      BY <3>1, <3>2, <3>5, <3>6
  <2> QED
    BY <1>3, <2>2, <2>5 DEF Scale
<1> QED
  BY <1>2, <1>3

(* The row that is printed is the row of the full report.                  *)
LEMMA RowIsFull ==
  ASSUME NEW d, NEW fs \in Filesystem PROVE StatRow(d, fs) = FullRow(d, fs)
<1>1. fs.bsize \in BlockSizes /\ fs.blocks \in Int /\ fs.bfree \in Int /\ fs.bavail \in Int
  BY DEF Filesystem
<1>2. fs.blocks - fs.bfree \in Int
  BY <1>1
<1>3. \A n \in Int : Size(n, fs.bsize) = Kilobytes(n, fs.bsize)
  BY <1>1, ScaleIsKilobytes DEF Size, Kilobytes
<1>4. CASE opt.inodes
  BY <1>4 DEF FullRow
<1>5. CASE ~opt.inodes
  <2>1. StatRow(d, fs)
          = <<Label(d)>> \o <<Size(fs.blocks, fs.bsize), Size(fs.blocks - fs.bfree, fs.bsize),
                              Size(fs.bavail, fs.bsize), Percent(fs.blocks, fs.bfree)>>
    BY <1>5 DEF StatRow
  <2> QED
    BY <1>1, <1>2, <1>3, <1>5, <2>1 DEF FullRow
<1> QED
  BY <1>4, <1>5

LEMMA RowTypes ==
  ASSUME NEW d \in Domains
  PROVE  /\ \A start \in Nat : ScanRow(d, start) \in Rows
         /\ \A fs \in Filesystem : StatRow(d, fs) \in Rows
BY DEF Rows

LEMMA ScanRowsType ==
  ASSUME NEW d \in Domains, NEW starts \in Seq(Nat)
  PROVE  ScanRows(d, starts) \in Seq(Rows)
<1>1. PICK n \in Nat : n = Len(starts) /\ DOMAIN starts = 1..n
  BY LenProperties
<1>2. \A i \in 1..n : ScanRow(d, starts[i]) \in Rows
  BY <1>1, ElementOfSeq, RowTypes
<1> QED
  BY <1>1, <1>2, IsASeq DEF ScanRows

LEMMA ScanRowsCons ==
  ASSUME NEW d \in Domains, NEW starts \in Seq(Nat), starts # <<>>
  PROVE  /\ ScanRows(d, Tail(starts)) \in Seq(Rows)
         /\ ScanRows(d, starts) = <<ScanRow(d, Head(starts))>> \o ScanRows(d, Tail(starts))
<1>1. /\ Len(starts) \in Nat \ {0} /\ DOMAIN starts = 1..Len(starts)
      /\ Head(starts) = starts[1]
      /\ Tail(starts) \in Seq(Nat) /\ Len(Tail(starts)) = Len(starts) - 1
      /\ \A i \in 1..Len(Tail(starts)) : Tail(starts)[i] = starts[i + 1]
  BY EmptySeq, LenProperties, HeadTailProperties
<1>2. PICK t \in Seq(Nat), n \in Nat :
        /\ t = Tail(starts) /\ n = Len(t) /\ Len(starts) = n + 1 /\ DOMAIN t = 1..n
        /\ \A i \in 1..n : t[i] = starts[i + 1] /\ t[i] \in Nat
  <2>1. Len(Tail(starts)) \in Nat /\ DOMAIN Tail(starts) = 1..Len(Tail(starts))
    BY <1>1, LenProperties
  <2>2. \A i \in 1..Len(Tail(starts)) : Tail(starts)[i] \in Nat
    BY <1>1, ElementOfSeq
  <2>3. PICK n \in Nat : n = Len(Tail(starts))
    BY <2>1
  <2>4. Len(starts) = n + 1
    BY <1>1, <2>3
  <2> QED
    BY <1>1, <2>1, <2>2, <2>3, <2>4
<1> DEFINE row == ScanRow(d, starts[1])
           rest == [i \in 1..n |-> ScanRow(d, t[i])]
<1>3. row \in Rows /\ rest \in Seq(Rows) /\ Len(rest) = n
  <2>1. starts[1] \in Nat
    BY <1>1, ElementOfSeq
  <2>2. \A i \in 1..n : ScanRow(d, t[i]) \in Rows
    BY <1>2, RowTypes
  <2> QED
    BY <2>1, <2>2, RowTypes, IsASeq
<1>4. ScanRows(d, starts) = [i \in 1..(n + 1) |-> ScanRow(d, starts[i])]
  BY <1>1, <1>2 DEF ScanRows
<1>5. ScanRows(d, t) = rest
  BY <1>2 DEF ScanRows
<1>6. [i \in 1..(n + 1) |-> ScanRow(d, starts[i])] = <<row>> \o rest
  <2>1. \A i \in 1..(n + 1) : i # 1 => rest[i - 1] = ScanRow(d, starts[i])
    <3> SUFFICES ASSUME NEW i \in 1..(n + 1), i # 1 PROVE rest[i - 1] = ScanRow(d, starts[i])
      OBVIOUS
    <3>1. i - 1 \in 1..n /\ (i - 1) + 1 = i
      OBVIOUS
    <3> QED
      BY <1>2, <3>1
  <2> HIDE DEF row, rest
  <2>2. <<row>> \o rest = [i \in 1..(n + 1) |-> IF i = 1 THEN row ELSE rest[i - 1]]
    BY <1>3
  <2> QED
    BY <2>1, <2>2 DEF row
<1> QED
  BY <1>1, <1>2, <1>3, <1>4, <1>5, <1>6

(* FlattenSeq of what a function makes of the elements of a sequence.      *)
EachOf(f, s) == [i \in DOMAIN s |-> f[s[i]]]

LEMMA FlattenEach ==
  ASSUME NEW R, NEW E, NEW f \in [E -> Seq(R)], NEW s \in Seq(E), s # <<>>
  PROVE  /\ FlattenSeq(EachOf(f, Tail(s))) \in Seq(R)
         /\ FlattenSeq(EachOf(f, s)) = f[Head(s)] \o FlattenSeq(EachOf(f, Tail(s)))
<1>1. /\ Len(s) \in Nat \ {0} /\ DOMAIN s = 1..Len(s)
      /\ Head(s) = s[1]
      /\ Tail(s) \in Seq(E) /\ Len(Tail(s)) = Len(s) - 1
      /\ \A i \in 1..Len(Tail(s)) : Tail(s)[i] = s[i + 1]
  BY EmptySeq, LenProperties, HeadTailProperties
<1>2. PICK t \in Seq(E), n \in Nat :
        /\ t = Tail(s) /\ n = Len(t) /\ Len(s) = n + 1 /\ DOMAIN t = 1..n
        /\ DOMAIN s = 1..(n + 1)
        /\ \A i \in 1..n : t[i] = s[i + 1]
  <2>1. Len(Tail(s)) \in Nat /\ DOMAIN Tail(s) = 1..Len(Tail(s))
    BY <1>1, LenProperties
  <2>2. PICK n \in Nat : n = Len(Tail(s))
    BY <2>1
  <2>3. Len(s) = n + 1
    BY <1>1, <2>2
  <2> QED
    BY <1>1, <2>1, <2>2, <2>3
<1>3. \A i \in 1..(n + 1) : s[i] \in E
  BY <1>2, ElementOfSeq
<1> DEFINE r == EachOf(f, s)
<1>4. r \in Seq(Seq(R)) /\ Len(r) = n + 1 /\ \A i \in 1..(n + 1) : r[i] = f[s[i]]
  <2>1. \A i \in 1..(n + 1) : f[s[i]] \in Seq(R)
    BY <1>3
  <2>2. [i \in 1..(n + 1) |-> f[s[i]]] \in Seq(Seq(R))
    BY <2>1, IsASeq
  <2> QED
    BY <1>2, <2>2 DEF EachOf
<1>5. EachOf(f, t) = [i \in 1..n |-> f[t[i]]]
  BY <1>2 DEF EachOf
<1> HIDE DEF r
<1>6. r # <<>>
  BY <1>4, EmptySeq
<1>7. /\ Head(r) = r[1] /\ Tail(r) \in Seq(Seq(R)) /\ Len(Tail(r)) = n
      /\ \A i \in 1..n : Tail(r)[i] = r[i + 1]
  <2>1. /\ Head(r) = r[1] /\ Tail(r) \in Seq(Seq(R)) /\ Len(Tail(r)) = Len(r) - 1
        /\ \A i \in 1..Len(Tail(r)) : Tail(r)[i] = r[i + 1]
    BY <1>4, <1>6, HeadTailProperties
  <2>2. Len(Tail(r)) = n
    BY <1>4, <2>1
  <2> QED
    BY <2>1, <2>2
<1>8. Tail(r) = [i \in 1..n |-> f[t[i]]]
  <2>1. DOMAIN Tail(r) = 1..n
    BY <1>7, LenProperties
  <2>2. \A i \in 1..n : r[i + 1] = f[t[i]]
    <3> SUFFICES ASSUME NEW i \in 1..n PROVE r[i + 1] = f[t[i]]
      OBVIOUS
    <3>1. i + 1 \in 1..(n + 1)
      OBVIOUS
    <3> QED
      BY <1>2, <1>4, <3>1
  <2>3. Tail(r) = [i \in 1..n |-> Tail(r)[i]]
    BY <1>7, <2>1, LenProperties
  <2> QED
    BY <1>7, <2>2, <2>3
<1>9. r[1] = f[Head(s)]
  <2>1. 1 \in 1..(n + 1)
    OBVIOUS
  <2> QED
    BY <1>1, <1>4, <2>1
<1>10. FlattenSeq(Tail(r)) \in Seq(R) /\ FlattenSeq(r) = Head(r) \o FlattenSeq(Tail(r))
  BY <1>4, <1>6, FlattenCons
<1>11. Tail(r) = EachOf(f, Tail(s))
  BY <1>2, <1>5, <1>8
<1>12. /\ FlattenSeq(EachOf(f, Tail(s))) \in Seq(R)
       /\ FlattenSeq(r) = f[Head(s)] \o FlattenSeq(EachOf(f, Tail(s)))
  BY <1>7, <1>9, <1>10, <1>11
<1> QED
  BY <1>12 DEF r

LEMMA ScanReportCons ==
  ASSUME NEW d \in Domains, NEW devices \in Seq(Device), devices # <<>>
  PROVE  /\ DeviceRows(d, Head(devices)) \in Seq(Rows)
         /\ ScanReport(d, Tail(devices)) \in Seq(Rows)
         /\ ScanReport(d, devices)
              = DeviceRows(d, Head(devices)) \o ScanReport(d, Tail(devices))
<1> DEFINE f == [dev \in Device |-> DeviceRows(d, dev)]
<1>1. f \in [Device -> Seq(Rows)]
  <2> SUFFICES ASSUME NEW dev \in Device PROVE DeviceRows(d, dev) \in Seq(Rows)
    OBVIOUS
  <2>1. dev.starts \in Seq(Nat)
    BY DEF Device
  <2>2. ScanRows(d, dev.starts) \in Seq(Rows)
    BY <2>1, ScanRowsType
  <2> QED
    BY <2>2, EmptySeq DEF DeviceRows
<1>2. Head(devices) \in Device /\ Tail(devices) \in Seq(Device)
  BY HeadTailProperties
<1>3. ASSUME NEW t \in Seq(Device) PROVE ScanReport(d, t) = FlattenSeq(EachOf(f, t))
  <2>1. \A i \in DOMAIN t : f[t[i]] = DeviceRows(d, t[i])
    BY LenProperties, ElementOfSeq
  <2> QED
    BY <2>1 DEF ScanReport, EachOf
<1>4. f[Head(devices)] = DeviceRows(d, Head(devices)) /\ f[Head(devices)] \in Seq(Rows)
  BY <1>1, <1>2
<1> HIDE DEF f
<1>5. /\ FlattenSeq(EachOf(f, Tail(devices))) \in Seq(Rows)
      /\ FlattenSeq(EachOf(f, devices)) = f[Head(devices)] \o FlattenSeq(EachOf(f, Tail(devices)))
  BY <1>1, FlattenEach
<1> QED
  BY <1>2, <1>3, <1>4, <1>5

LEMMA StatReportCons ==
  ASSUME NEW d \in Domains, NEW fses \in Seq(Filesystem), fses # <<>>
  PROVE  /\ StatRows(d, Head(fses)) \in Seq(Rows)
         /\ StatReport(d, Tail(fses)) \in Seq(Rows)
         /\ StatReport(d, fses) = StatRows(d, Head(fses)) \o StatReport(d, Tail(fses))
<1> DEFINE f == [fs \in Filesystem |-> StatRows(d, fs)]
<1>1. f \in [Filesystem -> Seq(Rows)]
  <2> SUFFICES ASSUME NEW fs \in Filesystem PROVE StatRows(d, fs) \in Seq(Rows)
    OBVIOUS
  <2>1. FullRow(d, fs) \in Rows
    BY RowIsFull, RowTypes
  <2> QED
    BY <2>1, EmptySeq DEF StatRows
<1>2. Head(fses) \in Filesystem /\ Tail(fses) \in Seq(Filesystem)
  BY HeadTailProperties
<1>3. ASSUME NEW t \in Seq(Filesystem) PROVE StatReport(d, t) = FlattenSeq(EachOf(f, t))
  <2>1. \A i \in DOMAIN t : f[t[i]] = StatRows(d, t[i])
    BY LenProperties, ElementOfSeq
  <2> QED
    BY <2>1 DEF StatReport, EachOf
<1>4. f[Head(fses)] = StatRows(d, Head(fses)) /\ f[Head(fses)] \in Seq(Rows)
  BY <1>1, <1>2
<1> HIDE DEF f
<1>5. /\ FlattenSeq(EachOf(f, Tail(fses))) \in Seq(Rows)
      /\ FlattenSeq(EachOf(f, fses)) = f[Head(fses)] \o FlattenSeq(EachOf(f, Tail(fses)))
  BY <1>1, FlattenEach
<1> QED
  BY <1>2, <1>3, <1>4, <1>5

LEMMA NothingReported ==
  ASSUME NEW d
  PROVE  ScanReport(d, <<>>) = <<>> /\ StatReport(d, <<>>) = <<>> /\ PartRows(d, <<>>) = <<>>
<1>1. \A s : s = <<>> => FlattenSeq(s) = <<>>
  <2>1. Len(<<>>) = 0
    OBVIOUS
  <2> QED
    BY <2>1 DEF FlattenSeq
<1>2. /\ [i \in DOMAIN <<>> |-> DeviceRows(d, <<>>[i])] = <<>>
      /\ [i \in DOMAIN <<>> |-> StatRows(d, <<>>[i])] = <<>>
      /\ [i \in DOMAIN <<>> |-> ScanRow(d, <<>>[i])] = <<>>
  OBVIOUS
<1> QED
  BY <1>1, <1>2 DEF ScanReport, StatReport, PartRows, ScanRows

-----------------------------------------------------------------------------
(* A step of a thread.                                                     *)

LEMMA CallType ==
  ASSUME TypeOK, NEW d \in DOMAIN guest
  PROVE  /\ work[d] \in Call
         /\ work[d].at \in Places /\ work[d].parts \in Seq(Nat)
         /\ work[d].todo \in Seq(Device) \cup Seq(Filesystem)
         /\ work[d].alignment \in Int /\ work[d].smaller \in BOOLEAN
         /\ work[d].result \in {0, -1}
         /\ DOMAIN work = DOMAIN guest /\ DOMAIN stream = DOMAIN guest
         /\ stream[d] \in Seq(Rows)
BY DEF TypeOK, Call

(* The call of d sets its position and some of its variables.              *)
Sets(d, c) == work' = [work EXCEPT ![d] = c] /\ c \in Call

LEMMA Sets1 ==
  ASSUME TypeOK, NEW d \in DOMAIN guest, NEW c, Sets(d, c)
  PROVE  work' = [work EXCEPT ![d] = work'[d]] /\ work'[d] = c /\ c \in Call
BY CallType DEF Sets

(* What each step sets the call to, field by field.                        *)
LEMMA StepSets ==
  ASSUME TypeOK, NEW d \in DOMAIN guest, NEW place \in Places, Step(d, place)
  PROVE  /\ Sets(d, work'[d])
         /\ work'[d].at = place /\ work'[d].result = work[d].result
         /\ work'[d].todo = work[d].todo /\ work'[d].parts = work[d].parts
         /\ work'[d].alignment = work[d].alignment /\ work'[d].smaller = work[d].smaller
<1>1. Sets(d, [work[d] EXCEPT !.at = place])
  BY CallType DEF Sets, Step, Call
<1> QED
  BY <1>1, Sets1, CallType DEF Sets, Call

LEMMA ReturnSets ==
  ASSUME TypeOK, NEW d \in DOMAIN guest, NEW r \in {0, -1}, Return(d, r)
  PROVE  /\ Sets(d, work'[d])
         /\ work'[d].at = "returned" /\ work'[d].result = r
         /\ work'[d].todo = work[d].todo /\ work'[d].parts = work[d].parts
<1>1. Sets(d, [work[d] EXCEPT !.at = "returned", !.result = r])
  BY CallType DEF Sets, Return, Call, Places
<1> QED
  BY <1>1, Sets1, CallType DEF Sets, Call

LEMMA ListSets ==
  ASSUME TypeOK, NEW d \in DOMAIN guest, List(d)
  PROVE  /\ Sets(d, work'[d])
         /\ opt.program = "scan" =>
              work'[d].at = "device" /\ work'[d].todo = guest[d].devices
         /\ opt.program = "df" =>
              work'[d].at = "filesystem" /\ work'[d].todo = guest[d].fses
         /\ work'[d].parts = work[d].parts /\ work'[d].result = work[d].result
<1> DEFINE place == IF opt.program = "scan" THEN "device" ELSE "filesystem"
           what == IF opt.program = "scan" THEN guest[d].devices ELSE guest[d].fses
<1>1. place \in Places /\ what \in Seq(Device) \cup Seq(Filesystem)
  BY GuestType DEF Places, Reading
<1>2. work' = [work EXCEPT ![d].at = place, ![d].todo = what]
  BY DEF List
<1> HIDE DEF place, what
<1>3. Sets(d, [work[d] EXCEPT !.at = place, !.todo = what])
  BY <1>1, <1>2, CallType DEF Sets, Call
<1>4. /\ Sets(d, work'[d]) /\ work'[d].at = place /\ work'[d].todo = what
      /\ work'[d].parts = work[d].parts /\ work'[d].result = work[d].result
  BY <1>3, Sets1, CallType DEF Sets, Call
<1> QED
  BY <1>4 DEF place, what

LEMMA DeviceSets ==
  ASSUME TypeOK, CallInv, NEW d \in DOMAIN guest, NextDevice(d)
  PROVE  /\ Sets(d, work'[d])
         /\ work[d].todo \in Seq(Device) /\ work[d].todo # <<>>
         /\ Head(work[d].todo) \in Device /\ Tail(work[d].todo) \in Seq(Device)
         /\ work'[d].todo = Tail(work[d].todo) /\ work'[d].result = work[d].result
         /\ ~Head(work[d].todo).label =>
              work'[d].at = "device" /\ work'[d].parts = work[d].parts
         /\ Head(work[d].todo).label =>
              work'[d].at = "partition" /\ work'[d].parts = Head(work[d].todo).starts
<1>1. work[d].todo \in Seq(Device) /\ work[d].todo # <<>>
  BY DEF CallInv, CallOK, NextDevice, At, Reading
<1>2. Head(work[d].todo) \in Device /\ Tail(work[d].todo) \in Seq(Device)
  BY <1>1, HeadTailProperties
<1>3. Head(work[d].todo).starts \in Seq(Nat)
  BY <1>2 DEF Device
<1> DEFINE rest == [work[d] EXCEPT !.todo = Tail(work[d].todo)]
           next == [work[d] EXCEPT !.at = "partition", !.todo = Tail(work[d].todo),
                                   !.parts = Head(work[d].todo).starts]
<1>4. IF ~Head(work[d].todo).label THEN Sets(d, rest) ELSE Sets(d, next)
  BY <1>2, <1>3, CallType DEF Sets, NextDevice, Call, Places, Reading
<1>5. CASE ~Head(work[d].todo).label
  <2>1. /\ rest.todo = Tail(work[d].todo) /\ rest.result = work[d].result
        /\ rest.at = "device" /\ rest.parts = work[d].parts
    BY CallType DEF Call, NextDevice, At
  <2> HIDE DEF rest
  <2> QED
    BY <1>1, <1>2, <1>4, <1>5, <2>1, Sets1 DEF Sets
<1>6. CASE Head(work[d].todo).label
  <2>1. /\ next.todo = Tail(work[d].todo) /\ next.result = work[d].result
        /\ next.at = "partition" /\ next.parts = Head(work[d].todo).starts
    BY CallType DEF Call
  <2> HIDE DEF next
  <2> QED
    BY <1>1, <1>2, <1>4, <1>6, <2>1, Sets1 DEF Sets
<1> QED
  BY <1>5, <1>6

LEMMA PartitionSets ==
  ASSUME TypeOK, NEW d \in DOMAIN guest, NextPartition(d)
  PROVE  /\ Sets(d, work'[d])
         /\ work'[d].at = "lock" /\ work'[d].alignment = AlignmentOf(Head(work[d].parts))
         /\ work'[d].todo = work[d].todo /\ work'[d].parts = work[d].parts
<1> DEFINE alignment == AlignmentOf(Head(work[d].parts))
<1>1. alignment \in Int
  BY CallType, HeadTailProperties, AlignmentType DEF NextPartition
<1>2. work' = [work EXCEPT ![d].at = "lock", ![d].alignment = alignment]
  BY DEF NextPartition
<1> HIDE DEF alignment
<1>3. Sets(d, [work[d] EXCEPT !.at = "lock", !.alignment = alignment])
  BY <1>1, <1>2, CallType DEF Sets, Call, Places, Reading
<1>4. /\ Sets(d, work'[d]) /\ work'[d].at = "lock" /\ work'[d].alignment = alignment
      /\ work'[d].todo = work[d].todo /\ work'[d].parts = work[d].parts
  BY <1>3, Sets1, CallType DEF Sets, Call
<1> QED
  BY <1>4 DEF alignment

LEMMA CompareSets ==
  ASSUME TypeOK, NEW d \in DOMAIN guest, Compare(d)
  PROVE  /\ Sets(d, work'[d])
         /\ work'[d].at = "assign" /\ (work'[d].smaller <=> work[d].alignment < worst)
         /\ work'[d].todo = work[d].todo /\ work'[d].parts = work[d].parts
         /\ work'[d].alignment = work[d].alignment
<1> DEFINE less == work[d].alignment < worst
<1>1. less \in BOOLEAN
  OBVIOUS
<1>2. work' = [work EXCEPT ![d].at = "assign", ![d].smaller = less]
  BY DEF Compare
<1> HIDE DEF less
<1>3. Sets(d, [work[d] EXCEPT !.at = "assign", !.smaller = less])
  BY <1>1, <1>2, CallType DEF Sets, Call, Places, Reading, Critical
<1>4. /\ Sets(d, work'[d]) /\ work'[d].at = "assign" /\ work'[d].smaller = less
      /\ work'[d].todo = work[d].todo /\ work'[d].parts = work[d].parts
      /\ work'[d].alignment = work[d].alignment
  BY <1>3, Sets1, CallType DEF Sets, Call
<1> QED
  BY <1>4 DEF less

LEMMA UnlockSets ==
  ASSUME TypeOK, CallInv, NEW d \in DOMAIN guest, Unlock(d)
  PROVE  /\ Sets(d, work'[d])
         /\ work[d].parts # <<>> /\ Head(work[d].parts) \in Nat
         /\ Tail(work[d].parts) \in Seq(Nat)
         /\ work'[d].at = "partition" /\ work'[d].parts = Tail(work[d].parts)
         /\ work'[d].todo = work[d].todo /\ work'[d].result = work[d].result
<1>1. work[d].parts # <<>>
  BY DEF Unlock, At, CallInv, CallOK, Critical
<1>2. Head(work[d].parts) \in Nat /\ Tail(work[d].parts) \in Seq(Nat)
  BY <1>1, CallType, HeadTailProperties
<1>3. Sets(d, [work[d] EXCEPT !.at = "partition", !.parts = Tail(work[d].parts)])
  BY <1>2, CallType DEF Sets, Unlock, Call, Places, Reading
<1>4. /\ Sets(d, work'[d])
      /\ work'[d].at = "partition" /\ work'[d].parts = Tail(work[d].parts)
      /\ work'[d].todo = work[d].todo /\ work'[d].result = work[d].result
  BY <1>3, Sets1, CallType DEF Sets, Call
<1> QED
  BY <1>1, <1>2, <1>4

LEMMA FilesystemSets ==
  ASSUME TypeOK, CallInv, NEW d \in DOMAIN guest, NextFilesystem(d)
  PROVE  /\ Sets(d, work'[d])
         /\ work[d].todo \in Seq(Filesystem) /\ work[d].todo # <<>>
         /\ Head(work[d].todo) \in Filesystem /\ Tail(work[d].todo) \in Seq(Filesystem)
         /\ work'[d].at = "filesystem" /\ work'[d].todo = Tail(work[d].todo)
         /\ work'[d].parts = work[d].parts /\ work'[d].result = work[d].result
<1>1. work[d].at = "filesystem" /\ work[d].todo \in Seq(Filesystem) /\ work[d].todo # <<>>
  BY DEF CallInv, CallOK, NextFilesystem, At
<1>2. Head(work[d].todo) \in Filesystem /\ Tail(work[d].todo) \in Seq(Filesystem)
  BY <1>1, HeadTailProperties
<1>3. Sets(d, [work[d] EXCEPT !.todo = Tail(work[d].todo)])
  BY <1>2, CallType DEF Sets, NextFilesystem, Call
<1>4. /\ Sets(d, work'[d])
      /\ work'[d].at = "filesystem" /\ work'[d].todo = Tail(work[d].todo)
      /\ work'[d].parts = work[d].parts /\ work'[d].result = work[d].result
  BY <1>1, <1>3, Sets1, CallType DEF Sets, Call
<1> QED
  BY <1>1, <1>2, <1>4


(* What every step of a call leaves alone, and the types of what it sets.  *)
LEMMA CallStep ==
  ASSUME TypeOK, CallInv, NEW d \in DOMAIN guest, Work(d)
  PROVE  /\ guest' = guest /\ opt' = opt
         /\ exit = -1 /\ exit' \in {-1, 1}
         /\ Sets(d, work'[d]) \/ work' = work
         /\ stream' = [stream EXCEPT ![d] = stream'[d]] /\ stream'[d] \in Seq(Rows)
         /\ work[d].at # "done"
         /\ stdout' = IF work'[d].at = "done" THEN stdout \cup {d} ELSE stdout
<1> USE DEF At, Running
<1>0. /\ work[d].at \in Places /\ stream[d] \in Seq(Rows) /\ d \in Domains
      /\ DOMAIN stream = DOMAIN guest
      /\ stream = [e \in DOMAIN guest |-> stream[e]]
  BY CallType, GuestType DEF TypeOK
<1>a. stream = [stream EXCEPT ![d] = stream[d]]
  BY <1>0
<1>b. ASSUME NEW place \in Places, Step(d, place)
      PROVE  Sets(d, work'[d]) /\ work'[d].at = place
  BY <1>b, StepSets
<1>c. ASSUME NEW r \in {0, -1}, Return(d, r)
      PROVE  Sets(d, work'[d]) /\ work'[d].at = "returned"
  BY <1>c, ReturnSets
<1>d. {"waiting", "add", "launch", "list", "device", "partition", "lock", "compare", "assign",
       "unlock", "filesystem", "returned", "done"} \subseteq Places
  BY DEF Places, Starting, Reading, Critical
<1>1. CASE TakeDomain(d)
  BY <1>0, <1>a, <1>b, <1>d, <1>1 DEF TakeDomain
<1>2. CASE AddDomain(d)
  BY <1>0, <1>a, <1>b, <1>c, <1>d, <1>2 DEF AddDomain
<1>3. CASE Launch(d)
  BY <1>0, <1>a, <1>b, <1>d, <1>3 DEF Launch
<1>4. CASE List(d)
  BY <1>0, <1>a, <1>4, ListSets, GuestType DEF List
<1>5. CASE CallFails(d)
  BY <1>0, <1>a, <1>c, <1>d, <1>5 DEF CallFails
<1>6. CASE NextDevice(d)
  BY <1>0, <1>a, <1>6, DeviceSets DEF NextDevice
<1>7. CASE NextPartition(d)
  BY <1>0, <1>a, <1>7, PartitionSets DEF NextPartition
<1>8. CASE Lock(d)
  BY <1>0, <1>a, <1>b, <1>d, <1>8 DEF Lock
<1>9. CASE Compare(d)
  BY <1>0, <1>a, <1>9, CompareSets DEF Compare
<1>10. CASE Assign(d)
  BY <1>0, <1>a, <1>b, <1>d, <1>10 DEF Assign
<1>11. CASE Unlock(d)
  <2>3. ScanRow(d, Head(work[d].parts)) \in Rows
    BY <1>0, <1>11, UnlockSets, RowTypes
  <2>4. Append(stream[d], ScanRow(d, Head(work[d].parts))) \in Seq(Rows)
    BY <1>0, <2>3, AppendProperties
  <2>5. stream' = [stream EXCEPT ![d] = stream'[d]] /\ stream'[d] \in Seq(Rows)
    BY <1>0, <1>a, <1>11, <2>4 DEF Unlock
  <2> QED
    BY <1>0, <1>11, <2>5, UnlockSets DEF Unlock
<1>12. CASE EndDevice(d)
  BY <1>0, <1>a, <1>b, <1>d, <1>12 DEF EndDevice
<1>13. CASE NextFilesystem(d)
  <2>1. Head(work[d].todo) \in Filesystem
    BY <1>13, FilesystemSets
  <2>2. StatRow(d, Head(work[d].todo)) \in Rows
    BY <1>0, <2>1, RowTypes
  <2>3. Append(stream[d], StatRow(d, Head(work[d].todo))) \in Seq(Rows)
    BY <1>0, <2>2, AppendProperties
  <2>4. stream' = [stream EXCEPT ![d] = stream'[d]] /\ stream'[d] \in Seq(Rows)
    BY <1>0, <1>a, <1>13, <2>3 DEF NextFilesystem
  <2> QED
    BY <1>0, <1>13, <2>4, FilesystemSets DEF NextFilesystem
<1>14. CASE NameFails(d)
  BY <1>0, <1>a, <1>14 DEF NameFails
<1>15. CASE EndList(d)
  BY <1>0, <1>a, <1>c, <1>d, <1>15 DEF EndList
<1>16. CASE Retire(d)
  BY <1>0, <1>a, <1>b, <1>d, <1>16 DEF Retire
<1> QED
  BY <1>1, <1>2, <1>3, <1>4, <1>5, <1>6, <1>7, <1>8, <1>9, <1>10, <1>11, <1>12, <1>13,
     <1>14, <1>15, <1>16 DEF Work

LEMMA OthersStay ==
  ASSUME TypeOK, CallInv, NEW d \in DOMAIN guest, Work(d), NEW e \in DOMAIN guest, e # d
  PROVE  work'[e] = work[e] /\ stream'[e] = stream[e]
BY CallStep, CallType DEF Sets

(* The lock and what it protects only change hands and decrease.           *)
LEMMA SharedStep ==
  ASSUME TypeOK, CallInv, NEW d \in DOMAIN guest, Work(d)
  PROVE  \/ ~Assign(d) /\ worst' = worst /\ mutex' = mutex
         \/ /\ Lock(d) /\ worst' = worst /\ mutex = Nobody /\ mutex' = d
         \/ /\ Unlock(d) /\ worst' = worst /\ mutex' = Nobody
         \/ /\ Assign(d) /\ mutex' = mutex
            /\ work[d].alignment \in Nat
            /\ work[d].smaller <=> work[d].alignment < worst
            /\ worst' = IF work[d].smaller THEN work[d].alignment ELSE worst
<1>1. CASE Assign(d)
  <2>1. /\ work[d].parts # <<>> /\ work[d].alignment = AlignmentOf(Head(work[d].parts))
        /\ work[d].smaller <=> work[d].alignment < worst
    BY <1>1 DEF Assign, At, CallInv, CallOK, Critical
  <2>2. work[d].alignment \in Nat
    BY <2>1, CallType, HeadTailProperties, AlignmentType
  <2> QED
    BY <1>1, <2>1, <2>2 DEF Assign
<1>2. CASE Lock(d)
  BY <1>2 DEF Lock
<1>3. CASE Unlock(d)
  BY <1>3 DEF Unlock
<1>4. CASE ~Assign(d) /\ ~Lock(d) /\ ~Unlock(d)
  BY <1>4 DEF Work, TakeDomain, AddDomain, Launch, List, CallFails, NextDevice, NextPartition,
              Compare, EndDevice, NextFilesystem, NameFails, EndList, Retire
<1> QED
  BY <1>1, <1>2, <1>3, <1>4

LEMMA TypeStep ==
  ASSUME TypeOK, CallInv, NEW d \in DOMAIN guest, Work(d)
  PROVE  TypeOK'
<1>1. /\ guest' = guest /\ opt' = opt /\ exit' \in {-1, 0, 1, 2, 3}
      /\ \E s \in Setups : opt' = s.opt /\ guest' = s.guest
  BY CallStep DEF TypeOK
<1>2. worst' \in Nat /\ mutex' \in DOMAIN guest \cup {Nobody}
  BY SharedStep DEF TypeOK
<1>3. work' \in [DOMAIN guest -> Call]
  BY CallStep DEF TypeOK, Sets
<1>4. stream' \in [DOMAIN guest -> Seq(Rows)]
  <2>1. stream \in [DOMAIN guest -> Seq(Rows)]
    BY DEF TypeOK
  <2>2. stream' = [stream EXCEPT ![d] = stream'[d]] /\ stream'[d] \in Seq(Rows)
    BY CallStep
  <2> QED
    BY <2>1, <2>2
<1>5. stdout' = {e \in DOMAIN guest : work'[e].at = "done"}
  <2>1. /\ stdout' = IF work'[d].at = "done" THEN stdout \cup {d} ELSE stdout
        /\ work[d].at # "done"
    BY CallStep
  <2>2. stdout = {e \in DOMAIN guest : work[e].at = "done"}
    BY DEF TypeOK
  <2>3. \A e \in DOMAIN guest : e # d => work'[e] = work[e]
    BY OthersStay
  <2> QED
    BY <2>1, <2>2, <2>3
<1>6. Rows' = Rows /\ Call' = Call
  <2>1. \A e : Label(e)' = Label(e)
    BY <1>1 DEF Label, All, Drives
  <2>2. \A e : (\A start : ScanRow(e, start)' = ScanRow(e, start))
    BY <2>1 DEF ScanRow
  <2>3. \A e : (\A fs : StatRow(e, fs)' = StatRow(e, fs))
    BY <1>1, <2>1 DEF StatRow, Size, Percent
  <2> QED
    BY <1>1, <2>2, <2>3 DEF Rows, Call
<1> QED
  BY <1>1, <1>2, <1>3, <1>4, <1>5, <1>6 DEF TypeOK

(* The steps that are not about the lock are outside the critical section. *)
LEMMA OutsideStep ==
  ASSUME TypeOK, CallInv, NEW d \in DOMAIN guest, Work(d),
         ~Lock(d), ~Compare(d), ~Assign(d), ~Unlock(d)
  PROVE  /\ mutex' = mutex /\ worst' = worst
         /\ work[d].at \notin Critical /\ work'[d].at \notin Critical
<1> USE DEF At, Critical
<1>0. {"launch", "list", "add", "device", "done"} \subseteq Places
  BY DEF Places, Starting, Reading
<1>1. CASE TakeDomain(d)
  BY <1>0, <1>1, StepSets DEF TakeDomain
<1>2. CASE AddDomain(d)
  BY <1>0, <1>2, StepSets, ReturnSets DEF AddDomain
<1>3. CASE Launch(d)
  BY <1>0, <1>3, StepSets DEF Launch
<1>4. CASE List(d)
  BY <1>4, ListSets, GuestType DEF List
<1>5. CASE CallFails(d)
  BY <1>5, ReturnSets DEF CallFails
<1>6. CASE NextDevice(d)
  BY <1>6, DeviceSets DEF NextDevice
<1>7. CASE NextPartition(d)
  BY <1>7, PartitionSets DEF NextPartition
<1>8. CASE EndDevice(d)
  BY <1>0, <1>8, StepSets DEF EndDevice
<1>9. CASE NextFilesystem(d)
  BY <1>9, FilesystemSets DEF NextFilesystem
<1>10. CASE NameFails(d)
  BY <1>10 DEF NameFails
<1>11. CASE EndList(d)
  BY <1>11, ReturnSets DEF EndList
<1>12. CASE Retire(d)
  BY <1>0, <1>12, StepSets DEF Retire
<1> QED
  BY <1>1, <1>2, <1>3, <1>4, <1>5, <1>6, <1>7, <1>8, <1>9, <1>10, <1>11, <1>12 DEF Work

LEMMA MutexStep ==
  ASSUME TypeOK, CallInv, MutexInv, NEW d \in DOMAIN guest, Work(d)
  PROVE  MutexInv'
<1>0. guest' = guest /\ d # Nobody /\ (work[d].at \in Critical <=> mutex = d)
  BY CallStep, GuestType DEF MutexInv
<1>1. work'[d].at \in Critical <=> mutex' = d
  <2>1. CASE Lock(d)
    <3>1. Step(d, "compare") /\ mutex' = d
      BY <2>1 DEF Lock
    <3> QED
      BY <3>1, StepSets DEF Places, Reading, Critical
  <2>2. CASE Compare(d)
    <3>1. work[d].at = "compare" /\ mutex' = mutex
      BY <2>2 DEF Compare, At
    <3> QED
      BY <1>0, <2>2, <3>1, CompareSets DEF Critical
  <2>3. CASE Assign(d)
    <3>1. work[d].at = "assign" /\ Step(d, "unlock") /\ mutex' = mutex
      BY <2>3 DEF Assign, At
    <3> QED
      BY <1>0, <3>1, StepSets DEF Places, Reading, Critical
  <2>4. CASE Unlock(d)
    <3>1. mutex' = Nobody
      BY <2>4 DEF Unlock
    <3> QED
      BY <1>0, <2>4, <3>1, UnlockSets DEF Critical
  <2>5. CASE ~Lock(d) /\ ~Compare(d) /\ ~Assign(d) /\ ~Unlock(d)
    BY <1>0, <2>5, OutsideStep
  <2> QED
    BY <2>1, <2>2, <2>3, <2>4, <2>5
<1>2. ASSUME NEW e \in DOMAIN guest, e # d PROVE work'[e].at \in Critical <=> mutex' = e
  <2>1. work'[e] = work[e] /\ e # Nobody /\ (work[e].at \in Critical <=> mutex = e)
    BY <1>2, OthersStay, GuestType DEF MutexInv
  <2> QED
    BY <1>0, <1>2, <2>1, SharedStep DEF Unlock, At, Critical
<1> QED
  BY <1>0, <1>1, <1>2 DEF MutexInv

LEMMA CallInvStep ==
  ASSUME TypeOK, CallInv, MutexInv, NEW d \in DOMAIN guest, Work(d)
  PROVE  CallInv'
<1>0. guest' = guest /\ opt' = opt
  BY CallStep
<1>1. ASSUME NEW e \in DOMAIN guest, e # d PROVE CallOK(e)'
  <2>1. work'[e] = work[e] /\ CallOK(e)
    BY <1>1, OthersStay DEF CallInv
  <2>2. work[e].at = "assign" => worst' = worst
    <3>1. work[e].at = "assign" => mutex = e
      BY DEF MutexInv, Critical
    <3>2. Assign(d) => mutex = d
      BY DEF MutexInv, Critical, Assign, At
    <3> QED
      BY <1>1, <3>1, <3>2, SharedStep
  <2> QED
    BY <1>0, <2>1, <2>2 DEF CallOK
<1>2. CallOK(d)'
  <2>0. CallOK(d) /\ opt.program \in {"scan", "df"}
    BY GuestType DEF CallInv
  <2> USE DEF CallOK, At, Starting, Reading, Critical
  <2>p. {"launch", "list", "add", "device", "done", "compare", "unlock"} \subseteq Places
    BY DEF Places
  <2>1. CASE TakeDomain(d)
    BY <1>0, <2>0, <2>p, <2>1, StepSets DEF TakeDomain
  <2>2. CASE AddDomain(d)
    BY <1>0, <2>0, <2>p, <2>2, StepSets, ReturnSets DEF AddDomain
  <2>3. CASE Launch(d)
    BY <1>0, <2>0, <2>p, <2>3, StepSets DEF Launch
  <2>4. CASE List(d)
    BY <1>0, <2>0, <2>4, ListSets, GuestType DEF List
  <2>5. CASE CallFails(d)
    BY <1>0, <2>0, <2>5, ReturnSets DEF CallFails
  <2>6. CASE NextDevice(d)
    BY <1>0, <2>0, <2>6, DeviceSets DEF NextDevice
  <2>7. CASE NextPartition(d)
    BY <1>0, <2>0, <2>7, PartitionSets DEF NextPartition
  <2>8. CASE Lock(d)
    BY <1>0, <2>0, <2>p, <2>8, StepSets DEF Lock
  <2>9. CASE Compare(d)
    BY <1>0, <2>0, <2>9, CompareSets DEF Compare
  <2>10. CASE Assign(d)
    BY <1>0, <2>0, <2>p, <2>10, StepSets DEF Assign
  <2>11. CASE Unlock(d)
    BY <1>0, <2>0, <2>11, UnlockSets DEF Unlock
  <2>12. CASE EndDevice(d)
    BY <1>0, <2>0, <2>p, <2>12, StepSets DEF EndDevice
  <2>13. CASE NextFilesystem(d)
    BY <1>0, <2>0, <2>13, FilesystemSets DEF NextFilesystem
  <2>14. CASE NameFails(d)
    BY <1>0, <2>0, <2>14 DEF NameFails
  <2>15. CASE EndList(d)
    BY <1>0, <2>0, <2>15, ReturnSets DEF EndList
  <2>16. CASE Retire(d)
    BY <1>0, <2>0, <2>p, <2>16, StepSets DEF Retire
  <2> QED
    BY <2>1, <2>2, <2>3, <2>4, <2>5, <2>6, <2>7, <2>8, <2>9, <2>10, <2>11, <2>12, <2>13,
       <2>14, <2>15, <2>16 DEF Work
<1> QED
  BY <1>0, <1>1, <1>2 DEF CallInv

(* The worst alignment never increases, and is that of a partition.        *)
LEMMA WorstDecreases ==
  ASSUME TypeOK, CallInv, WorstInv, opt.program = "scan", NEW d \in DOMAIN guest, Work(d)
  PROVE  /\ worst \in Nat /\ worst' \in Nat /\ worst' <= worst
         /\ worst' \in Alignments \cup {UintMax}
         /\ Assign(d) => worst' <= work[d].alignment
<1>0. worst \in Nat /\ worst \in Alignments \cup {UintMax} /\ Covered(d)
  BY DEF TypeOK, WorstInv
<1>1. CASE Assign(d)
  <2>1. /\ work[d].at = "assign" /\ work[d].parts # <<>>
        /\ work[d].alignment = AlignmentOf(Head(work[d].parts))
    BY <1>1 DEF Assign, At, CallInv, CallOK, Critical
  <2>2. Head(work[d].parts) \in ToSet(work[d].parts)
    BY <2>1, CallType, ToSetCons
  <2>3. Head(work[d].parts) \in Starts(guest[d].devices)
    BY <1>0, <2>1, <2>2 DEF Covered, Reading, Critical
  <2>4. work[d].alignment \in Alignments
    BY <2>1, <2>3 DEF Alignments
  <2>5. /\ work[d].alignment \in Nat
        /\ work[d].smaller <=> work[d].alignment < worst
        /\ worst' = IF work[d].smaller THEN work[d].alignment ELSE worst
    BY <1>1, <2>1, SharedStep DEF Lock, Unlock, At
  <2> QED
    BY <1>0, <2>4, <2>5
<1>2. CASE ~Assign(d)
  BY <1>0, <1>2, SharedStep
<1> QED
  BY <1>1, <1>2

(* A step takes off what is ahead only the partition that it has compared. *)
LEMMA AheadStep ==
  ASSUME TypeOK, CallInv, WorstInv, opt.program = "scan", NEW d \in DOMAIN guest, Work(d)
  PROVE  /\ work'[d].at \in Reading =>
              ToSet(work'[d].parts) \cup Starts(work'[d].todo) \subseteq Starts(guest[d].devices)
         /\ \A start \in Ahead(d) \cap Starts(guest[d].devices) :
              \/ start \in Ahead(d)'
              \/ Assign(d) /\ work[d].alignment = AlignmentOf(start)
<1>0. guest' = guest /\ opt' = opt
  BY CallStep
<1>1. /\ work[d].at \in Reading =>
           ToSet(work[d].parts) \cup Starts(work[d].todo) \subseteq Starts(guest[d].devices)
      /\ CallOK(d) /\ work[d].parts \in Seq(Nat)
  BY CallType DEF WorstInv, Covered, CallInv
<1>2. Starts(<<>>) = {} /\ ToSet(<<>>) = {}
  BY NothingStarts
<1>p. {"launch", "list", "add", "device", "done", "compare", "unlock"} \subseteq Places
  BY DEF Places, Starting, Reading, Critical
<1>a. ASSUME work' = work PROVE Ahead(d)' = Ahead(d)
  BY <1>0, <1>a DEF Ahead
<1> USE DEF At, Ahead, Starting, Reading, Critical
<1>3. CASE TakeDomain(d)
  BY <1>0, <1>1, <1>p, <1>3, StepSets DEF TakeDomain
<1>4. CASE AddDomain(d)
  BY <1>0, <1>1, <1>p, <1>4, StepSets, ReturnSets DEF AddDomain
<1>5. CASE Launch(d)
  BY <1>0, <1>1, <1>p, <1>5, StepSets DEF Launch
<1>6. CASE List(d)
  BY <1>0, <1>1, <1>2, <1>6, ListSets DEF List, CallOK
<1>7. CASE CallFails(d)
  BY <1>0, <1>1, <1>a, <1>7, ReturnSets DEF CallFails
<1>8. CASE NextDevice(d)
  <2>1. Starts(work[d].todo)
          = (IF Head(work[d].todo).label THEN ToSet(Head(work[d].todo).starts) ELSE {})
              \cup Starts(Tail(work[d].todo))
    BY <1>8, DeviceSets, StartsCons
  <2>2. work[d].at = "device" /\ work[d].parts = <<>>
    BY <1>1, <1>8 DEF NextDevice, CallOK
  <2> QED
    BY <1>0, <1>1, <1>2, <1>8, <2>1, <2>2, DeviceSets
<1>9. CASE NextPartition(d)
  BY <1>0, <1>1, <1>9, PartitionSets DEF NextPartition
<1>10. CASE Lock(d)
  BY <1>0, <1>1, <1>p, <1>10, StepSets DEF Lock
<1>11. CASE Compare(d)
  BY <1>0, <1>1, <1>11, CompareSets DEF Compare
<1>12. CASE Assign(d)
  <2>1. /\ work[d].at = "assign" /\ work[d].parts # <<>>
        /\ work[d].alignment = AlignmentOf(Head(work[d].parts))
    BY <1>1, <1>12 DEF Assign, CallOK
  <2>2. ToSet(work[d].parts) = {Head(work[d].parts)} \cup ToSet(Tail(work[d].parts))
    BY <1>1, <2>1, ToSetCons
  <2> QED
    BY <1>0, <1>1, <1>p, <1>12, <2>1, <2>2, StepSets DEF Assign
<1>13. CASE Unlock(d)
  <2>1. ToSet(work[d].parts) = {Head(work[d].parts)} \cup ToSet(Tail(work[d].parts))
    BY <1>1, <1>13, UnlockSets, ToSetCons
  <2> QED
    BY <1>0, <1>1, <1>13, <2>1, UnlockSets DEF Unlock
<1>14. CASE EndDevice(d)
  BY <1>0, <1>1, <1>p, <1>14, StepSets DEF EndDevice
<1>15. CASE NextFilesystem(d)
  BY <1>1, <1>15 DEF NextFilesystem, CallOK
<1>16. CASE NameFails(d)
  BY <1>1, <1>16 DEF NameFails, CallOK
<1>17. CASE EndList(d)
  BY <1>0, <1>1, <1>2, <1>17, ReturnSets DEF EndList, CallOK
<1>18. CASE Retire(d)
  BY <1>0, <1>1, <1>p, <1>18, StepSets DEF Retire
<1> QED
  BY <1>3, <1>4, <1>5, <1>6, <1>7, <1>8, <1>9, <1>10, <1>11, <1>12, <1>13, <1>14, <1>15,
     <1>16, <1>17, <1>18 DEF Work

LEMMA WorstInvStep ==
  ASSUME TypeOK, CallInv, WorstInv, NEW d \in DOMAIN guest, Work(d)
  PROVE  WorstInv'
<1>0. guest' = guest /\ opt' = opt
  BY CallStep
<1> SUFFICES ASSUME opt.program = "scan"
             PROVE  /\ worst' \in Alignments \cup {UintMax}
                    /\ \A e \in DOMAIN guest : Covered(e)'
  BY <1>0 DEF WorstInv, Alignments
<1>1. /\ worst \in Nat /\ worst' \in Nat /\ worst' <= worst
      /\ worst' \in Alignments \cup {UintMax}
      /\ Assign(d) => worst' <= work[d].alignment
  BY WorstDecreases
<1>2. ASSUME NEW e \in DOMAIN guest PROVE Covered(e)'
  <2>1. \A start \in Starts(guest[e].devices) : AlignmentOf(start) \in Nat
    BY GuestType, StartsType, AlignmentType
  <2>2. Covered(e)
    BY DEF WorstInv
  <2>3. CASE e # d
    <3>1. work'[e] = work[e] /\ Ahead(e)' = Ahead(e)
      BY <1>0, <2>3, OthersStay DEF Ahead
    <3> QED
      BY <1>0, <1>1, <2>1, <2>2, <3>1 DEF Covered
  <2>4. CASE e = d
    <3>1. ASSUME NEW start \in Starts(guest[d].devices) \ Ahead(d)'
          PROVE  worst' <= AlignmentOf(start)
      <4>1. CASE start \in Ahead(d)
        BY <1>1, <3>1, <4>1, AheadStep
      <4>2. CASE start \notin Ahead(d)
        BY <1>1, <2>1, <2>2, <2>4, <4>2 DEF Covered
      <4> QED
        BY <4>1, <4>2
    <3> QED
      BY <1>0, <2>4, <3>1, AheadStep DEF Covered
  <2> QED
    BY <2>3, <2>4
<1> QED
  BY <1>1, <1>2

-----------------------------------------------------------------------------
(* What a step prints.                                                     *)

LEMMA ReportSame ==
  ASSUME opt' = opt, guest' = guest
  PROVE  \A d : /\ FullReport(d)' = FullReport(d)
                /\ \A s : /\ ScanReport(d, s)' = ScanReport(d, s)
                          /\ StatReport(d, s)' = StatReport(d, s)
                          /\ PartRows(d, s)' = PartRows(d, s)
<1>1. \A d : Label(d)' = Label(d)
  BY DEF Label, All, Drives
<1>2. \A d : (\A start : ScanRow(d, start)' = ScanRow(d, start))
  BY <1>1 DEF ScanRow
<1>3. \A d : (\A s : ScanRows(d, s)' = ScanRows(d, s))
  BY <1>2 DEF ScanRows
<1>4. \A d : (\A dev : DeviceRows(d, dev)' = DeviceRows(d, dev))
  BY <1>3 DEF DeviceRows
<1>5. \A d : (\A s : ScanReport(d, s)' = ScanReport(d, s))
  BY <1>4 DEF ScanReport
<1>6. \A d : (\A fs : FullRow(d, fs)' = FullRow(d, fs))
  BY <1>1 DEF FullRow, StatRow, Kilobytes, Percent
<1>7. \A d : (\A fs : StatRows(d, fs)' = StatRows(d, fs))
  BY <1>6 DEF StatRows
<1>8. \A d : (\A s : StatReport(d, s)' = StatReport(d, s))
  BY <1>7 DEF StatReport
<1>9. \A d : (\A s : PartRows(d, s)' = PartRows(d, s))
  BY <1>3 DEF PartRows
<1>10. \A d : FullReport(d)' = FullReport(d)
  BY <1>5, <1>8 DEF FullReport
<1> QED
  BY <1>5, <1>8, <1>9, <1>10

LEMMA ReportType ==
  ASSUME NEW d \in Domains
  PROVE  /\ \A devices \in Seq(Device) : ScanReport(d, devices) \in Seq(Rows)
         /\ \A fses \in Seq(Filesystem) : StatReport(d, fses) \in Seq(Rows)
         /\ \A starts \in Seq(Nat) : PartRows(d, starts) \in Seq(Rows)
<1>0. <<>> \in Seq(Rows)
  BY EmptySeq
<1>1. ASSUME NEW devices \in Seq(Device) PROVE ScanReport(d, devices) \in Seq(Rows)
  BY <1>0, ScanReportCons, NothingReported, ConcatProperties
<1>2. ASSUME NEW fses \in Seq(Filesystem) PROVE StatReport(d, fses) \in Seq(Rows)
  BY <1>0, StatReportCons, NothingReported, ConcatProperties
<1>3. ASSUME NEW starts \in Seq(Nat) PROVE PartRows(d, starts) \in Seq(Rows)
  BY <1>0, ScanRowsType DEF PartRows
<1> QED
  BY <1>1, <1>2, <1>3

(* A disk's rows become rows of its partitions, one of which is printed.   *)
LEMMA DeviceMoves ==
  ASSUME NEW d \in Domains, NEW printed \in Seq(Rows),
         NEW devices \in Seq(Device), devices # <<>>
  PROVE  LET parts == IF Head(devices).label THEN Head(devices).starts ELSE <<>>
         IN (printed \o PartRows(d, <<>>)) \o ScanReport(d, devices)
              = (printed \o PartRows(d, parts)) \o ScanReport(d, Tail(devices))
<1> DEFINE parts == IF Head(devices).label THEN Head(devices).starts ELSE <<>>
<1>1. /\ DeviceRows(d, Head(devices)) \in Seq(Rows)
      /\ ScanReport(d, Tail(devices)) \in Seq(Rows)
      /\ ScanReport(d, devices) = DeviceRows(d, Head(devices)) \o ScanReport(d, Tail(devices))
  BY ScanReportCons
<1>2. DeviceRows(d, Head(devices)) = PartRows(d, parts)
  BY NothingReported DEF DeviceRows, PartRows
<1>3. printed \o PartRows(d, <<>>) = printed
  BY NothingReported, ConcatEmptySeq
<1> HIDE DEF parts
<1>4. PICK a \in Seq(Rows), b \in Seq(Rows) :
        a = PartRows(d, parts) /\ b = ScanReport(d, Tail(devices))
  BY <1>1, <1>2
<1>5. (printed \o a) \o b = printed \o (a \o b)
  BY ONLY Associative
<1>6. (printed \o PartRows(d, <<>>)) \o ScanReport(d, devices)
        = (printed \o PartRows(d, parts)) \o ScanReport(d, Tail(devices))
  BY <1>1, <1>2, <1>3, <1>4, <1>5
<1> QED
  BY <1>6 DEF parts

LEMMA PartitionMoves ==
  ASSUME NEW d \in Domains, NEW printed \in Seq(Rows),
         NEW starts \in Seq(Nat), starts # <<>>, ~opt.quiet
  PROVE  printed \o PartRows(d, starts)
           = Append(printed, ScanRow(d, Head(starts))) \o PartRows(d, Tail(starts))
<1>1. Head(starts) \in Nat
  BY HeadTailProperties
<1>2. PICK x \in Rows, b \in Seq(Rows) :
        x = ScanRow(d, Head(starts)) /\ b = ScanRows(d, Tail(starts))
  BY <1>1, RowTypes, ScanRowsCons
<1>3. PartRows(d, starts) = <<x>> \o b /\ PartRows(d, Tail(starts)) = b
  BY <1>2, ScanRowsCons DEF PartRows
<1>4. <<x>> \in Seq(Rows)
  BY SeqDef
<1>5. Append(printed, x) = printed \o <<x>>
  BY AppendIsConcat
<1>6. (printed \o <<x>>) \o b = printed \o (<<x>> \o b)
  BY ONLY <1>4, Associative
<1> QED
  BY <1>2, <1>3, <1>5, <1>6

LEMMA FilesystemMoves ==
  ASSUME NEW d \in Domains, NEW printed \in Seq(Rows),
         NEW fses \in Seq(Filesystem), fses # <<>>
  PROVE  LET now == IF Shown(Head(fses)) THEN Append(printed, StatRow(d, Head(fses)))
                                         ELSE printed
         IN printed \o StatReport(d, fses) = now \o StatReport(d, Tail(fses))
<1>1. Head(fses) \in Filesystem
  BY HeadTailProperties
<1>2. PICK x \in Rows, b \in Seq(Rows) :
        x = StatRow(d, Head(fses)) /\ b = StatReport(d, Tail(fses))
  BY <1>1, RowTypes, StatReportCons
<1>3. x = FullRow(d, Head(fses))
  BY <1>1, <1>2, RowIsFull
<1>4. StatReport(d, fses) = StatRows(d, Head(fses)) \o b
  BY <1>2, StatReportCons
<1>5. <<x>> \in Seq(Rows)
  BY SeqDef
<1>6. CASE Shown(Head(fses))
  <2>1. StatRows(d, Head(fses)) = <<x>>
    BY <1>3, <1>6 DEF StatRows
  <2>2. Append(printed, x) = printed \o <<x>>
    BY AppendIsConcat
  <2>3. (printed \o <<x>>) \o b = printed \o (<<x>> \o b)
    BY ONLY <1>5, Associative
  <2> QED
    BY <1>2, <1>4, <1>6, <2>1, <2>2, <2>3
<1>7. CASE ~Shown(Head(fses))
  <2>1. StatRows(d, Head(fses)) = <<>>
    BY <1>7 DEF StatRows
  <2>2. <<>> \o b = b
    BY ConcatEmptySeq
  <2> QED
    BY <1>2, <1>4, <1>7, <2>1, <2>2
<1> QED
  BY <1>6, <1>7

LEMMA PrintedStep ==
  ASSUME TypeOK, CallInv, PrintedInv, NEW d \in DOMAIN guest, Work(d)
  PROVE  PrintedInv'
<1>0. guest' = guest /\ opt' = opt
  BY CallStep
<1>s. \A e : /\ FullReport(e)' = FullReport(e)
             /\ \A s : /\ ScanReport(e, s)' = ScanReport(e, s)
                       /\ StatReport(e, s)' = StatReport(e, s)
                       /\ PartRows(e, s)' = PartRows(e, s)
  BY <1>0, ReportSame
<1>1. ASSUME NEW e \in DOMAIN guest, e # d PROVE Printed(e)'
  <2>1. work'[e] = work[e] /\ stream'[e] = stream[e] /\ Printed(e)
    BY <1>1, OthersStay DEF PrintedInv
  <2> QED
    BY <1>s, <2>1 DEF Printed
<1>2. Printed(d)'
  <2>0. /\ Printed(d) /\ CallOK(d) /\ opt.program \in {"scan", "df"}
        /\ d \in Domains /\ stream[d] \in Seq(Rows) /\ DOMAIN stream = DOMAIN guest
        /\ work[d].parts \in Seq(Nat)
    BY GuestType, CallType DEF PrintedInv, CallInv
  <2>n. /\ ScanReport(d, <<>>) = <<>> /\ StatReport(d, <<>>) = <<>> /\ PartRows(d, <<>>) = <<>>
        /\ stream[d] \o <<>> = stream[d]
    BY <2>0, NothingReported, ConcatEmptySeq
  <2>p. {"launch", "list", "add", "device", "done", "compare", "unlock"} \subseteq Places
    BY DEF Places, Starting, Reading, Critical
  <2> USE DEF At, Starting, Reading, Critical
  <2>1. CASE TakeDomain(d)
    BY <1>s, <2>0, <2>p, <2>1, StepSets DEF TakeDomain, Printed
  <2>2. CASE AddDomain(d)
    <3>1. work[d].at = "add" /\ stream[d] = <<>> /\ stream' = stream
      BY <2>0, <2>2 DEF AddDomain, Printed
    <3>2. opt.program = "df" /\ ~guest[d].addable => FullReport(d) = <<>>
      BY DEF FullReport
    <3> QED
      BY <1>s, <2>0, <2>p, <2>2, <3>1, <3>2, StepSets, ReturnSets DEF AddDomain, Printed
  <2>3. CASE Launch(d)
    BY <1>s, <2>0, <2>p, <2>3, StepSets DEF Launch, Printed
  <2>4. CASE List(d)
    <3>1. /\ stream[d] = <<>> /\ stream' = stream /\ work[d].parts = <<>>
          /\ guest[d].addable
      BY <2>0, <2>4 DEF List, Printed, CallOK
    <3>2. /\ opt.program = "scan" => FullReport(d) = ScanReport(d, guest[d].devices)
          /\ opt.program = "df" => FullReport(d) = StatReport(d, guest[d].fses)
      BY <3>1 DEF FullReport
    <3>3. /\ <<>> \o ScanReport(d, guest[d].devices) = ScanReport(d, guest[d].devices)
          /\ <<>> \o StatReport(d, guest[d].fses) = StatReport(d, guest[d].fses)
          /\ <<>> \o <<>> = <<>>
      BY <2>0, GuestType, ReportType, ConcatEmptySeq
    <3> QED
      BY <1>s, <2>0, <2>n, <2>4, <3>1, <3>2, <3>3, ListSets DEF Printed
  <2>5. CASE CallFails(d)
    BY <1>s, <2>0, <2>5, ReturnSets DEF CallFails, Printed
  <2>6. CASE NextDevice(d)
    <3>1. work[d].at = "device" /\ work[d].parts = <<>> /\ stream' = stream
      BY <2>0, <2>6 DEF NextDevice, CallOK
    <3>2. (stream[d] \o PartRows(d, <<>>)) \o ScanReport(d, work[d].todo)
            = (stream[d] \o PartRows(d, work'[d].parts)) \o ScanReport(d, work'[d].todo)
      BY <2>0, <2>6, <3>1, DeviceSets, DeviceMoves
    <3> QED
      BY <1>s, <2>0, <2>6, <3>1, <3>2, DeviceSets DEF Printed
  <2>7. CASE NextPartition(d)
    BY <1>s, <2>0, <2>7, PartitionSets DEF NextPartition, Printed
  <2>8. CASE Lock(d)
    BY <1>s, <2>0, <2>p, <2>8, StepSets DEF Lock, Printed
  <2>9. CASE Compare(d)
    BY <1>s, <2>0, <2>9, CompareSets DEF Compare, Printed
  <2>10. CASE Assign(d)
    BY <1>s, <2>0, <2>p, <2>10, StepSets DEF Assign, Printed
  <2>11. CASE Unlock(d)
    <3>1. stream[d] \o PartRows(d, work[d].parts)
            = stream'[d] \o PartRows(d, Tail(work[d].parts))
      <4>1. CASE opt.quiet
        BY <2>11, <4>1 DEF Unlock, PartRows
      <4>2. CASE ~opt.quiet
        <5>1. stream'[d] = Append(stream[d], ScanRow(d, Head(work[d].parts)))
          BY <2>0, <2>11, <4>2 DEF Unlock
        <5> QED
          BY <2>0, <2>11, <4>2, <5>1, UnlockSets, PartitionMoves
      <4> QED
        BY <4>1, <4>2
    <3> QED
      BY <1>s, <2>0, <2>11, <3>1, UnlockSets DEF Unlock, Printed
  <2>12. CASE EndDevice(d)
    BY <1>s, <2>0, <2>p, <2>12, StepSets DEF EndDevice, Printed
  <2>13. CASE NextFilesystem(d)
    <3>1. stream'[d] = IF Shown(Head(work[d].todo))
                       THEN Append(stream[d], StatRow(d, Head(work[d].todo)))
                       ELSE stream[d]
      BY <2>0, <2>13 DEF NextFilesystem
    <3>2. stream[d] \o StatReport(d, work[d].todo)
            = stream'[d] \o StatReport(d, work'[d].todo)
      BY <2>0, <2>13, <3>1, FilesystemSets, FilesystemMoves
    <3> QED
      BY <1>s, <2>0, <2>13, <3>2, FilesystemSets DEF NextFilesystem, Printed
  <2>14. CASE NameFails(d)
    BY <1>s, <2>0, <2>14 DEF NameFails, Printed
  <2>15. CASE EndList(d)
    <3>1. FullReport(d) = stream[d]
      BY <2>0, <2>n, <2>15 DEF EndList, Printed, CallOK
    <3> QED
      BY <1>s, <2>0, <2>15, <3>1, ReturnSets DEF EndList, Printed
  <2>16. CASE Retire(d)
    BY <1>s, <2>0, <2>p, <2>16, StepSets DEF Retire, Printed
  <2> QED
    BY <2>1, <2>2, <2>3, <2>4, <2>5, <2>6, <2>7, <2>8, <2>9, <2>10, <2>11, <2>12, <2>13,
       <2>14, <2>15, <2>16 DEF Work
<1> QED
  BY <1>0, <1>1, <1>2 DEF PrintedInv

-----------------------------------------------------------------------------
(* The invariant.                                                          *)

LEMMA StartsRight == Init => IInv
<1> SUFFICES ASSUME Init PROVE IInv
  OBVIOUS
<1> DEFINE c == [at |-> "waiting", todo |-> <<>>, parts |-> <<>>,
                 alignment |-> NoStart, smaller |-> FALSE, result |-> 0]
<1>0. c \in Call
  <2>1. <<>> \in Seq(Device) /\ <<>> \in Seq(Nat)
    BY EmptySeq
  <2> QED
    BY <2>1 DEF Call, Places, NoStart
<1>1. /\ work = [d \in DOMAIN guest |-> c]
      /\ worst = UintMax /\ mutex = Nobody /\ exit = -1 /\ stdout = {}
      /\ stream = [d \in DOMAIN guest |-> <<>>]
      /\ \E s \in Setups : opt = s.opt /\ guest = s.guest
  BY DEF Init
<1>2. /\ c.at = "waiting" /\ c.parts = <<>>
  OBVIOUS
<1> HIDE DEF c
<1>3. TypeOK
  <2>1. <<>> \in Seq(Rows)
    BY EmptySeq
  <2> QED
    BY <1>0, <1>1, <1>2, <2>1 DEF TypeOK, UintMax
<1>4. \A d \in DOMAIN guest : work[d].at = "waiting" /\ work[d].parts = <<>>
  BY <1>1, <1>2
<1>5. MutexInv
  BY <1>1, <1>3, <1>4, GuestType DEF MutexInv, Critical
<1>6. CallInv
  BY <1>4 DEF CallInv, CallOK, Starting, Reading, Critical
<1>7. WorstInv
  BY <1>1, <1>4 DEF WorstInv, Covered, Ahead, Reading, Critical
<1>8. PrintedInv
  BY <1>1, <1>4 DEF PrintedInv, Printed, Reading, Critical
<1>9. ExitInv
  BY <1>1 DEF ExitInv
<1> QED
  BY <1>3, <1>5, <1>6, <1>7, <1>8, <1>9 DEF IInv

(* A step of the calling thread, which only sets the exit status.          *)
LEMMA ExitStep ==
  ASSUME IInv, exit' \in {-1, 0, 1, 2, 3}, ExitInv',
         UNCHANGED <<guest, opt, worst, mutex, work, stream, stdout>>
  PROVE  IInv'
<1>1. TypeOK'
  <2>1. \A e : Label(e)' = Label(e)
    BY DEF Label, All, Drives
  <2>2. \A e : (\A start : ScanRow(e, start)' = ScanRow(e, start))
    BY <2>1 DEF ScanRow
  <2>3. \A e : (\A fs : StatRow(e, fs)' = StatRow(e, fs))
    BY <2>1 DEF StatRow, Size, Percent
  <2>4. Rows' = Rows
    BY <2>2, <2>3 DEF Rows
  <2> QED
    BY <2>4 DEF IInv, TypeOK
<1>2. MutexInv' /\ CallInv' /\ WorstInv'
  BY DEF IInv, MutexInv, CallInv, CallOK, WorstInv, Covered, Ahead, Alignments
<1>3. PrintedInv'
  BY ReportSame DEF IInv, PrintedInv, Printed
<1> QED
  BY <1>1, <1>2, <1>3 DEF IInv

LEMMA KeepsRight == IInv /\ [Next]_vars => IInv'
<1> SUFFICES ASSUME IInv, [Next]_vars PROVE IInv'
  OBVIOUS
<1>0. TypeOK /\ MutexInv /\ CallInv /\ WorstInv /\ PrintedInv /\ ExitInv
  BY DEF IInv
<1>1. CASE CheckOptions
  BY <1>1, ExitStep DEF CheckOptions, ExitInv
<1>2. ASSUME NEW d \in DOMAIN guest, Work(d) PROVE IInv'
  <2>1. ExitInv'
    BY <1>0, <1>2, CallStep DEF ExitInv
  <2> QED
    BY <1>0, <1>2, <2>1, TypeStep, MutexStep, CallInvStep, WorstInvStep, PrintedStep DEF IInv
<1>3. CASE Finish
  <2>1. exit' \in {0, 1, 2, 3}
    BY <1>3 DEF Finish, ScanStatus
  <2>2. ExitInv'
    <3> SUFFICES ASSUME exit' \in {0, 2, 3}
                 PROVE  /\ \A d \in DOMAIN guest : work[d].at = "done" /\ work[d].result = 0
                        /\ opt.program = "scan" => exit' = ScanStatus(worst)
      BY <1>3 DEF Finish, ExitInv
    <3>1. ~ \E d \in DOMAIN guest : work[d].result = -1
      BY <1>3 DEF Finish
    <3>2. \A d \in DOMAIN guest : work[d].result \in {0, -1}
      BY <1>0, CallType
    <3> QED
      BY <1>3, <3>1, <3>2 DEF Finish
  <2> QED
    BY <1>3, <2>1, <2>2, ExitStep DEF Finish
<1>4. CASE UNCHANGED vars
  <2>1. exit' \in {-1, 0, 1, 2, 3} /\ ExitInv'
    BY <1>0, <1>4 DEF vars, TypeOK, ExitInv
  <2> QED
    BY <1>4, <2>1, ExitStep DEF vars
<1> QED
  BY <1>1, <1>2, <1>3, <1>4 DEF Next

(* Every reachable state of scan.c and df.c satisfies the invariant.       *)
THEOREM Invariance == Spec => []IInv
BY StartsRight, KeepsRight, PTL DEF Spec

-----------------------------------------------------------------------------
(* What a user can rely on.                                                *)

(* Calls, streams and the exit status are always of their types, and a     *)
(* guest is on standard output exactly when its call is done.              *)
THEOREM TypeCorrect == Spec => []TypeOK
<1>1. IInv => TypeOK
  BY DEF IInv
<1> QED
  BY <1>1, Invariance, PTL

(* worst_alignment_mutex (scan.c 292-302): two threads never compare and   *)
(* assign worst_alignment at the same time.                                *)
THEOREM OneThreadCompares ==
  Spec => [](\A d, e \in DOMAIN guest :
               work[d].at \in Critical /\ work[e].at \in Critical => d = e)
<1>1. IInv => \A d, e \in DOMAIN guest :
                work[d].at \in Critical /\ work[e].at \in Critical => d = e
  BY DEF IInv, MutexInv
<1> QED
  BY <1>1, Invariance, PTL

(* worst_alignment (scan.c 334-338) only changes for the worse partition,  *)
(* and only while the thread that changes it holds the mutex.              *)
THEOREM WorstIsLocked ==
  Spec => [][worst' # worst => /\ worst' < worst
                               /\ mutex \in DOMAIN guest /\ mutex' = mutex
                               /\ work[mutex].alignment = worst']_vars
<1>1. IInv /\ [Next]_vars =>
        [worst' # worst => /\ worst' < worst
                           /\ mutex \in DOMAIN guest /\ mutex' = mutex
                           /\ work[mutex].alignment = worst']_vars
  <2> SUFFICES ASSUME IInv, Next, worst' # worst
               PROVE  /\ worst' < worst
                      /\ mutex \in DOMAIN guest /\ mutex' = mutex
                      /\ work[mutex].alignment = worst'
    OBVIOUS
  <2>1. PICK d \in DOMAIN guest : Work(d)
    BY DEF Next, CheckOptions, Finish
  <2>2. /\ Assign(d) /\ mutex' = mutex
        /\ work[d].smaller <=> work[d].alignment < worst
        /\ worst' = IF work[d].smaller THEN work[d].alignment ELSE worst
    BY <2>1, SharedStep DEF IInv
  <2>3. mutex = d
    BY <2>2 DEF IInv, MutexInv, Critical, Assign, At
  <2> QED
    BY <2>2, <2>3
<1> QED
  BY <1>1, Invariance, PTL DEF Spec

LEMMA NothingAhead ==
  ASSUME IInv, opt.program = "scan", exit \in {0, 2, 3}
  PROVE  \A a \in Alignments : a \in Nat /\ worst <= a
<1> SUFFICES ASSUME NEW d \in DOMAIN guest, NEW start \in Starts(guest[d].devices)
             PROVE  AlignmentOf(start) \in Nat /\ worst <= AlignmentOf(start)
  BY DEF Alignments
<1>1. work[d].at = "done" /\ work[d].result = 0
  BY DEF IInv, ExitInv
<1>2. Ahead(d) = {}
  BY <1>1 DEF Ahead, Starting, Reading, Critical
<1>3. Covered(d)
  BY DEF IInv, WorstInv
<1>4. AlignmentOf(start) \in Nat
  BY GuestType, StartsType, AlignmentType DEF IInv
<1> QED
  BY <1>2, <1>3, <1>4 DEF Covered

(* The exit status of virt-alignment-scan is that of the worst partition   *)
(* of all guests, however the threads interleave (scan.c 334-338); it is 2 *)
(* or 3 for a worst alignment of 1K or 2K.                                 *)
THEOREM ExitStatusIsRight == Spec => []ExitStatusIsOfTheWorst
<1>1. IInv => ExitStatusIsOfTheWorst
  <2> SUFFICES ASSUME IInv, opt.program = "scan", exit \in {0, 2, 3}
               PROVE  exit \in CASE AllAligned(16) -> {0} [] AllAligned(12) /\ ~AllAligned(16) -> {2}
                                  [] AllAligned(10) /\ ~AllAligned(12) -> {2, 3} [] ~AllAligned(10) -> {3}
    BY DEF ExitStatusIsOfTheWorst
  <2>1. \A a \in Alignments : a \in Nat /\ worst <= a
    BY NothingAhead
  <2>2. worst \in Nat /\ worst \in Alignments \cup {100} /\ exit = ScanStatus(worst)
    BY DEF IInv, TypeOK, WorstInv, ExitInv, UintMax
  <2>3. /\ AllAligned(10) <=> worst >= 10
        /\ AllAligned(12) <=> worst >= 12
        /\ AllAligned(16) <=> worst >= 16
    BY <2>1, <2>2 DEF AllAligned
  <2>4. CASE worst < 10
    BY <2>2, <2>3, <2>4 DEF ScanStatus
  <2>5. CASE worst \in 10..11
    BY <2>2, <2>3, <2>5 DEF ScanStatus
  <2>6. CASE worst \in 12..15
    BY <2>2, <2>3, <2>6 DEF ScanStatus
  <2>7. CASE worst >= 16
    BY <2>2, <2>3, <2>7 DEF ScanStatus
  <2> QED
    BY <2>2, <2>4, <2>5, <2>6, <2>7
<1> QED
  BY <1>1, Invariance, PTL

(* A status of success means that every guest was reported in full: each   *)
(* partition and each mounted filesystem has its row, in order, and every  *)
(* stream was copied to standard output.                                   *)
THEOREM SuccessReportsAll == Spec => []SuccessIsComplete
<1>1. IInv => SuccessIsComplete
  <2> SUFFICES ASSUME IInv, exit \in {0, 2, 3}
               PROVE  /\ stdout = DOMAIN guest
                      /\ \A d \in DOMAIN guest : stream[d] = FullReport(d)
    BY DEF SuccessIsComplete
  <2>1. \A d \in DOMAIN guest : work[d].at = "done" /\ work[d].result = 0
    BY DEF IInv, ExitInv
  <2>2. stdout = {d \in DOMAIN guest : work[d].at = "done"}
    BY DEF IInv, TypeOK
  <2> QED
    BY <2>1, <2>2 DEF IInv, PrintedInv, Printed
<1> QED
  BY <1>1, Invariance, PTL

-----------------------------------------------------------------------------
(***************************************************************************)
(* FilesystemsReport, for guests of any size with any names and labels,    *)
(* and any command lines.                                                  *)
(***************************************************************************)

(* Sequences: the first elements of one, and what is selected from one.    *)

Initial(s, n) == [i \in 1..n |-> s[i]]

Regrouped(a, b, c, d) == (a \o (b \o c)) \o d = (a \o b) \o (c \o d)

LEMMA FourParts ==
  ASSUME NEW R, NEW a \in Seq(R), NEW b \in Seq(R), NEW c \in Seq(R), NEW d \in Seq(R)
  PROVE  Regrouped(a, b, c, d)
<1>1. b \o c \in Seq(R) /\ c \o d \in Seq(R)
  BY ConcatProperties
<1>2. (a \o (b \o c)) \o d = a \o ((b \o c) \o d)
  BY ONLY <1>1, Associative, a \in Seq(R), d \in Seq(R)
<1>3. (b \o c) \o d = b \o (c \o d)
  BY ONLY Associative
<1>4. (a \o b) \o (c \o d) = a \o (b \o (c \o d))
  BY ONLY <1>1, Associative, a \in Seq(R), b \in Seq(R)
<1> QED
  BY <1>2, <1>3, <1>4 DEF Regrouped

LEMMA InitialAppend ==
  ASSUME NEW R, NEW s \in Seq(R), NEW n \in Nat, n < Len(s)
  PROVE  Initial(s, n) \in Seq(R) /\ Initial(s, n + 1) = Append(Initial(s, n), s[n + 1])
<1> PICK N \in Nat : N = Len(s)
  BY LenProperties
<1>1. \A i \in 1..N : s[i] \in R
  BY ElementOfSeq
<1>2. Initial(s, n) \in [1..n -> R] /\ Initial(s, n + 1) \in [1..(n + 1) -> R]
  BY <1>1 DEF Initial
<1>3. /\ \A i \in 1..n : Initial(s, n + 1)[i] = Initial(s, n)[i]
      /\ Initial(s, n + 1)[n + 1] = s[n + 1]
  BY DEF Initial
<1>4. PICK f \in [1..n -> R], g \in [1..(n + 1) -> R] :
        f = Initial(s, n) /\ g = Initial(s, n + 1)
  BY <1>2
<1>5. f \in Seq(R) /\ g = Append(f, g[n + 1])
  BY <1>3, <1>4, AppendedFunction
<1> QED
  BY <1>3, <1>4, <1>5

LEMMA InitialEnds ==
  ASSUME NEW R, NEW s \in Seq(R)
  PROVE  /\ Initial(s, 0) = <<>>
         /\ Initial(s, Len(s)) = s
<1>1. s \in [1..Len(s) -> R] /\ Len(s) \in Nat
  BY LenProperties
<1>2. Initial(s, Len(s)) = s
  BY <1>1 DEF Initial
<1>3. Initial(s, 0) = <<>>
  BY DEF Initial
<1> QED
  BY <1>2, <1>3

LEMMA InitialType ==
  ASSUME NEW R, NEW s \in Seq(R), NEW n \in Nat, n <= Len(s)
  PROVE  Initial(s, n) \in Seq(R) /\ Len(Initial(s, n)) = n
<1>1. \A i \in 1..n : s[i] \in R
  BY ElementOfSeq, LenProperties
<1> QED
  BY <1>1 DEF Initial

LEMMA FlattenInitial ==
  ASSUME NEW R, NEW s \in Seq(Seq(R)), NEW n \in Nat, n < Len(s)
  PROVE  /\ FlattenSeq(Initial(s, n)) \in Seq(R)
         /\ s[n + 1] \in Seq(R)
         /\ FlattenSeq(Initial(s, n + 1)) = FlattenSeq(Initial(s, n)) \o s[n + 1]
<1>1. s[n + 1] \in Seq(R)
  BY ElementOfSeq, LenProperties
<1>2. Initial(s, n) \in Seq(Seq(R)) /\ Initial(s, n + 1) = Append(Initial(s, n), s[n + 1])
  BY InitialAppend
<1>3. PICK u \in Seq(Seq(R)), x \in Seq(R) : u = Initial(s, n) /\ x = s[n + 1]
  BY <1>1, <1>2
<1>4. FlattenSeq(u) \in Seq(R) /\ FlattenSeq(Append(u, x)) = FlattenSeq(u) \o x
  BY ONLY FlattenAppend
<1> QED
  BY <1>1, <1>2, <1>3, <1>4

(* The first elements make the beginning of what all of them make.         *)
LEMMA FlattenIsLonger ==
  ASSUME NEW R, NEW s \in Seq(Seq(R))
  PROVE  \A n \in Nat : n <= Len(s) =>
           /\ FlattenSeq(Initial(s, n)) \in Seq(R)
           /\ \E y \in Seq(R) : FlattenSeq(s) = FlattenSeq(Initial(s, n)) \o y
<1> PICK N \in Nat : N = Len(s)
  BY LenProperties
<1> DEFINE Holds(n) == /\ FlattenSeq(Initial(s, n)) \in Seq(R)
                       /\ \E y \in Seq(R) : FlattenSeq(s) = FlattenSeq(Initial(s, n)) \o y
<1> DEFINE S == {k \in Nat : k <= N => Holds(N - k)}
<1>1. ASSUME NEW k \in Nat, \A m \in 0..(k - 1) : m \in S PROVE k \in S
  <2> SUFFICES ASSUME k <= N PROVE Holds(N - k)
    OBVIOUS
  <2>1. CASE k = 0
    <3>1. Initial(s, N) = s
      BY InitialEnds
    <3>2. FlattenSeq(s) \in Seq(R)
      <4>1. FlattenSeq(s) \in Seq(R)
        BY ONLY s \in Seq(Seq(R)), <<>> \in Seq(R), FlattenAppend
      <4> QED
        BY <4>1
    <3>3. FlattenSeq(s) = FlattenSeq(s) \o <<>> /\ <<>> \in Seq(R)
      BY <3>2, ConcatEmptySeq, EmptySeq
    <3>4. N - k = N
      BY <2>1
    <3>5. Holds(N)
      BY <3>1, <3>2, <3>3
    <3> QED
      BY <3>4, <3>5
  <2>2. CASE k # 0
    <3>1. k - 1 \in 0..(k - 1) /\ k - 1 <= N
      BY <2>2
    <3>2. PICK n \in Nat : n = N - k /\ n < Len(s) /\ n + 1 = N - (k - 1)
      <4>1. N - k \in Nat /\ N - k < N /\ (N - k) + 1 = N - (k - 1)
        BY <2>2
      <4> QED
        BY <4>1
    <3>3. Holds(N - (k - 1))
      BY <1>1, <3>1
    <3>4. Holds(n + 1)
      BY <3>2, <3>3
    <3>5. PICK y \in Seq(R) : FlattenSeq(s) = FlattenSeq(Initial(s, n + 1)) \o y
      BY <3>4
    <3>6. /\ FlattenSeq(Initial(s, n)) \in Seq(R) /\ s[n + 1] \in Seq(R)
          /\ FlattenSeq(Initial(s, n + 1)) = FlattenSeq(Initial(s, n)) \o s[n + 1]
      BY <3>2, FlattenInitial
    <3>7. PICK a \in Seq(R), b \in Seq(R) : a = FlattenSeq(Initial(s, n)) /\ b = s[n + 1]
      BY <3>6
    <3>8. (a \o b) \o y = a \o (b \o y) /\ b \o y \in Seq(R)
      BY ONLY Associative, ConcatProperties
    <3> QED
      BY <3>2, <3>5, <3>6, <3>7, <3>8
  <2> QED
    BY <2>1, <2>2
<1> HIDE DEF S, Holds
<1>2. Nat \subseteq S
  BY <1>1, CompleteInduction
<1>3. ASSUME NEW n \in Nat, n <= N PROVE Holds(n)
  <2>1. PICK k \in Nat : k = N - n /\ k <= N /\ N - k = n
    <3>1. N - n \in Nat /\ N - n <= N /\ N - (N - n) = n
      BY <1>3
    <3> QED
      BY <3>1
  <2>2. k \in S
    BY <1>2
  <2> QED
    BY <2>1, <2>2 DEF S
<1> QED
  BY <1>3 DEF Holds

(* Selected, on the first n places.                                        *)
Piece(s, K, k) == IF k \in K THEN <<s[k]>> ELSE <<>>
Pieces(s, K) == [k \in DOMAIN s |-> Piece(s, K, k)]

LEMMA SelectedIs == ASSUME NEW s, NEW K PROVE Selected(s, K) = FlattenSeq(Pieces(s, K))
BY DEF Selected, Pieces, Piece

LEMMA PiecesType ==
  ASSUME NEW R, NEW s \in Seq(R), NEW K
  PROVE  /\ Pieces(s, K) \in Seq(Seq(R)) /\ Len(Pieces(s, K)) = Len(s)
         /\ \A k \in 1..Len(s) : Pieces(s, K)[k] = Piece(s, K, k)
<1> PICK N \in Nat : N = Len(s) /\ DOMAIN s = 1..N
  BY LenProperties
<1>1. \A k \in 1..N : Piece(s, K, k) \in Seq(R)
  <2>1. \A k \in 1..N : s[k] \in R
    BY ElementOfSeq
  <2> QED
    BY <2>1 DEF Piece
<1> QED
  BY <1>1 DEF Pieces

(* What is selected of the first n: every element that was wanted and no   *)
(* other; the first one stays the first.                                   *)
IsSelection(s, n, K, t) ==
  /\ \A j \in 1..Len(t) : \E k \in 1..n : k \in K /\ t[j] = s[k]
  /\ \A k \in 1..n : k \in K => \E j \in 1..Len(t) : t[j] = s[k]
  /\ (n > 0 /\ 1 \in K) => (Len(t) > 0 /\ t[1] = s[1])

LEMMA SelectsOneMore ==
  ASSUME NEW R, NEW s, NEW K, NEW t \in Seq(R), NEW n \in Nat, s[n + 1] \in R,
         IsSelection(s, n, K, t)
  PROVE  IsSelection(s, n + 1, K, t \o Piece(s, K, n + 1))
<1> PICK L \in Nat : L = Len(t)
  BY LenProperties
<1>1. CASE n + 1 \notin K
  <2>1. t \o Piece(s, K, n + 1) = t
    BY <1>1, ConcatEmptySeq DEF Piece
  <2>2. n = 0 => 1 \notin K
    BY <1>1
  <2>3. \A k \in 1..(n + 1) : k \in K => k \in 1..n
    BY <1>1
  <2> QED
    BY <2>1, <2>2, <2>3 DEF IsSelection
<1>2. CASE n + 1 \in K
  <2> PICK x \in R : x = s[n + 1]
    OBVIOUS
  <2>1. PICK u \in Seq(R) : u = Append(t, x) /\ u = t \o Piece(s, K, n + 1)
    <3>1. Append(t, x) \in Seq(R) /\ Append(t, x) = t \o <<x>>
      BY AppendProperties, AppendIsConcat
    <3> QED
      BY <1>2, <3>1 DEF Piece
  <2>2. /\ Len(u) = L + 1 /\ u[L + 1] = s[n + 1]
        /\ \A j \in 1..L : u[j] = t[j]
    <3>1. /\ Len(Append(t, x)) = Len(t) + 1 /\ Append(t, x)[Len(t) + 1] = x
          /\ \A j \in 1..Len(t) : Append(t, x)[j] = t[j]
      BY ONLY t \in Seq(R), x \in R, AppendProperties
    <3> QED
      BY <2>1, <3>1
  <2>3. /\ \A j \in 1..L : \E k \in 1..n : k \in K /\ t[j] = s[k]
        /\ \A k \in 1..n : k \in K => \E j \in 1..L : t[j] = s[k]
        /\ (n > 0 /\ 1 \in K) => (L > 0 /\ t[1] = s[1])
    BY DEF IsSelection
  <2>4. \A j \in 1..(L + 1) : \E k \in 1..(n + 1) : k \in K /\ u[j] = s[k]
    <3> SUFFICES ASSUME NEW j \in 1..(L + 1)
                 PROVE  \E k \in 1..(n + 1) : k \in K /\ u[j] = s[k]
      OBVIOUS
    <3>1. CASE j = L + 1
      BY <1>2, <2>2, <3>1
    <3>2. CASE j # L + 1
      <4>0. j \in 1..L
        BY <3>2
      <4>1. PICK k \in 1..n : k \in K /\ t[j] = s[k]
        BY <2>3, <4>0
      <4> QED
        BY <2>2, <4>0, <4>1
    <3> QED
      BY <3>1, <3>2
  <2>5. \A k \in 1..(n + 1) : k \in K => \E j \in 1..(L + 1) : u[j] = s[k]
    <3> SUFFICES ASSUME NEW k \in 1..(n + 1), k \in K
                 PROVE  \E j \in 1..(L + 1) : u[j] = s[k]
      OBVIOUS
    <3>1. CASE k = n + 1
      BY <2>2, <3>1
    <3>2. CASE k # n + 1
      <4>1. PICK j \in 1..L : t[j] = s[k]
        BY <2>3, <3>2
      <4> QED
        BY <2>2, <4>1
    <3> QED
      BY <3>1, <3>2
  <2>6. 1 \in K => u[1] = s[1]
    <3>1. CASE n = 0
      <4>1. L = 0
        BY <2>3, <3>1
      <4> QED
        BY <2>2, <3>1, <4>1
    <3>2. CASE n # 0
      BY <2>2, <2>3, <3>2
    <3> QED
      BY <3>1, <3>2
  <2>7. Len(u) > 0
    BY <2>2
  <2>8. IsSelection(s, n + 1, K, u)
    <3>1. 1..Len(u) = 1..(L + 1)
      BY <2>2
    <3> QED
      BY <2>4, <2>5, <2>6, <2>7, <3>1, Zenon DEF IsSelection
  <2> QED
    BY <2>1, <2>8
<1> QED
  BY <1>1, <1>2

LEMMA InitialSelection ==
  ASSUME NEW R, NEW s \in Seq(R), NEW K
  PROVE  \A n \in Nat : n <= Len(s) =>
           /\ FlattenSeq(Initial(Pieces(s, K), n)) \in Seq(R)
           /\ IsSelection(s, n, K, FlattenSeq(Initial(Pieces(s, K), n)))
<1> PICK N \in Nat : N = Len(s)
  BY LenProperties
<1> PICK p \in Seq(Seq(R)) : /\ p = Pieces(s, K) /\ Len(p) = N
                             /\ \A k \in 1..N : p[k] = Piece(s, K, k)
  BY PiecesType
<1> DEFINE S == {n \in Nat : n <= N => /\ FlattenSeq(Initial(p, n)) \in Seq(R)
                                       /\ IsSelection(s, n, K, FlattenSeq(Initial(p, n)))}
<1>1. ASSUME NEW n \in Nat, \A m \in 0..(n - 1) : m \in S PROVE n \in S
  <2> SUFFICES ASSUME n <= N
               PROVE  /\ FlattenSeq(Initial(p, n)) \in Seq(R)
                      /\ IsSelection(s, n, K, FlattenSeq(Initial(p, n)))
    OBVIOUS
  <2>1. CASE n = 0
    <3>1. Initial(p, 0) = <<>>
      BY DEF Initial
    <3>2. FlattenSeq(Initial(p, 0)) = <<>>
      BY <3>1, FlattenNothing
    <3>3. IsSelection(s, 0, K, <<>>)
      BY EmptySeq DEF IsSelection
    <3>4. <<>> \in Seq(R)
      BY EmptySeq
    <3> QED
      BY <2>1, <3>2, <3>3, <3>4
  <2>2. CASE n # 0
    <3>1. PICK m \in Nat : m = n - 1 /\ m + 1 = n /\ m < N /\ m \in 0..(n - 1)
      BY <2>2
    <3>2. /\ FlattenSeq(Initial(p, m)) \in Seq(R)
          /\ IsSelection(s, m, K, FlattenSeq(Initial(p, m)))
      BY <1>1, <3>1
    <3>3. /\ p[m + 1] \in Seq(R)
          /\ FlattenSeq(Initial(p, m + 1)) = FlattenSeq(Initial(p, m)) \o p[m + 1]
      BY <3>1, FlattenInitial
    <3>4. p[m + 1] = Piece(s, K, m + 1)
      BY <3>1
    <3>5. PICK t \in Seq(R) : t = FlattenSeq(Initial(p, m))
      BY <3>2
    <3>6. s[m + 1] \in R
      BY <3>1, ElementOfSeq
    <3>7. IsSelection(s, m, K, t)
      BY <3>2, <3>5
    <3>8. IsSelection(s, m + 1, K, t \o Piece(s, K, m + 1))
      BY ONLY <3>6, <3>7, t \in Seq(R), m \in Nat, SelectsOneMore
    <3>9. t \o p[m + 1] \in Seq(R)
      BY <3>3, ConcatProperties
    <3> QED
      BY <3>1, <3>3, <3>4, <3>5, <3>8, <3>9
  <2> QED
    BY <2>1, <2>2
<1> HIDE DEF S
<1>2. Nat \subseteq S
  BY <1>1, CompleteInduction
<1> QED
  BY <1>2 DEF S

LEMMA SelectedType ==
  ASSUME NEW R, NEW s \in Seq(R), NEW K
  PROVE  Selected(s, K) \in Seq(R) /\ IsSelection(s, Len(s), K, Selected(s, K))
<1> PICK N \in Nat : N = Len(s)
  BY LenProperties
<1>1. PICK p \in Seq(Seq(R)) : p = Pieces(s, K) /\ Len(p) = N
  BY PiecesType
<1>2. Initial(p, N) = p
  BY <1>1, InitialEnds
<1>3. /\ FlattenSeq(Initial(p, N)) \in Seq(R)
      /\ IsSelection(s, N, K, FlattenSeq(Initial(p, N)))
  BY <1>1, InitialSelection
<1> QED
  BY <1>1, <1>2, <1>3, SelectedIs

(* A set of natural numbers that is not empty has a least element.         *)
LEMMA LeastElement ==
  ASSUME NEW K \in SUBSET Nat, K # {}
  PROVE  Min(K) \in K
<1> SUFFICES ASSUME ~(\E k \in K : \A j \in K : k <= j) PROVE FALSE
  BY DEF Min
<1> DEFINE S == Nat \ K
<1>1. ASSUME NEW n \in Nat, \A m \in 0..(n - 1) : m \in S PROVE n \in S
  BY <1>1
<1> HIDE DEF S
<1>2. Nat \subseteq S
  BY <1>1, CompleteInduction
<1> QED
  BY <1>2 DEF S

-----------------------------------------------------------------------------
(* Reading CSV: from the state r of the reader the tokens t lead to q.     *)

Inside(lines, row, field, closed) ==
  [rows |-> lines, row |-> row, field |-> field, quoted |-> TRUE, closed |-> closed]
Outside(lines, row, field, closed) ==
  [rows |-> lines, row |-> row, field |-> field, quoted |-> FALSE, closed |-> closed]

Reads(r, t, q) ==
  \E g : /\ g[0] = r /\ g[Len(t)] = q
         /\ \A n \in 1..Len(t) : g[n] = Read(g[n - 1], t[n])

LEMMA ReadsNothing == ASSUME NEW r PROVE Reads(r, <<>>, r)
<1>1. [i \in {0} |-> r][0] = r /\ Len(<<>>) = 0
  BY EmptySeq
<1>2. PICK g : g[0] = r
  BY <1>1
<1> QED
  BY <1>1, <1>2 DEF Reads

LEMMA ReadsConcat ==
  ASSUME NEW R, NEW t \in Seq(R), NEW u \in Seq(R), NEW r, NEW q, NEW p,
         Reads(r, t, q), Reads(q, u, p)
  PROVE  Reads(r, t \o u, p)
<1> PICK M \in Nat : M = Len(t)
  BY LenProperties
<1> PICK N \in Nat : N = Len(u)
  BY LenProperties
<1>1. PICK g : /\ g[0] = r /\ g[M] = q
               /\ \A n \in 1..M : g[n] = Read(g[n - 1], t[n])
  BY Zenon DEF Reads
<1>2. PICK h : /\ h[0] = q /\ h[N] = p
               /\ \A n \in 1..N : h[n] = Read(h[n - 1], u[n])
  BY Zenon DEF Reads
<1>3. PICK v : /\ v = t \o u /\ Len(v) = M + N
               /\ \A n \in 1..(M + N) : v[n] = IF n <= M THEN t[n] ELSE u[n - M]
  <2>1. /\ Len(t \o u) = Len(t) + Len(u)
        /\ \A n \in 1..(Len(t) + Len(u)) : (t \o u)[n] = IF n <= Len(t) THEN t[n]
                                                                       ELSE u[n - Len(t)]
    BY ONLY t \in Seq(R), u \in Seq(R), ConcatProperties
  <2>2. /\ Len(t \o u) = M + N
        /\ \A n \in 1..(M + N) : (t \o u)[n] = IF n <= M THEN t[n] ELSE u[n - M]
    BY <2>1
  <2> QED
    BY <2>2
<1>4. PICK f : f = [n \in 0..(M + N) |-> IF n <= M THEN g[n] ELSE h[n - M]]
  OBVIOUS
<1>5. f[0] = r
  BY <1>1, <1>4
<1>6. f[M + N] = p
  <2>1. CASE N = 0
    BY <1>1, <1>2, <1>4, <2>1
  <2>2. CASE N # 0
    <3>1. M + N \in 0..(M + N) /\ ~(M + N <= M) /\ (M + N) - M = N
      BY <2>2
    <3> QED
      BY <1>2, <1>4, <3>1
  <2> QED
    BY <2>1, <2>2
<1>7. ASSUME NEW n \in 1..(M + N) PROVE f[n] = Read(f[n - 1], v[n])
  <2>1. CASE n <= M
    <3>1. n \in 1..M /\ n - 1 \in 0..(M + N) /\ n \in 0..(M + N) /\ n - 1 <= M
      BY <2>1
    <3>2. f[n] = g[n] /\ f[n - 1] = g[n - 1] /\ v[n] = t[n]
      BY <1>3, <1>4, <2>1, <3>1
    <3> QED
      BY <1>1, <3>1, <3>2
  <2>2. CASE n > M
    <3>1. PICK k \in 1..N : k = n - M /\ n \in 0..(M + N) /\ n - 1 \in 0..(M + N)
      <4>1. n - M \in 1..N /\ n \in 0..(M + N) /\ n - 1 \in 0..(M + N)
        BY <2>2
      <4> QED
        BY <4>1
    <3>2. f[n] = h[k] /\ v[n] = u[k]
      <4>1. ~(n <= M)
        BY <2>2
      <4> QED
        BY <1>3, <1>4, <3>1, <4>1
    <3>3. f[n - 1] = h[k - 1]
      <4>1. CASE k = 1
        <5>1. n - 1 = M /\ k - 1 = 0
          BY <3>1, <4>1
        <5>2. f[n - 1] = g[M]
          BY <1>4, <3>1, <5>1
        <5> QED
          BY <1>1, <1>2, <5>1, <5>2
      <4>2. CASE k # 1
        <5>1. ~(n - 1 <= M) /\ (n - 1) - M = k - 1
          BY <3>1, <4>2
        <5> QED
          BY <1>4, <3>1, <5>1
      <4> QED
        BY <4>1, <4>2
    <3> QED
      BY <1>2, <3>2, <3>3
  <2> QED
    BY <2>1, <2>2
<1>8. Reads(r, v, p)
  <2>1. f[Len(v)] = p /\ \A n \in 1..Len(v) : f[n] = Read(f[n - 1], v[n])
    BY <1>3, <1>6, <1>7, Zenon
  <2> QED
    BY <1>5, <2>1, Zenon DEF Reads
<1> QED
  BY <1>3, <1>8

LEMMA ReadsOne == ASSUME NEW r, NEW c PROVE Reads(r, <<c>>, Read(r, c))
<1>1. PICK g : g = [i \in 0..1 |-> IF i = 0 THEN r ELSE Read(r, c)]
  OBVIOUS
<1>2. g[0] = r /\ g[1] = Read(r, c)
  BY <1>1
<1>3. Len(<<c>>) = 1 /\ <<c>>[1] = c
  OBVIOUS
<1>4. \A n \in 1..1 : g[n] = Read(g[n - 1], <<c>>[n])
  <2> SUFFICES ASSUME NEW n \in 1..1 PROVE g[n] = Read(g[n - 1], <<c>>[n])
    OBVIOUS
  <2>1. n = 1 /\ n - 1 = 0
    OBVIOUS
  <2> QED
    BY <1>2, <1>3, <2>1
<1> QED
  BY <1>2, <1>3, <1>4, Zenon DEF Reads

LEMMA ReadsAppend ==
  ASSUME NEW R, NEW t \in Seq(R), NEW c \in R, NEW r, NEW q, Reads(r, t, q)
  PROVE  t \o <<c>> \in Seq(R) /\ Reads(r, t \o <<c>>, Read(q, c))
<1>1. PICK u \in Seq(R) : u = <<c>>
  <2>1. <<c>> \in Seq(R)
    OBVIOUS
  <2> QED
    BY <2>1
<1>2. PICK p : p = Read(q, c)
  OBVIOUS
<1>3. Reads(q, u, p)
  BY <1>1, <1>2, ReadsOne
<1>4. Reads(r, t \o u, p) /\ t \o u \in Seq(R)
  BY ONLY <1>3, t \in Seq(R), u \in Seq(R), Reads(r, t, q), ReadsConcat, ConcatProperties
<1> QED
  BY <1>1, <1>2, <1>4

(* A token, read outside and inside quotes.                                *)
Plain(lines, row, field) == Outside(lines, row, field, FALSE)
Closed(lines, row, field) == Outside(lines, row, field, TRUE)

LEMMA ReadPlain ==
  ASSUME NEW l, NEW w, NEW f, NEW c, c \notin {"quote", "comma", "newline"}
  PROVE  Read(Plain(l, w, f), c) = Plain(l, w, Append(f, c))
BY DEF Read, Outside, Plain

LEMMA ReadQuoted ==
  ASSUME NEW l, NEW w, NEW f, NEW b, NEW c, c # "quote"
  PROVE  Read(Inside(l, w, f, b), c) = Inside(l, w, Append(f, c), b)
BY DEF Read, Inside

LEMMA ReadQuote ==
  ASSUME NEW l, NEW w, NEW f
  PROVE  /\ Read(Plain(l, w, f), "quote") = Inside(l, w, f, FALSE)
         /\ \E b \in BOOLEAN :
              Read(Closed(l, w, f), "quote") = Inside(l, w, Append(f, "quote"), b)
<1>1. Read(Closed(l, w, f), "quote") = Inside(l, w, Append(f, "quote"), TRUE)
  BY DEF Read, Inside, Outside, Closed
<1>2. Read(Plain(l, w, f), "quote") = Inside(l, w, f, FALSE)
  BY DEF Read, Inside, Outside, Plain
<1> QED
  BY <1>1, <1>2

LEMMA ReadEndQuote ==
  ASSUME NEW l, NEW w, NEW f, NEW b
  PROVE  Read(Inside(l, w, f, b), "quote") = Closed(l, w, f)
BY DEF Read, Inside, Outside, Closed

LEMMA ReadComma ==
  ASSUME NEW l, NEW w, NEW f, NEW b
  PROVE  Read(Outside(l, w, f, b), "comma") = Plain(l, Append(w, f), <<>>)
BY DEF Read, Outside, Plain

LEMMA ReadNewline ==
  ASSUME NEW l, NEW w, NEW f, NEW b
  PROVE  Read(Outside(l, w, f, b), "newline")
           = Plain(Append(l, Append(w, f)), <<>>, <<>>)
BY DEF Read, Outside, Plain

-----------------------------------------------------------------------------
(* What write_csv_field and write_csv_row write is read back.              *)

Tokens == STRING \cup Special \cup {"none", "-"}
            \cup {"filesystem", "lv", "vg", "pv", "partition", "device"}
            \cup {"Name", "Type", "VFS", "Label", "MBR", "Size", "Parent", "UUID", "FSVersion"}
Field == Seq(Tokens)

Value(field) == IF field = None THEN <<>> ELSE field

Doubled(field) ==
  [k \in DOMAIN field |-> IF field[k] = "quote" THEN <<"quote", "quote">> ELSE <<field[k]>>]

LEMMA QuoteTokens == {"quote", "comma", "newline"} \subseteq Tokens
BY DEF Tokens, Special

LEMMA ReadsPlainField ==
  ASSUME NEW f \in Field, Range(f) \cap Special = {}, NEW l, NEW w
  PROVE  Reads(Plain(l, w, <<>>), f, Plain(l, w, f))
<1> PICK N \in Nat : N = Len(f)
  BY LenProperties DEF Field
<1>1. ASSUME NEW k \in 1..N
      PROVE  f[k] \in Tokens /\ f[k] # "quote" /\ f[k] # "comma" /\ f[k] # "newline"
  <2>1. f[k] \in Tokens /\ k \in DOMAIN f
    BY ElementOfSeq, LenProperties DEF Field
  <2>2. f[k] \in Range(f)
    BY <2>1 DEF Range
  <2>3. f[k] \notin Special
    BY <2>2
  <2> QED
    BY <2>1, <2>3 DEF Special
<1> PICK From : From = Plain(l, w, <<>>)
  OBVIOUS
<1> DEFINE S == {n \in Nat : n <= N =>
                   Reads(From, Initial(f, n), Plain(l, w, Initial(f, n)))}
<1>2. ASSUME NEW n \in Nat, \A m \in 0..(n - 1) : m \in S PROVE n \in S
  <2> SUFFICES ASSUME n <= N
               PROVE  Reads(From, Initial(f, n), Plain(l, w, Initial(f, n)))
    OBVIOUS
  <2>1. CASE n = 0
    <3>1. Initial(f, 0) = <<>>
      BY DEF Initial
    <3>2. Reads(From, <<>>, From)
      BY ReadsNothing
    <3> QED
      BY <2>1, <3>1, <3>2
  <2>2. CASE n # 0
    <3>1. PICK m \in Nat : m = n - 1 /\ m + 1 = n /\ m < N /\ m \in 0..(n - 1) /\ n \in 1..N
      BY <2>2
    <3>2. PICK t \in Seq(Tokens), c \in Tokens :
            t = Initial(f, m) /\ c = f[n] /\ Initial(f, n) = Append(t, c)
      <4>1. Initial(f, m) \in Seq(Tokens) /\ Initial(f, m + 1) = Append(Initial(f, m), f[m + 1])
        BY <3>1, InitialAppend DEF Field
      <4>2. f[n] \in Tokens
        BY <1>1, <3>1
      <4> QED
        BY <3>1, <4>1, <4>2
    <3>3. PICK q : q = Plain(l, w, t)
      OBVIOUS
    <3>4. Reads(From, t, q)
      <4>1. m \in S
        BY <1>2, <3>1
      <4>2. Reads(From, Initial(f, m), Plain(l, w, Initial(f, m)))
        <5>1. m <= N
          BY <3>1
        <5> QED
          BY <4>1, <5>1, Zenon
      <4> QED
        BY <3>2, <3>3, <4>2
    <3>5. Reads(From, t \o <<c>>, Read(q, c))
      BY ONLY <3>4, t \in Seq(Tokens), c \in Tokens, ReadsAppend
    <3>6. t \o <<c>> = Append(t, c)
      BY AppendIsConcat
    <3>7. Read(q, c) = Plain(l, w, Append(t, c))
      <4>1. c \notin {"quote", "comma", "newline"}
        BY <1>1, <3>1, <3>2
      <4> QED
        <5>1. Read(Plain(l, w, t), c) = Plain(l, w, Append(t, c))
          BY ONLY <4>1, ReadPlain
        <5> QED
          BY ONLY <3>3, <5>1
    <3> QED
      BY <3>2, <3>5, <3>6, <3>7
  <2> QED
    BY <2>1, <2>2
<1> HIDE DEF S
<1>3. Nat \subseteq S
  BY <1>2, CompleteInduction
<1>4. Reads(From, Initial(f, N), Plain(l, w, Initial(f, N)))
  <2>1. N \in S /\ N <= N
    BY <1>3
  <2> QED
    BY <2>1 DEF S
<1>5. Initial(f, N) = f
  BY InitialEnds DEF Field
<1> QED
  BY <1>4, <1>5

LEMMA DoubledType ==
  ASSUME NEW f \in Field
  PROVE  /\ Doubled(f) \in Seq(Field) /\ Len(Doubled(f)) = Len(f)
         /\ \A k \in 1..Len(f) : Doubled(f)[k] = IF f[k] = "quote" THEN <<"quote", "quote">>
                                                                   ELSE <<f[k]>>
<1> PICK N \in Nat : N = Len(f) /\ DOMAIN f = 1..N
  BY LenProperties DEF Field
<1>1. \A k \in 1..N : f[k] \in Tokens
  BY ElementOfSeq DEF Field
<1>2. <<"quote", "quote">> \in Seq(Tokens)
  <2>1. "quote" \in Tokens
    BY QuoteTokens
  <2> QED
    BY <2>1
<1>3. \A k \in 1..N : <<f[k]>> \in Seq(Tokens)
  BY <1>1
<1> QED
  BY <1>2, <1>3 DEF Doubled, Field

LEMMA ReadsDoubled ==
  ASSUME NEW f \in Field, NEW l, NEW w
  PROVE  /\ FlattenSeq(Doubled(f)) \in Field
         /\ \E b \in BOOLEAN :
              Reads(Inside(l, w, <<>>, FALSE), FlattenSeq(Doubled(f)),
                    Inside(l, w, f, b))
<1> PICK N \in Nat : N = Len(f)
  BY LenProperties DEF Field
<1> PICK d \in Seq(Seq(Tokens)) :
      /\ d = Doubled(f) /\ Len(d) = N
      /\ \A k \in 1..N : d[k] = IF f[k] = "quote" THEN <<"quote", "quote">> ELSE <<f[k]>>
  BY DoubledType DEF Field
<1> PICK From : From = Inside(l, w, <<>>, FALSE)
  OBVIOUS
<1> DEFINE Flat(n) == FlattenSeq(Initial(d, n))
<1> DEFINE Holds(n) == /\ Flat(n) \in Seq(Tokens)
                       /\ \E b \in BOOLEAN :
                            Reads(From, Flat(n), Inside(l, w, Initial(f, n), b))
<1> DEFINE S == {n \in Nat : n <= N => Holds(n)}
<1>1. ASSUME NEW n \in Nat, \A m \in 0..(n - 1) : m \in S PROVE n \in S
  <2> SUFFICES ASSUME n <= N PROVE Holds(n)
    OBVIOUS
  <2>1. CASE n = 0
    <3>1. Initial(f, 0) = <<>> /\ Initial(d, 0) = <<>>
      BY DEF Initial
    <3>2. Reads(From, <<>>, From) /\ From = Inside(l, w, <<>>, FALSE)
      BY ReadsNothing
    <3>3. Flat(0) = <<>> /\ <<>> \in Seq(Tokens)
      BY <3>1, FlattenNothing, EmptySeq
    <3>4. Holds(0)
      BY <3>1, <3>2, <3>3
    <3> QED
      BY <2>1, <3>4
  <2>2. CASE n # 0
    <3>1. PICK m \in Nat : m = n - 1 /\ m + 1 = n /\ m < N /\ m \in 0..(n - 1) /\ n \in 1..N
      BY <2>2
    <3>2. PICK t \in Seq(Tokens), c \in Tokens :
            t = Initial(f, m) /\ c = f[n] /\ Initial(f, n) = Append(t, c)
      <4>1. Initial(f, m) \in Seq(Tokens) /\ Initial(f, m + 1) = Append(Initial(f, m), f[m + 1])
        BY <3>1, InitialAppend DEF Field
      <4>2. f[n] \in Tokens
        BY <3>1, ElementOfSeq DEF Field
      <4> QED
        BY <3>1, <4>1, <4>2
    <3>3. PICK u \in Seq(Tokens) : u = Flat(m) /\ Flat(n) = u \o d[n] /\ d[n] \in Seq(Tokens)
      <4>1. /\ FlattenSeq(Initial(d, m)) \in Seq(Tokens) /\ d[m + 1] \in Seq(Tokens)
            /\ FlattenSeq(Initial(d, m + 1)) = FlattenSeq(Initial(d, m)) \o d[m + 1]
        BY <3>1, FlattenInitial
      <4> QED
        BY <3>1, <4>1
    <3>4. Holds(m)
      <4>1. m \in S
        BY <1>1, <3>1
      <4> HIDE DEF Holds
      <4> QED
        BY <3>1, <4>1
    <3>5. PICK b \in BOOLEAN : Reads(From, u, Inside(l, w, t, b))
      BY <3>2, <3>3, <3>4
    <3>6. u \o d[n] \in Seq(Tokens)
      BY <3>3, ConcatProperties
    <3>7. \E e \in BOOLEAN : Reads(From, u \o d[n], Inside(l, w, Append(t, c), e))
      <4> PICK q : q = Inside(l, w, t, b)
        OBVIOUS
      <4>1. Reads(From, u, q)
        BY <3>5
      <4>2. Reads(From, u \o <<c>>, Read(q, c)) /\ u \o <<c>> \in Seq(Tokens)
        BY ONLY <4>1, u \in Seq(Tokens), c \in Tokens, ReadsAppend
      <4>3. CASE c # "quote"
        <5>1. d[n] = <<c>>
          BY ONLY <3>1, <3>2, <4>3, \A k \in 1..N :
               d[k] = IF f[k] = "quote" THEN <<"quote", "quote">> ELSE <<f[k]>>
        <5>2. Read(q, c) = Inside(l, w, Append(t, c), b)
          BY <4>3, ReadQuoted
        <5> QED
          BY <4>2, <5>1, <5>2
      <4>4. CASE c = "quote"
        <5>1. d[n] = <<c, c>>
          BY ONLY <3>1, <3>2, <4>4, \A k \in 1..N :
               d[k] = IF f[k] = "quote" THEN <<"quote", "quote">> ELSE <<f[k]>>
        <5>2. PICK v \in Seq(Tokens) : v = u \o <<c>>
          BY <4>2
        <5>3. PICK p : p = Read(q, c)
          OBVIOUS
        <5>4. Reads(From, v, p)
          BY <4>2, <5>2, <5>3
        <5>5. Reads(From, v \o <<c>>, Read(p, c))
          BY ONLY <5>4, v \in Seq(Tokens), c \in Tokens, ReadsAppend
        <5>6. p = Closed(l, w, t)
          <6>1. Read(Inside(l, w, t, b), "quote") = Closed(l, w, t)
            BY ReadEndQuote
          <6> QED
            BY <4>4, <5>3, <6>1
        <5>7. PICK e \in BOOLEAN : Read(p, c) = Inside(l, w, Append(t, c), e)
          BY <4>4, <5>6, ReadQuote
        <5>8. v \o <<c>> = u \o <<c, c>>
          <6>1. <<c>> \in Seq(Tokens) /\ <<c>> \o <<c>> = <<c, c>>
            <7>1. <<c>> \in Seq(Tokens)
              OBVIOUS
            <7>2. /\ <<c>> \o <<c>> \in [1..2 -> Tokens]
                  /\ (<<c>> \o <<c>>)[1] = c /\ (<<c>> \o <<c>>)[2] = c
              <8>1. PICK x \in Seq(Tokens) : x = <<c>>
                BY <7>1
              <8>2. Len(x) = 1 /\ x[1] = c
                BY <8>1
              <8>3. /\ x \o x \in Seq(Tokens) /\ Len(x \o x) = 2
                    /\ (x \o x)[1] = c /\ (x \o x)[2] = c
                <9>1. /\ x \o x \in Seq(Tokens) /\ Len(x \o x) = Len(x) + Len(x)
                      /\ \A i \in 1..(Len(x) + Len(x)) :
                           (x \o x)[i] = IF i <= Len(x) THEN x[i] ELSE x[i - Len(x)]
                  BY ONLY x \in Seq(Tokens), ConcatProperties
                <9>2. 1 \in 1..(1 + 1) /\ 2 \in 1..(1 + 1) /\ 1 <= 1 /\ ~(2 <= 1) /\ 2 - 1 = 1
                  OBVIOUS
                <9> QED
                  BY <8>2, <9>1, <9>2
              <8>4. x \o x \in [1..2 -> Tokens]
                BY <8>3, LenProperties
              <8> QED
                BY <8>1, <8>3, <8>4
            <7>3. <<c, c>> \in [1..2 -> Tokens] /\ <<c, c>>[1] = c /\ <<c, c>>[2] = c
              OBVIOUS
            <7>4. PICK f1 \in [1..2 -> Tokens], f2 \in [1..2 -> Tokens] :
                    f1 = <<c>> \o <<c>> /\ f2 = <<c, c>>
              BY <7>2, <7>3
            <7>5. f1 = f2
              <8>1. f1[1] = f2[1] /\ f1[2] = f2[2]
                BY <7>2, <7>3, <7>4
              <8> QED
                BY ONLY <8>1, f1 \in [1..2 -> Tokens], f2 \in [1..2 -> Tokens]
            <7> QED
              BY <7>1, <7>4, <7>5
          <6>2. PICK x \in Seq(Tokens) : x = <<c>>
            BY <6>1
          <6>3. (u \o x) \o x = u \o (x \o x)
            BY ONLY Associative
          <6> QED
            BY <5>2, <6>1, <6>2, <6>3
        <5> QED
          BY <5>1, <5>5, <5>7, <5>8
      <4> QED
        BY <4>3, <4>4
    <3> QED
      BY <3>2, <3>3, <3>6, <3>7
  <2> QED
    BY <2>1, <2>2
<1> HIDE DEF S
<1>2. Nat \subseteq S
  BY <1>1, CompleteInduction
<1>3. Holds(N)
  <2>1. N \in S /\ N <= N
    BY <1>2
  <2> HIDE DEF Holds
  <2> QED
    BY <2>1 DEF S
<1>4. Initial(f, N) = f /\ Initial(d, N) = d
  BY InitialEnds DEF Field
<1> QED
  BY <1>3, <1>4 DEF Field

LEMMA ReadsField ==
  ASSUME NEW f \in Field, NEW l, NEW w
  PROVE  /\ WriteCsvField(f) \in Seq(Tokens)
         /\ \E b \in BOOLEAN :
              Reads(Plain(l, w, <<>>), WriteCsvField(f), Outside(l, w, Value(f), b))
<1> PICK From : From = Plain(l, w, <<>>)
  OBVIOUS
<1>1. CASE f = None
  <2>1. WriteCsvField(f) = <<>> /\ Value(f) = <<>>
    BY <1>1 DEF WriteCsvField, Value
  <2>2. Reads(From, <<>>, Outside(l, w, <<>>, FALSE)) /\ <<>> \in Seq(Tokens)
    BY ReadsNothing, EmptySeq DEF Plain
  <2> QED
    BY <2>1, <2>2
<1>2. CASE f # None /\ Range(f) \cap Special = {}
  <2>1. WriteCsvField(f) = f /\ Value(f) = f
    BY <1>2 DEF WriteCsvField, Value
  <2>2. Reads(From, f, Outside(l, w, f, FALSE))
    BY <1>2, ReadsPlainField DEF Plain
  <2>3. f \in Seq(Tokens)
    BY DEF Field
  <2> QED
    BY <2>1, <2>2, <2>3
<1>3. CASE f # None /\ Range(f) \cap Special # {}
  <2>1. WriteCsvField(f) = <<"quote">> \o FlattenSeq(Doubled(f)) \o <<"quote">> /\ Value(f) = f
    BY <1>3 DEF WriteCsvField, Value, Doubled
  <2>2. PICK q \in Tokens : q = "quote"
    BY QuoteTokens
  <2>3. PICK x \in Seq(Tokens) : x = <<q>>
    <3>1. <<q>> \in Seq(Tokens)
      OBVIOUS
    <3> QED
      BY <3>1
  <2>4. PICK d \in Seq(Tokens) : d = FlattenSeq(Doubled(f))
    BY ReadsDoubled DEF Field
  <2>5. PICK Open : Open = Inside(l, w, <<>>, FALSE)
    OBVIOUS
  <2>6. PICK b \in BOOLEAN : Reads(Open, d, Inside(l, w, f, b))
    BY <2>4, <2>5, ReadsDoubled
  <2>7. Reads(From, x, Open)
    <3>1. Read(From, q) = Open
      BY <2>2, <2>5, ReadQuote
    <3>2. Reads(From, <<q>>, Read(From, q))
      BY ReadsOne
    <3> QED
      BY <2>3, <3>1, <3>2
  <2>8. PICK p : p = Inside(l, w, f, b)
    OBVIOUS
  <2>9. Reads(From, x \o d, p) /\ x \o d \in Seq(Tokens)
    <3>1. Reads(Open, d, p)
      BY <2>6, <2>8
    <3> QED
      BY ONLY <2>7, <3>1, x \in Seq(Tokens), d \in Seq(Tokens), ReadsConcat, ConcatProperties
  <2>10. PICK y \in Seq(Tokens) : y = x \o d
    BY <2>9
  <2>11. Reads(From, y \o <<q>>, Read(p, q)) /\ y \o <<q>> \in Seq(Tokens)
    <3>1. Reads(From, y, p)
      BY <2>9, <2>10
    <3> QED
      BY ONLY <3>1, y \in Seq(Tokens), q \in Tokens, ReadsAppend
  <2>12. Read(p, q) = Outside(l, w, f, TRUE)
    <3>1. Read(Inside(l, w, f, b), "quote") = Closed(l, w, f)
      BY ReadEndQuote
    <3> QED
      BY <2>2, <2>8, <3>1 DEF Closed
  <2>13. WriteCsvField(f) = y \o <<q>>
    BY <2>1, <2>2, <2>3, <2>4, <2>10
  <2>14. Reads(From, y \o <<q>>, Outside(l, w, f, TRUE))
    BY <2>11, <2>12
  <2> QED
    BY <2>1, <2>11, <2>13, <2>14
<1> QED
  BY <1>1, <1>2, <1>3

(* The fields of a row, and what stands before each of them.               *)
Separated(row, k) ==
  IF k = 1 THEN WriteCsvField(row[k]) ELSE <<"comma">> \o WriteCsvField(row[k])
RowTokens(row) == [k \in DOMAIN row |-> Separated(row, k)]

Values(row) == [k \in DOMAIN row |-> Value(row[k])]

LEMMA RowTokensType ==
  ASSUME NEW row \in Seq(Field)
  PROVE  /\ RowTokens(row) \in Seq(Seq(Tokens)) /\ Len(RowTokens(row)) = Len(row)
         /\ \A k \in 1..Len(row) : RowTokens(row)[k] = Separated(row, k)
<1> PICK N \in Nat : N = Len(row) /\ DOMAIN row = 1..N
  BY LenProperties
<1>1. ASSUME NEW k \in 1..N PROVE Separated(row, k) \in Seq(Tokens)
  <2>1. WriteCsvField(row[k]) \in Seq(Tokens)
    BY ElementOfSeq, ReadsField
  <2>2. <<"comma">> \in Seq(Tokens)
    <3>1. "comma" \in Tokens
      BY QuoteTokens
    <3> QED
      BY <3>1
  <2> QED
    BY <2>1, <2>2, ConcatProperties DEF Separated
<1> QED
  BY <1>1 DEF RowTokens

LEMMA ValuesType ==
  ASSUME NEW row \in Seq(Field)
  PROVE  /\ Values(row) \in Seq(Field) /\ Len(Values(row)) = Len(row)
         /\ \A k \in 1..Len(row) : Values(row)[k] = Value(row[k])
<1> PICK N \in Nat : N = Len(row) /\ DOMAIN row = 1..N
  BY LenProperties
<1>1. \A k \in 1..N : row[k] \in Field
  BY ElementOfSeq
<1>2. <<>> \in Field
  BY EmptySeq DEF Field
<1>3. \A k \in 1..N : Value(row[k]) \in Field
  BY <1>1, <1>2 DEF Value
<1> QED
  BY <1>3 DEF Values

LEMMA ReadsInitialRow ==
  ASSUME NEW row \in Seq(Field), NEW l
  PROVE  \A n \in Nat : (1 <= n /\ n <= Len(row)) =>
           /\ FlattenSeq(Initial(RowTokens(row), n)) \in Seq(Tokens)
           /\ \E b \in BOOLEAN :
                Reads(Plain(l, <<>>, <<>>), FlattenSeq(Initial(RowTokens(row), n)),
                      Outside(l, Initial(Values(row), n - 1), Value(row[n]), b))
<1> PICK N \in Nat : N = Len(row)
  BY LenProperties
<1> PICK d \in Seq(Seq(Tokens)) :
      d = RowTokens(row) /\ Len(d) = N /\ \A k \in 1..N : d[k] = Separated(row, k)
  BY RowTokensType
<1> PICK v \in Seq(Field) :
      v = Values(row) /\ Len(v) = N /\ \A k \in 1..N : v[k] = Value(row[k])
  BY ValuesType
<1> PICK From : From = Plain(l, <<>>, <<>>)
  OBVIOUS
<1> DEFINE Flat(n) == FlattenSeq(Initial(d, n))
<1> DEFINE Holds(n) == /\ Flat(n) \in Seq(Tokens)
                       /\ \E b \in BOOLEAN :
                            Reads(From, Flat(n), Outside(l, Initial(v, n - 1), Value(row[n]), b))
<1> DEFINE S == {n \in Nat : (1 <= n /\ n <= N) => Holds(n)}
<1>1. ASSUME NEW n \in Nat, \A m \in 0..(n - 1) : m \in S PROVE n \in S
  <2> SUFFICES ASSUME 1 <= n, n <= N PROVE Holds(n)
    OBVIOUS
  <2>1. PICK m \in Nat : m = n - 1 /\ m + 1 = n /\ m < N /\ m \in 0..(n - 1) /\ n \in 1..N
    OBVIOUS
  <2>2. /\ Flat(m) \in Seq(Tokens) /\ Flat(n) \in Seq(Tokens)
        /\ d[n] \in Seq(Tokens) /\ Flat(n) = Flat(m) \o d[n] /\ d[n] = Separated(row, n)
    <3>1. /\ FlattenSeq(Initial(d, m)) \in Seq(Tokens) /\ d[m + 1] \in Seq(Tokens)
          /\ FlattenSeq(Initial(d, m + 1)) = FlattenSeq(Initial(d, m)) \o d[m + 1]
      BY <2>1, FlattenInitial
    <3>2. FlattenSeq(Initial(d, m)) \o d[m + 1] \in Seq(Tokens)
      BY <3>1, ConcatProperties
    <3> QED
      BY <2>1, <3>1, <3>2
  <2>3. PICK x \in Seq(Tokens) : x = WriteCsvField(row[n])
    BY <2>1, ElementOfSeq, ReadsField
  <2>4. row[n] \in Field
    BY <2>1, ElementOfSeq
  <2>5. CASE n = 1
    <3>1. Initial(d, 0) = <<>> /\ Initial(v, 0) = <<>> /\ m = 0 /\ n - 1 = 0
      BY <2>1, <2>5 DEF Initial
    <3>2. Flat(m) = <<>>
      BY <3>1, FlattenNothing
    <3>3. Flat(n) = x
      BY <2>2, <2>3, <2>5, <3>2, ConcatEmptySeq DEF Separated
    <3>4. PICK b \in BOOLEAN : Reads(From, x, Outside(l, <<>>, Value(row[n]), b))
      BY <2>3, <2>4, ReadsField
    <3>5. Reads(From, Flat(n), Outside(l, Initial(v, n - 1), Value(row[n]), b))
      BY <3>1, <3>3, <3>4
    <3> QED
      BY <2>2, <3>5
  <2>6. CASE n # 1
    <3>1. 1 <= m /\ m <= N /\ m \in S /\ m - 1 \in Nat /\ m - 1 < N /\ (m - 1) + 1 = m
      BY <1>1, <2>1, <2>6
    <3>2. Holds(m)
      <4> HIDE DEF Holds
      <4> QED
        BY <3>1
    <3>3. PICK b \in BOOLEAN :
            Reads(From, Flat(m), Outside(l, Initial(v, m - 1), Value(row[m]), b))
      BY <3>2
    <3>4. PICK u \in Seq(Tokens) : u = Flat(m)
      BY <2>2
    <3>5. PICK q : q = Outside(l, Initial(v, m - 1), Value(row[m]), b)
      OBVIOUS
    <3>6. PICK c \in Tokens : c = "comma"
      BY QuoteTokens
    <3>7. PICK y \in Seq(Tokens) : y = <<c>>
      <4>1. <<c>> \in Seq(Tokens)
        OBVIOUS
      <4> QED
        BY <4>1
    <3>8. PICK p : p = Plain(l, Initial(v, m), <<>>)
      OBVIOUS
    <3>9. Reads(q, y, p)
      <4>1. Read(q, c) = Plain(l, Append(Initial(v, m - 1), Value(row[m])), <<>>)
        BY <3>5, <3>6, ReadComma
      <4>2. Initial(v, (m - 1) + 1) = Append(Initial(v, m - 1), v[(m - 1) + 1])
        BY <3>1, InitialAppend
      <4>3. v[m] = Value(row[m])
        BY <2>1, <3>1
      <4>4. Read(q, c) = p
        BY <3>1, <3>8, <4>1, <4>2, <4>3
      <4>5. Reads(q, <<c>>, Read(q, c))
        BY ReadsOne
      <4> QED
        BY <3>7, <4>4, <4>5
    <3>10. PICK e \in BOOLEAN : Reads(p, x, Outside(l, Initial(v, m), Value(row[n]), e))
      BY <2>3, <2>4, <3>8, ReadsField
    <3>11. PICK o : o = Outside(l, Initial(v, m), Value(row[n]), e)
      OBVIOUS
    <3>12. Reads(q, y \o x, o) /\ y \o x \in Seq(Tokens)
      <4>1. Reads(p, x, o)
        BY <3>10, <3>11
      <4> QED
        BY ONLY <3>9, <4>1, x \in Seq(Tokens), y \in Seq(Tokens), ReadsConcat, ConcatProperties
    <3>13. PICK z \in Seq(Tokens) : z = y \o x
      BY <3>12
    <3>14. Reads(From, u \o z, o)
      <4>1. Reads(From, u, q) /\ Reads(q, z, o)
        BY <3>3, <3>4, <3>5, <3>12, <3>13
      <4> QED
        BY ONLY <4>1, u \in Seq(Tokens), z \in Seq(Tokens), ReadsConcat
    <3>15. Flat(n) = u \o z
      <4>1. d[n] = z
        BY <2>2, <2>3, <2>6, <3>6, <3>7, <3>13 DEF Separated
      <4> QED
        BY <2>2, <3>4, <4>1
    <3>16. Reads(From, Flat(n), Outside(l, Initial(v, n - 1), Value(row[n]), e))
      BY <2>1, <3>11, <3>14, <3>15
    <3> QED
      BY <2>2, <3>16
  <2> QED
    BY <2>5, <2>6
<1> HIDE DEF S
<1>2. Nat \subseteq S
  BY <1>1, CompleteInduction
<1>3. ASSUME NEW n \in Nat, 1 <= n, n <= N PROVE Holds(n)
  <2> HIDE DEF Holds
  <2>1. n \in S
    BY <1>2
  <2> QED
    BY <1>3, <2>1 DEF S
<1> QED
  BY <1>3

LEMMA ReadsRow ==
  ASSUME NEW row \in Seq(Field), Len(row) # 0, NEW l
  PROVE  /\ WriteCsvRow(row) \in Seq(Tokens)
         /\ Reads(Plain(l, <<>>, <<>>), WriteCsvRow(row),
                  Plain(Append(l, Values(row)), <<>>, <<>>))
<1> PICK N \in Nat : N = Len(row) /\ 1 <= N
  BY LenProperties
<1> PICK d \in Seq(Seq(Tokens)) : d = RowTokens(row) /\ Len(d) = N
  BY RowTokensType
<1> PICK v \in Seq(Field) :
      v = Values(row) /\ Len(v) = N /\ \A k \in 1..N : v[k] = Value(row[k])
  BY ValuesType
<1> PICK From : From = Plain(l, <<>>, <<>>)
  OBVIOUS
<1>1. Initial(d, N) = d /\ Initial(v, N) = v
  BY InitialEnds
<1>2. FlattenSeq(d) \in Seq(Tokens)
  BY <1>1, ReadsInitialRow
<1>3. PICK b \in BOOLEAN : Reads(From, FlattenSeq(d), Outside(l, Initial(v, N - 1), Value(row[N]), b))
  <2>1. \A n \in Nat : (1 <= n /\ n <= N) =>
          \E b \in BOOLEAN : Reads(From, FlattenSeq(Initial(d, n)),
                                   Outside(l, Initial(v, n - 1), Value(row[n]), b))
    BY ReadsInitialRow
  <2>2. PICK b \in BOOLEAN : Reads(From, FlattenSeq(Initial(d, N)),
                                   Outside(l, Initial(v, N - 1), Value(row[N]), b))
    BY <2>1
  <2> QED
    BY <1>1, <2>2
<1>4. PICK t \in Seq(Tokens) : t = FlattenSeq(d)
  BY <1>2
<1>5. PICK q : q = Outside(l, Initial(v, N - 1), Value(row[N]), b)
  OBVIOUS
<1>6. PICK c \in Tokens : c = "newline"
  BY QuoteTokens
<1>7. Reads(From, t \o <<c>>, Read(q, c)) /\ t \o <<c>> \in Seq(Tokens)
  <2>1. Reads(From, t, q)
    BY <1>3, <1>4, <1>5
  <2> QED
    BY ONLY <2>1, t \in Seq(Tokens), c \in Tokens, ReadsAppend
<1>8. Read(q, c) = Plain(Append(l, v), <<>>, <<>>)
  <2>1. Read(q, c) = Plain(Append(l, Append(Initial(v, N - 1), Value(row[N]))), <<>>, <<>>)
    BY <1>5, <1>6, ReadNewline
  <2>2. N - 1 \in Nat /\ N - 1 < Len(v) /\ (N - 1) + 1 = N
    OBVIOUS
  <2>3. Initial(v, (N - 1) + 1) = Append(Initial(v, N - 1), v[(N - 1) + 1])
    BY <2>2, InitialAppend
  <2>4. v = Append(Initial(v, N - 1), Value(row[N]))
    BY <1>1, <2>2, <2>3
  <2> QED
    BY <2>1, <2>4
<1>9. WriteCsvRow(row) = t \o <<c>>
  BY <1>4, <1>6 DEF WriteCsvRow, RowTokens, Separated
<1> QED
  BY <1>7, <1>8, <1>9

-----------------------------------------------------------------------------
(* The columns, and the row of an entry.                                   *)

LEMMA ColumnNamesAre ==
  /\ ColumnNames = {"Name", "Type", "VFS", "Label", "MBR", "Size", "Parent", "UUID", "FSVersion"}
  /\ DisplayOrder \in Seq(ColumnNames) /\ Len(DisplayOrder) = 9 /\ DisplayOrder[1] = "Name"
<1> DEFINE N == {"Name", "Type", "VFS", "Label", "MBR", "Size", "Parent", "UUID", "FSVersion"}
<1>1. DisplayOrder \in Seq(N) /\ Len(DisplayOrder) = 9
  BY DEF DisplayOrder
<1>2. DOMAIN DisplayOrder = 1..9
  BY <1>1, LenProperties
<1>3. /\ DisplayOrder[1] = "Name" /\ DisplayOrder[2] = "Type" /\ DisplayOrder[3] = "VFS"
      /\ DisplayOrder[4] = "Label" /\ DisplayOrder[5] = "MBR" /\ DisplayOrder[6] = "Size"
      /\ DisplayOrder[7] = "Parent" /\ DisplayOrder[8] = "UUID" /\ DisplayOrder[9] = "FSVersion"
  BY DEF DisplayOrder
<1>4. Range(DisplayOrder) = {DisplayOrder[k] : k \in 1..9}
  BY <1>2 DEF Range
<1>5. ASSUME NEW c \in N PROVE \E k \in 1..9 : DisplayOrder[k] = c
  BY <1>3
<1>6. \A k \in 1..9 : DisplayOrder[k] \in N
  BY <1>1, ElementOfSeq
<1>7. ColumnNames = N
  BY <1>4, <1>5, <1>6 DEF ColumnNames
<1> QED
  BY <1>1, <1>3, <1>7

LEMMA ColumnsType ==
  /\ Columns \in Seq(ColumnNames) /\ Len(Columns) > 0 /\ Columns[1] = "Name"
  /\ \A c \in ColumnNames : Displayed(c) => Shows(c)
<1> DEFINE K == {k \in DOMAIN DisplayOrder : Displayed(DisplayOrder[k])}
<1>1. DisplayOrder \in Seq(ColumnNames) /\ Len(DisplayOrder) = 9 /\ DisplayOrder[1] = "Name"
  BY ColumnNamesAre
<1>2. DOMAIN DisplayOrder = 1..9
  BY <1>1, LenProperties
<1>3. Columns \in Seq(ColumnNames) /\ IsSelection(DisplayOrder, 9, K, Columns)
  BY <1>1, SelectedType DEF Columns
<1>4. 1 \in K
  <2>1. Displayed("Name")
    BY DEF Displayed
  <2> QED
    BY <1>1, <1>2, <2>1
<1>5. ASSUME NEW c \in ColumnNames, Displayed(c) PROVE Shows(c)
  <2>1. PICK k \in 1..9 : DisplayOrder[k] = c
    BY <1>2 DEF ColumnNames, Range
  <2>2. k \in K
    BY <1>2, <1>5, <2>1
  <2>3. PICK j \in 1..Len(Columns) : Columns[j] = DisplayOrder[k]
    BY <1>3, <2>2 DEF IsSelection
  <2>4. DOMAIN Columns = 1..Len(Columns)
    BY <1>3, LenProperties
  <2> QED
    BY <2>1, <2>3, <2>4 DEF Shows
<1>6. Len(Columns) > 0 /\ Columns[1] = "Name"
  BY <1>1, <1>3, <1>4 DEF IsSelection
<1> QED
  BY <1>3, <1>5, <1>6

LEMMA KindsAre ==
  /\ DOMAIN Kinds = 1..6 /\ Len(Kinds) = 6
  /\ \A k \in 1..6 : Kinds[k] \in {"filesystem", "lv", "vg", "pv", "partition", "device"}
BY DEF Kinds

LEMMA FieldTypes ==
  /\ \A f \in Text : f \in Field
  /\ \A f \in Name : f \in Field /\ f # None /\ f # <<>>
  /\ None \in Field /\ <<>> \in Field
  /\ \A c \in ColumnNames : <<c>> \in Field /\ <<c>> # None
  /\ \A k \in {"filesystem", "lv", "vg", "pv", "partition", "device"} : <<k>> \in Field
<1>1. STRING \cup Special \subseteq Tokens
  BY DEF Tokens
<1>2. \A f \in Text : f \in Field
  BY <1>1, SeqMonotonic DEF Text, Field
<1>3. \A f \in Name : f \in Text /\ f # None /\ f # <<>>
  BY DEF Name
<1>4. None \in Field
  BY DEF None, Field, Tokens
<1>5. <<>> \in Field
  BY EmptySeq DEF Field
<1>6. \A c \in ColumnNames : c \in Tokens /\ c # "none"
  BY ColumnNamesAre DEF Tokens
<1>7. \A c \in ColumnNames : <<c>> \in Field /\ <<c>> # None
  BY <1>6 DEF None, Field
<1>8. \A k \in {"filesystem", "lv", "vg", "pv", "partition", "device"} : <<k>> \in Field
  <2>1. \A k \in {"filesystem", "lv", "vg", "pv", "partition", "device"} : k \in Tokens
    BY DEF Tokens
  <2> QED
    BY <2>1 DEF Field
<1> QED
  BY <1>2, <1>3, <1>4, <1>5, <1>7, <1>8

LEMMA JoinType == ASSUME NEW names \in Seq(Text) PROVE JoinStrings(names) \in Field
<1> PICK N \in Nat : N = Len(names) /\ DOMAIN names = 1..N
  BY LenProperties
<1> DEFINE part(k) == IF k = 1 THEN names[k] ELSE <<"comma">> \o names[k]
<1>1. \A k \in 1..N : names[k] \in Seq(Tokens)
  BY ElementOfSeq, FieldTypes DEF Field
<1>2. <<"comma">> \in Seq(Tokens)
  <2>1. "comma" \in Tokens
    BY QuoteTokens
  <2> QED
    BY <2>1
<1>3. \A k \in 1..N : part(k) \in Seq(Tokens)
  BY <1>1, <1>2, ConcatProperties
<1>4. PICK s \in Seq(Seq(Tokens)) : s = [k \in DOMAIN names |-> part(k)]
  <2> HIDE DEF part
  <2>1. [k \in 1..N |-> part(k)] \in Seq(Seq(Tokens))
    BY <1>3
  <2> QED
    BY <2>1
<1>5. FlattenSeq(s) \in Seq(Tokens)
  <2>1. <<>> \in Seq(Tokens)
    BY EmptySeq
  <2> QED
    BY ONLY <2>1, s \in Seq(Seq(Tokens)), FlattenAppend
<1> QED
  BY <1>4, <1>5 DEF JoinStrings, Field

(* What the row of an entry has in the columns that Describes looks at.    *)
IsRowOf(kind, o, r) ==
  /\ r \in [ColumnNames -> Field]
  /\ r["Name"] = IF kind = "lv" THEN Append(o.vg, o.name) ELSE o.name
  /\ r["Name"] # None /\ r["Name"] # <<>>
  /\ r["Type"] = <<kind>>
  /\ r["Size"] = IF kind = "filesystem" /\ o.subvolume THEN None ELSE o.size
  /\ r["Label"] = IF kind = "filesystem" THEN o.label ELSE None
  /\ r["VFS"] = IF kind = "filesystem" THEN o.vfs ELSE None
  /\ r["UUID"] = IF kind \in {"partition", "device"} THEN None ELSE o.uuid
  /\ r["FSVersion"] = IF kind = "filesystem" THEN o.version ELSE None
  /\ r["MBR"] = IF kind = "partition" /\ o.table = "msdos" THEN o.id ELSE None
  /\ kind # "vg" => r["Parent"] = CASE kind = "lv" -> o.vg
                                    [] kind = "partition" -> o.device
                                    [] kind = "pv" -> <<>>
                                    [] OTHER -> JoinStrings(o.md)

LEMMA RowType ==
  ASSUME NEW name \in Field, NEW type \in {"filesystem", "lv", "vg", "pv", "partition", "device"}
  PROVE  /\ Row(name, type) \in [ColumnNames -> Field]
         /\ Row(name, type)["Name"] = name /\ Row(name, type)["Type"] = <<type>>
         /\ Row(name, type)["Parent"] = <<>>
         /\ Row(name, type)["VFS"] = None /\ Row(name, type)["Label"] = None
         /\ Row(name, type)["MBR"] = None /\ Row(name, type)["UUID"] = None
         /\ Row(name, type)["FSVersion"] = None
BY ColumnNamesAre, FieldTypes DEF Row

LEMMA FilesystemRowIs ==
  ASSUME NEW e \in FilesystemEntry PROVE IsRowOf("filesystem", e, FilesystemRow(e))
<1>1. /\ e.name \in Name /\ e.vfs \in Text /\ e.label \in Text /\ e.uuid \in Text
      /\ e.version \in Text /\ e.size \in Text /\ e.md \in Seq(Text)
  BY DEF FilesystemEntry
<1>2. JoinStrings(e.md) \in Field
  BY <1>1, JoinType
<1>3. /\ e.name \in Field /\ e.name # None /\ e.name # <<>> /\ e.vfs \in Field
      /\ e.label \in Field /\ e.uuid \in Field /\ e.version \in Field /\ e.size \in Field
      /\ None \in Field
  BY <1>1, FieldTypes
<1>4. PICK r \in [ColumnNames -> Field] :
        /\ r = Row(e.name, "filesystem") /\ r["Name"] = e.name /\ r["Type"] = <<"filesystem">>
        /\ r["MBR"] = None
  BY <1>3, RowType
<1>5. FilesystemRow(e) = [r EXCEPT
     !["VFS"] = e.vfs, !["Label"] = e.label, !["UUID"] = e.uuid,
     !["FSVersion"] = e.version, !["Size"] = IF e.subvolume THEN None ELSE e.size,
     !["Parent"] = JoinStrings(e.md)]
  BY <1>4 DEF FilesystemRow
<1> QED
  BY <1>2, <1>3, <1>4, <1>5, ColumnNamesAre DEF IsRowOf

LEMMA LvRowIs == ASSUME NEW e \in LvEntry PROVE IsRowOf("lv", e, LvRow(e))
<1>1. e.vg \in Name /\ e.name \in STRING /\ e.size \in Text /\ e.uuid \in Text
  BY DEF LvEntry
<1>2. e.vg \in Field /\ e.size \in Field /\ e.uuid \in Field /\ e.vg # <<>> /\ None \in Field
  BY <1>1, FieldTypes
<1>3. PICK n : n = Append(e.vg, e.name) /\ n \in Field /\ n # None /\ n # <<>>
  <2>1. e.name \in Tokens
    BY <1>1 DEF Tokens
  <2>2. PICK v \in Seq(Tokens), t \in Tokens : v = e.vg /\ t = e.name
    BY <1>2, <2>1 DEF Field
  <2>3. /\ Append(v, t) \in Seq(Tokens) /\ Append(v, t) # <<>> /\ Len(Append(v, t)) = Len(v) + 1
    BY AppendProperties
  <2>4. Len(v) \in Nat \ {0}
    BY <1>2, <2>2, EmptySeq
  <2>5. Len(None) = 1
    BY DEF None
  <2>6. Append(v, t) # None
    BY <2>3, <2>4, <2>5
  <2> QED
    BY <2>2, <2>3, <2>6 DEF Field
<1>4. PICK r \in [ColumnNames -> Field] :
        /\ r = Row(n, "lv") /\ r["Name"] = n /\ r["Type"] = <<"lv">>
        /\ r["VFS"] = None /\ r["Label"] = None /\ r["MBR"] = None /\ r["UUID"] = None
        /\ r["FSVersion"] = None
  BY <1>3, RowType
<1>5. LvRow(e) = [r EXCEPT !["Size"] = e.size, !["UUID"] = e.uuid, !["Parent"] = e.vg]
  BY <1>3, <1>4 DEF LvRow
<1> QED
  BY <1>2, <1>3, <1>4, <1>5, ColumnNamesAre DEF IsRowOf

LEMMA PvRowIs == ASSUME NEW e \in PvEntry PROVE IsRowOf("pv", e, PvRow(e))
<1>1. e.name \in Name /\ e.size \in Text /\ e.uuid \in Text
  BY DEF PvEntry
<1>2. /\ e.name \in Field /\ e.name # None /\ e.name # <<>>
      /\ e.size \in Field /\ e.uuid \in Field /\ None \in Field
  BY <1>1, FieldTypes
<1>3. PICK r \in [ColumnNames -> Field] :
        /\ r = Row(e.name, "pv") /\ r["Name"] = e.name /\ r["Type"] = <<"pv">>
        /\ r["VFS"] = None /\ r["Label"] = None /\ r["MBR"] = None /\ r["UUID"] = None
        /\ r["FSVersion"] = None /\ r["Parent"] = <<>>
  BY <1>2, RowType
<1>4. PvRow(e) = [r EXCEPT !["Size"] = e.size, !["UUID"] = e.uuid]
  BY <1>3 DEF PvRow
<1> QED
  BY <1>2, <1>3, <1>4, ColumnNamesAre DEF IsRowOf

LEMMA PartitionRowIs ==
  ASSUME NEW e \in PartitionEntry PROVE IsRowOf("partition", e, PartitionRow(e))
<1>1. e.name \in Name /\ e.size \in Text /\ e.device \in Text /\ e.id \in Text
  BY DEF PartitionEntry
<1>2. /\ e.name \in Field /\ e.name # None /\ e.name # <<>>
      /\ e.size \in Field /\ e.device \in Field /\ e.id \in Field /\ None \in Field
  BY <1>1, FieldTypes
<1>3. PICK r \in [ColumnNames -> Field] :
        /\ r = Row(e.name, "partition") /\ r["Name"] = e.name /\ r["Type"] = <<"partition">>
        /\ r["VFS"] = None /\ r["Label"] = None /\ r["MBR"] = None /\ r["UUID"] = None
        /\ r["FSVersion"] = None
  BY <1>2, RowType
<1>4. PartitionRow(e) = [r EXCEPT !["Size"] = e.size, !["Parent"] = e.device,
                                  !["MBR"] = IF e.table = "msdos" THEN e.id ELSE None]
  BY <1>3 DEF PartitionRow
<1> QED
  BY <1>2, <1>3, <1>4, ColumnNamesAre DEF IsRowOf

LEMMA DeviceRowIs == ASSUME NEW e \in DeviceEntry PROVE IsRowOf("device", e, DeviceRow(e))
<1>1. e.name \in Name /\ e.size \in Text /\ e.md \in Seq(Text)
  BY DEF DeviceEntry
<1>2. JoinStrings(e.md) \in Field
  BY <1>1, JoinType
<1>3. /\ e.name \in Field /\ e.name # None /\ e.name # <<>> /\ e.size \in Field /\ None \in Field
  BY <1>1, FieldTypes
<1>4. PICK r \in [ColumnNames -> Field] :
        /\ r = Row(e.name, "device") /\ r["Name"] = e.name /\ r["Type"] = <<"device">>
        /\ r["VFS"] = None /\ r["Label"] = None /\ r["MBR"] = None /\ r["UUID"] = None
        /\ r["FSVersion"] = None
  BY <1>3, RowType
<1>5. DeviceRow(e) = [r EXCEPT !["Size"] = e.size, !["Parent"] = JoinStrings(e.md)]
  BY <1>4 DEF DeviceRow
<1> QED
  BY <1>2, <1>3, <1>4, <1>5, ColumnNamesAre DEF IsRowOf

LEMMA VgRowIs ==
  ASSUME NEW e \in VgEntry, contents \in Guests PROVE IsRowOf("vg", e, VgRow(e))
<1>1. e.name \in Name /\ e.size \in Text /\ e.uuid \in Text /\ e.uuids \in Seq(Text)
  BY DEF VgEntry
<1>2. ASSUME NEW u \in Text PROVE ResolvePv(u) \in Text
  <2> DEFINE found == {k \in DOMAIN contents["pv"] : ComparePvuuids(u, contents["pv"][k].uuid) = 0}
  <2>1. ResolvePv(u) = IF found = {} THEN u ELSE contents["pv"][Min(found)].name
    BY DEF ResolvePv
  <2>2. contents["pv"] \in Seq(PvEntry)
    <3>1. 4 \in DOMAIN Kinds /\ Kinds[4] = "pv"
      BY DEF Kinds
    <3>2. contents[Kinds[4]] \in Seq(Entries(Kinds[4]))
      BY <3>1, GuestsAssumption
    <3> QED
      BY <3>1, <3>2 DEF Entries
  <2>3. ASSUME found # {} PROVE contents["pv"][Min(found)].name \in Text
    <3>1. DOMAIN contents["pv"] = 1..Len(contents["pv"]) /\ Len(contents["pv"]) \in Nat
      BY <2>2, LenProperties
    <3>2. found \in SUBSET Nat
      BY <3>1
    <3>3. Min(found) \in found
      <4> HIDE DEF found
      <4> QED
        BY <2>3, <3>2, LeastElement
    <3>4. Min(found) \in 1..Len(contents["pv"])
      BY <3>1, <3>3
    <3>5. contents["pv"][Min(found)] \in PvEntry
      BY <2>2, <3>4, ElementOfSeq
    <3>6. contents["pv"][Min(found)].name \in Name
      BY <3>5 DEF PvEntry
    <3> QED
      BY <3>6 DEF Name
  <2> QED
    BY <1>2, <2>1, <2>3
<1>3. ParentsOfVg(e) \in Seq(Text)
  <2> PICK N \in Nat : N = Len(e.uuids) /\ DOMAIN e.uuids = 1..N
    BY <1>1, LenProperties
  <2>1. \A k \in 1..N : ResolvePv(e.uuids[k]) \in Text
    BY <1>1, <1>2, ElementOfSeq
  <2> QED
    BY <2>1 DEF ParentsOfVg
<1>4. JoinStrings(ParentsOfVg(e)) \in Field
  BY <1>3, JoinType
<1>5. /\ e.name \in Field /\ e.name # None /\ e.name # <<>>
      /\ e.size \in Field /\ e.uuid \in Field /\ None \in Field
  BY <1>1, FieldTypes
<1>6. PICK r \in [ColumnNames -> Field] :
        /\ r = Row(e.name, "vg") /\ r["Name"] = e.name /\ r["Type"] = <<"vg">>
        /\ r["VFS"] = None /\ r["Label"] = None /\ r["MBR"] = None /\ r["UUID"] = None
        /\ r["FSVersion"] = None
  BY <1>5, RowType
<1>7. VgRow(e) = [r EXCEPT !["Size"] = e.size, !["UUID"] = e.uuid,
                           !["Parent"] = JoinStrings(ParentsOfVg(e))]
  BY <1>6 DEF VgRow
<1> QED
  BY <1>4, <1>5, <1>6, <1>7, ColumnNamesAre DEF IsRowOf

LEMMA RowOfIs ==
  ASSUME contents \in Guests, NEW k \in 1..6, NEW e \in Entries(Kinds[k])
  PROVE  IsRowOf(Kinds[k], e, RowOf(Kinds[k], e))
<1>1. CASE Kinds[k] = "filesystem"
  BY <1>1, FilesystemRowIs DEF Entries, RowOf
<1>2. CASE Kinds[k] = "lv"
  BY <1>2, LvRowIs DEF Entries, RowOf
<1>3. CASE Kinds[k] = "vg"
  BY <1>3, VgRowIs DEF Entries, RowOf
<1>4. CASE Kinds[k] = "pv"
  BY <1>4, PvRowIs DEF Entries, RowOf
<1>5. CASE Kinds[k] = "partition"
  BY <1>5, PartitionRowIs DEF Entries, RowOf
<1>6. CASE Kinds[k] = "device"
  BY <1>6, DeviceRowIs DEF Entries, RowOf
<1> QED
  BY <1>1, <1>2, <1>3, <1>4, <1>5, <1>6, KindsAre

-----------------------------------------------------------------------------
(* The objects that are done, and the lines of the report on them.         *)

Object == UNION {{<<Kinds[k], e>> : e \in Entries(Kinds[k])} : k \in 1..6}

\* An entry of a list that is written.
OneObject(kind, n) ==
  IF Wanted(kind, contents[kind][n]) THEN << <<kind, contents[kind][n]>> >> ELSE <<>>
ObjectsOf(kind) == [n \in DOMAIN contents[kind] |-> OneObject(kind, n)]
Lists == [k \in DOMAIN Kinds |-> Listed(Kinds[k])]

\* The first d entries of the list c, and all of the earlier lists.
Partly(c, d) ==
  IF c \in 1..6 /\ Kinds[c] \in Output THEN FlattenSeq(Initial(ObjectsOf(Kinds[c]), d)) ELSE <<>>
Earlier(c) == IF c = 0 THEN <<>> ELSE FlattenSeq(Initial(Lists, c - 1))
Finished(c, d) == Earlier(c) \o Partly(c, d)

RowFields(o) == [k \in DOMAIN Columns |-> RowOf(o[1], o[2])[Columns[k]]]
Body(objects) == [n \in DOMAIN objects |-> RowFields(objects[n])]
Title(c) == IF Titled /\ c # 0 THEN <<Headings>> ELSE <<>>
LinesAt(c, d) == Title(c) \o Body(Finished(c, d))
Lines == LinesAt(current, done)

LEMMA SameInput ==
  ASSUME contents' = contents, options' = options
  PROVE  /\ \A f : Has(f)' <=> Has(f)
         /\ Output' = Output /\ Columns' = Columns
         /\ \A e : Skipped(e)' <=> Skipped(e)
         /\ \A row : ShownFields(row)' = ShownFields(row) \/ rows' # rows
         /\ \A c, d : LinesAt(c, d)' = LinesAt(c, d)
<1>1. \A f : Has(f)' <=> Has(f)
  BY DEF Has
<1>2. Output' = Output
  BY DEF Output
<1>3. \A c : Displayed(c)' <=> Displayed(c)
  BY <1>1, <1>2 DEF Displayed
<1>4. Columns' = Columns
  BY <1>3 DEF Columns
<1>5. \A e : Skipped(e)' <=> Skipped(e)
  BY <1>2 DEF Skipped
<1>6. \A kind, n : OneObject(kind, n)' = OneObject(kind, n)
  BY <1>5 DEF OneObject, Wanted
<1>7. \A kind : ObjectsOf(kind)' = ObjectsOf(kind)
  BY <1>6 DEF ObjectsOf
<1>8. \A kind : Listed(kind)' = Listed(kind)
  BY <1>2, <1>5 DEF Listed, Wanted
<1>9. Lists' = Lists
  BY <1>8 DEF Lists
<1>10. \A c, d : Partly(c, d)' = Partly(c, d)
  BY <1>2, <1>7 DEF Partly
<1>11. \A c : Earlier(c)' = Earlier(c)
  BY <1>9 DEF Earlier
<1>12. \A c, d : Finished(c, d)' = Finished(c, d)
  BY <1>10, <1>11 DEF Finished
<1>13. \A u : ResolvePv(u)' = ResolvePv(u)
  BY DEF ResolvePv
<1>14. \A e : VgRow(e)' = VgRow(e)
  BY <1>13 DEF VgRow, ParentsOfVg
<1>15. \A kind, e : RowOf(kind, e)' = RowOf(kind, e)
  BY <1>14 DEF RowOf
<1>16. \A o : RowFields(o)' = RowFields(o)
  BY <1>4, <1>15 DEF RowFields
<1>17. \A s : Body(s)' = Body(s)
  BY <1>16 DEF Body
<1>18. \A c : Title(c)' = Title(c)
  <2>1. Headings' = Headings
    BY <1>4 DEF Headings
  <2>2. Titled' <=> Titled
    BY <1>1 DEF Titled
  <2> QED
    BY <2>1, <2>2 DEF Title
<1>19. \A c, d : LinesAt(c, d)' = LinesAt(c, d)
  BY <1>12, <1>17, <1>18 DEF LinesAt
<1>20. \A row : ShownFields(row)' = ShownFields(row) \/ rows' # rows
  <2> SUFFICES ASSUME rows' = rows PROVE \A row : ShownFields(row)' = ShownFields(row)
    OBVIOUS
  <2>1. Widened' = Widened
    BY <1>4 DEF Widened
  <2>2. Kept' = Kept
    BY <1>4, <2>1 DEF Kept
  <2> QED
    BY <2>2 DEF ShownFields
<1> QED
  BY <1>1, <1>2, <1>4, <1>5, <1>19, <1>20

LEMMA ContentsType ==
  ASSUME contents \in Guests, NEW k \in 1..6
  PROVE  contents[Kinds[k]] \in Seq(Entries(Kinds[k]))
BY GuestsAssumption, KindsAre

LEMMA ObjectsOfType ==
  ASSUME contents \in Guests, NEW k \in 1..6
  PROVE  /\ ObjectsOf(Kinds[k]) \in Seq(Seq(Object))
         /\ Len(ObjectsOf(Kinds[k])) = Len(contents[Kinds[k]])
         /\ \A n \in 1..Len(contents[Kinds[k]]) :
              ObjectsOf(Kinds[k])[n] = OneObject(Kinds[k], n)
<1> PICK N \in Nat : N = Len(contents[Kinds[k]]) /\ DOMAIN contents[Kinds[k]] = 1..N
  BY ContentsType, LenProperties
<1>1. ASSUME NEW n \in 1..N PROVE OneObject(Kinds[k], n) \in Seq(Object)
  <2>1. contents[Kinds[k]][n] \in Entries(Kinds[k])
    BY ContentsType, ElementOfSeq
  <2>2. PICK o : o = <<Kinds[k], contents[Kinds[k]][n]>>
    OBVIOUS
  <2>3. o \in Object
    BY <2>1, <2>2 DEF Object
  <2>4. <<o>> \in Seq(Object) /\ <<>> \in Seq(Object)
    BY <2>3, EmptySeq
  <2> QED
    BY <2>2, <2>4 DEF OneObject
<1> QED
  BY <1>1 DEF ObjectsOf

LEMMA ListsType ==
  ASSUME contents \in Guests
  PROVE  /\ Lists \in Seq(Seq(Object)) /\ Len(Lists) = 6
         /\ \A k \in 1..6 : Lists[k] = IF Kinds[k] \in Output THEN FlattenSeq(ObjectsOf(Kinds[k]))
                                                              ELSE <<>>
         /\ Objects = FlattenSeq(Lists)
<1>1. ASSUME NEW k \in 1..6
      PROVE  /\ Listed(Kinds[k]) \in Seq(Object)
             /\ Listed(Kinds[k]) = IF Kinds[k] \in Output THEN FlattenSeq(ObjectsOf(Kinds[k]))
                                                          ELSE <<>>
  <2>1. PICK s \in Seq(Seq(Object)) : s = ObjectsOf(Kinds[k])
    BY ObjectsOfType
  <2>2. <<>> \in Seq(Object)
    BY EmptySeq
  <2>3. FlattenSeq(s) \in Seq(Object)
    BY ONLY <2>2, s \in Seq(Seq(Object)), FlattenAppend
  <2> QED
    BY <2>1, <2>2, <2>3 DEF Listed, ObjectsOf, OneObject
<1>2. Lists = [k \in 1..6 |-> Listed(Kinds[k])]
  BY KindsAre DEF Lists
<1> QED
  BY <1>1, <1>2 DEF Lists, Objects

LEMMA EarlierType ==
  ASSUME contents \in Guests, NEW c \in 0..7
  PROVE  Earlier(c) \in Seq(Object)
<1> PICK s \in Seq(Seq(Object)) : s = Lists /\ Len(s) = 6
  BY ListsType
<1>1. CASE c = 0
  BY <1>1, EmptySeq DEF Earlier
<1>2. CASE c # 0
  <2>1. PICK n \in Nat : n = c - 1 /\ n <= Len(s)
    BY <1>2
  <2>2. FlattenSeq(Initial(s, n)) \in Seq(Object)
    BY <2>1, FlattenIsLonger
  <2> QED
    BY <1>2, <2>1, <2>2 DEF Earlier
<1> QED
  BY <1>1, <1>2

LEMMA PartlyType ==
  ASSUME contents \in Guests, NEW c \in 0..7, NEW d \in Nat,
         c \in 1..6 => d <= Len(contents[Kinds[c]])
  PROVE  Partly(c, d) \in Seq(Object)
<1>1. CASE c \in 1..6 /\ Kinds[c] \in Output
  <2> PICK s \in Seq(Seq(Object)) : s = ObjectsOf(Kinds[c]) /\ Len(s) = Len(contents[Kinds[c]])
    BY <1>1, ObjectsOfType
  <2>1. FlattenSeq(Initial(s, d)) \in Seq(Object)
    BY <1>1, FlattenIsLonger
  <2> QED
    BY <1>1, <2>1 DEF Partly
<1>2. CASE ~(c \in 1..6 /\ Kinds[c] \in Output)
  BY <1>2, EmptySeq DEF Partly
<1> QED
  BY <1>1, <1>2

LEMMA FinishedType ==
  ASSUME contents \in Guests, NEW c \in 0..7, NEW d \in Nat,
         c \in 1..6 => d <= Len(contents[Kinds[c]])
  PROVE  Finished(c, d) \in Seq(Object)
BY EarlierType, PartlyType, ConcatProperties DEF Finished

LEMMA PartlyNothing == ASSUME NEW c PROVE Partly(c, 0) = <<>>
<1>1. Initial(ObjectsOf(Kinds[c]), 0) = <<>>
  BY DEF Initial
<1> QED
  BY <1>1, FlattenNothing DEF Partly

LEMMA FinishedNothing == Finished(0, 0) = <<>> /\ Finished(1, 0) = <<>>
<1>1. Earlier(0) = <<>> /\ Earlier(1) = <<>>
  <2>1. Initial(Lists, 0) = <<>>
    BY DEF Initial
  <2> QED
    BY <2>1, FlattenNothing DEF Earlier
<1>2. <<>> \o <<>> = <<>>
  <2>1. <<>> \in Seq({})
    BY EmptySeq
  <2> QED
    BY <2>1, ConcatEmptySeq
<1> QED
  BY <1>1, <1>2, PartlyNothing DEF Finished

(* One more entry of the list.                                             *)
LEMMA FinishedEntry ==
  ASSUME contents \in Guests, NEW c \in 1..6, NEW d \in Nat, d < Len(contents[Kinds[c]]),
         Kinds[c] \in Output
  PROVE  /\ OneObject(Kinds[c], d + 1) \in Seq(Object)
         /\ Finished(c, d) \in Seq(Object)
         /\ Finished(c, d + 1) = Finished(c, d) \o OneObject(Kinds[c], d + 1)
<1> PICK s \in Seq(Seq(Object)) : /\ s = ObjectsOf(Kinds[c])
                                  /\ Len(s) = Len(contents[Kinds[c]])
                                  /\ \A n \in 1..Len(s) : s[n] = OneObject(Kinds[c], n)
  BY ObjectsOfType
<1>1. /\ FlattenSeq(Initial(s, d)) \in Seq(Object) /\ s[d + 1] \in Seq(Object)
      /\ FlattenSeq(Initial(s, d + 1)) = FlattenSeq(Initial(s, d)) \o s[d + 1]
  BY FlattenInitial
<1>2. s[d + 1] = OneObject(Kinds[c], d + 1)
  BY LenProperties
<1>3. PICK a \in Seq(Object), b \in Seq(Object), x \in Seq(Object) :
        a = Earlier(c) /\ b = FlattenSeq(Initial(s, d)) /\ x = s[d + 1]
  <2>1. c \in 0..7
    OBVIOUS
  <2>2. Earlier(c) \in Seq(Object)
    BY <2>1, EarlierType
  <2> QED
    BY <1>1, <2>2
<1>4. (a \o b) \o x = a \o (b \o x) /\ a \o b \in Seq(Object)
  BY ONLY Associative, ConcatProperties
<1>5. Finished(c, d) = a \o b /\ Finished(c, d + 1) = a \o (b \o x)
  BY <1>1, <1>3 DEF Finished, Partly
<1> QED
  BY <1>1, <1>2, <1>3, <1>4, <1>5

(* A list is done.                                                         *)
LEMMA FinishedList ==
  ASSUME contents \in Guests, NEW c \in 1..6, NEW d \in Nat,
         Kinds[c] \in Output => d = Len(contents[Kinds[c]])
  PROVE  Finished(c + 1, 0) = Finished(c, d)
<1> PICK s \in Seq(Seq(Object)) : /\ s = Lists /\ Len(s) = 6
                                  /\ s[c] = IF Kinds[c] \in Output
                                              THEN FlattenSeq(ObjectsOf(Kinds[c])) ELSE <<>>
  BY ListsType
<1>1. Partly(c, d) = s[c]
  <2>1. CASE Kinds[c] \in Output
    <3>1. Initial(ObjectsOf(Kinds[c]), d) = ObjectsOf(Kinds[c])
      BY <2>1, ObjectsOfType, InitialEnds
    <3> QED
      BY <2>1, <3>1 DEF Partly
  <2>2. CASE Kinds[c] \notin Output
    BY <2>2 DEF Partly
  <2> QED
    BY <2>1, <2>2
<1>2. PICK n \in Nat : n = c - 1 /\ n + 1 = c /\ n < Len(s)
  <2>1. c - 1 \in Nat /\ (c - 1) + 1 = c /\ c - 1 < 6
    OBVIOUS
  <2> QED
    BY <2>1
<1>3. /\ FlattenSeq(Initial(s, n)) \in Seq(Object) /\ s[n + 1] \in Seq(Object)
      /\ FlattenSeq(Initial(s, n + 1)) = FlattenSeq(Initial(s, n)) \o s[n + 1]
  BY <1>2, FlattenInitial
<1>4. Earlier(c + 1) = Earlier(c) \o s[c]
  <2>1. (c + 1) - 1 = c /\ c + 1 # 0 /\ c # 0
    OBVIOUS
  <2> QED
    BY <1>2, <1>3, <2>1 DEF Earlier
<1>5. Earlier(c + 1) \in Seq(Object)
  <2>1. c + 1 \in 0..7
    OBVIOUS
  <2> QED
    BY <2>1, EarlierType
<1>6. Earlier(c + 1) \o <<>> = Earlier(c + 1)
  BY <1>5, ConcatEmptySeq
<1> QED
  BY <1>1, <1>4, <1>6, PartlyNothing DEF Finished

(* What is done is the beginning of what was asked for; at the end it is   *)
(* all of it.                                                              *)
LEMMA FinishedIsPrefix ==
  ASSUME contents \in Guests, NEW c \in 0..7, NEW d \in Nat,
         c \in 1..6 => d <= Len(contents[Kinds[c]])
  PROVE  /\ Objects \in Seq(Object) /\ Finished(c, d) \in Seq(Object)
         /\ \E y \in Seq(Object) : Objects = Finished(c, d) \o y
<1> PICK s \in Seq(Seq(Object)) : /\ s = Lists /\ Len(s) = 6 /\ Objects = FlattenSeq(s)
                                  /\ \A k \in 1..6 : s[k] = IF Kinds[k] \in Output
                                         THEN FlattenSeq(ObjectsOf(Kinds[k])) ELSE <<>>
  BY ListsType
<1>1. Objects \in Seq(Object)
  <2>1. <<>> \in Seq(Object)
    BY EmptySeq
  <2>2. FlattenSeq(s) \in Seq(Object)
    BY ONLY <2>1, s \in Seq(Seq(Object)), FlattenAppend
  <2> QED
    BY <2>2
<1>2. \A n \in Nat : n <= 6 => \E y \in Seq(Object) : Objects = FlattenSeq(Initial(s, n)) \o y
  BY FlattenIsLonger
<1>3. Earlier(c) \in Seq(Object) /\ Finished(c, d) \in Seq(Object)
  BY EarlierType, FinishedType
<1>4. CASE c \in 1..6 /\ Kinds[c] \in Output
  <2> PICK n \in Nat : n = c - 1 /\ n + 1 = c /\ n < Len(s) /\ c <= 6
    <3>1. c - 1 \in Nat /\ (c - 1) + 1 = c /\ c - 1 < 6 /\ c <= 6
      BY <1>4
    <3> QED
      BY <3>1
  <2>1. PICK y \in Seq(Object) : Objects = FlattenSeq(Initial(s, n + 1)) \o y
    <3>1. n + 1 \in Nat /\ n + 1 <= 6
      OBVIOUS
    <3>2. \E y \in Seq(Object) : Objects = FlattenSeq(Initial(s, n + 1)) \o y
      BY ONLY <1>2, <3>1
    <3> QED
      BY <3>2
  <2>2. /\ FlattenSeq(Initial(s, n)) \in Seq(Object) /\ s[n + 1] \in Seq(Object)
        /\ FlattenSeq(Initial(s, n + 1)) = FlattenSeq(Initial(s, n)) \o s[n + 1]
    BY FlattenInitial
  <2>3. PICK l \in Seq(Seq(Object)) :
          l = ObjectsOf(Kinds[c]) /\ Len(l) = Len(contents[Kinds[c]])
    BY <1>4, ObjectsOfType
  <2>4. s[n + 1] = FlattenSeq(l)
    BY <1>4, <2>3
  <2>5. PICK z \in Seq(Object) : FlattenSeq(l) = FlattenSeq(Initial(l, d)) \o z
    <3>1. \A m \in Nat : m <= Len(l) =>
            \E z \in Seq(Object) : FlattenSeq(l) = FlattenSeq(Initial(l, m)) \o z
      BY FlattenIsLonger
    <3>2. d <= Len(l)
      BY <1>4, <2>3
    <3>3. \E z \in Seq(Object) : FlattenSeq(l) = FlattenSeq(Initial(l, d)) \o z
      BY ONLY <3>1, <3>2, d \in Nat
    <3> QED
      BY <3>3
  <2>6. PICK a \in Seq(Object), b \in Seq(Object) :
          /\ a = FlattenSeq(Initial(s, n)) /\ b = FlattenSeq(Initial(l, d))
          /\ a = Earlier(c) /\ b = Partly(c, d)
    <3>1. FlattenSeq(Initial(l, d)) \in Seq(Object)
      BY <1>4, <2>3, FlattenIsLonger
    <3>2. Earlier(c) = FlattenSeq(Initial(s, n)) /\ Partly(c, d) = FlattenSeq(Initial(l, d))
      BY <1>4, <2>3 DEF Earlier, Partly
    <3> QED
      BY <2>2, <3>1, <3>2
  <2>7. PICK a1 \in Seq(Object), b1 \in Seq(Object), z1 \in Seq(Object), y1 \in Seq(Object) :
          a1 = a /\ b1 = b /\ z1 = z /\ y1 = y
    OBVIOUS
  <2>8. /\ (a1 \o (b1 \o z1)) \o y1 = (a1 \o b1) \o (z1 \o y1)
        /\ z1 \o y1 \in Seq(Object)
    <3>1. a1 \in Seq(Object) /\ b1 \in Seq(Object) /\ z1 \in Seq(Object) /\ y1 \in Seq(Object)
      OBVIOUS
    <3>2. Regrouped(a1, b1, z1, y1)
      BY ONLY <3>1, FourParts
    <3>3. z1 \o y1 \in Seq(Object)
      BY ONLY <3>1, ConcatProperties
    <3> QED
      BY ONLY <3>2, <3>3 DEF Regrouped
  <2>9. Objects = (a \o b) \o (z \o y) /\ z \o y \in Seq(Object)
    BY <2>1, <2>2, <2>4, <2>5, <2>6, <2>7, <2>8
  <2> QED
    BY <1>1, <1>3, <2>6, <2>9 DEF Finished
<1>5. CASE ~(c \in 1..6 /\ Kinds[c] \in Output)
  <2>1. Finished(c, d) = Earlier(c)
    BY <1>3, <1>5, ConcatEmptySeq DEF Finished, Partly
  <2>2. CASE c = 0
    <3>1. Earlier(c) = <<>> /\ Objects = <<>> \o Objects
      BY <1>1, <2>2, ConcatEmptySeq DEF Earlier
    <3> QED
      BY <1>1, <1>3, <2>1, <3>1
  <2>3. CASE c # 0
    <3>1. c - 1 \in Nat /\ c - 1 <= 6 /\ Earlier(c) = FlattenSeq(Initial(s, c - 1))
      BY <2>3 DEF Earlier
    <3> QED
      BY <1>1, <1>2, <1>3, <2>1, <3>1
  <2> QED
    BY <2>2, <2>3
<1> QED
  BY <1>4, <1>5

LEMMA AllFinished == ASSUME contents \in Guests PROVE Finished(7, 0) = Objects
<1> PICK s \in Seq(Seq(Object)) : s = Lists /\ Len(s) = 6 /\ Objects = FlattenSeq(s)
  BY ListsType
<1>1. Initial(s, 6) = s
  BY InitialEnds
<1>2. Earlier(7) = FlattenSeq(s)
  BY <1>1 DEF Earlier
<1>3. Earlier(7) \in Seq(Object)
  BY EarlierType
<1> QED
  BY <1>2, <1>3, PartlyNothing, ConcatEmptySeq DEF Finished

-----------------------------------------------------------------------------
(* The lines of the report, and how a step adds to them.                   *)

LEMMA IsAppended ==
  ASSUME NEW R, NEW s \in Seq(R), NEW x \in R, NEW t \in Seq(R), Len(t) = Len(s) + 1,
         \A n \in 1..Len(s) : t[n] = s[n], t[Len(s) + 1] = x
  PROVE  t = Append(s, x)
<1>1. /\ Append(s, x) \in Seq(R) /\ Len(Append(s, x)) = Len(s) + 1
      /\ \A n \in 1..Len(s) : Append(s, x)[n] = s[n]
      /\ Append(s, x)[Len(s) + 1] = x /\ Len(s) \in Nat
  BY AppendProperties, LenProperties
<1>2. \A n \in 1..(Len(s) + 1) : n \in 1..Len(s) \/ n = Len(s) + 1
  BY <1>1
<1>3. \A n \in 1..Len(t) : t[n] = Append(s, x)[n]
  BY <1>1, <1>2
<1> QED
  BY <1>1, <1>3, SeqEqual

LEMMA OneElement ==
  ASSUME NEW R, NEW s \in Seq(R), NEW x \in R
  PROVE  s \o <<x>> \in Seq(R) /\ s \o <<x>> = Append(s, x)
<1>1. PICK u \in Seq(R) : u = <<x>> /\ Len(u) = 1 /\ u[1] = x
  <2>1. <<x>> \in Seq(R)
    OBVIOUS
  <2> QED
    BY <2>1
<1>2. PICK N \in Nat : N = Len(s)
  BY LenProperties
<1>3. PICK t \in Seq(R) : /\ t = s \o u /\ Len(t) = N + 1
                          /\ \A n \in 1..(N + 1) : t[n] = IF n <= N THEN s[n] ELSE u[n - N]
  <2>1. /\ s \o u \in Seq(R) /\ Len(s \o u) = Len(s) + Len(u)
        /\ \A n \in 1..Len(s) + Len(u) : (s \o u)[n] = IF n <= Len(s) THEN s[n] ELSE u[n - Len(s)]
    BY ONLY s \in Seq(R), u \in Seq(R), ConcatProperties
  <2>2. Len(s) + Len(u) = N + 1
    BY <1>1, <1>2
  <2> QED
    BY <1>2, <2>1, <2>2
<1>4. t[N + 1] = x /\ \A n \in 1..N : t[n] = s[n]
  BY <1>1, <1>3
<1>5. t = Append(s, x)
  BY <1>2, <1>3, <1>4, IsAppended
<1> QED
  BY <1>1, <1>3, <1>5

LEMMA AppendToBoth ==
  ASSUME NEW R, NEW s \in Seq(R), NEW t \in Seq(R), NEW x \in R
  PROVE  s \o t \in Seq(R) /\ s \o Append(t, x) = Append(s \o t, x)
<1>1. PICK u \in Seq(R) : u = <<x>>
  <2>1. <<x>> \in Seq(R)
    OBVIOUS
  <2> QED
    BY <2>1
<1>2. PICK p \in Seq(R) : p = s \o t
  BY ConcatProperties
<1>3. (s \o t) \o u = s \o (t \o u)
  BY ONLY s \in Seq(R), t \in Seq(R), u \in Seq(R), Associative
<1>4. t \o u = Append(t, x) /\ p \o u = Append(p, x)
  BY <1>1, OneElement
<1> QED
  BY <1>2, <1>3, <1>4

LEMMA RowFieldsType ==
  ASSUME contents \in Guests, NEW o \in Object
  PROVE  /\ IsRowOf(o[1], o[2], RowOf(o[1], o[2]))
         /\ RowFields(o) \in Seq(Field) /\ Len(RowFields(o)) = Len(Columns)
         /\ \A k \in 1..Len(Columns) : RowFields(o)[k] = RowOf(o[1], o[2])[Columns[k]]
<1> PICK k \in 1..6 : o \in {<<Kinds[k], e>> : e \in Entries(Kinds[k])}
  BY DEF Object
<1>1. PICK e \in Entries(Kinds[k]) : o = <<Kinds[k], e>>
  OBVIOUS
<1>2. IsRowOf(o[1], o[2], RowOf(o[1], o[2]))
  <2>1. IsRowOf(Kinds[k], e, RowOf(Kinds[k], e))
    BY RowOfIs
  <2>2. o[1] = Kinds[k] /\ o[2] = e
    BY <1>1
  <2> QED
    BY <2>1, <2>2
<1>3. PICK r \in [ColumnNames -> Field] : r = RowOf(o[1], o[2])
  BY <1>2 DEF IsRowOf
<1>4. PICK N \in Nat : N = Len(Columns) /\ DOMAIN Columns = 1..N
  BY ColumnsType, LenProperties
<1>5. \A n \in 1..N : Columns[n] \in ColumnNames
  BY <1>4, ColumnsType, ElementOfSeq
<1>6. RowFields(o) = [n \in 1..N |-> r[Columns[n]]]
  BY <1>3, <1>4 DEF RowFields
<1>7. [n \in 1..N |-> r[Columns[n]]] \in [1..N -> Field]
  BY <1>5
<1> QED
  BY <1>2, <1>3, <1>4, <1>6, <1>7

LEMMA HeadingsType ==
  Headings \in Seq(Field) /\ Len(Headings) = Len(Columns) /\ Len(Columns) # 0
<1>1. PICK N \in Nat : N = Len(Columns) /\ DOMAIN Columns = 1..N /\ N # 0
  BY ColumnsType, LenProperties
<1>2. \A n \in 1..N : <<Columns[n]>> \in Field
  BY <1>1, ColumnsType, ElementOfSeq, FieldTypes
<1>3. Headings = [n \in 1..N |-> <<Columns[n]>>]
  BY <1>1 DEF Headings
<1> QED
  BY <1>1, <1>2, <1>3

LEMMA BodyType ==
  ASSUME contents \in Guests, NEW s \in Seq(Object)
  PROVE  /\ Body(s) \in Seq(Seq(Field)) /\ Len(Body(s)) = Len(s)
         /\ \A n \in 1..Len(s) : Body(s)[n] = RowFields(s[n])
<1> PICK N \in Nat : N = Len(s) /\ DOMAIN s = 1..N
  BY LenProperties
<1>1. \A n \in 1..N : RowFields(s[n]) \in Seq(Field)
  BY ElementOfSeq, RowFieldsType
<1> QED
  BY <1>1 DEF Body

LEMMA BodyAppend ==
  ASSUME contents \in Guests, NEW s \in Seq(Object), NEW o \in Object
  PROVE  Body(s \o <<o>>) = Append(Body(s), RowFields(o))
<1> PICK N \in Nat : N = Len(s) /\ DOMAIN s = 1..N
  BY LenProperties
<1> PICK t \in Seq(Object) : /\ t = s \o <<o>> /\ Len(t) = N + 1
                             /\ \A n \in 1..N : t[n] = s[n]
                             /\ t[N + 1] = o
  <2>1. s \o <<o>> = Append(s, o)
    BY OneElement
  <2>2. /\ Append(s, o) \in Seq(Object) /\ Len(Append(s, o)) = Len(s) + 1
        /\ \A n \in 1..Len(s) : Append(s, o)[n] = s[n]
        /\ Append(s, o)[Len(s) + 1] = o
    BY ONLY s \in Seq(Object), o \in Object, AppendProperties
  <2> QED
    BY <2>1, <2>2
<1> PICK b \in Seq(Seq(Field)) : /\ b = Body(s) /\ Len(b) = N
                                 /\ \A n \in 1..N : b[n] = RowFields(s[n])
  BY BodyType
<1> PICK d \in Seq(Seq(Field)) : /\ d = Body(t) /\ Len(d) = N + 1
                                 /\ \A n \in 1..(N + 1) : d[n] = RowFields(t[n])
  BY BodyType
<1> PICK r \in Seq(Field) : r = RowFields(o)
  BY RowFieldsType
<1>1. \A n \in 1..N : d[n] = b[n]
  <2> TAKE n \in 1..N
  <2>1. n \in 1..(N + 1)
    OBVIOUS
  <2>2. t[n] = s[n] /\ b[n] = RowFields(s[n]) /\ d[n] = RowFields(t[n])
    BY <2>1
  <2> QED
    BY <2>2
<1>2. d[N + 1] = r
  OBVIOUS
<1>3. d = Append(b, r)
  <2>1. \A n \in 1..Len(b) : d[n] = b[n]
    BY <1>1
  <2>2. d[Len(b) + 1] = r /\ Len(d) = Len(b) + 1
    BY <1>2
  <2> QED
    BY ONLY <2>1, <2>2, b \in Seq(Seq(Field)), d \in Seq(Seq(Field)), r \in Seq(Field), IsAppended
<1> QED
  BY <1>3

LEMMA BodyNothing == Body(<<>>) = <<>>
  BY DEF Body

LEMMA LinesType ==
  ASSUME contents \in Guests, NEW c \in 0..7, NEW d \in Nat,
         c \in 1..6 => d <= Len(contents[Kinds[c]])
  PROVE  /\ LinesAt(c, d) \in Seq(Seq(Field)) /\ Title(c) \in Seq(Seq(Field))
         /\ Body(Finished(c, d)) \in Seq(Seq(Field))
<1>1. Body(Finished(c, d)) \in Seq(Seq(Field))
  BY FinishedType, BodyType
<1>2. Title(c) \in Seq(Seq(Field))
  <2>1. <<Headings>> \in Seq(Seq(Field)) /\ <<>> \in Seq(Seq(Field))
    <3>1. PICK h \in Seq(Field) : h = Headings
      BY HeadingsType
    <3>2. <<h>> \in Seq(Seq(Field)) /\ <<>> \in Seq(Seq(Field))
      BY EmptySeq
    <3> QED
      BY <3>1, <3>2
  <2> QED
    BY <2>1 DEF Title
<1> QED
  BY <1>1, <1>2, ConcatProperties DEF LinesAt

(* Before the title, and after it.                                         *)
LEMMA LinesStart ==
  LinesAt(0, 0) = <<>> /\ LinesAt(1, 0) = IF Titled THEN <<Headings>> ELSE <<>>
<1>1. Body(Finished(0, 0)) = <<>> /\ Body(Finished(1, 0)) = <<>>
  BY FinishedNothing, BodyNothing
<1>2. <<>> \o <<>> = <<>> /\ <<Headings>> \o <<>> = <<Headings>>
  <2>1. PICK h \in Seq(Field) : h = Headings
    BY HeadingsType
  <2>2. <<>> \in Seq({}) /\ <<h>> \in Seq(Seq(Field))
    BY EmptySeq
  <2> QED
    BY <2>1, <2>2, ConcatEmptySeq
<1>3. CASE Titled
  <2>1. Title(0) = <<>> /\ Title(1) = <<Headings>>
    BY <1>3 DEF Title
  <2>2. LinesAt(0, 0) = <<>> \o <<>> /\ LinesAt(1, 0) = <<Headings>> \o <<>>
    BY <1>1, <2>1 DEF LinesAt
  <2> QED
    BY <1>2, <1>3, <2>2
<1>4. CASE ~Titled
  BY <1>1, <1>2, <1>4 DEF LinesAt, Title
<1> QED
  BY <1>3, <1>4

LEMMA LinesSkip ==
  ASSUME contents \in Guests, NEW c \in 1..6, NEW d \in Nat, d < Len(contents[Kinds[c]]),
         Kinds[c] \in Output, ~Wanted(Kinds[c], contents[Kinds[c]][d + 1])
  PROVE  LinesAt(c, d + 1) = LinesAt(c, d)
<1>1. OneObject(Kinds[c], d + 1) = <<>>
  BY DEF OneObject
<1>2. Finished(c, d + 1) = Finished(c, d)
  <2>1. Finished(c, d) \in Seq(Object) /\ Finished(c, d + 1) = Finished(c, d) \o <<>>
    BY <1>1, FinishedEntry
  <2> QED
    BY <2>1, ConcatEmptySeq
<1> QED
  BY <1>2 DEF LinesAt

LEMMA LinesWrite ==
  ASSUME contents \in Guests, NEW c \in 1..6, NEW d \in Nat, d < Len(contents[Kinds[c]]),
         Kinds[c] \in Output, Wanted(Kinds[c], contents[Kinds[c]][d + 1]),
         NEW o, o = <<Kinds[c], contents[Kinds[c]][d + 1]>>
  PROVE  /\ o \in Object /\ LinesAt(c, d) \in Seq(Seq(Field))
         /\ LinesAt(c, d + 1) = Append(LinesAt(c, d), RowFields(o))
<1>1. o \in Object
  <2>1. contents[Kinds[c]][d + 1] \in Entries(Kinds[c])
    <3>1. PICK s \in Seq(Entries(Kinds[c])) : s = contents[Kinds[c]]
      BY ContentsType
    <3>2. d + 1 \in 1..Len(s)
      BY <3>1, LenProperties
    <3> QED
      BY <3>1, <3>2, ElementOfSeq
  <2> QED
    BY <2>1 DEF Object
<1>2. OneObject(Kinds[c], d + 1) = <<o>>
  BY DEF OneObject
<1>3. PICK f \in Seq(Object) : f = Finished(c, d) /\ Finished(c, d + 1) = f \o <<o>>
  BY <1>2, FinishedEntry
<1>4. Body(f \o <<o>>) = Append(Body(f), RowFields(o))
  BY <1>1, BodyAppend
<1>5. PICK t \in Seq(Seq(Field)), b \in Seq(Seq(Field)), r \in Seq(Field) :
        t = Title(c) /\ b = Body(f) /\ r = RowFields(o)
  <2>1. c \in 0..7 /\ (c \in 1..6 => d <= Len(contents[Kinds[c]]))
    <3>1. Len(contents[Kinds[c]]) \in Nat
      BY ContentsType, LenProperties
    <3> QED
      BY <3>1
  <2>2. Title(c) \in Seq(Seq(Field)) /\ Body(f) \in Seq(Seq(Field))
    BY <1>3, <2>1, LinesType
  <2> QED
    BY <1>1, <2>2, RowFieldsType
<1>6. t \o Append(b, r) = Append(t \o b, r) /\ t \o b \in Seq(Seq(Field))
  BY ONLY t \in Seq(Seq(Field)), b \in Seq(Seq(Field)), r \in Seq(Field), AppendToBoth
<1> QED
  BY <1>1, <1>3, <1>4, <1>5, <1>6 DEF LinesAt

LEMMA LinesNextKind ==
  ASSUME contents \in Guests, NEW c \in 1..6, NEW d \in Nat,
         Kinds[c] \in Output => d = Len(contents[Kinds[c]])
  PROVE  LinesAt(c + 1, 0) = LinesAt(c, d)
<1>1. Finished(c + 1, 0) = Finished(c, d)
  BY FinishedList
<1>2. Title(c + 1) = Title(c)
  BY DEF Title
<1> QED
  BY <1>1, <1>2 DEF LinesAt
-----------------------------------------------------------------------------
(* The inductive invariant: what has been written, read back, is the       *)
(* lines of what is done.                                                  *)

ValuesOf(lines) == [n \in DOMAIN lines |-> Values(lines[n])]
NothingRead == Plain(<<>>, <<>>, <<>>)
HasRead(lines) == Plain(ValuesOf(lines), <<>>, <<>>)

ReportTypeOK ==
  /\ contents \in Guests
  /\ current \in 0..7 /\ done \in Nat
  /\ current \in 1..6 => done <= Len(contents[Kinds[current]])
  /\ (current \in 1..6 => Kinds[current] \notin Output) => done = 0
  /\ exit_status \in {-1, 0, 1, 139}
  /\ exit_status = 0 => current = 7

RowsAreKept == ~Has("csv") => rows = Lines
CsvIsWritten ==
  Has("csv") => csv_output \in Seq(Tokens) /\ Reads(NothingRead, csv_output, HasRead(Lines))

\* What has reached standard output is the beginning of it, and all of it after an exit.
StdioIsBehind ==
  Has("csv") => /\ written \in Nat /\ written <= Len(csv_output)
                /\ exit_status \in {0, 1} /\ ~full => written = Len(csv_output)
IsPrinted ==
  /\ exit_status = 0 /\ ~Has("csv") /\ ~full => printout = Table
  /\ exit_status # 0 => printout = <<>>

ReportIInv == ReportTypeOK /\ RowsAreKept /\ CsvIsWritten /\ StdioIsBehind /\ IsPrinted

LEMMA ValuesOfType ==
  ASSUME NEW s \in Seq(Seq(Field))
  PROVE  /\ ValuesOf(s) \in Seq(Seq(Field)) /\ Len(ValuesOf(s)) = Len(s)
         /\ \A n \in 1..Len(s) : ValuesOf(s)[n] = Values(s[n])
<1> PICK N \in Nat : N = Len(s) /\ DOMAIN s = 1..N
  BY LenProperties
<1>1. \A n \in 1..N : Values(s[n]) \in Seq(Field)
  BY ElementOfSeq, ValuesType
<1> QED
  BY <1>1 DEF ValuesOf

LEMMA ValuesOfAppend ==
  ASSUME NEW s \in Seq(Seq(Field)), NEW row \in Seq(Field)
  PROVE  ValuesOf(Append(s, row)) = Append(ValuesOf(s), Values(row))
<1> PICK N \in Nat : N = Len(s) /\ DOMAIN s = 1..N
  BY LenProperties
<1> PICK t \in Seq(Seq(Field)) : /\ t = Append(s, row) /\ Len(t) = N + 1
                                 /\ \A n \in 1..N : t[n] = s[n]
                                 /\ t[N + 1] = row
  BY AppendProperties
<1> PICK v \in Seq(Seq(Field)) : /\ v = ValuesOf(s) /\ Len(v) = N
                                 /\ \A n \in 1..N : v[n] = Values(s[n])
  BY ValuesOfType
<1> PICK w \in Seq(Seq(Field)) : /\ w = ValuesOf(t) /\ Len(w) = N + 1
                                 /\ \A n \in 1..(N + 1) : w[n] = Values(t[n])
  <2>1. /\ ValuesOf(t) \in Seq(Seq(Field)) /\ Len(ValuesOf(t)) = Len(t)
        /\ \A n \in 1..Len(t) : ValuesOf(t)[n] = Values(t[n])
    BY ONLY t \in Seq(Seq(Field)), ValuesOfType
  <2> QED
    BY <2>1
<1> PICK x \in Seq(Field) : x = Values(row)
  BY ValuesType
<1>1. \A n \in 1..Len(v) : w[n] = v[n]
  <2> TAKE n \in 1..Len(v)
  <2>1. n \in 1..N /\ n \in 1..(N + 1)
    OBVIOUS
  <2>2. t[n] = s[n] /\ v[n] = Values(s[n]) /\ w[n] = Values(t[n])
    BY <2>1
  <2> QED
    BY <2>2
<1>2. w[Len(v) + 1] = x /\ Len(w) = Len(v) + 1
  <2>1. N + 1 \in 1..(N + 1)
    OBVIOUS
  <2> QED
    BY <2>1
<1>3. w = Append(v, x)
  BY ONLY <1>1, <1>2, v \in Seq(Seq(Field)), w \in Seq(Seq(Field)), x \in Seq(Field), IsAppended
<1> QED
  BY <1>3

(* A row is written to either output.                                      *)
LEMMA RowIsWritten ==
  ASSUME NEW row \in Seq(Field), Len(row) # 0, NEW s \in Seq(Seq(Field)), WriteRowStrings(row),
         ~Has("csv") => rows = s,
         Has("csv") => csv_output \in Seq(Tokens) /\ Reads(NothingRead, csv_output, HasRead(s))
  PROVE  /\ ~Has("csv") => rows' = Append(s, row)
         /\ Has("csv") => /\ csv_output' \in Seq(Tokens)
                          /\ Reads(NothingRead, csv_output', HasRead(Append(s, row)))
<1>1. CASE ~Has("csv")
  BY <1>1 DEF WriteRowStrings
<1>2. CASE Has("csv")
  <2>1. PICK t \in Seq(Tokens), u \in Seq(Tokens) :
          /\ t = csv_output /\ u = WriteCsvRow(row) /\ csv_output' = t \o u
    BY <1>2, ReadsRow DEF WriteRowStrings
  <2>2. PICK l : l = ValuesOf(s)
    OBVIOUS
  <2>3. PICK q, p : q = Plain(l, <<>>, <<>>) /\ p = Plain(Append(l, Values(row)), <<>>, <<>>)
    OBVIOUS
  <2>4. Reads(NothingRead, t, q)
    BY <1>2, <2>1, <2>2, <2>3 DEF HasRead
  <2>5. Reads(q, u, p)
    BY <2>1, <2>3, ReadsRow
  <2>6. Reads(NothingRead, t \o u, p) /\ t \o u \in Seq(Tokens)
    <3>1. PICK r : r = NothingRead
      OBVIOUS
    <3>2. Reads(r, t, q)
      BY <2>4, <3>1
    <3>3. Reads(r, t \o u, p) /\ t \o u \in Seq(Tokens)
      BY ONLY <2>5, <3>2, t \in Seq(Tokens), u \in Seq(Tokens), ReadsConcat, ConcatProperties
    <3> QED
      BY <3>1, <3>3
  <2>7. p = HasRead(Append(s, row))
    BY <2>2, <2>3, ValuesOfAppend DEF HasRead
  <2> QED
    BY <1>2, <2>1, <2>6, <2>7
<1> QED
  BY <1>1, <1>2

LEMMA LinesAreType ==
  ASSUME ReportTypeOK PROVE Lines \in Seq(Seq(Field))
<1>1. /\ contents \in Guests /\ current \in 0..7 /\ done \in Nat
      /\ current \in 1..6 => done <= Len(contents[Kinds[current]])
  BY DEF ReportTypeOK
<1>2. LinesAt(current, done) \in Seq(Seq(Field))
  BY ONLY <1>1, LinesType
<1> QED
  BY <1>2 DEF Lines

LEMMA NextLines ==
  ASSUME contents' = contents, options' = options
  PROVE  Lines' = LinesAt(current', done')
BY SameInput DEF Lines

(* Steps that write nothing.                                               *)
LEMMA OutputIsKept ==
  ASSUME ReportIInv, contents' = contents, options' = options, rows' = rows,
         csv_output' = csv_output, Lines' = Lines
  PROVE  RowsAreKept' /\ CsvIsWritten'
<1>1. Has("csv")' <=> Has("csv")
  BY SameInput
<1> QED
  BY <1>1 DEF ReportIInv, RowsAreKept, CsvIsWritten

(* Steps that write a row.                                                 *)
LEMMA OutputGrows ==
  ASSUME ReportIInv, contents' = contents, options' = options,
         NEW row \in Seq(Field), Len(row) # 0, WriteRowStrings(row),
         Lines' = Append(Lines, row)
  PROVE  RowsAreKept' /\ CsvIsWritten'
<1>1. Has("csv")' <=> Has("csv")
  BY SameInput
<1>2. PICK s \in Seq(Seq(Field)) : s = Lines
  BY LinesAreType DEF ReportIInv
<1>3. /\ ~Has("csv") => rows = s
      /\ Has("csv") => csv_output \in Seq(Tokens) /\ Reads(NothingRead, csv_output, HasRead(s))
  BY <1>2 DEF ReportIInv, RowsAreKept, CsvIsWritten
<1>4. /\ ~Has("csv") => rows' = Append(s, row)
      /\ Has("csv") => /\ csv_output' \in Seq(Tokens)
                       /\ Reads(NothingRead, csv_output', HasRead(Append(s, row)))
  BY <1>3, RowIsWritten
<1>5. Lines' = Append(s, row)
  BY <1>2
<1> QED
  BY <1>1, <1>4, <1>5 DEF RowsAreKept, CsvIsWritten

(* stdio: steps that leave it alone, that give it a row, and that exit.    *)
LEMMA StdioIsKept ==
  ASSUME ReportIInv, contents' = contents, options' = options, csv_output' = csv_output,
         written' = written, exit_status' \notin {0, 1}
  PROVE  StdioIsBehind'
<1>1. Has("csv")' <=> Has("csv")
  BY SameInput
<1> QED
  BY <1>1 DEF ReportIInv, StdioIsBehind

LEMMA StdioGrows ==
  ASSUME ReportIInv, contents' = contents, options' = options,
         NEW row \in Seq(Field), Len(row) # 0, WriteRowStrings(row),
         written' = written, exit_status' \notin {0, 1}
  PROVE  StdioIsBehind'
<1>1. Has("csv")' <=> Has("csv")
  BY SameInput
<1>2. CASE Has("csv")
  <2>1. PICK t \in Seq(Tokens), u \in Seq(Tokens) :
          /\ t = csv_output /\ u = WriteCsvRow(row) /\ csv_output' = t \o u
    BY <1>2, ReadsRow DEF WriteRowStrings, ReportIInv, CsvIsWritten
  <2>2. Len(t \o u) = Len(t) + Len(u) /\ Len(t) \in Nat /\ Len(u) \in Nat
    BY ONLY t \in Seq(Tokens), u \in Seq(Tokens), ConcatProperties, LenProperties
  <2>3. written \in Nat /\ written <= Len(t)
    BY <1>2, <2>1 DEF ReportIInv, StdioIsBehind
  <2>4. written <= Len(csv_output')
    BY <2>1, <2>2, <2>3
  <2> QED
    BY <2>3, <2>4 DEF StdioIsBehind
<1>3. CASE ~Has("csv")
  BY <1>1, <1>3 DEF StdioIsBehind
<1> QED
  BY <1>2, <1>3

LEMMA StdioExits ==
  ASSUME ReportIInv, contents' = contents, options' = options, csv_output' = csv_output,
         NEW status, Exit(status)
  PROVE  StdioIsBehind'
<1>1. Has("csv")' <=> Has("csv")
  BY SameInput
<1>2. CASE Has("csv")
  <2>1. csv_output \in Seq(Tokens) /\ Len(csv_output) \in Nat
    BY <1>2, LenProperties DEF ReportIInv, CsvIsWritten
  <2> QED
    BY <1>2, <2>1 DEF ReportIInv, StdioIsBehind, Exit
<1>3. CASE ~Has("csv")
  BY <1>1, <1>3 DEF StdioIsBehind
<1> QED
  BY <1>2, <1>3

(* Nothing is printed before the end.                                      *)
LEMMA StillUnprinted ==
  ASSUME ReportIInv, Unfinished, printout' = printout, exit_status' # 0
  PROVE  IsPrinted'
BY DEF ReportIInv, IsPrinted, Unfinished

LEMMA KindsIndex ==
  ASSUME ReportTypeOK
  PROVE  /\ current \in DOMAIN Kinds <=> current \in 1..6
         /\ current > Len(Kinds) <=> current = 7
         /\ current \in 1..6 => Len(contents[Kinds[current]]) \in Nat
<1>1. current \in 1..6 => Len(contents[Kinds[current]]) \in Nat
  BY ContentsType, LenProperties DEF ReportTypeOK
<1> QED
  BY <1>1, KindsAre DEF ReportTypeOK

LEMMA InitReport == ReportInit => ReportIInv
<1> SUFFICES ASSUME ReportInit PROVE ReportIInv
  OBVIOUS
<1>1. ReportTypeOK
  BY DEF ReportInit, ReportTypeOK
<1>2. Lines = <<>>
  BY LinesStart DEF Lines, ReportInit
<1>3. HasRead(Lines) = NothingRead
  <2>1. ValuesOf(<<>>) = <<>>
    BY DEF ValuesOf
  <2> QED
    BY <1>2, <2>1 DEF HasRead, NothingRead
<1>4. csv_output \in Seq(Tokens) /\ Reads(NothingRead, csv_output, NothingRead)
  BY EmptySeq, ReadsNothing DEF ReportInit
<1>5. RowsAreKept /\ IsPrinted
  BY <1>2 DEF ReportInit, RowsAreKept, IsPrinted
<1>6. StdioIsBehind
  BY EmptySeq DEF ReportInit, StdioIsBehind
<1> QED
  BY <1>1, <1>3, <1>4, <1>5, <1>6 DEF ReportIInv, CsvIsWritten

LEMMA StepStart == ReportIInv /\ Start => ReportIInv'
<1> SUFFICES ASSUME ReportIInv, Start PROVE ReportIInv'
  OBVIOUS
<1>1. ReportTypeOK /\ current = 0 /\ done = 0
  BY DEF ReportIInv, ReportTypeOK, Start
<1>2. contents' = contents /\ options' = options /\ Output' = Output
  BY SameInput DEF Start
<1>3. ReportTypeOK'
  <2>1. Len(contents[Kinds[1]]) \in Nat
    BY <1>1, ContentsType, LenProperties DEF ReportTypeOK
  <2>2. contents' \in Guests /\ current' = 1 /\ done' = 0 /\ exit_status' = -1
    BY <1>1 DEF Start, Unfinished, ReportTypeOK
  <2> QED
    BY <1>2, <2>1, <2>2 DEF ReportTypeOK
<1>4. Lines = <<>> /\ Lines' = IF Titled THEN <<Headings>> ELSE <<>>
  <2>1. current' = 1 /\ done' = 0
    BY <1>1 DEF Start
  <2> QED
    BY <1>1, <1>2, <2>1, NextLines, LinesStart DEF Lines
<1>5. RowsAreKept' /\ CsvIsWritten'
  <2>1. CASE Titled
    <3>1. PICK h \in Seq(Field) : h = Headings /\ Len(h) # 0
      BY HeadingsType
    <3>2. Append(<<>>, h) = <<h>>
      OBVIOUS
    <3>3. WriteRowStrings(h)
      BY <2>1, <3>1 DEF Start
    <3>4. Lines' = Append(Lines, h)
      BY <1>4, <2>1, <3>1, <3>2
    <3> QED
      BY <1>2, <3>1, <3>3, <3>4, OutputGrows
  <2>2. CASE ~Titled
    BY <1>2, <1>4, <2>2, OutputIsKept DEF Start
  <2> QED
    BY <2>1, <2>2
<1>6. IsPrinted'
  BY StillUnprinted DEF Start, Unfinished
<1>7. StdioIsBehind'
  <2>1. written' = written /\ exit_status' = -1
    BY DEF Start, Unfinished
  <2>2. CASE Titled
    <3>1. PICK h \in Seq(Field) : h = Headings /\ Len(h) # 0
      BY HeadingsType
    <3>2. WriteRowStrings(h)
      BY <2>2, <3>1 DEF Start
    <3> QED
      BY <1>2, <2>1, <3>1, <3>2, StdioGrows
  <2>3. CASE ~Titled
    BY <1>2, <2>1, <2>3, StdioIsKept DEF Start
  <2> QED
    BY <2>2, <2>3
<1> QED
  BY <1>3, <1>5, <1>6, <1>7 DEF ReportIInv

LEMMA StepSkip == ReportIInv /\ Skip => ReportIInv'
<1> SUFFICES ASSUME ReportIInv, Skip PROVE ReportIInv'
  OBVIOUS
<1>1. /\ ReportTypeOK /\ current \in 1..6 /\ Kinds[current] \in Output
      /\ done < Len(contents[Kinds[current]]) /\ contents \in Guests /\ done \in Nat
      /\ exit_status = -1
  BY KindsIndex DEF ReportIInv, ReportTypeOK, Skip, InList, Listing, Unfinished
<1>2. contents' = contents /\ options' = options /\ Output' = Output
  BY SameInput DEF Skip
<1>3. current' = current /\ done' = done + 1 /\ exit_status' = exit_status
  BY DEF Skip
<1>4. ReportTypeOK'
  <2>1. Len(contents[Kinds[current]]) \in Nat
    BY <1>1, KindsIndex
  <2>2. done + 1 \in Nat /\ done + 1 <= Len(contents[Kinds[current]])
    BY <1>1, <2>1
  <2> QED
    BY <1>1, <1>2, <1>3, <2>2 DEF ReportTypeOK
<1>5. Lines' = Lines
  <2>1. ~Wanted(Kinds[current], contents[Kinds[current]][done + 1])
    BY DEF Skip, Wanted, Entry
  <2>2. LinesAt(current, done + 1) = LinesAt(current, done)
    BY ONLY <1>1, <2>1, LinesSkip
  <2> QED
    BY <1>2, <1>3, <2>2, NextLines DEF Lines
<1>6. RowsAreKept' /\ CsvIsWritten'
  BY <1>2, <1>5, OutputIsKept DEF Skip
<1>7. IsPrinted'
  BY <1>1, <1>3, StillUnprinted DEF Skip, Unfinished
<1>8. StdioIsBehind'
  BY <1>1, <1>2, <1>3, StdioIsKept DEF Skip
<1> QED
  BY <1>4, <1>6, <1>7, <1>8 DEF ReportIInv

LEMMA StepWrite == ReportIInv /\ Write => ReportIInv'
<1> SUFFICES ASSUME ReportIInv, Write PROVE ReportIInv'
  OBVIOUS
<1>1. /\ ReportTypeOK /\ current \in 1..6 /\ Kinds[current] \in Output
      /\ done < Len(contents[Kinds[current]]) /\ contents \in Guests /\ done \in Nat
      /\ exit_status = -1
  BY KindsIndex DEF ReportIInv, ReportTypeOK, Write, InList, Listing, Unfinished
<1>2. contents' = contents /\ options' = options /\ Output' = Output
  BY SameInput DEF Write
<1>3. current' = current /\ done' = done + 1 /\ exit_status' = exit_status
  BY DEF Write
<1>4. ReportTypeOK'
  <2>1. Len(contents[Kinds[current]]) \in Nat
    BY <1>1, KindsIndex
  <2>2. done + 1 \in Nat /\ done + 1 <= Len(contents[Kinds[current]])
    BY <1>1, <2>1
  <2> QED
    BY <1>1, <1>2, <1>3, <2>2 DEF ReportTypeOK
<1>5. PICK o : o = <<Kinds[current], contents[Kinds[current]][done + 1]>>
  OBVIOUS
<1>6. /\ o \in Object /\ LinesAt(current, done) \in Seq(Seq(Field))
      /\ LinesAt(current, done + 1) = Append(LinesAt(current, done), RowFields(o))
  <2>1. Wanted(Kinds[current], contents[Kinds[current]][done + 1])
    BY DEF Write, Wanted, Entry
  <2> QED
    BY ONLY <1>1, <1>5, <2>1, LinesWrite
<1>7. PICK row \in Seq(Field) : row = RowFields(o) /\ Len(row) # 0
  BY <1>1, <1>6, RowFieldsType, HeadingsType
<1>8. WriteRowStrings(row)
  <2>1. RowFields(o) = [k \in DOMAIN Columns |-> RowOf(Kinds[current], Entry)[Columns[k]]]
    BY <1>5 DEF RowFields, Entry
  <2> QED
    BY <1>7, <2>1 DEF Write, WriteRow
<1>9. Lines' = Append(Lines, row)
  BY <1>2, <1>3, <1>6, <1>7, NextLines DEF Lines
<1>10. RowsAreKept' /\ CsvIsWritten'
  BY <1>2, <1>7, <1>8, <1>9, OutputGrows
<1>11. IsPrinted'
  BY <1>1, <1>3, StillUnprinted DEF Write, Unfinished
<1>12. StdioIsBehind'
  <2>1. written' = written /\ exit_status' = -1
    BY <1>1, <1>3 DEF Write
  <2> QED
    BY <1>2, <1>7, <1>8, <2>1, StdioGrows
<1> QED
  BY <1>4, <1>10, <1>11, <1>12 DEF ReportIInv

LEMMA StepNextKind == ReportIInv /\ NextKind => ReportIInv'
<1> SUFFICES ASSUME ReportIInv, NextKind PROVE ReportIInv'
  OBVIOUS
<1>1. /\ ReportTypeOK /\ current \in 1..6 /\ contents \in Guests /\ done \in Nat
      /\ exit_status = -1
  BY KindsIndex DEF ReportIInv, ReportTypeOK, NextKind, Unfinished
<1>2. contents' = contents /\ options' = options /\ Output' = Output
  BY SameInput DEF NextKind
<1>3. current' = current + 1 /\ done' = 0 /\ exit_status' = exit_status
  BY DEF NextKind
<1>4. Kinds[current] \in Output => done = Len(contents[Kinds[current]])
  BY <1>1, KindsIndex DEF NextKind, InList, Listing, Unfinished, ReportTypeOK
<1>5. ReportTypeOK'
  <2>1. current' \in 0..7 /\ (current' \in 1..6 => Len(contents[Kinds[current']]) \in Nat)
    <3>1. current' \in 1..7
      BY <1>1, <1>3
    <3> QED
      BY <1>1, <3>1, ContentsType, LenProperties
  <2>2. done' = 0 /\ contents' \in Guests /\ exit_status' = -1
    BY <1>1, <1>2, <1>3
  <2> QED
    BY <1>2, <2>1, <2>2 DEF ReportTypeOK
<1>6. Lines' = Lines
  <2>1. LinesAt(current + 1, 0) = LinesAt(current, done)
    BY ONLY <1>1, <1>4, LinesNextKind
  <2> QED
    BY <1>2, <1>3, <2>1, NextLines DEF Lines
<1>7. RowsAreKept' /\ CsvIsWritten'
  BY <1>2, <1>6, OutputIsKept DEF NextKind
<1>8. IsPrinted'
  BY <1>1, <1>3, StillUnprinted DEF NextKind, Unfinished
<1>9. StdioIsBehind'
  BY <1>1, <1>2, <1>3, StdioIsKept DEF NextKind
<1> QED
  BY <1>5, <1>7, <1>8, <1>9 DEF ReportIInv

(* The steps that end the program, those of stdio, and those that change   *)
(* nothing.                                                                *)
LEMMA StepEnds ==
  ASSUME ReportIInv, Unfinished, exit_status' \in {-1, 1, 139},
         UNCHANGED <<contents, options, current, done, rows, printout, csv_output>>,
         StdioIsBehind'
  PROVE  ReportIInv'
<1>1. contents' = contents /\ options' = options /\ Output' = Output
  BY SameInput
<1>2. current' = current /\ done' = done
  OBVIOUS
<1>3. ReportTypeOK'
  BY <1>1, <1>2 DEF ReportIInv, ReportTypeOK
<1>4. Lines' = Lines
  BY <1>1, <1>2, NextLines DEF Lines
<1>5. RowsAreKept' /\ CsvIsWritten'
  BY <1>1, <1>4, OutputIsKept
<1>6. IsPrinted'
  BY StillUnprinted
<1> QED
  BY <1>3, <1>5, <1>6 DEF ReportIInv

LEMMA StepFails == ReportIInv /\ (RefuseOptions \/ LaunchFails \/ LibraryFails) => ReportIInv'
<1> SUFFICES ASSUME ReportIInv, RefuseOptions \/ LaunchFails \/ LibraryFails PROVE ReportIInv'
  OBVIOUS
<1>1. /\ Unfinished /\ Exit(1)
      /\ UNCHANGED <<contents, options, current, done, rows, printout, csv_output>>
  BY DEF RefuseOptions, LaunchFails, LibraryFails, Listing
<1>2. StdioIsBehind' /\ exit_status' = 1
  BY <1>1, StdioExits DEF Exit
<1> QED
  BY <1>1, <1>2, StepEnds

LEMMA StepStatFails == ReportIInv /\ StatFails => ReportIInv'
<1> SUFFICES ASSUME ReportIInv, StatFails PROVE ReportIInv'
  OBVIOUS
<1>1. /\ Unfinished /\ exit_status' = 139 /\ written' = written
      /\ UNCHANGED <<contents, options, current, done, rows, printout, csv_output>>
  BY DEF StatFails, InList, Listing
<1>2. StdioIsBehind'
  BY <1>1, StdioIsKept
<1> QED
  BY <1>1, <1>2, StepEnds

LEMMA StepStdio == ReportIInv /\ (Flush \/ OutputFills) => ReportIInv'
<1> SUFFICES ASSUME ReportIInv, Flush \/ OutputFills PROVE ReportIInv'
  OBVIOUS
<1>1. /\ Unfinished /\ exit_status' = -1
      /\ UNCHANGED <<contents, options, current, done, rows, printout, csv_output>>
  BY DEF Flush, OutputFills, Unfinished
<1>2. StdioIsBehind'
  <2>1. CASE Flush
    <3>1. PICK n \in (written + 1)..Len(csv_output) : written' = n
      BY <2>1 DEF Flush
    <3>2. Has("csv")' <=> Has("csv")
      BY <1>1, SameInput
    <3>3. CASE Has("csv")
      <4>1. csv_output \in Seq(Tokens) /\ Len(csv_output) \in Nat /\ written \in Nat
        BY <3>3, LenProperties DEF ReportIInv, CsvIsWritten, StdioIsBehind
      <4>2. n \in Nat /\ n <= Len(csv_output)
        BY <3>1, <4>1
      <4> QED
        BY <1>1, <3>1, <4>2 DEF StdioIsBehind
    <3>4. CASE ~Has("csv")
      BY <3>2, <3>4 DEF StdioIsBehind
    <3> QED
      BY <3>3, <3>4
  <2>2. CASE OutputFills
    BY <1>1, <2>2, StdioIsKept DEF OutputFills
  <2> QED
    BY <2>1, <2>2
<1> QED
  BY <1>1, <1>2, StepEnds

LEMMA StepEnd == ReportIInv /\ End => ReportIInv'
<1> SUFFICES ASSUME ReportIInv, End PROVE ReportIInv'
  OBVIOUS
<1>1. contents' = contents /\ options' = options /\ Output' = Output /\ rows' = rows
  BY SameInput DEF End
<1>2. current' = current /\ done' = done /\ exit_status' = 0 /\ current = 7
  BY KindsIndex DEF End, Exit, ReportIInv
<1>3. ReportTypeOK'
  BY <1>1, <1>2 DEF ReportIInv, ReportTypeOK
<1>4. Lines' = Lines
  BY <1>1, <1>2, NextLines DEF Lines
<1>5. RowsAreKept' /\ CsvIsWritten'
  BY <1>1, <1>4, OutputIsKept DEF End
<1>6. IsPrinted'
  <2>1. Has("csv")' <=> Has("csv")
    BY <1>1, SameInput
  <2>2. Table' = Table
    <3>1. \A row : ShownFields(row)' = ShownFields(row)
      BY <1>1, SameInput
    <3> QED
      BY <1>1, <3>1 DEF Table
  <2>3. full' = full
    BY DEF End, Exit
  <2> QED
    BY <1>2, <2>1, <2>2, <2>3 DEF End, PrintTable, IsPrinted
<1>7. StdioIsBehind'
  BY <1>1, StdioExits DEF End
<1> QED
  BY <1>3, <1>5, <1>6, <1>7 DEF ReportIInv

LEMMA StepNothing == ReportIInv /\ UNCHANGED report_vars => ReportIInv'
<1> SUFFICES ASSUME ReportIInv, UNCHANGED report_vars PROVE ReportIInv'
  OBVIOUS
<1>1. /\ contents' = contents /\ options' = options /\ Output' = Output /\ rows' = rows
      /\ current' = current /\ done' = done /\ exit_status' = exit_status
      /\ printout' = printout /\ csv_output' = csv_output /\ written' = written /\ full' = full
  BY SameInput DEF report_vars
<1>3. ReportTypeOK'
  BY <1>1 DEF ReportIInv, ReportTypeOK
<1>4. Lines' = Lines
  BY <1>1, NextLines DEF Lines
<1>5. RowsAreKept' /\ CsvIsWritten'
  BY <1>1, <1>4, OutputIsKept
<1>6. IsPrinted'
  <2>1. Has("csv")' <=> Has("csv")
    BY <1>1, SameInput
  <2>2. Table' = Table
    <3>1. \A row : ShownFields(row)' = ShownFields(row)
      BY <1>1, SameInput
    <3> QED
      BY <1>1, <3>1 DEF Table
  <2> QED
    BY <1>1, <2>1, <2>2 DEF ReportIInv, IsPrinted
<1>7. StdioIsBehind'
  <2>1. Has("csv")' <=> Has("csv")
    BY <1>1, SameInput
  <2> QED
    BY <1>1, <2>1 DEF ReportIInv, StdioIsBehind
<1> QED
  BY <1>3, <1>5, <1>6, <1>7 DEF ReportIInv

\* The lines of what is done are what has been written: kept by a text report, readable
\* in the output of a CSV report.
THEOREM ReportInvariance == ReportSpec => []ReportIInv
<1>1. ReportIInv /\ [ReportNext]_report_vars => ReportIInv'
  <2> SUFFICES ASSUME ReportIInv, [ReportNext]_report_vars PROVE ReportIInv'
    OBVIOUS
  <2>1. CASE RefuseOptions \/ LaunchFails \/ LibraryFails
    BY <2>1, StepFails
  <2>2. CASE Start
    BY <2>2, StepStart
  <2>3. CASE Skip
    BY <2>3, StepSkip
  <2>4. CASE Write
    BY <2>4, StepWrite
  <2>5. CASE StatFails
    BY <2>5, StepStatFails
  <2>6. CASE NextKind
    BY <2>6, StepNextKind
  <2>7. CASE Flush \/ OutputFills
    BY <2>7, StepStdio
  <2>8. CASE End
    BY <2>8, StepEnd
  <2>9. CASE UNCHANGED report_vars
    BY <2>9, StepNothing
  <2> QED
    BY <2>1, <2>2, <2>3, <2>4, <2>5, <2>6, <2>7, <2>8, <2>9 DEF ReportNext
<1> QED
  BY <1>1, InitReport, PTL DEF ReportSpec

-----------------------------------------------------------------------------
(* The reader's recursive definition gives what Reads says.                *)

LEMMA ReadUpToIs ==
  ASSUME csv_output \in Seq(Tokens), NEW q, Reads(NothingRead, csv_output, q)
  PROVE  /\ ReadUpTo[0] = NothingRead /\ ReadUpTo[Len(csv_output)] = q
         /\ \A n \in 1..Len(csv_output) : ReadUpTo[n] = Read(ReadUpTo[n - 1], csv_output[n])
<1> PICK N \in Nat : N = Len(csv_output)
  BY LenProperties
<1> PICK r : r = NothingRead
  OBVIOUS
<1>1. PICK g : g[0] = r /\ g[N] = q /\ \A n \in 1..N : g[n] = Read(g[n - 1], csv_output[n])
  BY DEF Reads
<1> DEFINE h == [n \in 0..N |-> g[n]]
<1>2. \A n \in 0..N : h[n] = IF n = 0 THEN r ELSE Read(h[n - 1], csv_output[n])
  <2> TAKE n \in 0..N
  <2>1. CASE n = 0
    BY <1>1, <2>1
  <2>2. CASE n # 0
    <3>1. n \in 1..N /\ n - 1 \in 0..N
      BY <2>2
    <3> QED
      BY <1>1, <2>2, <3>1
  <2> QED
    BY <2>1, <2>2
<1>3. h = [n \in 0..N |-> IF n = 0 THEN r ELSE Read(h[n - 1], csv_output[n])]
  <2>1. h = [n \in 0..N |-> h[n]]
    OBVIOUS
  <2> HIDE DEF h
  <2> QED
    BY <1>2, <2>1, Zenon
<1>4. ReadUpTo = [n \in 0..N |-> IF n = 0 THEN r ELSE Read(ReadUpTo[n - 1], csv_output[n])]
  <2>1. r = [rows |-> <<>>, row |-> <<>>, field |-> <<>>, quoted |-> FALSE, closed |-> FALSE]
    BY DEF NothingRead, Plain, Outside
  <2> HIDE DEF h
  <2> QED
    BY <1>3, <2>1, Zenon DEF ReadUpTo
<1>5. \A n \in 0..N : ReadUpTo[n] = IF n = 0 THEN r ELSE Read(ReadUpTo[n - 1], csv_output[n])
  BY <1>4, Zenon
<1> DEFINE S == {n \in Nat : n \in 0..N => ReadUpTo[n] = g[n]}
<1>6. ASSUME NEW n \in Nat, \A m \in 0..(n - 1) : m \in S PROVE n \in S
  <2> SUFFICES ASSUME n \in 0..N PROVE ReadUpTo[n] = g[n]
    OBVIOUS
  <2>1. CASE n = 0
    BY <1>1, <1>5, <2>1
  <2>2. CASE n # 0
    <3>1. n - 1 \in 0..(n - 1) /\ n - 1 \in 0..N /\ n \in 1..N
      BY <2>2
    <3>2. ReadUpTo[n - 1] = g[n - 1]
      BY <1>6, <3>1
    <3> QED
      BY <1>1, <1>5, <2>2, <3>1, <3>2
  <2> QED
    BY <2>1, <2>2
<1>7. N \in S
  <2> HIDE DEF S
  <2>1. Nat \subseteq S
    BY <1>6, CompleteInduction
  <2> QED
    BY <2>1
<1>8. ReadUpTo[N] = g[N]
  BY <1>7
<1>9. ReadUpTo[0] = r /\ \A n \in 1..N : ReadUpTo[n] = Read(ReadUpTo[n - 1], csv_output[n])
  <2>1. 0 \in 0..N /\ \A n \in 1..N : n \in 0..N /\ n # 0
    OBVIOUS
  <2> QED
    BY <1>5, <2>1
<1> QED
  BY <1>1, <1>8, <1>9

(* As a reader reads on, the rows that it has got stay.                    *)
Readers == [rows : Seq(Seq(Field)), row : Seq(Field), field : Field,
            quoted : BOOLEAN, closed : BOOLEAN]
Begins(p, s) == Len(p) <= Len(s) /\ \A i \in 1..Len(p) : p[i] = s[i]

LEMMA ReadType ==
  ASSUME NEW r \in Readers, NEW c \in Tokens
  PROVE  /\ Read(r, c) \in Readers
         /\ Read(r, c).rows = r.rows \/ \E x \in Seq(Field) : Read(r, c).rows = Append(r.rows, x)
<1>1. /\ r.rows \in Seq(Seq(Field)) /\ r.row \in Seq(Field) /\ r.field \in Field
      /\ r.quoted \in BOOLEAN /\ r.closed \in BOOLEAN
      /\ r = [rows |-> r.rows, row |-> r.row, field |-> r.field, quoted |-> r.quoted,
              closed |-> r.closed]
  BY DEF Readers
<1>2. Append(r.field, c) \in Field /\ <<>> \in Field
  BY <1>1, AppendProperties, EmptySeq DEF Field
<1>3. PICK w \in Seq(Field) : w = Append(r.row, r.field)
  BY <1>1, AppendProperties
<1>4. Append(r.rows, w) \in Seq(Seq(Field)) /\ <<>> \in Seq(Field)
  BY <1>1, AppendProperties, EmptySeq
<1>5. CASE r.quoted /\ c = "quote"
  BY <1>1, <1>5 DEF Read, Readers
<1>6. CASE r.quoted /\ c # "quote"
  BY <1>1, <1>2, <1>6 DEF Read, Readers
<1>7. CASE ~r.quoted /\ c = "quote"
  BY <1>1, <1>2, <1>7 DEF Read, Readers
<1>8. CASE ~r.quoted /\ c = "comma"
  BY <1>1, <1>2, <1>3, <1>8 DEF Read, Readers
<1>9. CASE ~r.quoted /\ c = "newline"
  <2>1. Read(r, c) = [r EXCEPT !.rows = Append(@, w), !.row = <<>>, !.field = <<>>,
                               !.closed = FALSE]
    BY <1>3, <1>9 DEF Read
  <2> QED
    BY <1>1, <1>2, <1>3, <1>4, <2>1 DEF Readers
<1>10. CASE ~r.quoted /\ c \notin {"quote", "comma", "newline"}
  BY <1>1, <1>2, <1>10 DEF Read, Readers
<1> QED
  BY <1>1, <1>5, <1>6, <1>7, <1>8, <1>9, <1>10

LEMMA RowsBegin ==
  ASSUME csv_output \in Seq(Tokens), NEW q, Reads(NothingRead, csv_output, q),
         NEW m \in Nat, m <= Len(csv_output)
  PROVE  ReadUpTo[m] \in Readers /\ q \in Readers /\ Begins(ReadUpTo[m].rows, q.rows)
<1> PICK N \in Nat : N = Len(csv_output)
  BY LenProperties
<1> PICK u : /\ u = ReadUpTo
             /\ u[0] = NothingRead /\ u[N] = q
             /\ \A n \in 1..N : u[n] = Read(u[n - 1], csv_output[n])
  BY ReadUpToIs
<1>1. NothingRead \in Readers
  <2>1. <<>> \in Field /\ <<>> \in Seq(Field) /\ <<>> \in Seq(Seq(Field))
    BY EmptySeq DEF Field
  <2> QED
    BY <2>1 DEF NothingRead, Plain, Outside, Readers
<1> DEFINE T == {n \in Nat : n <= N => u[n] \in Readers}
<1>2. ASSUME NEW n \in Nat, \A k \in 0..(n - 1) : k \in T PROVE n \in T
  <2> SUFFICES ASSUME n <= N PROVE u[n] \in Readers
    OBVIOUS
  <2>1. CASE n = 0
    BY <1>1, <2>1
  <2>2. CASE n # 0
    <3>1. n - 1 \in 0..(n - 1) /\ n \in 1..N /\ n - 1 <= N
      BY <2>2
    <3>2. u[n - 1] \in Readers /\ csv_output[n] \in Tokens
      BY <1>2, <3>1, ElementOfSeq
    <3> QED
      BY <3>1, <3>2, ReadType
  <2> QED
    BY <2>1, <2>2
<1>3. \A n \in Nat : n <= N => u[n] \in Readers
  <2> HIDE DEF T
  <2>1. Nat \subseteq T
    BY <1>2, CompleteInduction
  <2> QED
    BY <2>1 DEF T
<1> DEFINE S == {n \in Nat : m <= n /\ n <= N => Begins(u[m].rows, u[n].rows)}
<1>4. ASSUME NEW n \in Nat, \A k \in 0..(n - 1) : k \in S PROVE n \in S
  <2> SUFFICES ASSUME m <= n, n <= N PROVE Begins(u[m].rows, u[n].rows)
    OBVIOUS
  <2>1. u[m] \in Readers /\ u[n] \in Readers
    BY <1>3
  <2>2. PICK p \in Seq(Seq(Field)) : p = u[m].rows /\ Len(p) \in Nat
    BY <2>1, LenProperties DEF Readers
  <2>3. CASE n = m
    BY <2>2, <2>3 DEF Begins
  <2>4. CASE n # m
    <3>1. n - 1 \in 0..(n - 1) /\ n \in 1..N /\ n - 1 <= N /\ m <= n - 1 /\ n - 1 \in Nat
      BY <2>4
    <3>2. u[n - 1] \in Readers /\ csv_output[n] \in Tokens
      BY <1>3, <3>1, ElementOfSeq
    <3>3. PICK s \in Seq(Seq(Field)) : s = u[n - 1].rows /\ Len(s) \in Nat
      BY <3>2, LenProperties DEF Readers
    <3>4. Begins(p, s)
      BY <1>4, <2>2, <3>1, <3>3
    <3>5. u[n].rows = s \/ \E x \in Seq(Field) : u[n].rows = Append(s, x)
      BY <3>1, <3>2, <3>3, ReadType
    <3>6. CASE u[n].rows = s
      BY <2>2, <3>4, <3>6
    <3>7. ASSUME NEW x \in Seq(Field), u[n].rows = Append(s, x)
          PROVE  Begins(u[m].rows, u[n].rows)
      <4>1. Len(Append(s, x)) = Len(s) + 1 /\ \A i \in 1..Len(s) : Append(s, x)[i] = s[i]
        BY AppendProperties
      <4>2. Len(p) <= Len(s) /\ \A i \in 1..Len(p) : p[i] = s[i]
        BY <3>4 DEF Begins
      <4>3. Len(p) <= Len(s) + 1 /\ \A i \in 1..Len(p) : i \in 1..Len(s)
        BY ONLY <4>2, Len(p) \in Nat, Len(s) \in Nat
      <4> QED
        BY <2>2, <3>7, <4>1, <4>2, <4>3 DEF Begins
    <3> QED
      BY <3>5, <3>6, <3>7
  <2> QED
    BY <2>3, <2>4
<1>5. \A n \in Nat : m <= n /\ n <= N => Begins(u[m].rows, u[n].rows)
  <2> HIDE DEF S
  <2>1. Nat \subseteq S
    BY <1>4, CompleteInduction
  <2> QED
    BY <2>1 DEF S
<1> QED
  BY <1>3, <1>5

-----------------------------------------------------------------------------
(* A view of the lines shows some of their columns, the first one always,  *)
(* all of them under a title; a field that is empty may be shown as "-".   *)

IsView(view) ==
  /\ view \in Seq(1..Len(Columns)) /\ Len(view) # 0 /\ view[1] = 1
  /\ Titled => \A j \in 1..Len(Columns) : \E k \in 1..Len(view) : view[k] = j

Renders(f, x) == x = f \/ (f \in {None, <<>>} /\ x \in {<<>>, <<"-">>})
RowRenders(row, x, view) ==
  /\ x \in Seq(Field) /\ Len(x) = Len(view)
  /\ \A k \in 1..Len(view) : Renders(row[view[k]], x[k])
LinesRender(lines, shown, view) ==
  /\ shown \in Seq(Seq(Field)) /\ Len(shown) = Len(lines)
  /\ \A n \in 1..Len(lines) : RowRenders(lines[n], shown[n], view)

(* The field under a heading.                                              *)
LEMMA UnderHeading ==
  ASSUME NEW view, IsView(view), Titled, NEW title, RowRenders(Headings, title, view),
         NEW row \in Seq(Field), NEW x, RowRenders(row, x, view),
         NEW c \in ColumnNames, Shows(c), NEW f, \A k \in 1..Len(Columns) : Columns[k] = c => row[k] = f
  PROVE  Renders(f, Under(title, x, c))
<1> PICK N \in Nat : N = Len(view)
  BY LenProperties DEF IsView
<1>1. /\ \A k \in 1..N : view[k] \in 1..Len(Columns)
      /\ \A j \in 1..Len(Columns) : \E k \in 1..N : view[k] = j
  BY ElementOfSeq DEF IsView
<1>2. DOMAIN title = 1..N
  BY LenProperties DEF RowRenders
<1>3. /\ DOMAIN Columns = 1..Len(Columns)
      /\ \A j \in 1..Len(Columns) : Headings[j] = <<Columns[j]>> /\ Columns[j] \in ColumnNames
  BY ColumnsType, LenProperties, ElementOfSeq DEF Headings
<1>4. \A k \in 1..N : title[k] = <<Columns[view[k]]>>
  <2> TAKE k \in 1..N
  <2>1. Renders(Headings[view[k]], title[k])
    BY DEF RowRenders
  <2>2. /\ Headings[view[k]] = <<Columns[view[k]]>>
        /\ Headings[view[k]] # None /\ Headings[view[k]] # <<>>
    <3>1. PICK m \in ColumnNames : m = Columns[view[k]] /\ Headings[view[k]] = <<m>>
      BY <1>1, <1>3
    <3>2. <<m>> # None /\ <<m>> # <<>>
      BY FieldTypes
    <3> QED
      BY <3>1, <3>2
  <2> QED
    BY <2>1, <2>2 DEF Renders
<1>5. PICK j \in 1..Len(Columns) : Columns[j] = c
  BY <1>3 DEF Shows
<1>6. \E k \in DOMAIN title : title[k] = <<c>>
  BY <1>1, <1>2, <1>4, <1>5
<1>7. PICK k : k = CHOOSE i \in DOMAIN title : title[i] = <<c>>
  OBVIOUS
<1>8. k \in 1..N /\ title[k] = <<c>>
  BY <1>2, <1>6, <1>7
<1>9. Columns[view[k]] = c
  BY <1>4, <1>8
<1>10. row[view[k]] = f
  BY <1>1, <1>8, <1>9
<1>11. Renders(row[view[k]], x[k])
  BY <1>8 DEF RowRenders
<1> QED
  BY <1>7, <1>10, <1>11 DEF Under

LEMMA DescribesObject ==
  ASSUME contents \in Guests, NEW o \in Object, NEW view, IsView(view), NEW title,
         Titled => RowRenders(Headings, title, view),
         NEW x, RowRenders(RowFields(o), x, view)
  PROVE  Describes(title, x, o[1], o[2])
<1>1. PICK r : r = RowOf(o[1], o[2]) /\ IsRowOf(o[1], o[2], r)
  BY RowFieldsType
<1>2. PICK row \in Seq(Field) : row = RowFields(o) /\ Len(row) = Len(Columns)
                                /\ \A k \in 1..Len(Columns) : row[k] = r[Columns[k]]
  BY <1>1, RowFieldsType
<1>3. Len(Columns) \in Nat /\ Len(Columns) > 0 /\ Columns[1] = "Name"
  BY ColumnsType, LenProperties
<1>4. x[1] = IF o[1] = "lv" THEN Append(o[2].vg, o[2].name) ELSE o[2].name
  <2>1. Len(view) \in Nat /\ Len(view) # 0 /\ view[1] = 1
    BY LenProperties DEF IsView
  <2>2. Renders(row[1], x[1])
    BY <1>2, <2>1 DEF RowRenders
  <2>3. row[1] = r["Name"]
    BY <1>2, <1>3
  <2> QED
    BY <1>1, <2>2, <2>3 DEF Renders, IsRowOf
<1>5. ASSUME Titled, NEW c \in ColumnNames, Shows(c)
      PROVE  Renders(r[c], Under(title, x, c))
  <2>1. RowRenders(Headings, title, view) /\ RowRenders(row, x, view)
    BY <1>2, <1>5
  <2>2. \A k \in 1..Len(Columns) : Columns[k] = c => row[k] = r[c]
    BY <1>2
  <2> QED
    BY <1>5, <2>1, <2>2, UnderHeading
<1>6. Titled => Shows("Type") /\ Shows("Size") /\ Shows("Parent")
  <2>1. Titled => Displayed("Type") /\ Displayed("Size") /\ Displayed("Parent")
    BY DEF Titled, Displayed
  <2> QED
    BY <2>1, ColumnNamesAre, ColumnsType
<1>7. Titled => Under(title, x, "Type") = <<o[1]>>
  <2>1. <<o[1]>> # None /\ <<o[1]>> # <<>>
    <3>1. \E k \in 1..6 : o[1] = Kinds[k]
      BY DEF Object
    <3>2. o[1] # "none"
      BY <3>1, KindsAre
    <3> QED
      BY <3>2 DEF None
  <2>2. r["Type"] = <<o[1]>>
    BY <1>1 DEF IsRowOf
  <2>3. Titled => Renders(r["Type"], Under(title, x, "Type"))
    BY <1>5, <1>6, ColumnNamesAre
  <2> QED
    BY <2>1, <2>2, <2>3 DEF Renders
<1>8. \A f, y : Renders(f, y) => Agrees(y, f)
  BY DEF Renders, Agrees, Blank
<1>9. \A f, y : Renders(None, y) => Agrees(y, <<>>)
  BY DEF Renders, Agrees, Blank
<1>10. Titled => Agrees(Under(title, x, "Size"),
                        IF o[1] = "filesystem" /\ o[2].subvolume THEN <<>> ELSE o[2].size)
  <2>1. Titled => Renders(r["Size"], Under(title, x, "Size"))
    BY <1>5, <1>6, ColumnNamesAre
  <2>2. r["Size"] = IF o[1] = "filesystem" /\ o[2].subvolume THEN None ELSE o[2].size
    BY <1>1 DEF IsRowOf
  <2> QED
    BY <1>8, <1>9, <2>1, <2>2
<1>11. Titled /\ Shows("Label") =>
         Agrees(Under(title, x, "Label"), IF o[1] = "filesystem" THEN o[2].label ELSE <<>>)
  <2>1. Titled /\ Shows("Label") => Renders(r["Label"], Under(title, x, "Label"))
    BY <1>5, ColumnNamesAre
  <2>2. r["Label"] = IF o[1] = "filesystem" THEN o[2].label ELSE None
    BY <1>1 DEF IsRowOf
  <2> QED
    BY <1>8, <1>9, <2>1, <2>2
<1>14. Titled /\ Shows("VFS") =>
         Agrees(Under(title, x, "VFS"), IF o[1] = "filesystem" THEN o[2].vfs ELSE <<>>)
  <2>1. Titled /\ Shows("VFS") => Renders(r["VFS"], Under(title, x, "VFS"))
    BY <1>5, ColumnNamesAre
  <2>2. r["VFS"] = IF o[1] = "filesystem" THEN o[2].vfs ELSE None
    BY <1>1 DEF IsRowOf
  <2> QED
    BY <1>8, <1>9, <2>1, <2>2
<1>15. Titled /\ Shows("UUID") =>
         Agrees(Under(title, x, "UUID"),
                IF o[1] \in {"partition", "device"} THEN <<>> ELSE o[2].uuid)
  <2>1. Titled /\ Shows("UUID") => Renders(r["UUID"], Under(title, x, "UUID"))
    BY <1>5, ColumnNamesAre
  <2>2. r["UUID"] = IF o[1] \in {"partition", "device"} THEN None ELSE o[2].uuid
    BY <1>1 DEF IsRowOf
  <2> QED
    BY <1>8, <1>9, <2>1, <2>2
<1>16. Titled /\ Shows("FSVersion") =>
         Agrees(Under(title, x, "FSVersion"), IF o[1] = "filesystem" THEN o[2].version ELSE <<>>)
  <2>1. Titled /\ Shows("FSVersion") => Renders(r["FSVersion"], Under(title, x, "FSVersion"))
    BY <1>5, ColumnNamesAre
  <2>2. r["FSVersion"] = IF o[1] = "filesystem" THEN o[2].version ELSE None
    BY <1>1 DEF IsRowOf
  <2> QED
    BY <1>8, <1>9, <2>1, <2>2
<1>12. Titled /\ Shows("MBR") =>
         Agrees(Under(title, x, "MBR"),
                IF o[1] = "partition" /\ o[2].table = "msdos" THEN o[2].id ELSE <<>>)
  <2>1. Titled /\ Shows("MBR") => Renders(r["MBR"], Under(title, x, "MBR"))
    BY <1>5, ColumnNamesAre
  <2>2. r["MBR"] = IF o[1] = "partition" /\ o[2].table = "msdos" THEN o[2].id ELSE None
    BY <1>1 DEF IsRowOf
  <2> QED
    BY <1>8, <1>9, <2>1, <2>2
<1>13. Titled /\ o[1] # "vg" =>
         Agrees(Under(title, x, "Parent"), CASE o[1] = "lv" -> o[2].vg
                                             [] o[1] = "partition" -> o[2].device
                                             [] o[1] = "pv" -> <<>>
                                             [] OTHER -> JoinStrings(o[2].md))
  <2>1. Titled => Renders(r["Parent"], Under(title, x, "Parent"))
    BY <1>5, <1>6, ColumnNamesAre
  <2>2. o[1] # "vg" => r["Parent"] = CASE o[1] = "lv" -> o[2].vg
                                       [] o[1] = "partition" -> o[2].device
                                       [] o[1] = "pv" -> <<>>
                                       [] OTHER -> JoinStrings(o[2].md)
    BY <1>1 DEF IsRowOf
  <2> QED
    BY <1>8, <2>1, <2>2
<1> QED
  BY <1>4, <1>7, <1>10, <1>11, <1>12, <1>13, <1>14, <1>15, <1>16 DEF Describes

(* What is shown below the title describes what is done.                   *)
IsBelow(t, b, s) ==
  /\ Len(Below(s)) = Len(b) /\ DOMAIN Below(s) = 1..Len(b) /\ Len(b) \in Nat
  /\ Len(s) = Len(b) + Len(t)
  /\ \A n \in 1..Len(b) : /\ Below(s)[n] = s[n + Len(t)] /\ n + Len(t) \in 1..Len(s)
                          /\ (t \o b)[n + Len(t)] = b[n]
  /\ Titled => 1 \in 1..Len(s) /\ (t \o b)[1] = t[1]

LEMMA BelowTheTitle ==
  ASSUME NEW R, NEW t \in Seq(R), NEW b \in Seq(R), Len(t) = IF Titled THEN 1 ELSE 0,
         NEW s \in Seq(R), Len(s) = Len(t \o b)
  PROVE  IsBelow(t, b, s)
<1> PICK N \in Nat : N = Len(b)
  BY LenProperties
<1>1. Len(t) \in {0, 1} /\ Len(s) \in Nat
  BY LenProperties
<1>2. /\ Len(t \o b) = Len(t) + Len(b)
      /\ \A i \in 1..Len(t) + Len(b) : (t \o b)[i] = IF i <= Len(t) THEN t[i] ELSE b[i - Len(t)]
  BY ONLY ConcatProperties, t \in Seq(R), b \in Seq(R)
<1>3. Len(s) = N + Len(t)
  BY <1>1, <1>2
<1>4. ASSUME NEW n \in 1..N
      PROVE  n + Len(t) \in 1..Len(s) /\ (t \o b)[n + Len(t)] = b[n]
  <2>1. n + Len(t) \in 1..(Len(t) + Len(b)) /\ ~(n + Len(t) <= Len(t)) /\ (n + Len(t)) - Len(t) = n
    BY <1>1, <1>3
  <2> QED
    BY <1>2, <1>3, <2>1
<1>5. CASE Titled
  <2>1. Len(t) = 1 /\ s # <<>>
    BY <1>3, <1>5, EmptySeq
  <2>2. Below(s) = Tail(s)
    BY <1>5, <2>1 DEF Below
  <2>3. Tail(s) \in Seq(R) /\ Len(Tail(s)) = N /\ DOMAIN Tail(s) = 1..N
    <3>1. /\ Tail(s) \in Seq(R) /\ Len(Tail(s)) = Len(s) - 1
      BY ONLY <2>1, s \in Seq(R), HeadTailProperties
    <3>2. Len(s) - 1 = N
      BY ONLY <1>3, <2>1, N \in Nat
    <3> QED
      BY <3>1, <3>2, LenProperties
  <2>4. \A n \in 1..N : Tail(s)[n] = s[n + 1]
    <3>1. \A n \in 1..Len(Tail(s)) : Tail(s)[n] = s[n + 1]
      BY ONLY <2>1, s \in Seq(R), HeadTailProperties
    <3> QED
      BY <2>3, <3>1
  <2>5. (t \o b)[1] = t[1] /\ 1 \in 1..Len(s)
    <3>1. 1 \in 1..(1 + N) /\ Len(t) + Len(b) = 1 + N /\ 1 <= Len(t) /\ Len(s) = 1 + N
      BY ONLY <1>3, <2>1, N \in Nat, N = Len(b)
    <3> QED
      BY <1>2, <1>3, <2>1, <3>1
  <2> QED
    BY <1>3, <1>4, <1>5, <2>1, <2>2, <2>3, <2>4, <2>5 DEF IsBelow
<1>6. CASE ~Titled
  <2>1. Len(t) = 0 /\ Below(s) = s /\ DOMAIN s = 1..N /\ Len(s) = N
    BY <1>3, <1>6, LenProperties DEF Below
  <2>2. \A n \in 1..N : n + Len(t) = n
    BY <2>1
  <2> QED
    BY <1>3, <1>4, <1>6, <2>1, <2>2 DEF IsBelow
<1> QED
  BY <1>5, <1>6

LEMMA ShownIsDescribed ==
  ASSUME contents \in Guests, NEW c \in 1..7, NEW d \in Nat,
         c \in 1..6 => d <= Len(contents[Kinds[c]]),
         NEW view, IsView(view), NEW shown, LinesRender(LinesAt(c, d), shown, view)
  PROVE  AreDescribed(shown) /\ Len(Below(shown)) = Len(Finished(c, d))
<1>0. c \in 0..7
  OBVIOUS
<1> PICK t \in Seq(Seq(Field)), b \in Seq(Seq(Field)) :
      t = Title(c) /\ b = Body(Finished(c, d)) /\ LinesAt(c, d) = t \o b
  BY <1>0, LinesType DEF LinesAt
<1>1. Len(t) = (IF Titled THEN 1 ELSE 0) /\ (Titled => t[1] = Headings)
  BY DEF Title
<1>2. PICK f \in Seq(Object) : f = Finished(c, d)
  BY <1>0, FinishedType
<1>3. PICK N \in Nat : /\ N = Len(f) /\ N = Len(b)
                       /\ \A n \in 1..N : b[n] = RowFields(f[n])
  BY <1>2, BodyType, LenProperties
<1>4. PICK y \in Seq(Object) : Objects = f \o y
  BY <1>0, <1>2, FinishedIsPrefix
<1>5. N <= Len(Objects) /\ \A n \in 1..N : Objects[n] = f[n] /\ f[n] \in Object
  <2>1. /\ Len(f \o y) = Len(f) + Len(y) /\ Len(y) \in Nat
        /\ \A i \in 1..Len(f) + Len(y) : (f \o y)[i] = IF i <= Len(f) THEN f[i] ELSE y[i - Len(f)]
    BY ONLY ConcatProperties, LenProperties, f \in Seq(Object), y \in Seq(Object)
  <2>2. \A n \in 1..N : n \in 1..(Len(f) + Len(y)) /\ n <= Len(f)
    BY <1>3, <2>1
  <2>3. \A n \in 1..N : f[n] \in Object
    BY <1>3, ElementOfSeq
  <2> QED
    BY <1>3, <1>4, <2>1, <2>2, <2>3
<1>6. /\ shown \in Seq(Seq(Field)) /\ Len(shown) = Len(t \o b)
      /\ \A n \in 1..Len(shown) : RowRenders((t \o b)[n], shown[n], view)
  BY DEF LinesRender
<1>7. IsBelow(t, b, shown)
  <2>1. Len(t) = IF Titled THEN 1 ELSE 0
    BY <1>1
  <2> QED
    BY ONLY <1>6, <2>1, t \in Seq(Seq(Field)), b \in Seq(Seq(Field)), BelowTheTitle
<1>8. Titled => RowRenders(Headings, shown[1], view)
  BY <1>1, <1>6, <1>7 DEF IsBelow
<1>9. ASSUME NEW n \in 1..N
      PROVE  Describes(shown[1], Below(shown)[n], Objects[n][1], Objects[n][2])
  <2>1. PICK x : x = Below(shown)[n] /\ RowRenders(RowFields(f[n]), x, view)
    <3>1. PICK m : m = n + Len(t)
      OBVIOUS
    <3>2. m \in 1..Len(shown) /\ Below(shown)[n] = shown[m] /\ (t \o b)[m] = b[n]
      BY <1>3, <1>7, <3>1 DEF IsBelow
    <3>3. RowRenders((t \o b)[m], shown[m], view)
      BY <1>6, <3>2
    <3>4. b[n] = RowFields(f[n])
      BY <1>3
    <3> QED
      BY <3>2, <3>3, <3>4
  <2>2. PICK o \in Object : o = f[n] /\ o = Objects[n]
    BY <1>5
  <2>3. RowRenders(RowFields(o), x, view)
    BY <2>1, <2>2
  <2>4. Describes(shown[1], x, o[1], o[2])
    BY <1>8, <2>3, DescribesObject
  <2> QED
    BY <2>1, <2>2, <2>4
<1> QED
  BY <1>2, <1>3, <1>5, <1>7, <1>9 DEF AreDescribed, IsBelow

(* Every line has a field in every column, and one in the first.           *)
LEMMA LinesAreFull ==
  ASSUME contents \in Guests, NEW c \in 0..7, NEW d \in Nat,
         c \in 1..6 => d <= Len(contents[Kinds[c]])
  PROVE  /\ \A n \in 1..Len(LinesAt(c, d)) : /\ Len(LinesAt(c, d)[n]) = Len(Columns)
                                             /\ LinesAt(c, d)[n][1] # None
         /\ Titled /\ c # 0 => Len(LinesAt(c, d)) # 0 /\ LinesAt(c, d)[1] = Headings
<1> PICK t \in Seq(Seq(Field)), b \in Seq(Seq(Field)), s \in Seq(Seq(Field)) :
      t = Title(c) /\ b = Body(Finished(c, d)) /\ s = LinesAt(c, d) /\ s = t \o b
  BY LinesType DEF LinesAt
<1> PICK M \in Nat, N \in Nat : M = Len(t) /\ N = Len(b)
  BY LenProperties
<1>1. /\ Len(s) = M + N
      /\ \A n \in 1..(M + N) : s[n] = IF n <= M THEN t[n] ELSE b[n - M]
  <2>1. /\ Len(t \o b) = Len(t) + Len(b)
        /\ \A n \in 1..Len(t) + Len(b) : (t \o b)[n] = IF n <= Len(t) THEN t[n] ELSE b[n - Len(t)]
    BY ONLY ConcatProperties, t \in Seq(Seq(Field)), b \in Seq(Seq(Field))
  <2> QED
    BY <2>1
<1>2. PICK f \in Seq(Object) : f = Finished(c, d) /\ Len(f) = N /\ \A n \in 1..N : b[n] = RowFields(f[n])
  <2>1. PICK f \in Seq(Object) : f = Finished(c, d)
    BY FinishedType
  <2>2. /\ Len(Body(f)) = Len(f)
        /\ \A n \in 1..Len(f) : Body(f)[n] = RowFields(f[n])
    BY ONLY contents \in Guests, f \in Seq(Object), BodyType
  <2> QED
    BY <2>1, <2>2
<1>3. \A n \in 1..N : Len(b[n]) = Len(Columns) /\ b[n][1] # None
  <2> TAKE n \in 1..N
  <2>1. PICK o \in Object : o = f[n] /\ b[n] = RowFields(o)
    BY <1>2, ElementOfSeq
  <2>2. PICK r : r = RowOf(o[1], o[2]) /\ IsRowOf(o[1], o[2], r)
    BY RowFieldsType
  <2>3. Len(RowFields(o)) = Len(Columns) /\ RowFields(o)[1] = r[Columns[1]]
    <3>1. 1 \in 1..Len(Columns)
      BY ColumnsType, LenProperties
    <3> QED
      BY <2>2, <3>1, RowFieldsType
  <2>4. RowFields(o)[1] # None
    BY <2>2, <2>3, ColumnsType DEF IsRowOf
  <2> QED
    BY <2>1, <2>3, <2>4
<1>4. Len(Headings) = Len(Columns) /\ Headings[1] # None
  <2>1. 1 \in DOMAIN Columns /\ Columns[1] \in ColumnNames
    BY ColumnsType, LenProperties, ElementOfSeq
  <2>2. Headings[1] = <<Columns[1]>>
    BY <2>1 DEF Headings
  <2> QED
    BY <2>1, <2>2, HeadingsType, FieldTypes
<1>5. CASE Titled /\ c # 0
  <2>1. t = <<Headings>>
    BY <1>5 DEF Title
  <2>2. M = 1 /\ t[1] = Headings
    BY <2>1
  <2>3. ASSUME NEW n \in 1..(M + N) PROVE Len(s[n]) = Len(Columns) /\ s[n][1] # None
    <3>1. CASE n <= M
      <4>1. s[n] = Headings
        BY <1>1, <2>2, <3>1
      <4> QED
        BY <1>4, <4>1
    <3>2. CASE ~(n <= M)
      <4>1. PICK m \in 1..N : m = n - M
        <5>1. n - M \in 1..N
          BY <2>3, <3>2
        <5> QED
          BY <5>1
      <4>2. s[n] = b[m]
        BY <1>1, <3>2, <4>1
      <4> QED
        BY <1>3, <4>2
    <3> QED
      BY <3>1, <3>2
  <2>4. Len(s) # 0 /\ s[1] = Headings
    <3>1. 1 \in 1..(M + N) /\ 1 <= M /\ M + N # 0
      BY ONLY <2>2, N \in Nat
    <3> QED
      BY <1>1, <2>2, <3>1
  <2> QED
    BY <1>1, <2>3, <2>4
<1>6. CASE ~(Titled /\ c # 0)
  <2>1. M = 0
    BY <1>6 DEF Title
  <2>2. ASSUME NEW n \in 1..(M + N) PROVE Len(s[n]) = Len(Columns) /\ s[n][1] # None
    <3>1. PICK m \in 1..N : m = n - M /\ ~(n <= M)
      BY <2>1
    <3>2. s[n] = b[m]
      BY <1>1, <3>1
    <3> QED
      BY <1>3, <3>2
  <2> QED
    BY <1>1, <1>6, <2>2
<1> QED
  BY <1>5, <1>6

(* All columns, as CSV has them.                                           *)
Everything == [k \in DOMAIN Columns |-> k]

LEMMA EverythingIsView ==
  /\ IsView(Everything) /\ Everything \in Seq(1..Len(Columns)) /\ Len(Everything) = Len(Columns)
  /\ \A k \in 1..Len(Columns) : Everything[k] = k
<1>1. PICK N \in Nat : N = Len(Columns) /\ DOMAIN Columns = 1..N /\ N > 0
  BY ColumnsType, LenProperties
<1>2. Everything = [k \in 1..N |-> k]
  BY <1>1 DEF Everything
<1>3. Everything \in Seq(1..N) /\ Len(Everything) = N /\ \A k \in 1..N : Everything[k] = k
  BY <1>2
<1> QED
  BY <1>1, <1>3 DEF IsView

LEMMA ValuesRender ==
  ASSUME NEW s \in Seq(Seq(Field)), \A n \in 1..Len(s) : Len(s[n]) = Len(Columns)
  PROVE  LinesRender(s, ValuesOf(s), Everything)
<1>1. ASSUME NEW n \in 1..Len(s) PROVE RowRenders(s[n], ValuesOf(s)[n], Everything)
  <2>1. PICK row \in Seq(Field) : row = s[n] /\ Len(row) = Len(Columns)
    BY ElementOfSeq
  <2>2. PICK x \in Seq(Field) : /\ x = Values(row) /\ Len(x) = Len(row)
                                /\ \A k \in 1..Len(row) : x[k] = Value(row[k])
    BY ValuesType
  <2>3. ValuesOf(s)[n] = x
    BY <2>1, <2>2, ValuesOfType
  <2>4. \A k \in 1..Len(Columns) : Renders(row[Everything[k]], x[k])
    BY <2>1, <2>2, EverythingIsView DEF Renders, Value
  <2>5. RowRenders(row, x, Everything)
    BY <2>1, <2>2, <2>4, EverythingIsView DEF RowRenders
  <2> QED
    BY <2>1, <2>3, <2>5
<1> QED
  BY <1>1, ValuesOfType DEF LinesRender

(* The columns that a text report keeps.                                   *)
LEMMA KeptIsView ==
  ASSUME rows \in Seq(Seq(Field)), Len(rows) # 0,
         \A n \in 1..Len(rows) : Len(rows[n]) = Len(Columns) /\ rows[n][1] # None,
         Titled => rows[1] = Headings
  PROVE  IsView(Kept)
<1>1. PICK N \in Nat : N = Len(Columns) /\ DOMAIN Columns = 1..N /\ N > 0
  BY ColumnsType, LenProperties
<1>2. PICK v \in Seq(1..N) : v = Everything /\ Len(v) = N /\ \A k \in 1..N : v[k] = k
  BY <1>1, EverythingIsView
<1>3. Kept \in Seq(1..N) /\ IsSelection(v, N, Widened, Kept)
  <2>1. Selected(v, Widened) \in Seq(1..N) /\ IsSelection(v, Len(v), Widened, Selected(v, Widened))
    BY SelectedType
  <2> QED
    BY <1>2, <2>1 DEF Kept, Everything
<1>4. 1 \in DOMAIN rows
  BY LenProperties
<1>5. 1 \in Widened
  <2>1. rows[1] \in Range(rows) /\ rows[1][1] # None /\ 1 \in DOMAIN Columns
    BY <1>1, <1>4, LenProperties DEF Range
  <2> QED
    BY <2>1 DEF Widened
<1>6. Len(Kept) # 0 /\ Kept[1] = 1
  <2>1. Len(Kept) > 0 /\ Kept[1] = v[1]
    BY <1>1, <1>3, <1>5 DEF IsSelection
  <2>2. v[1] = 1 /\ Len(Kept) \in Nat
    BY <1>1, <1>2, <1>3, LenProperties
  <2> QED
    BY <2>1, <2>2
<1>7. ASSUME Titled PROVE \A j \in 1..N : \E k \in 1..Len(Kept) : Kept[k] = j
  <2> TAKE j \in 1..N
  <2>1. rows[1] \in Range(rows) /\ rows[1] = Headings
    BY <1>4, <1>7 DEF Range
  <2>2. Columns[j] \in ColumnNames /\ Headings[j] = <<Columns[j]>>
    BY <1>1, ColumnsType, ElementOfSeq DEF Headings
  <2>3. rows[1][j] # None
    BY <2>1, <2>2, FieldTypes
  <2>4. j \in Widened
    BY <1>1, <2>1, <2>3 DEF Widened
  <2>5. \E k \in 1..Len(Kept) : Kept[k] = v[j]
    BY <1>3, <2>4 DEF IsSelection
  <2> QED
    BY <1>2, <2>5
<1> QED
  BY <1>1, <1>3, <1>6, <1>7 DEF IsView

LEMMA ShownFieldsRender ==
  ASSUME rows \in Seq(Seq(Field)), IsView(Kept),
         \A n \in 1..Len(rows) : Len(rows[n]) = Len(Columns)
  PROVE  LinesRender(rows, [n \in DOMAIN rows |-> ShownFields(rows[n])], Kept)
<1> PICK N \in Nat : N = Len(rows) /\ DOMAIN rows = 1..N
  BY LenProperties
<1> PICK M \in Nat : M = Len(Kept) /\ DOMAIN Kept = 1..M
  BY LenProperties DEF IsView
<1>1. <<"-">> \in Field
  <2>1. "-" \in Tokens
    BY DEF Tokens
  <2> QED
    BY <2>1 DEF Field
<1>2. ASSUME NEW n \in 1..N
      PROVE  ShownFields(rows[n]) \in Seq(Field) /\ RowRenders(rows[n], ShownFields(rows[n]), Kept)
  <2>1. PICK row \in Seq(Field) : row = rows[n] /\ Len(row) = Len(Columns)
    BY ElementOfSeq
  <2> DEFINE x == [k \in 1..M |-> IF row[Kept[k]] \in {None, <<>>} THEN <<"-">> ELSE row[Kept[k]]]
  <2>2. ASSUME NEW k \in 1..M PROVE row[Kept[k]] \in Field
    <3>1. Kept[k] \in 1..Len(row)
      BY <2>1, ElementOfSeq DEF IsView
    <3> QED
      BY <3>1, ElementOfSeq
  <2>3. x \in Seq(Field) /\ Len(x) = M
    BY <1>1, <2>2
  <2>4. \A k \in 1..M : Renders(row[Kept[k]], x[k])
    BY DEF Renders
  <2>5. ShownFields(row) = x
    BY DEF ShownFields
  <2> HIDE DEF x
  <2>6. RowRenders(row, x, Kept)
    BY <2>3, <2>4 DEF RowRenders
  <2> QED
    BY <2>1, <2>3, <2>5, <2>6
<1>3. PICK s : s = [n \in 1..N |-> ShownFields(rows[n])]
  OBVIOUS
<1>4. s \in Seq(Seq(Field)) /\ Len(s) = N /\ \A n \in 1..N : s[n] = ShownFields(rows[n])
  BY <1>2, <1>3
<1>5. LinesRender(rows, s, Kept)
  BY <1>2, <1>4 DEF LinesRender
<1> QED
  BY <1>3, <1>5

LEMMA NothingIsDescribed ==
  ASSUME contents \in Guests PROVE AreDescribed(<<>>) /\ Len(Below(<<>>)) = 0
<1>1. Below(<<>>) = <<>> /\ Len(<<>>) = 0 /\ DOMAIN <<>> = {}
  BY DEF Below
<1>2. Len(Objects) \in Nat
  <2>1. Objects \in Seq(Object)
    BY FinishedIsPrefix
  <2> QED
    BY <2>1, LenProperties
<1> QED
  BY <1>1, <1>2 DEF AreDescribed

(* The lines of CSV, and those of text.                                    *)
LEMMA CsvIsDescribed ==
  ASSUME ReportTypeOK
  PROVE  /\ AreDescribed(ValuesOf(Lines))
         /\ Len(Below(ValuesOf(Lines))) = Len(Finished(current, done))
         /\ \A n \in DOMAIN ValuesOf(Lines) : Len(ValuesOf(Lines)[n]) = Len(Columns)
<1>1. /\ contents \in Guests /\ current \in 0..7 /\ done \in Nat
      /\ current \in 1..6 => done <= Len(contents[Kinds[current]])
      /\ current = 0 => done = 0
  BY DEF ReportTypeOK
<1>2. PICK s \in Seq(Seq(Field)) : s = Lines /\ s = LinesAt(current, done)
  BY LinesAreType DEF Lines
<1>3. \A n \in 1..Len(s) : Len(s[n]) = Len(Columns)
  BY ONLY <1>1, <1>2, LinesAreFull
<1>4. \A n \in DOMAIN ValuesOf(s) : Len(ValuesOf(s)[n]) = Len(Columns)
  <2>1. DOMAIN ValuesOf(s) = 1..Len(s)
    BY LenProperties DEF ValuesOf
  <2> TAKE n \in DOMAIN ValuesOf(s)
  <2>2. PICK row \in Seq(Field) : row = s[n] /\ Len(row) = Len(Columns)
    BY <1>3, <2>1, ElementOfSeq
  <2>3. ValuesOf(s)[n] = Values(row)
    BY <2>1, <2>2, ValuesOfType
  <2> QED
    BY <2>2, <2>3, ValuesType
<1>5. CASE current = 0
  <2>1. s = <<>> /\ ValuesOf(s) = <<>>
    BY <1>1, <1>2, <1>5, LinesStart DEF ValuesOf
  <2>2. Len(Finished(current, done)) = 0
    BY <1>1, <1>5, FinishedNothing
  <2> QED
    BY <1>1, <1>2, <1>4, <2>1, <2>2, NothingIsDescribed
<1>6. CASE current # 0
  <2>1. LinesRender(s, ValuesOf(s), Everything)
    BY <1>3, ValuesRender
  <2>2. current \in 1..7 /\ LinesRender(LinesAt(current, done), ValuesOf(s), Everything)
    BY <1>1, <1>2, <1>6, <2>1
  <2>3. /\ AreDescribed(ValuesOf(s))
        /\ Len(Below(ValuesOf(s))) = Len(Finished(current, done))
    BY ONLY <1>1, <2>2, EverythingIsView, ShownIsDescribed
  <2> QED
    BY <1>2, <1>4, <2>3
<1> QED
  BY <1>5, <1>6

LEMMA TextIsDescribed ==
  ASSUME ReportTypeOK, rows = Lines, current = 7, NEW shown,
         shown = [n \in DOMAIN rows |-> ShownFields(rows[n])]
  PROVE  AreDescribed(shown) /\ Len(Below(shown)) = Len(Finished(current, done))
<1>1. /\ contents \in Guests /\ current \in 0..7 /\ done \in Nat
      /\ current \in 1..6 => done <= Len(contents[Kinds[current]])
  BY DEF ReportTypeOK
<1>2. rows \in Seq(Seq(Field)) /\ rows = LinesAt(current, done)
  BY LinesAreType DEF Lines
<1>3. /\ \A n \in 1..Len(LinesAt(current, done)) :
           /\ Len(LinesAt(current, done)[n]) = Len(Columns)
           /\ LinesAt(current, done)[n][1] # None
      /\ Titled /\ current # 0 => Len(LinesAt(current, done)) # 0
                                  /\ LinesAt(current, done)[1] = Headings
  BY ONLY <1>1, LinesAreFull
<1>4. /\ \A n \in 1..Len(rows) : Len(rows[n]) = Len(Columns) /\ rows[n][1] # None
      /\ Titled => rows[1] = Headings
  BY <1>2, <1>3
<1>5. PICK view : IsView(view) /\ LinesRender(rows, shown, view)
  <2>1. CASE Len(rows) # 0
    <3>1. IsView(Kept)
      BY <1>2, <1>4, <2>1, KeptIsView
    <3>2. LinesRender(rows, [n \in DOMAIN rows |-> ShownFields(rows[n])], Kept)
      BY ONLY <1>2, <1>4, <3>1, ShownFieldsRender
    <3> QED
      BY <3>1, <3>2
  <2>2. CASE Len(rows) = 0
    <3>1. rows = <<>> /\ shown = <<>>
      BY <1>2, <2>2, EmptySeq
    <3>2. shown \in Seq(Seq(Field)) /\ Len(shown) = 0
      BY <3>1, EmptySeq
    <3>3. LinesRender(rows, shown, Everything)
      BY <2>2, <3>2 DEF LinesRender
    <3> QED
      BY <3>3, EverythingIsView
  <2> QED
    BY <2>1, <2>2
<1>6. current \in 1..7 /\ LinesRender(LinesAt(current, done), shown, view)
  BY <1>2, <1>5
<1> QED
  BY ONLY <1>1, <1>5, <1>6, ShownIsDescribed

(* The beginning of lines that describe the objects describes them too.    *)
LEMMA BeginningIsDescribed ==
  ASSUME contents \in Guests, NEW s \in Seq(Seq(Field)), NEW p \in Seq(Seq(Field)),
         AreDescribed(s), Begins(p, s)
  PROVE  AreDescribed(p)
<1>1. CASE p = <<>>
  BY <1>1, NothingIsDescribed
<1>2. CASE p # <<>>
  <2>1. /\ Len(p) \in Nat \ {0} /\ Len(s) \in Nat \ {0} /\ p[1] = s[1] /\ s # <<>>
        /\ DOMAIN p = 1..Len(p) /\ DOMAIN s = 1..Len(s)
    <3>1. Len(p) \in Nat /\ Len(s) \in Nat /\ Len(p) # 0
      BY <1>2, EmptySeq, LenProperties
    <3> QED
      BY <3>1, EmptySeq, LenProperties DEF Begins
  <2>2. Len(Objects) \in Nat
    <3>1. Objects \in Seq(Object)
      BY FinishedIsPrefix
    <3> QED
      BY <3>1, LenProperties
  <2>3. PICK bp, bs : /\ bp = Below(p) /\ bs = Below(s) /\ Len(bp) \in Nat /\ Len(bp) <= Len(bs)
                      /\ Len(bs) \in Nat /\ DOMAIN bp = 1..Len(bp) /\ DOMAIN bs = 1..Len(bs)
                      /\ \A n \in 1..Len(bp) : bp[n] = bs[n]
    <3>1. CASE Titled
      <4>1. /\ Len(Tail(p)) = Len(p) - 1 /\ DOMAIN Tail(p) = 1..Len(Tail(p))
            /\ \A n \in 1..Len(Tail(p)) : Tail(p)[n] = p[n + 1]
        BY ONLY <1>2, p \in Seq(Seq(Field)), HeadTailProperties, LenProperties
      <4>2. /\ Len(Tail(s)) = Len(s) - 1 /\ DOMAIN Tail(s) = 1..Len(Tail(s))
            /\ \A n \in 1..Len(Tail(s)) : Tail(s)[n] = s[n + 1]
        BY ONLY <2>1, s \in Seq(Seq(Field)), HeadTailProperties, LenProperties
      <4>3. \A n \in 1..Len(Tail(p)) : n \in 1..Len(Tail(s)) /\ n + 1 \in 1..Len(p)
        BY <2>1, <4>1, <4>2 DEF Begins
      <4>4. \A n \in 1..Len(Tail(p)) : Tail(p)[n] = Tail(s)[n]
        BY <4>1, <4>2, <4>3 DEF Begins
      <4>5. Below(p) = Tail(p) /\ Below(s) = Tail(s)
        BY <1>2, <2>1, <3>1 DEF Below
      <4>6. /\ Len(Tail(p)) \in Nat /\ Len(Tail(s)) \in Nat /\ Len(Tail(p)) <= Len(Tail(s))
        BY <2>1, <4>1, <4>2 DEF Begins
      <4> QED
        BY <4>1, <4>2, <4>4, <4>5, <4>6, Zenon
    <3>2. CASE ~Titled
      BY <2>1, <3>2 DEF Below, Begins
    <3> QED
      BY <3>1, <3>2
  <2>4. /\ Len(bs) <= Len(Objects)
        /\ \A n \in 1..Len(bs) : Describes(s[1], bs[n], Objects[n][1], Objects[n][2])
    BY <2>3 DEF AreDescribed
  <2>5. \A n \in 1..Len(bp) : n \in 1..Len(bs) /\ bp[n] = bs[n]
    BY <2>3
  <2>6. Len(bp) <= Len(Objects)
    BY <2>2, <2>3, <2>4
  <2>7. \A n \in 1..Len(bp) : Describes(p[1], bp[n], Objects[n][1], Objects[n][2])
    BY <2>1, <2>4, <2>5
  <2> QED
    BY <2>3, <2>6, <2>7 DEF AreDescribed
<1> QED
  BY <1>1, <1>2

\* However much of the output has got out, a reader of the CSV gets rows of the right
\* number of fields that describe the objects, and whole rows only after an exit.
THEOREM CsvIsReadable == ReportSpec => []CsvReadsBack
<1>1. ReportIInv => CsvReadsBack
  <2> SUFFICES ASSUME ReportIInv, Has("csv") PROVE CsvReadsBack
    BY DEF CsvReadsBack
  <2>1. /\ ReportTypeOK /\ contents \in Guests
        /\ csv_output \in Seq(Tokens) /\ Reads(NothingRead, csv_output, HasRead(Lines))
        /\ written \in Nat /\ written <= Len(csv_output)
        /\ exit_status \in {0, 1} /\ ~full => written = Len(csv_output)
    BY DEF ReportIInv, CsvIsWritten, StdioIsBehind, ReportTypeOK
  <2>2. PICK s \in Seq(Seq(Field)) : s = ValuesOf(Lines)
    BY <2>1, LinesAreType, ValuesOfType
  <2>3. PICK q : /\ q = HasRead(Lines) /\ q.rows = s /\ q.row = <<>> /\ q.field = <<>>
                 /\ q.quoted = FALSE
    <3>1. /\ HasRead(Lines).rows = s /\ HasRead(Lines).row = <<>>
          /\ HasRead(Lines).field = <<>> /\ HasRead(Lines).quoted = FALSE
      BY <2>2 DEF HasRead, Plain, Outside
    <3> QED
      BY <3>1, Zenon
  <2>4. AreDescribed(s) /\ \A n \in 1..Len(s) : Len(s[n]) = Len(Columns)
    BY <2>1, <2>2, CsvIsDescribed, LenProperties
  <2>5. ReadUpTo[written] \in Readers /\ Begins(ReadUpTo[written].rows, q.rows)
    BY <2>1, <2>3, RowsBegin
  <2>6. PICK p \in Seq(Seq(Field)) : p = ReadCsv.rows /\ Begins(p, s)
    BY <2>3, <2>5 DEF ReadCsv, Readers
  <2>7. AreDescribed(p)
    BY <2>1, <2>4, <2>6, BeginningIsDescribed
  <2>8. \A n \in DOMAIN p : Len(p[n]) = Len(Columns)
    <3> TAKE n \in DOMAIN p
    <3>1. n \in 1..Len(p) /\ Len(p) \in Nat /\ Len(s) \in Nat /\ Len(p) <= Len(s)
      BY <2>6, LenProperties DEF Begins
    <3>2. n \in 1..Len(s) /\ p[n] = s[n]
      BY <2>6, <3>1 DEF Begins
    <3> QED
      BY <2>4, <3>2
  <2>9. ReadUpTo[Len(csv_output)] = q
    BY <2>1, <2>3, ReadUpToIs
  <2>10. exit_status \in {0, 1} /\ ~full =>
           ~ReadCsv.quoted /\ ReadCsv.row = <<>> /\ ReadCsv.field = <<>>
    BY <2>1, <2>3, <2>9 DEF ReadCsv
  <2> QED
    BY <2>6, <2>7, <2>8, <2>10 DEF CsvReadsBack
<1> QED
  BY <1>1, ReportInvariance, PTL

\* After a successful exit what was asked for is there once, in order, each value under
\* its heading, in both formats, unless the output took no more; a text report that fails
\* prints nothing.
THEOREM SuccessfulReportIsComplete == ReportSpec => []ReportIsComplete
<1>1. ReportIInv => ReportIsComplete
  <2> SUFFICES ASSUME ReportIInv PROVE ReportIsComplete
    OBVIOUS
  <2>1. ReportTypeOK /\ (exit_status = 0 => current = 7 /\ done = 0) /\ contents \in Guests
    BY DEF ReportIInv, ReportTypeOK
  <2>2. exit_status = 0 => Finished(current, done) = Objects
    BY <2>1, AllFinished
  <2>3. CASE exit_status = 0 /\ Has("csv") /\ ~full
    <3>1. /\ csv_output \in Seq(Tokens) /\ Reads(NothingRead, csv_output, HasRead(Lines))
          /\ written = Len(csv_output)
      BY <2>3 DEF ReportIInv, CsvIsWritten, StdioIsBehind
    <3>2. ReadCsv = HasRead(Lines)
      BY <3>1, ReadUpToIs DEF ReadCsv
    <3>3. ReadCsv.rows = ValuesOf(Lines)
      BY <3>2 DEF HasRead, Plain, Outside
    <3> QED
      BY <2>1, <2>2, <2>3, <3>3, CsvIsDescribed DEF ReportIsComplete
  <2>4. CASE exit_status = 0 /\ ~Has("csv") /\ ~full
    <3>1. printout = [n \in DOMAIN rows |-> ShownFields(rows[n])] /\ rows = Lines
      BY <2>4 DEF ReportIInv, IsPrinted, RowsAreKept, Table
    <3>2. AreDescribed(printout) /\ Len(Below(printout)) = Len(Finished(current, done))
      BY <2>1, <2>4, <3>1, TextIsDescribed
    <3> QED
      BY <2>2, <2>4, <3>2 DEF ReportIsComplete
  <2>5. exit_status # 0 => printout = <<>>
    BY DEF ReportIInv, IsPrinted
  <2> QED
    BY <2>3, <2>4, <2>5 DEF ReportIsComplete
<1> QED
  BY <1>1, ReportInvariance, PTL
=============================================================================
