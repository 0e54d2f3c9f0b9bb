------------------------------ MODULE GuestScan ------------------------------
(***************************************************************************)
(* virt-alignment-scan (align/scan.c) and virt-df (df/main.c, df/df.c,     *)
(* df/output.c).  Both look at one guest given by -a or -d, or at all      *)
(* libvirt guests, each in a call of scan_work or df_work that a thread    *)
(* pool makes with a libguestfs handle and a memory stream of its own.     *)
(* What the calls share is worst_alignment, its mutex, and the process: a  *)
(* call that exits ends all of them.  The pool (start_threads), libguestfs *)
(* and libvirt are external.                                               *)
(***************************************************************************)
EXTENDS Integers, Sequences, FiniteSets, SequencesExt

CONSTANTS Domains,     \* libvirt guests, or the one of -a and -d
          Nobody,      \* no guest: the mutex is free
          MaxThreads,  \* -P, or what the pool chooses
          Setups       \* command lines, each with the guests there are

ASSUME ThreadsAssumption == MaxThreads \in Nat \ {0} /\ Nobody \notin Domains

(***************************************************************************)
(* A guest has disks, each with or without a recognised label and with the *)
(* start offsets of its partitions, and filesystems with what statvfs says.*)
(***************************************************************************)
BlockSizes == {n \in Nat \ {0} : n % 1024 = 0 \/ 1024 % n = 0}   \* powers of two
Device == [label : BOOLEAN, starts : Seq(Nat)]
Filesystem == [type : STRING, mounts : BOOLEAN, bsize : BlockSizes, blocks : Nat,
               bfree : Nat, bavail : Nat, files : Nat, ffree : Nat]
Guest == [addable : BOOLEAN, devices : Seq(Device), fses : Seq(Filesystem)]

\* drives are those of -a and -d, args what follows the options.
Options == [program : {"scan", "df"}, drives : Seq(STRING), args : Seq(STRING),
            uuid : BOOLEAN, quiet : BOOLEAN, csv : BOOLEAN, human : BOOLEAN, inodes : BOOLEAN]

ASSUME SetupsAssumption ==
  \A s \in Setups : /\ s.opt \in Options
                     /\ DOMAIN s.guest \subseteq Domains
                     /\ s.guest \in [DOMAIN s.guest -> Guest]

UintMax == 100        \* stands for UINT_MAX: larger than any alignment, which is at most 64
NoStart == -1                           \* alignment of a call before its first partition

VARIABLES guest,   \* what the guests contain
          opt,     \* the command line
          worst,   \* worst_alignment
          mutex,   \* who holds worst_alignment_mutex
          work,    \* the call for each guest: position and local variables
          stream,  \* its output: rows written so far
          stdout,  \* guests whose output has been copied to standard output
          exit     \* exit status, -1 while the program runs

vars == <<guest, opt, worst, mutex, work, stream, stdout, exit>>

Init ==
  /\ \E s \in Setups : opt = s.opt /\ guest = s.guest
  /\ worst = UintMax
  /\ mutex = Nobody
  /\ work = [d \in DOMAIN guest |-> [at |-> "waiting", todo |-> <<>>, parts |-> <<>>,
                                alignment |-> NoStart, smaller |-> FALSE, result |-> 0]]
  /\ stream = [d \in DOMAIN guest |-> <<>>]
  /\ stdout = {}
  /\ exit = -1

-----------------------------------------------------------------------------
(* What is printed.                                                          *)

\* The number of zero bits at the end of the start offset.
TrailingZeroes[start \in Nat \ {0}] ==
  IF start % 2 = 1 THEN 0 ELSE 1 + TrailingZeroes[start \div 2]
AlignmentOf(start) == IF start = 0 THEN 64 ELSE TrailingZeroes[start]

Verdict(alignment) ==
  CASE alignment < 12 -> "bad (< 4K)" [] alignment \in 12..15 -> "bad (< 64K)"
    [] OTHER -> "ok"

\* Without -a and -d, virt-df takes its arguments for disks or guests.
Drives == IF opt.program = "df" /\ opt.drives = <<>> THEN opt.args ELSE opt.drives
All == Drives = <<>>

\* The name of a single guest: its first drive and a plus for each other one.
DisplayName(drives) == <<Head(drives), Len(drives) - 1>>

\* The first column: the UUID is used if it was asked for and is known.
Label(d) == CASE All /\ opt.uuid -> <<"uuid", d>>
              [] All /\ ~opt.uuid -> <<"name", d>>
              [] ~All /\ opt.program = "df" -> DisplayName(Drives)
              [] OTHER -> <<>>

ScanRow(d, start) == <<Label(d), start, Verdict(AlignmentOf(start))>>

\* scale (n, 4096, 1024) is n * 4, scale (n, 512, 1024) is n / 2.
Scale(n, from, to) == IF from >= to THEN n * (from \div to) ELSE n \div (to \div from)

\* Blocks as a column; human_readable gets the number of bytes.
Size(n, bsize) == IF opt.human THEN n * bsize ELSE Scale(n, bsize, 1024)

\* 100 - 100 * free / total, rounded up in text and to a tenth in CSV.
Percent(total, free) ==
  CASE total = 0 -> 0
    [] total # 0 /\ ~opt.csv -> -((-100 * (total - free)) \div total)
    [] OTHER -> (2000 * (total - free) + total) \div (2 * total)

StatRow(d, fs) ==
  <<Label(d)>> \o
  IF opt.inodes
  THEN <<fs.files, fs.files - fs.ffree, fs.ffree, Percent(fs.files, fs.ffree)>>
  ELSE <<Size(fs.blocks, fs.bsize), Size(fs.blocks - fs.bfree, fs.bsize),
         Size(fs.bavail, fs.bsize), Percent(fs.blocks, fs.bfree)>>

-----------------------------------------------------------------------------
(* One call of scan_work or df_work.                                         *)

Running == exit = -1
At(d, place) == Running /\ work[d].at = place
Step(d, place) == work' = [work EXCEPT ![d].at = place]
Return(d, r) == work' = [work EXCEPT ![d].at = "returned", ![d].result = r]

\* Options that main turns down before it does anything.
Contradictory ==
  \/ opt.args # <<>> /\ (opt.program = "scan" \/ opt.drives # <<>>)
  \/ opt.program = "scan" /\ ~All /\ opt.uuid
  \/ opt.program = "df" /\ opt.human /\ opt.csv

Started == {d \in DOMAIN guest : work[d].at \notin {"waiting", "done"}}

CheckOptions ==
  /\ Running /\ Contradictory
  /\ exit' = 1
  /\ UNCHANGED <<guest, opt, worst, mutex, work, stream, stdout>>

\* The pool hands a guest to a thread, with a new handle and an empty stream.
TakeDomain(d) ==
  /\ ~Contradictory
  /\ At(d, "waiting")
  /\ Cardinality(Started) < MaxThreads
  /\ Step(d, "add")
  /\ UNCHANGED <<guest, opt, worst, mutex, stream, stdout, exit>>

\* virt-df ignores libvirt guests whose disks cannot be added; the single guest
\* of the command line ends the program instead.
AddDomain(d) ==
  /\ At(d, "add")
  /\ CASE guest[d].addable -> Step(d, "launch") /\ UNCHANGED exit
       [] ~guest[d].addable /\ ~All -> exit' = 1 /\ UNCHANGED work
       [] OTHER -> Return(d, IF opt.program = "scan" THEN -1 ELSE 0) /\ UNCHANGED exit
  /\ UNCHANGED <<guest, opt, worst, mutex, stream, stdout>>

Launch(d) ==
  /\ At(d, "launch")
  /\ Step(d, "list")
  /\ UNCHANGED <<guest, opt, worst, mutex, stream, stdout, exit>>

\* guestfs_list_devices and, in virt-df, guestfs_list_filesystems.
List(d) ==
  /\ At(d, "list")
  /\ work' = [work EXCEPT ![d].at = IF opt.program = "scan" THEN "device" ELSE "filesystem",
                          ![d].todo = IF opt.program = "scan" THEN guest[d].devices
                                                              ELSE guest[d].fses]
  /\ UNCHANGED <<guest, opt, worst, mutex, stream, stdout, exit>>

\* Any of these calls, or guestfs_part_list for another reason than an unknown
\* label, fails: the work returns -1, and a failed launch of a single guest exits.
CallFails(d) ==
  /\ \/ At(d, "launch") \/ At(d, "list")
     \/ At(d, "device") /\ work[d].todo # <<>>
  /\ IF At(d, "launch") /\ ~All
     THEN exit' = 1 /\ UNCHANGED work
     ELSE Return(d, -1) /\ UNCHANGED exit
  /\ UNCHANGED <<guest, opt, worst, mutex, stream, stdout>>

NextDevice_Mutant(d) ==
  /\ At(d, "device") /\ work[d].todo # <<>>
  /\ IF ~Head(work[d].todo).label
     THEN Return(d, 0)
     ELSE work' = [work EXCEPT ![d].at = "partition", ![d].todo = Tail(@),
                               ![d].parts = Head(work[d].todo).starts]
  /\ UNCHANGED <<guest, opt, worst, mutex, stream, stdout, exit>>

\* A disk without a partition table is passed over.
NextDevice(d) ==
  /\ At(d, "device") /\ work[d].todo # <<>>
  /\ IF ~Head(work[d].todo).label
     THEN work' = [work EXCEPT ![d].todo = Tail(@)]
     ELSE work' = [work EXCEPT ![d].at = "partition", ![d].todo = Tail(@),
                               ![d].parts = Head(work[d].todo).starts]
  /\ UNCHANGED <<guest, opt, worst, mutex, stream, stdout, exit>>

NextPartition(d) ==
  /\ At(d, "partition") /\ work[d].parts # <<>>
  /\ work' = [work EXCEPT ![d].at = "lock",
                          ![d].alignment = AlignmentOf(Head(work[d].parts))]
  /\ UNCHANGED <<guest, opt, worst, mutex, stream, stdout, exit>>

Lock_Mutant(d) ==
  /\ At(d, "lock")
  /\ Step(d, "compare")
  /\ UNCHANGED <<guest, opt, worst, mutex, stream, stdout, exit>>

\* pthread_mutex_lock
Lock(d) ==
  /\ At(d, "lock")
  /\ mutex = Nobody
  /\ mutex' = d
  /\ Step(d, "compare")
  /\ UNCHANGED <<guest, opt, worst, stream, stdout, exit>>

Compare(d) ==
  /\ At(d, "compare")
  /\ work' = [work EXCEPT ![d].at = "assign",
                          ![d].smaller = work[d].alignment < worst]
  /\ UNCHANGED <<guest, opt, worst, mutex, stream, stdout, exit>>

Assign(d) ==
  /\ At(d, "assign")
  /\ worst' = IF work[d].smaller THEN work[d].alignment ELSE worst
  /\ Step(d, "unlock")
  /\ UNCHANGED <<guest, opt, mutex, stream, stdout, exit>>

Unlock_Mutant(d) ==
  /\ At(d, "unlock")
  /\ work' = [work EXCEPT ![d].at = "partition", ![d].parts = Tail(@)]
  /\ stream' = IF opt.quiet THEN stream
               ELSE [stream EXCEPT ![d] = Append(@, ScanRow(d, Head(work[d].parts)))]
  /\ UNCHANGED <<guest, opt, worst, mutex, stdout, exit>>

\* pthread_mutex_unlock, and the verdict completes the row.
Unlock(d) ==
  /\ At(d, "unlock")
  /\ mutex' = Nobody
  /\ work' = [work EXCEPT ![d].at = "partition", ![d].parts = Tail(@)]
  /\ stream' = IF opt.quiet THEN stream
               ELSE [stream EXCEPT ![d] = Append(@, ScanRow(d, Head(work[d].parts)))]
  /\ UNCHANGED <<guest, opt, worst, stdout, exit>>

EndDevice(d) ==
  /\ At(d, "partition") /\ work[d].parts = <<>>
  /\ Step(d, "device")
  /\ UNCHANGED <<guest, opt, worst, mutex, stream, stdout, exit>>

\* virt-df: filesystems that are not mountable, or fail to mount, are passed over.
Shown(fs) == fs.type \notin {"", "swap", "unknown"} /\ fs.mounts

NextFilesystem(d) ==
  /\ At(d, "filesystem") /\ work[d].todo # <<>>
  /\ LET fs == Head(work[d].todo)
     IN stream' = IF Shown(fs) THEN [stream EXCEPT ![d] = Append(@, StatRow(d, fs))]
                               ELSE stream
  /\ work' = [work EXCEPT ![d].todo = Tail(@)]
  /\ UNCHANGED <<guest, opt, worst, mutex, stdout, exit>>

\* print_stat asks the handle of main for the name of the device and exits when
\* that fails, in whatever thread it runs.
NameFails(d) ==
  /\ At(d, "filesystem") /\ work[d].todo # <<>> /\ Shown(Head(work[d].todo))
  /\ exit' = 1
  /\ UNCHANGED <<guest, opt, worst, mutex, work, stream, stdout>>

EndList(d) ==
  /\ At(d, "device") \/ At(d, "filesystem")
  /\ work[d].todo = <<>>
  /\ Return(d, 0)
  /\ UNCHANGED <<guest, opt, worst, mutex, stream, stdout, exit>>

\* The pool copies the stream to standard output; a single guest is printed there
\* directly.
Retire(d) ==
  /\ At(d, "returned")
  /\ Step(d, "done")
  /\ stdout' = stdout \cup {d}
  /\ UNCHANGED <<guest, opt, worst, mutex, stream, exit>>

-----------------------------------------------------------------------------
(* The calling thread, once all calls have returned.                         *)

\* The exit status of virt-alignment-scan.
ScanStatus(w) == CASE w < 10 -> 3 [] w \in 10..15 -> 2 [] OTHER -> 0

Finish ==
  /\ Running /\ ~Contradictory
  /\ \A d \in DOMAIN guest : work[d].at = "done"
  /\ exit' = IF \E d \in DOMAIN guest : work[d].result = -1 THEN 1
             ELSE IF opt.program = "scan" THEN ScanStatus(worst) ELSE 0
  /\ UNCHANGED <<guest, opt, worst, mutex, work, stream, stdout>>

Work(d) ==
  \/ TakeDomain(d) \/ AddDomain(d) \/ Launch(d) \/ List(d) \/ CallFails(d)
  \/ NextDevice(d) \/ NextPartition(d) \/ Lock(d) \/ Compare(d) \/ Assign(d)
  \/ Unlock(d) \/ EndDevice(d) \/ NextFilesystem(d) \/ NameFails(d)
  \/ EndList(d) \/ Retire(d)

Next == CheckOptions \/ (\E d \in DOMAIN guest : Work(d)) \/ Finish

\* The kernel schedules every thread; calls of libguestfs return.
Fairness == /\ WF_vars(CheckOptions) /\ WF_vars(Finish)
            /\ \A d \in Domains : WF_vars(d \in DOMAIN guest /\ Work(d))

Spec == Init /\ [][Next]_vars /\ Fairness

-----------------------------------------------------------------------------
(* Properties.                                                               *)

Starts(devices) ==
  UNION {ToSet(devices[i].starts) : i \in {j \in DOMAIN devices : devices[j].label}}
Alignments ==
  {AlignmentOf(start) : start \in UNION {Starts(guest[d].devices) : d \in DOMAIN guest}}

AllAligned(n) == \A a \in Alignments : a >= n

\* The exit status of a scan is that of the worst partition of all guests, whatever
\* the order in which the threads compare with worst_alignment (scan.c 334-338).  For
\* a worst alignment of 1K or 2K the code returns 2 and virt-alignment-scan.pod
\* (380-382) says 3: there it only excludes 0.
ExitStatusIsOfTheWorst ==
  opt.program = "scan" /\ exit \in {0, 2, 3} =>
    exit \in CASE AllAligned(16) -> {0} [] AllAligned(12) /\ ~AllAligned(16) -> {2}
                [] AllAligned(10) /\ ~AllAligned(12) -> {2, 3} [] ~AllAligned(10) -> {3}

\* The rows that a complete report has for a guest, in bytes divided once.
Kilobytes(n, bsize) == IF opt.human THEN n * bsize ELSE (n * bsize) \div 1024
FullRow(d, fs) ==
  IF opt.inodes THEN StatRow(d, fs)
  ELSE <<Label(d)>>
       \o <<Kilobytes(fs.blocks, fs.bsize), Kilobytes(fs.blocks - fs.bfree, fs.bsize),
            Kilobytes(fs.bavail, fs.bsize), Percent(fs.blocks, fs.bfree)>>

ScanRows(d, starts) == [i \in DOMAIN starts |-> ScanRow(d, starts[i])]
DeviceRows(d, dev) == IF dev.label /\ ~opt.quiet THEN ScanRows(d, dev.starts) ELSE <<>>
StatRows(d, fs) == IF Shown(fs) THEN <<FullRow(d, fs)>> ELSE <<>>

ScanReport(d, devices) == FlattenSeq([i \in DOMAIN devices |-> DeviceRows(d, devices[i])])
StatReport(d, fses) == FlattenSeq([i \in DOMAIN fses |-> StatRows(d, fses[i])])
FullReport(d) ==
  CASE opt.program = "scan" -> ScanReport(d, guest[d].devices)
    [] opt.program = "df" -> IF guest[d].addable THEN StatReport(d, guest[d].fses) ELSE <<>>

\* An exit status of success means that every guest was reported in full: a failure
\* in any thread reaches the exit status, a disk or filesystem that is passed over
\* takes no other with it, and no output is left in a stream.
SuccessIsComplete ==
  exit \in {0, 2, 3} => /\ stdout = DOMAIN guest
                        /\ \A d \in DOMAIN guest : stream[d] = FullReport(d)

\* The program ends, whatever fails and however many threads there are.
ScanEnds == <>(exit # -1)
=============================================================================
