----------------------------- MODULE DisksProofs -----------------------------
(***************************************************************************)
(* Proofs about the two tools that partition disks: FormatDisks, for       *)
(* virt-format, and ResizeLayout, for virt-resize.                         *)
(***************************************************************************)
EXTENDS FormatDisks, ResizeLayoutInvariant, SequenceTheorems, TLAPS

-----------------------------------------------------------------------------
(***************************************************************************)
(* FormatDisks, for any number of disks, any options in any order, and     *)
(* whatever the rescans and the other calls return.                        *)
(***************************************************************************)

(* The inductive invariant, in named parts.                                *)

Place == {"options", "launch", "erase", "zero", "discard", "rescan", "lvmscan", "retry", "format", "lvm",
          "mkfs", "sync", "shutdown"}

Word == Filesystem \cup PartitionTable
          \cup {"", None, "--lvm", "VG/LV", "VG", "DEFAULT", "disk"}

Options == [filesystem : Word, lvm : BOOLEAN, partition : Word, label : BOOLEAN,
            wipe : BOOLEAN, drives : Nat, bad : BOOLEAN]

AllDisks == [Disks -> Disk]

\* The disks of the command line, once it has been read.
DisksOK == dev \in Disks /\ disks \in AllDisks /\ host \in AllDisks

FormatTypeOK ==
  /\ args \in Seq(Arg)
  /\ opt \in Options
  /\ at \in Place
  /\ dev \in Nat
  /\ retries \in {0, 1}
  /\ errors \in Nat
  /\ have_wipefs \in BOOLEAN
  /\ exit \in {-1, 0, 1, 139}
  /\ at = "options" => dev = 1 /\ exit # 0
  /\ at # "options" => DisksOK

(* How far a disk is: partitioned, or a physical volume too.               *)
Partitioned(d, x) ==
  /\ x.table = IF opt.partition = None THEN None ELSE TableType(d)
  /\ x.id \in {0, IF x.table = "mbr" THEN MbrId ELSE 0}
  /\ x.fs = None /\ x.label = FALSE /\ Hidden(x)

Cleared(x) ==
  /\ x.table = None /\ x.id = 0 /\ x.fs = None
  /\ x.lv = FALSE /\ x.label = FALSE /\ Hidden(x)
Formatted(d, x) == Requested(d, x) /\ Hidden(x)

(* The loop that erases has left blank disks behind it, and the one that   *)
(* formats finds them before it and leaves finished ones behind it.        *)
DisksInv ==
  /\ at \in {"erase", "zero"} => \A d \in Disks : d < dev => Cleared(disks[d])
  /\ at = "zero" => Hidden(disks[dev])
  /\ at \in {"discard", "rescan", "lvmscan"} => \A d \in Disks : Cleared(disks[d])
  /\ at \in {"format", "lvm", "mkfs"} =>
       \A d \in Disks : /\ d < dev => Formatted(d, disks[d])
                        /\ d > dev => Cleared(disks[d])
  /\ at = "format" => Cleared(disks[dev])
  /\ at = "lvm" => Partitioned(dev, disks[dev]) /\ disks[dev].lv = FALSE
  /\ at = "mkfs" => Partitioned(dev, disks[dev]) /\ disks[dev].lv = opt.lvm
  /\ at \in {"sync", "shutdown"} => \A d \in Disks : Formatted(d, disks[d])

(* Without an error only the disks that have not been read again can be    *)
(* stale.                                                                  *)
RescanInv ==
  /\ at = "options" => stale = {}
  /\ at \in {"erase", "zero", "discard"} => errors = 0
  /\ at = "rescan" /\ errors = 0 => \A d \in stale : d >= dev
  /\ stale \subseteq Disks
  /\ at = "lvmscan" => dev = 1 /\ (errors = 0 => stale = {})

FormatIInv == FormatTypeOK /\ DisksInv /\ RescanInv /\ BuiltOnFreshView /\ SuccessIsAsRequested

-----------------------------------------------------------------------------
(* Lemmas.                                                                 *)

LEMMA ArgValues ==
  ASSUME NEW arg \in Arg
  PROVE  arg.value \in Word
  BY DEF Arg, Word

(* Reading an option keeps the type of what main knows.                    *)
LEMMA OptionType ==
  ASSUME NEW o \in Options, NEW arg \in Arg
  PROVE  HandleOption(o, arg) \in Options
<1>1. /\ arg.value \in Word /\ "DEFAULT" \in Word
      /\ o \in [filesystem : Word, lvm : BOOLEAN, partition : Word, label : BOOLEAN,
                wipe : BOOLEAN, drives : Nat, bad : BOOLEAN]
  BY ArgValues DEF Word, Options
<1>2. [o EXCEPT !.bad = TRUE] \in Options /\ [o EXCEPT !.label = TRUE] \in Options
      /\ [o EXCEPT !.wipe = TRUE] \in Options
  BY <1>1 DEF Options
<1>3. [o EXCEPT !.filesystem = arg.value] \in Options
  BY <1>1 DEF Options
<1>4. [o EXCEPT !.lvm = arg.value # None] \in Options
  <2>1. (arg.value # None) \in BOOLEAN
    OBVIOUS
  <2> QED
    BY <1>1, <2>1 DEF Options
<1>5. [o EXCEPT !.partition = IF arg.value = "" THEN "DEFAULT" ELSE arg.value] \in Options
  BY <1>1 DEF Options
<1>6. [o EXCEPT !.drives = @ + 1] \in Options
  <2>1. o.drives + 1 \in Nat
    BY <1>1
  <2> QED
    BY <1>1, <2>1 DEF Options
<1>7. CASE arg.name = "filesystem"
  BY <1>2, <1>3, <1>7 DEF HandleOption
<1>8. CASE arg.name = "lvm"
  BY <1>2, <1>4, <1>8 DEF HandleOption, ParseVgLv
<1>9. CASE arg.name = "partition"
  BY <1>5, <1>9 DEF HandleOption
<1>10. CASE arg.name = "add"
  BY <1>6, <1>10 DEF HandleOption
<1>11. CASE arg.name \notin {"filesystem", "lvm", "partition", "add"}
  BY <1>2, <1>11 DEF HandleOption
<1> QED
  BY <1>7, <1>8, <1>9, <1>10, <1>11

LEMMA DisksNumbers ==
  ASSUME FormatTypeOK
  PROVE  /\ opt.drives \in Nat /\ Disks = 1..opt.drives /\ errors \in Nat
         /\ retries \in Nat /\ dev \in Nat
         /\ \A d \in Disks : d \in Nat /\ 1 <= d /\ d <= opt.drives
<1>1. opt.drives \in Nat /\ errors \in Nat /\ retries \in Nat /\ dev \in Nat
  BY DEF FormatTypeOK, Options
<1> QED
  BY <1>1 DEF Disks

(* A loop over the disks goes on with the next one, or ends after the      *)
(* last.                                                                   *)
LEMMA NextDisk ==
  ASSUME FormatTypeOK, dev \in Disks, NEW place, NEW after, EachDisk(place, after)
  PROVE  /\ dev' \in Disks
         /\ \/ /\ at' = place /\ dev' = dev + 1
               /\ \A d \in Disks : d < dev' <=> d < dev \/ d = dev
            \/ /\ at' = after /\ dev' = 1
               /\ \A d \in Disks : d < dev \/ d = dev
<1>1. /\ opt.drives \in Nat /\ Disks = 1..opt.drives /\ dev \in 1..opt.drives
  BY DisksNumbers
<1>2. CASE dev < opt.drives
  BY <1>1, <1>2 DEF EachDisk
<1>3. CASE ~(dev < opt.drives)
  BY <1>1, <1>3 DEF EachDisk
<1> QED
  BY <1>2, <1>3

(* Once the options are read, what was asked for does not change.          *)
LEMMA SameRequest ==
  ASSUME opt' = opt, large' = large
  PROVE  /\ MbrId' = MbrId /\ \A d : TableType(d)' = TableType(d)
         /\ Disks' = Disks /\ AllDisks' = AllDisks
  BY DEF MbrId, TableType, Disks, AllDisks

LEMMA DiskTypes ==
  /\ OldDisk \in Disk /\ BlankDisk \in Disk
  /\ \A remains \in SUBSET Old : /\ Hiding(remains) \in Disk
                                 /\ Hiding(remains).remains = remains
  /\ MbrId \in TypeByte
<1>1. \A remains \in SUBSET Old : /\ Hiding(remains) \in Disk
                                  /\ Hiding(remains).remains = remains
  BY DEF Hiding, Disk, TypeByte
<1>2. BlankDisk \in Disk
  BY <1>1 DEF BlankDisk
<1>3. OldDisk \in Disk
  BY <1>2 DEF OldDisk, Disk
<1>4. MbrId \in TypeByte
  BY DEF MbrId, TypeByte
<1> QED
  BY <1>1, <1>2, <1>3, <1>4

WithTable(x, table, id) == [x EXCEPT !.table = table, !.id = id]

LEMMA NewTable ==
  ASSUME NEW table \in PartitionTable, NEW id \in TypeByte, NEW x \in Disk, Cleared(x)
  PROVE  /\ WithTable(x, table, id) \in Disk
         /\ WithTable(x, table, id).table = table /\ WithTable(x, table, id).id = id
         /\ WithTable(x, table, id).lv = FALSE
         /\ WithTable(x, table, id).fs = None /\ WithTable(x, table, id).label = FALSE
         /\ Hidden(WithTable(x, table, id))
<1>1. /\ x.lv = FALSE /\ x.fs = None /\ x.label = FALSE /\ x.remains \in SUBSET Old
  BY DEF Cleared, Hiding, Disk
<1>2. [x EXCEPT !.table = table, !.id = id] \in Disk
  BY DEF Disk
<1> QED
  BY <1>1, <1>2 DEF WithTable, Cleared, Hidden, Disk

(* The steps of the loops change only the disk that they are at.           *)
LEMMA OneDisk ==
  ASSUME disks \in AllDisks, dev \in Disks, NEW x \in Disk,
         disks' = [disks EXCEPT ![dev] = x]
  PROVE  /\ disks' \in AllDisks
         /\ disks'[dev] = x
         /\ \A d \in Disks : d # dev => disks'[d] = disks[d]
  BY DEF AllDisks

-----------------------------------------------------------------------------
(* The steps.                                                              *)

LEMMA InitIInv == FormatInit => FormatIInv
<1> SUFFICES ASSUME FormatInit
             PROVE  FormatIInv
  OBVIOUS
<1>1. args \in Seq(Arg)
  BY CommandLinesAssumption DEF FormatInit
<1>2. opt \in Options
  BY DEF FormatInit, Defaults, Options, Word
<1>3. have_wipefs \in BOOLEAN
  BY DEF FormatInit
<1>4. FormatTypeOK
  BY <1>1, <1>2, <1>3 DEF FormatInit, FormatTypeOK, Place
<1> QED
  BY <1>4 DEF FormatInit, FormatIInv, DisksInv, RescanInv, BuiltOnFreshView, SuccessIsAsRequested

LEMMA GetOptStep == FormatIInv /\ GetOpt => FormatIInv'
<1> SUFFICES ASSUME FormatIInv, GetOpt
             PROVE  FormatIInv'
  OBVIOUS
<1>1. /\ FormatTypeOK /\ at = "options" /\ at' = at /\ exit = -1 /\ exit' = exit
      /\ dev' = dev /\ retries' = retries /\ errors' = errors
      /\ args # << >> /\ args' = Tail(args) /\ opt' = HandleOption(opt, Head(args))
      /\ stale' = stale /\ have_wipefs' = have_wipefs
  BY DEF FormatIInv, GetOpt, At
<1>2. Head(args) \in Arg /\ args' \in Seq(Arg)
  BY <1>1, HeadTailProperties DEF FormatTypeOK
<1>3. opt' \in Options
  BY <1>1, <1>2, OptionType DEF FormatTypeOK
<1>4. FormatTypeOK'
  BY <1>1, <1>2, <1>3 DEF FormatTypeOK
<1>5. stale = {}
  BY <1>1 DEF FormatIInv, RescanInv
<1> QED
  BY <1>1, <1>4 DEF FormatIInv, DisksInv, RescanInv, BuiltOnFreshView, SuccessIsAsRequested

LEMMA AcceptStep == FormatIInv /\ Accept => FormatIInv'
<1> SUFFICES ASSUME FormatIInv, Accept
             PROVE  FormatIInv'
  OBVIOUS
<1>1. /\ FormatTypeOK /\ at = "options" /\ at' = "launch" /\ exit = -1 /\ exit' = exit
      /\ dev' = dev /\ retries' = retries /\ errors' = errors /\ args' = args
      /\ opt' = opt /\ large' = large /\ stale' = stale /\ dev = 1
      /\ have_wipefs' = have_wipefs
      /\ opt.drives > 0 /\ disks' = [d \in Disks |-> OldDisk] /\ host' = disks'
  BY DEF FormatIInv, Accept, At, FormatTypeOK
<1>2. Disks' = Disks /\ AllDisks' = AllDisks
  BY <1>1, SameRequest
<1>3. DisksOK'
  BY <1>1, <1>2, DisksNumbers, DiskTypes DEF DisksOK, AllDisks
<1>4. FormatTypeOK'
  BY <1>1, <1>3 DEF FormatTypeOK, Place
<1> QED
  BY <1>1, <1>2, <1>4 DEF FormatIInv, DisksInv, RescanInv, BuiltOnFreshView, SuccessIsAsRequested

LEMMA LaunchStep == FormatIInv /\ Launch => FormatIInv'
<1> SUFFICES ASSUME FormatIInv, Launch
             PROVE  FormatIInv'
  OBVIOUS
<1>1. /\ FormatTypeOK /\ at = "launch" /\ at' = "erase" /\ exit = -1 /\ exit' = exit
      /\ dev' = 1 /\ retries' = retries /\ errors' = 0 /\ args' = args
      /\ opt' = opt /\ large' = large /\ stale' = {} /\ disks' = disks /\ host' = host
      /\ have_wipefs' \in BOOLEAN
  BY DEF FormatIInv, Launch, At
<1>2. DisksOK /\ Disks' = Disks /\ AllDisks' = AllDisks
  BY <1>1, SameRequest DEF FormatTypeOK
<1>3. dev' \in Disks /\ \A d \in Disks : ~(d < dev')
  BY <1>1, <1>2, DisksNumbers DEF DisksOK
<1>4. FormatTypeOK'
  BY <1>1, <1>2, <1>3 DEF FormatTypeOK, DisksOK, Place
<1> QED
  BY <1>1, <1>2, <1>3, <1>4
     DEF FormatIInv, DisksInv, RescanInv, BuiltOnFreshView, SuccessIsAsRequested

LEMMA WipefsStep == FormatIInv /\ Wipefs => FormatIInv'
<1> SUFFICES ASSUME FormatIInv, Wipefs
             PROVE  FormatIInv'
  OBVIOUS
<1>1. /\ FormatTypeOK /\ DisksInv /\ RescanInv
      /\ at = "erase" /\ at' = "zero" /\ exit = -1 /\ exit' = exit /\ dev' = dev
      /\ retries' = retries /\ errors' = errors /\ args' = args
      /\ opt' = opt /\ large' = large /\ host' = host /\ stale' = stale
      /\ have_wipefs' = have_wipefs /\ ~opt.wipe
  BY DEF FormatIInv, Wipefs, At
<1>2. DisksOK /\ Disks' = Disks /\ AllDisks' = AllDisks
  BY <1>1, SameRequest DEF FormatTypeOK
<1>3. disks[dev] \in Disk
  BY <1>2 DEF DisksOK, AllDisks
<1>4. /\ disks' \in AllDisks /\ Hidden(disks'[dev])
      /\ \A d \in Disks : d # dev => disks'[d] = disks[d]
  <2>1. CASE ~have_wipefs
    BY <1>1, <1>2, <2>1 DEF Wipefs, Hidden, DisksOK
  <2>2. CASE have_wipefs
    <3> DEFINE x == [disks[dev] EXCEPT !.remains = @ \ {"signature"}]
    <3>1. x \in Disk /\ Hidden(x)
      BY <1>1, <1>3 DEF Disk, Hidden
    <3>2. disks' = [disks EXCEPT ![dev] = x]
      BY <2>2 DEF Wipefs
    <3> QED
      BY <1>2, <3>1, <3>2, OneDisk DEF DisksOK
  <2> QED
    BY <2>1, <2>2
<1>5. FormatTypeOK'
  BY <1>1, <1>2, <1>4 DEF FormatTypeOK, DisksOK, Place
<1>6. DisksInv'
  <2>1. \A d \in Disks : d < dev => d # dev
    BY <1>1, DisksNumbers
  <2> QED
    BY <1>1, <1>2, <1>4, <2>1 DEF DisksInv, Cleared, Hidden
<1>7. RescanInv'
  BY <1>1, <1>2 DEF RescanInv
<1> QED
  BY <1>1, <1>5, <1>6, <1>7 DEF FormatIInv, BuiltOnFreshView, SuccessIsAsRequested

(* Zero and ZeroDevice leave a blank disk behind.                          *)
LEMMA ZeroStep == FormatIInv /\ (Zero \/ ZeroDevice) => FormatIInv'
<1> SUFFICES ASSUME FormatIInv, Zero \/ ZeroDevice
             PROVE  FormatIInv'
  OBVIOUS
<1>1. /\ FormatTypeOK /\ DisksInv /\ RescanInv
      /\ at \in {"erase", "zero"} /\ exit = -1 /\ exit' = exit
      /\ retries' = retries /\ errors' = errors /\ args' = args
      /\ opt' = opt /\ large' = large /\ host' = host /\ stale' = stale \cup {dev}
      /\ have_wipefs' = have_wipefs /\ EachDisk("erase", "discard")
  BY DEF FormatIInv, Zero, ZeroDevice, At
<1>2. DisksOK /\ Disks' = Disks /\ AllDisks' = AllDisks
  BY <1>1, SameRequest DEF FormatTypeOK
<1>3. disks[dev] \in Disk /\ disks[dev].remains \in SUBSET Old
  BY <1>2 DEF DisksOK, AllDisks, Disk
<1>4. /\ disks' \in AllDisks /\ Cleared(disks'[dev])
      /\ \A d \in Disks : d # dev => disks'[d] = disks[d]
  <2>1. CASE Zero
    <3> DEFINE x == Hiding(disks[dev].remains)
    <3>1. x \in Disk /\ x.remains = disks[dev].remains
      BY <1>3, DiskTypes
    <3>2. Hidden(disks[dev])
      BY <1>1, <2>1 DEF DisksInv, Zero, At
    <3>3. Cleared(x)
      BY <3>1, <3>2 DEF Cleared, Hidden, Hiding
    <3>4. disks' = [disks EXCEPT ![dev] = x]
      BY <2>1 DEF Zero
    <3> QED
      BY <1>2, <3>1, <3>3, <3>4, OneDisk DEF DisksOK
  <2>2. CASE ZeroDevice
    <3>1. BlankDisk \in Disk
      BY DiskTypes
    <3>2. Cleared(BlankDisk)
      BY DEF BlankDisk, Hiding, Cleared, Hidden
    <3> QED
      BY <1>2, <2>2, <3>1, <3>2, OneDisk DEF DisksOK, ZeroDevice
  <2> QED
    BY <2>1, <2>2
<1>5. /\ dev' \in Disks
      /\ \/ /\ at' = "erase" /\ dev' = dev + 1
            /\ \A d \in Disks : d < dev' <=> d < dev \/ d = dev
         \/ /\ at' = "discard" /\ dev' = 1
            /\ \A d \in Disks : d < dev \/ d = dev
  BY <1>1, <1>2, NextDisk DEF DisksOK
<1>6. FormatTypeOK'
  BY <1>1, <1>2, <1>4, <1>5, DisksNumbers DEF FormatTypeOK, DisksOK, Place
<1>7. DisksInv'
  <2>1. \A d \in Disks : d < dev \/ d = dev => Cleared(disks'[d])
    BY <1>1, <1>4 DEF DisksInv
  <2> QED
    BY <1>1, <1>2, <1>5, <2>1 DEF DisksInv, Cleared, Hidden
<1>8. RescanInv'
  <2>1. stale' \subseteq Disks
    BY <1>1, <1>2 DEF RescanInv, DisksOK
  <2> QED
    BY <1>1, <1>2, <1>5, <2>1 DEF RescanInv
<1> QED
  BY <1>1, <1>5, <1>6, <1>7, <1>8 DEF FormatIInv, BuiltOnFreshView, SuccessIsAsRequested

LEMMA DiscardStep == FormatIInv /\ Discard => FormatIInv'
<1> SUFFICES ASSUME FormatIInv, Discard
             PROVE  FormatIInv'
  OBVIOUS
<1>1. /\ FormatTypeOK /\ DisksInv /\ RescanInv
      /\ at = "discard" /\ exit = -1 /\ exit' = exit
      /\ retries' = retries /\ errors' = errors /\ args' = args
      /\ opt' = opt /\ large' = large /\ host' = host /\ stale' = stale
      /\ have_wipefs' = have_wipefs /\ EachDisk("discard", "rescan")
  BY DEF FormatIInv, Discard, At
<1>2. DisksOK /\ Disks' = Disks /\ AllDisks' = AllDisks
  BY <1>1, SameRequest DEF FormatTypeOK
<1>3. disks[dev] \in Disk /\ disks[dev].remains \in SUBSET Old /\ Cleared(disks[dev])
  BY <1>1, <1>2 DEF DisksOK, AllDisks, Disk, DisksInv
<1>4. PICK remains \in {disks[dev].remains, {}} :
        disks' = [disks EXCEPT ![dev].remains = remains]
  BY DEF Discard
<1>5. /\ disks' \in AllDisks /\ Cleared(disks'[dev])
      /\ \A d \in Disks : d # dev => disks'[d] = disks[d]
  <2> DEFINE x == [disks[dev] EXCEPT !.remains = remains]
  <2>1. x \in Disk /\ x.remains = remains
    BY <1>3, <1>4 DEF Disk
  <2>2. Hidden(x)
    BY <1>3, <1>4, <2>1 DEF Cleared, Hidden
  <2>3. Cleared(x)
    BY <1>3, <2>2 DEF Cleared, Disk
  <2>4. disks' = [disks EXCEPT ![dev] = x]
    BY <1>4
  <2> QED
    BY <1>2, <2>1, <2>3, <2>4, OneDisk DEF DisksOK
<1>6. /\ dev' \in Disks
      /\ (at' = "discard" /\ dev' = dev + 1) \/ (at' = "rescan" /\ dev' = 1)
  BY <1>1, <1>2, NextDisk DEF DisksOK
<1>7. FormatTypeOK'
  BY <1>1, <1>2, <1>5, <1>6, DisksNumbers DEF FormatTypeOK, DisksOK, Place
<1>8. DisksInv'
  <2>1. \A d \in Disks : Cleared(disks'[d])
    BY <1>1, <1>5 DEF DisksInv
  <2> QED
    BY <1>1, <1>2, <1>6, <2>1 DEF DisksInv, Cleared, Hidden
<1>9. RescanInv'
  <2>1. \A d \in Disks : d >= 1
    BY <1>1, DisksNumbers
  <2> QED
    BY <1>1, <1>2, <1>6, <2>1 DEF RescanInv
<1> QED
  BY <1>1, <1>6, <1>7, <1>8, <1>9 DEF FormatIInv, BuiltOnFreshView, SuccessIsAsRequested

LEMMA RescanStep == FormatIInv /\ Rescan => FormatIInv'
<1> SUFFICES ASSUME FormatIInv, Rescan
             PROVE  FormatIInv'
  OBVIOUS
<1>1. /\ FormatTypeOK /\ DisksInv /\ RescanInv
      /\ at = "rescan" /\ exit = -1 /\ exit' = exit
      /\ retries' = retries /\ args' = args
      /\ opt' = opt /\ large' = large /\ host' = host /\ disks' = disks
      /\ have_wipefs' = have_wipefs
      /\ \/ stale' = stale \ {dev} /\ errors' = errors
         \/ errors' = errors + 1 /\ stale' = stale
      /\ EachDisk("rescan", "lvmscan")
  BY DEF FormatIInv, Rescan, At
<1>2. DisksOK /\ Disks' = Disks /\ AllDisks' = AllDisks
  BY <1>1, SameRequest DEF FormatTypeOK
<1>3. /\ dev' \in Disks
      /\ \/ /\ at' = "rescan" /\ dev' = dev + 1
            /\ \A d \in Disks : d < dev' <=> d < dev \/ d = dev
         \/ /\ at' = "lvmscan" /\ dev' = 1
            /\ \A d \in Disks : d < dev \/ d = dev
  BY <1>1, <1>2, NextDisk DEF DisksOK
<1>4. errors \in Nat /\ errors' \in Nat
  BY <1>1, DisksNumbers
<1>5. FormatTypeOK'
  BY <1>1, <1>2, <1>3, <1>4, DisksNumbers DEF FormatTypeOK, DisksOK, Place
<1>6. DisksInv'
  BY <1>1, <1>2, <1>3 DEF DisksInv, Cleared, Hidden
<1>7. RescanInv'
  <2>1. stale' \subseteq Disks
    BY <1>1 DEF RescanInv
  <2>2. CASE stale' = stale \ {dev} /\ errors' = errors
    <3>1. errors = 0 => \A d \in stale' : d \in Disks /\ d >= dev /\ d # dev
      BY <1>1, <2>1, <2>2 DEF RescanInv
    <3>2. errors = 0 => \A d \in stale' : d > dev /\ d >= dev + 1
      BY <1>1, <3>1, DisksNumbers
    <3>3. errors = 0 /\ at' = "lvmscan" => stale' = {}
      <4> SUFFICES ASSUME errors = 0, at' = "lvmscan", NEW d \in stale'
                   PROVE  FALSE
        OBVIOUS
      <4>1. d \in Disks /\ d > dev
        BY <3>1, <3>2
      <4>2. d < dev \/ d = dev
        BY <1>3, <4>1
      <4> QED
        BY <1>1, <4>1, <4>2, DisksNumbers
    <3> QED
      BY <1>2, <1>3, <2>1, <2>2, <3>2, <3>3 DEF RescanInv
  <2>3. CASE errors' = errors + 1
    BY <1>2, <1>3, <1>4, <2>1, <2>3 DEF RescanInv
  <2> QED
    BY <1>1, <2>2, <2>3
<1> QED
  BY <1>1, <1>3, <1>5, <1>6, <1>7 DEF FormatIInv, BuiltOnFreshView, SuccessIsAsRequested

LEMMA LvmScanStep == FormatIInv /\ LvmScan => FormatIInv'
<1> SUFFICES ASSUME FormatIInv, LvmScan
             PROVE  FormatIInv'
  OBVIOUS
<1>1. PICK e \in {0, 1} : /\ errors' = errors + e
                          /\ at' = IF errors + e > 0 THEN "retry" ELSE "format"
  BY DEF LvmScan
<1>2. /\ FormatTypeOK /\ DisksInv /\ RescanInv
      /\ at = "lvmscan" /\ exit = -1 /\ exit' = exit
      /\ dev' = dev /\ retries' = retries /\ args' = args
      /\ opt' = opt /\ large' = large /\ host' = host /\ disks' = disks
      /\ stale' = stale /\ have_wipefs' = have_wipefs
  BY DEF FormatIInv, LvmScan, At
<1>3. DisksOK /\ Disks' = Disks /\ AllDisks' = AllDisks
  BY <1>2, SameRequest DEF FormatTypeOK
<1>4. /\ errors' \in Nat
      /\ at' = "retry" \/ (at' = "format" /\ errors = 0 /\ errors' = 0)
  BY <1>1, <1>2, DisksNumbers
<1>5. FormatTypeOK'
  BY <1>2, <1>3, <1>4 DEF FormatTypeOK, DisksOK, Place
<1>6. DisksInv'
  <2>1. \A d \in Disks : Cleared(disks[d])
    BY <1>2 DEF DisksInv
  <2>2. dev = 1
    BY <1>2 DEF RescanInv
  <2>3. \A d \in Disks : ~(d < 1)
    BY <1>2, DisksNumbers
  <2> QED
    BY <1>2, <1>3, <1>4, <2>1, <2>2, <2>3 DEF DisksInv, DisksOK, Cleared, Hidden
<1>7. RescanInv'
  BY <1>2, <1>3, <1>4 DEF RescanInv
<1> QED
  BY <1>2, <1>4, <1>5, <1>6, <1>7 DEF FormatIInv, RescanInv, BuiltOnFreshView, SuccessIsAsRequested

(* Steps of the retry loop, and Sync, which do not touch the disks.        *)
LEMMA KeepsDisks ==
  ASSUME FormatIInv, at # "options", opt' = opt, large' = large, args' = args,
         dev' = dev, retries' \in {0, 1}, errors' = errors, exit' \in {-1, 0, 1, 139},
         disks' = disks, host' \in {host, disks}, stale' = stale,
         have_wipefs' = have_wipefs, at' \in Place \ {"options"}
  PROVE  FormatTypeOK'
<1>1. FormatTypeOK /\ DisksOK /\ AllDisks' = AllDisks /\ Disks' = Disks
  BY SameRequest DEF FormatIInv, FormatTypeOK
<1>2. DisksOK'
  BY <1>1 DEF DisksOK
<1> QED
  BY <1>1, <1>2 DEF FormatTypeOK

LEMMA ReopenStep == FormatIInv /\ Reopen => FormatIInv'
<1> SUFFICES ASSUME FormatIInv, Reopen
             PROVE  FormatIInv'
  OBVIOUS
<1>1. /\ at = "retry" /\ exit = -1 /\ exit' = exit /\ at' = "launch"
      /\ dev' = dev /\ retries' = 1 /\ errors' = errors /\ args' = args
      /\ opt' = opt /\ large' = large /\ host' = disks /\ disks' = disks
      /\ stale' = stale /\ have_wipefs' = have_wipefs
  BY DEF Reopen, At
<1>2. FormatTypeOK'
  BY <1>1, KeepsDisks DEF FormatIInv, FormatTypeOK, Place
<1>3. Disks' = Disks
  BY <1>1, SameRequest
<1> QED
  BY <1>1, <1>2, <1>3 DEF FormatIInv, DisksInv, RescanInv, BuiltOnFreshView, SuccessIsAsRequested

LEMMA SyncStep == FormatIInv /\ Sync => FormatIInv'
<1> SUFFICES ASSUME FormatIInv, Sync
             PROVE  FormatIInv'
  OBVIOUS
<1>1. /\ at = "sync" /\ exit = -1 /\ exit' = exit /\ at' = "shutdown"
      /\ dev' = dev /\ retries' = retries /\ errors' = errors /\ args' = args
      /\ opt' = opt /\ large' = large /\ host' = disks /\ disks' = disks
      /\ stale' = stale /\ have_wipefs' = have_wipefs
  BY DEF Sync, At
<1>2. FormatTypeOK'
  BY <1>1, KeepsDisks DEF FormatIInv, FormatTypeOK, Place
<1>3. MbrId' = MbrId /\ (\A d : TableType(d)' = TableType(d)) /\ Disks' = Disks
  BY <1>1, SameRequest
<1>4. DisksInv'
  BY <1>1, <1>3 DEF FormatIInv, DisksInv, Formatted, Cleared, Hidden, Requested
<1> QED
  BY <1>1, <1>2, <1>3, <1>4 DEF FormatIInv, RescanInv, BuiltOnFreshView, SuccessIsAsRequested

LEMMA ShutdownStep == FormatIInv /\ Shutdown => FormatIInv'
<1> SUFFICES ASSUME FormatIInv, Shutdown
             PROVE  FormatIInv'
  OBVIOUS
<1>1. /\ at = "shutdown" /\ exit' = 0 /\ at' = "shutdown"
      /\ dev' = dev /\ retries' = retries /\ errors' = errors /\ args' = args
      /\ opt' = opt /\ large' = large /\ host' = disks /\ disks' = disks
      /\ stale' = stale /\ have_wipefs' = have_wipefs
  BY DEF Shutdown, At
<1>2. FormatTypeOK'
  BY <1>1, KeepsDisks DEF FormatIInv, FormatTypeOK, Place
<1>3. MbrId' = MbrId /\ (\A d : TableType(d)' = TableType(d)) /\ Disks' = Disks
  BY <1>1, SameRequest
<1>4. DisksInv' /\ SuccessIsAsRequested'
  BY <1>1, <1>3 DEF FormatIInv, DisksInv, Formatted, Cleared, Hidden, Requested, SuccessIsAsRequested
<1> QED
  BY <1>1, <1>2, <1>3, <1>4 DEF FormatIInv, RescanInv, BuiltOnFreshView

(* The program ends with an error.                                         *)
LEMMA FailureStep == FormatIInv /\ (Refuse \/ CreateFails \/ GiveUp \/ AnyCallFails) => FormatIInv'
<1> SUFFICES ASSUME FormatIInv, Refuse \/ CreateFails \/ GiveUp \/ AnyCallFails
             PROVE  FormatIInv'
  OBVIOUS
<1>1. /\ exit' \in {1, 139} /\ at' = at
      /\ dev' = dev /\ retries' = retries /\ errors' = errors /\ args' = args
      /\ opt' = opt /\ large' = large /\ host' = host /\ disks' = disks
      /\ stale' = stale /\ have_wipefs' = have_wipefs
  BY DEF Refuse, CreateFails, GiveUp, AnyCallFails
<1>2. FormatTypeOK'
  <2>1. CASE at = "options"
    BY <1>1, <2>1 DEF FormatIInv, FormatTypeOK
  <2>2. CASE at # "options"
    BY <1>1, <2>2, KeepsDisks DEF FormatIInv, FormatTypeOK
  <2> QED
    BY <2>1, <2>2
<1>3. MbrId' = MbrId /\ (\A d : TableType(d)' = TableType(d)) /\ Disks' = Disks
  BY <1>1, SameRequest
<1>4. DisksInv'
  BY <1>1, <1>3 DEF FormatIInv, DisksInv, Formatted, Cleared, Hidden, Requested, Partitioned
<1> QED
  BY <1>1, <1>2, <1>3, <1>4 DEF FormatIInv, RescanInv, BuiltOnFreshView, SuccessIsAsRequested

(* The steps of the loop that formats.                                     *)
LEMMA PartitionStep == FormatIInv /\ MakePartition => FormatIInv'
<1> SUFFICES ASSUME FormatIInv, MakePartition
             PROVE  FormatIInv'
  OBVIOUS
<1>1. /\ FormatTypeOK /\ DisksInv /\ at = "format" /\ exit = -1 /\ exit' = exit /\ at' = "lvm"
      /\ dev' = dev /\ retries' = retries /\ errors' = errors /\ args' = args
      /\ opt' = opt /\ large' = large /\ host' = host /\ stale' = stale
      /\ have_wipefs' = have_wipefs
  BY DEF FormatIInv, MakePartition, At
<1>2. /\ DisksOK /\ MbrId' = MbrId /\ (\A d : TableType(d)' = TableType(d))
      /\ Disks' = Disks /\ AllDisks' = AllDisks
  BY <1>1, SameRequest DEF FormatTypeOK
<1>3. /\ disks' \in AllDisks
      /\ \A d \in Disks : d # dev => disks'[d] = disks[d]
      /\ Partitioned(dev, disks'[dev]) /\ disks'[dev].lv = FALSE
  <2>1. CASE opt.partition = None
    <3>1. disks' = disks /\ Cleared(disks[dev])
      BY <1>1, <2>1 DEF MakePartition, DisksInv
    <3> QED
      BY <1>2, <2>1, <3>1 DEF Partitioned, DisksOK, Cleared, Hiding, None
  <2>2. CASE opt.partition # None
    <3>1. PICK id \in {0, IF TableType(dev) = "mbr" THEN MbrId ELSE 0} :
            /\ TableType(dev) \in PartitionTable
            /\ disks' = [disks EXCEPT ![dev] = WithTable(disks[dev], TableType(dev), id)]
      BY <2>2 DEF MakePartition, WithTable
    <3>2. id \in TypeByte
      <4>1. id \in {0, MbrId}
        BY <3>1
      <4> QED
        BY <4>1, DiskTypes DEF TypeByte
    <3> DEFINE x == WithTable(disks[dev], TableType(dev), id)
    <3>3. /\ x \in Disk /\ x.table = TableType(dev) /\ x.id = id
          /\ x.lv = FALSE /\ x.fs = None /\ x.label = FALSE /\ Hidden(x)
      <4>1. disks[dev] \in Disk /\ Cleared(disks[dev])
        BY <1>1, <1>2 DEF DisksOK, AllDisks, DisksInv
      <4>2. TableType(dev) \in PartitionTable
        BY <3>1
      <4>3. x.id = id /\ x.table = TableType(dev) /\ Hidden(x)
        BY <3>2, <4>1, <4>2, NewTable
      <4>4. x \in Disk
        BY <3>2, <4>1, <4>2, NewTable
      <4>5. x.fs = None /\ x.lv = FALSE /\ x.label = FALSE
        BY <4>1 DEF Cleared, WithTable, Disk
      <4> QED
        BY <4>3, <4>4, <4>5
    <3>4. /\ disks' \in AllDisks /\ disks'[dev] = x
          /\ \A d \in Disks : d # dev => disks'[d] = disks[d]
      BY <1>2, <3>1, <3>3, OneDisk DEF DisksOK
    <3>5. Partitioned(dev, x) /\ x.lv = FALSE
      BY <2>2, <3>1, <3>3 DEF Partitioned
    <3> QED
      BY <3>4, <3>5
  <2> QED
    BY <2>1, <2>2
<1>4. FormatTypeOK'
  BY <1>1, <1>2, <1>3 DEF FormatTypeOK, DisksOK, Place
<1>5. DisksInv'
  <2>1. \A d \in Disks : (d < dev => d # dev) /\ (d > dev => d # dev)
    BY <1>1, DisksNumbers
  <2>2. \A d \in Disks : /\ d < dev => Formatted(d, disks'[d])
                         /\ d > dev => Cleared(disks'[d])
    BY <1>1, <1>3, <2>1 DEF DisksInv
  <2> QED
    BY <1>1, <1>2, <1>3, <2>2 DEF DisksInv, Formatted, Cleared, Hidden, Requested, Partitioned
<1> QED
  BY <1>1, <1>2, <1>4, <1>5 DEF FormatIInv, RescanInv, BuiltOnFreshView, SuccessIsAsRequested

LEMMA CreateLVStep == FormatIInv /\ CreateLV => FormatIInv'
<1> SUFFICES ASSUME FormatIInv, CreateLV
             PROVE  FormatIInv'
  OBVIOUS
<1>1. /\ FormatTypeOK /\ DisksInv /\ at = "lvm" /\ exit = -1
      /\ dev' = dev /\ retries' = retries /\ errors' = errors /\ args' = args
      /\ opt' = opt /\ large' = large /\ host' = host /\ stale' = stale
      /\ have_wipefs' = have_wipefs
  BY DEF FormatIInv, CreateLV, At
<1>2. /\ DisksOK /\ MbrId' = MbrId /\ (\A d : TableType(d)' = TableType(d))
      /\ Disks' = Disks /\ AllDisks' = AllDisks
  BY <1>1, SameRequest DEF FormatTypeOK
<1>3. CASE at' = at /\ exit' = 1 /\ disks' = disks
  <2>1. FormatTypeOK'
    BY <1>1, <1>3, KeepsDisks DEF FormatIInv, FormatTypeOK
  <2>2. DisksInv'
    BY <1>1, <1>2, <1>3 DEF DisksInv, Formatted, Cleared, Hidden, Requested, Partitioned
  <2> QED
    BY <1>1, <1>2, <1>3, <2>1, <2>2
       DEF FormatIInv, RescanInv, BuiltOnFreshView, SuccessIsAsRequested
<1>4. CASE /\ at' = "mkfs" /\ exit' = exit
           /\ \/ ~opt.lvm /\ disks' = disks
              \/ opt.lvm /\ disks' = [disks EXCEPT ![dev].lv = TRUE]
  <2>1. Partitioned(dev, disks[dev]) /\ disks[dev].lv = FALSE
    BY <1>1 DEF DisksInv
  <2>2. disks[dev] \in Disk /\ opt.lvm \in BOOLEAN
    BY <1>1, <1>2 DEF DisksOK, AllDisks, FormatTypeOK, Options
  <2>3. /\ disks' \in AllDisks
        /\ \A d \in Disks : d # dev => disks'[d] = disks[d]
        /\ Partitioned(dev, disks'[dev]) /\ disks'[dev].lv = opt.lvm
    <3>1. CASE ~opt.lvm /\ disks' = disks
      BY <1>2, <2>1, <2>2, <3>1 DEF DisksOK
    <3>2. CASE opt.lvm /\ disks' = [disks EXCEPT ![dev].lv = TRUE]
      <4> DEFINE x == [disks[dev] EXCEPT !.lv = TRUE]
      <4>1. x \in Disk
        BY <2>2 DEF Disk
      <4>2. disks' = [disks EXCEPT ![dev] = x]
        BY <3>2
      <4>3. /\ disks' \in AllDisks /\ disks'[dev] = x
            /\ \A d \in Disks : d # dev => disks'[d] = disks[d]
        BY <1>2, <4>1, <4>2, OneDisk DEF DisksOK
      <4>4. Partitioned(dev, x) /\ x.lv = TRUE
        BY <2>1, <2>2 DEF Partitioned, Hidden, Disk
      <4> QED
        BY <2>2, <3>2, <4>3, <4>4
    <3> QED
      BY <1>4, <3>1, <3>2
  <2>4. FormatTypeOK'
    BY <1>1, <1>2, <1>4, <2>3 DEF FormatTypeOK, DisksOK, Place
  <2>5. DisksInv'
    <3>1. \A d \in Disks : (d < dev => d # dev) /\ (d > dev => d # dev)
      BY <1>1, DisksNumbers
    <3>2. \A d \in Disks : /\ d < dev => Formatted(d, disks'[d])
                           /\ d > dev => Cleared(disks'[d])
      BY <1>1, <2>3, <3>1 DEF DisksInv
    <3> QED
      BY <1>1, <1>2, <1>4, <2>3, <3>2 DEF DisksInv, Formatted, Cleared, Hidden, Requested, Partitioned
  <2> QED
    BY <1>1, <1>2, <1>4, <2>4, <2>5
       DEF FormatIInv, RescanInv, BuiltOnFreshView, SuccessIsAsRequested
<1> QED
  BY <1>3, <1>4 DEF CreateLV

LEMMA MkfsStep == FormatIInv /\ Mkfs => FormatIInv'
<1> SUFFICES ASSUME FormatIInv, Mkfs
             PROVE  FormatIInv'
  OBVIOUS
<1>1. /\ FormatTypeOK /\ DisksInv /\ at = "mkfs" /\ exit = -1 /\ exit' = exit
      /\ retries' = retries /\ errors' = errors /\ args' = args
      /\ opt' = opt /\ large' = large /\ host' = host /\ stale' = stale
      /\ have_wipefs' = have_wipefs
      /\ opt.filesystem \in {None} \cup Filesystem
      /\ EachDisk("format", "sync")
  BY DEF FormatIInv, Mkfs, At
<1>2. /\ DisksOK /\ MbrId' = MbrId /\ (\A d : TableType(d)' = TableType(d))
      /\ Disks' = Disks /\ AllDisks' = AllDisks
  BY <1>1, SameRequest DEF FormatTypeOK
<1>3. /\ dev' \in Disks
      /\ \/ /\ at' = "format" /\ dev' = dev + 1
            /\ \A d \in Disks : d < dev' <=> d < dev \/ d = dev
         \/ /\ at' = "sync" /\ dev' = 1
            /\ \A d \in Disks : d < dev \/ d = dev
  BY <1>1, <1>2, NextDisk DEF DisksOK
<1>4. disks[dev] \in Disk /\ opt.label \in BOOLEAN
  BY <1>1, <1>2 DEF DisksOK, AllDisks, FormatTypeOK, Options
<1>5. Partitioned(dev, disks[dev]) /\ disks[dev].lv = opt.lvm
  BY <1>1 DEF DisksInv
<1>6. /\ disks' \in AllDisks
      /\ \A d \in Disks : d # dev => disks'[d] = disks[d]
      /\ Formatted(dev, disks'[dev])
  <2>1. CASE opt.filesystem = None
    <3>1. disks' = disks
      BY <2>1 DEF Mkfs
    <3> QED
      BY <1>2, <1>4, <1>5, <2>1, <3>1 DEF DisksOK, Formatted, Requested, Partitioned
  <2>2. CASE opt.filesystem # None
    <3> DEFINE x == [disks[dev] EXCEPT !.fs = opt.filesystem, !.label = opt.label]
    <3>1. x \in Disk
      BY <1>1, <1>4 DEF Disk
    <3>2. disks' = [disks EXCEPT ![dev] = x]
      BY <2>2 DEF Mkfs
    <3>3. /\ disks' \in AllDisks /\ disks'[dev] = x
          /\ \A d \in Disks : d # dev => disks'[d] = disks[d]
      BY <1>2, <3>1, <3>2, OneDisk DEF DisksOK
    <3>4. Formatted(dev, x)
      BY <1>4, <1>5, <2>2 DEF Formatted, Hidden, Requested, Partitioned, Disk
    <3> QED
      BY <3>3, <3>4
  <2> QED
    BY <2>1, <2>2
<1>7. FormatTypeOK'
  BY <1>1, <1>2, <1>3, <1>6, DisksNumbers DEF FormatTypeOK, DisksOK, Place
<1>8. DisksInv'
  <2>1. \A d \in Disks : (d < dev => d # dev) /\ (d > dev => d # dev)
    BY <1>1, DisksNumbers
  <2>2. \A d \in Disks : /\ d < dev \/ d = dev => Formatted(d, disks'[d])
                         /\ d > dev => Cleared(disks'[d])
    BY <1>1, <1>6, <2>1 DEF DisksInv
  <2>3. CASE at' = "format" /\ dev' = dev + 1
    <3>1. dev' > dev /\ \A d \in Disks : d > dev' => d > dev
      BY <1>1, <2>3, DisksNumbers
    <3>2. \A d \in Disks : /\ d < dev' => Formatted(d, disks'[d])
                           /\ d > dev' => Cleared(disks'[d])
      BY <1>3, <2>2, <2>3, <3>1
    <3>3. Cleared(disks'[dev'])
      BY <1>3, <2>2, <3>1
    <3> QED
      BY <1>1, <1>2, <2>3, <3>2, <3>3 DEF DisksInv, Formatted, Cleared, Hidden, Requested
  <2>4. CASE at' = "sync" /\ \A d \in Disks : d < dev \/ d = dev
    BY <1>1, <1>2, <2>2, <2>4 DEF DisksInv, Formatted, Cleared, Hidden, Requested
  <2> QED
    BY <1>3, <2>3, <2>4
<1> QED
  BY <1>1, <1>2, <1>3, <1>7, <1>8
     DEF FormatIInv, RescanInv, BuiltOnFreshView, SuccessIsAsRequested

LEMMA StutterStep == FormatIInv /\ UNCHANGED format_vars => FormatIInv'
<1> SUFFICES ASSUME FormatIInv, UNCHANGED format_vars
             PROVE  FormatIInv'
  OBVIOUS
<1>1. /\ exit' = exit /\ at' = at
      /\ dev' = dev /\ retries' = retries /\ errors' = errors /\ args' = args
      /\ opt' = opt /\ large' = large /\ host' = host /\ disks' = disks
      /\ stale' = stale /\ have_wipefs' = have_wipefs
  BY DEF format_vars
<1>2. MbrId' = MbrId /\ (\A d : TableType(d)' = TableType(d)) /\ Disks' = Disks
  BY <1>1, SameRequest
<1>3. FormatTypeOK'
  BY <1>1, SameRequest DEF FormatIInv, FormatTypeOK, DisksOK
<1>4. DisksInv' /\ SuccessIsAsRequested'
  BY <1>1, <1>2 DEF FormatIInv, DisksInv, Formatted, Cleared, Hidden, Requested, Partitioned, SuccessIsAsRequested
<1> QED
  BY <1>1, <1>2, <1>3, <1>4 DEF FormatIInv, RescanInv, BuiltOnFreshView

-----------------------------------------------------------------------------
(* Theorems.                                                               *)

(* The inductive invariant of main and do_format.                          *)
THEOREM FormatInvariance == FormatSpec => []FormatIInv
<1>1. FormatIInv /\ [FormatNext]_format_vars => FormatIInv'
  BY GetOptStep, AcceptStep, LaunchStep, ReopenStep, ShutdownStep, WipefsStep, ZeroStep, DiscardStep,
     RescanStep, LvmScanStep, PartitionStep, CreateLVStep, MkfsStep, SyncStep, FailureStep, StutterStep
     DEF FormatNext
<1> QED
  BY InitIInv, <1>1, PTL DEF FormatSpec

(* The options, the place in the program and the disks are of their types. *)
THEOREM FormatTypeCorrect == FormatSpec => []FormatTypeOK
<1>1. FormatIInv => FormatTypeOK
  BY DEF FormatIInv
<1> QED
  BY <1>1, FormatInvariance, PTL

(* A successful exit means that every disk, on the host, holds what was    *)
(* asked for and no more of the old contents than the options allow,       *)
(* whichever attempt it was (format.c 255-301).                            *)
THEOREM SuccessMeansFormatted == FormatSpec => []SuccessIsAsRequested
<1>1. FormatIInv => SuccessIsAsRequested
  BY DEF FormatIInv
<1> QED
  BY <1>1, FormatInvariance, PTL

(* Nothing is made on a disk while the kernel still has the old contents   *)
(* of any (do_rescan, format.c 467-485).                                   *)
THEOREM FormatsOnlyRescannedDisks == FormatSpec => []BuiltOnFreshView
<1>1. FormatIInv => BuiltOnFreshView
  BY DEF FormatIInv
<1> QED
  BY <1>1, FormatInvariance, PTL

-----------------------------------------------------------------------------
(***************************************************************************)
(* ResizeLayout, for every source disk, every size of the target disk,     *)
(* every alignment and any number of partitions.                           *)
(***************************************************************************)

USE SizesAssumption DEF SizesAssumption

-----------------------------------------------------------------------------
(* Rounding.                                                               *)

(* Rounding a size up to sectors costs less than one sector.               *)
LEMMA DivRoundUpBounds ==
  ASSUME NEW n \in Int, NEW d \in Nat \ {0}
  PROVE  /\ DivRoundUp(n, d) \in Int
         /\ n + d - 1 >= 0 => d * DivRoundUp(n, d) <= n + d - 1
         /\ n <= d * DivRoundUp(n, d)
<1>1. CASE n + d - 1 >= 0
  BY <1>1 DEF DivRoundUp
<1>2. CASE n + d - 1 < 0
  <2>1. PICK q \in Int : q = (1 - n - d) \div d /\ d * q <= 1 - n - d
    BY <1>2
  <2>2. DivRoundUp(n, d) = -q
    BY <1>2, <2>1 DEF DivRoundUp
  <2>3. d * (-q) = -(d * q) /\ d * q \in Int
    BY <2>1
  <2> QED
    BY <1>2, <2>1, <2>2, <2>3
<1> QED
  BY <1>1, <1>2

(* Something has a size of at least one sector.                            *)
LEMMA DivRoundUpPositive ==
  ASSUME NEW n \in Nat \ {0}, NEW d \in Nat \ {0}
  PROVE  DivRoundUp(n, d) >= 1
<1>1. n <= d * DivRoundUp(n, d) /\ DivRoundUp(n, d) \in Int
  BY DivRoundUpBounds
<1> QED
  BY <1>1, Z3

(* Aligning a sector moves it by less than the alignment.                  *)
LEMMA RoundUpBounds ==
  ASSUME NEW n \in Int, NEW d \in Nat \ {0}
  PROVE  /\ RoundUp(n, d) \in Int
         /\ n <= RoundUp(n, d)
         /\ RoundUp(n, d) <= n + d - 1
<1>1. PICK q \in Int : /\ q = (n + d - 1) \div d
                       /\ d * q <= n + d - 1 /\ n <= d * q
  OBVIOUS
<1>2. RoundUp(n, d) = q * d
  BY <1>1 DEF RoundUp
<1>3. q * d = d * q /\ d * q \in Int
  BY <1>1
<1> QED
  BY <1>1, <1>2, <1>3

LEMMA Scale ==
  ASSUME NEW a \in Int, NEW b \in Int, NEW d \in Nat, a <= b
  PROVE  d * a <= d * b
  OBVIOUS

(* Both roundings together: what n bytes after sector s, in sectors of     *)
(* size S and aligned to A of them, add to the place of the next ones.     *)
LEMMA Rounding ==
  ASSUME NEW S \in Nat \ {0}, NEW A \in Nat \ {0}, NEW s \in Int, NEW n \in Int,
         NEW d \in Int, S * d <= n + S - 1,
         NEW next \in Int, next <= s + d + A - 1
  PROVE  S * next <= S * s + n + S * A
<1>1. S * next <= S * (s + d + A - 1)
  BY Scale
<1>2. S * (s + d + A - 1) = S * s + S * d + S * A - S
  BY Z3
<1>3. S * next \in Int /\ S * s \in Int /\ S * d \in Int /\ S * A \in Int
  OBVIOUS
<1>4. S * next <= S * s + S * d + S * A - S
  BY <1>1, <1>2
<1> QED
  BY <1>3, <1>4

LEMMA NextStartBound ==
  ASSUME NEW s \in Int, NEW n \in Int
  PROVE  LET next == RoundUp(s + DivRoundUp(n, SectSize), Alignment)
         IN  /\ next \in Int
             /\ s + DivRoundUp(n, SectSize) <= next
             /\ n >= 0 => SectSize * next <= SectSize * s + n + SectSize * Alignment
<1>1. PICK d \in Int : /\ d = DivRoundUp(n, SectSize)
                       /\ n >= 0 => SectSize * d <= n + SectSize - 1
  BY DivRoundUpBounds
<1>2. PICK e \in Int : e = s + d
  OBVIOUS
<1>3. PICK next \in Int : /\ next = RoundUp(e, Alignment)
                          /\ e <= next /\ next <= e + Alignment - 1
  BY RoundUpBounds
<1>4. n >= 0 => SectSize * next <= SectSize * s + n + SectSize * Alignment
  BY <1>1, <1>2, <1>3, Rounding
<1> QED
  BY <1>1, <1>2, <1>3, <1>4

-----------------------------------------------------------------------------
(* The types.                                                              *)

(* A source disk has a first partition.                                    *)
LEMMA SourceType ==
  ASSUME source \in Sources
  PROVE  /\ Len(source) \in Nat \ {0} /\ P = 1..Len(source) /\ 1 \in P
         /\ \A p \in P : source[p] \in Partition
<1>1. source \in Seq(Partition) /\ source # << >>
  BY SourcesAssumption DEF SourcesAssumption
<1>2. Len(source) \in Nat /\ P = 1..Len(source)
  BY <1>1 DEF P
<1>3. Len(source) # 0
  BY <1>1, EmptySeq
<1> QED
  BY <1>1, <1>2, <1>3

LEMMA NewSizeType ==
  ASSUME TypeOK, NEW p \in P
  PROVE  NewSize(p) \in Int
<1>1. op[p] \in Operation /\ source[p] \in Partition
  BY SourceType DEF TypeOK
<1> QED
  BY <1>1 DEF NewSize, Operation, Partition

LEMMA OverheadType ==
  ASSUME TypeOK
  PROVE  Overhead \in Int /\ FirstStart \in Int
<1>1. source[1] \in Partition /\ Len(source) \in Nat
  BY SourceType DEF TypeOK
<1>2. source[1].start \div SectSize \in Int /\ MaxBootLoader \div Sector512 \in Int
  BY <1>1 DEF Partition
<1>3. FirstStart \in Int
  BY <1>2 DEF FirstStart
<1>4. PICK m \in Int : m = Larger(GptSects, Larger(MaxBootLoader \div Sector512,
                                                  source[1].start \div SectSize))
  BY <1>2 DEF Larger
<1>5. PICK a \in Int : a = Alignment * (Len(source) + 1)
  BY <1>1
<1>6. SectSize * (m + a + GptSects) \in Int
  OBVIOUS
<1> QED
  BY <1>3, <1>4, <1>5, <1>6 DEF Overhead

LEMMA MarkedType ==
  ASSUME TypeOK, NEW p \in P, NEW size \in Int, NEW force \in BOOLEAN
  PROVE  Marked(p, size, force) \in [P -> Operation]
<1>1. [kind |-> "resize", size |-> size, force |-> force] \in Operation
  BY DEF Operation
<1> QED
  BY <1>1 DEF Marked, TypeOK

LEMMA InitType == Init => TypeOK
<1> SUFFICES ASSUME Init PROVE TypeOK
  OBVIOUS
<1>1. source \in Sources /\ outsize \in OutSizes /\ insize \in InSizes
  BY DEF Init
<1>2. op \in [P -> Operation]
  BY DEF Init, Plain, Operation
<1>3. sums \in Seq(Int) /\ Len(sums) = 1
  BY DEF Init
<1>4. target \in Seq([source : P \cup {0}, first : Int, last : Int]) /\ Len(target) = 0
  BY DEF Init
<1>5. disk \in [0..(outsize - 1) -> Byte]
  BY DEF Init, Blank, Byte
<1> QED
  BY SMTT(30), <1>1, <1>2, <1>3, <1>4, <1>5, SourceType DEF Init, TypeOK

(* Steps that only go to another phase.                                    *)
LEMMA PhaseType ==
  ASSUME TypeOK,
         phase' \in {"check", "ignore", "delete", "resize", "force", "measure",
                     "expand", "shrink", "final", "init", "boot", "layout", "add",
                     "copy", "done", "error", "refused", "failed"},
         UNCHANGED <<input, plan, attempts, layout, disk>>
  PROVE  TypeOK'
  BY DEF TypeOK, input, options, plan, layout, P

(* The steps that handle the options and calculate the surplus.            *)
LEMMA PlanType ==
  ASSUME TypeOK,
         \/ CheckSource \/ NextOption
         \/ \E p \in P : IgnoreOrDelete(p) \/ ExpandOrShrink(p)
         \/ \E p \in P, newsize \in NewSizes : Resize(p, newsize)
         \/ EndOptions \/ AddUp \/ CalculateSurplus \/ FinalSurplus
  PROVE  TypeOK'
<1> USE DEF input, options, plan, layout
<1>1. CASE CheckSource \/ NextOption \/ FinalSurplus
  BY <1>1, PhaseType DEF CheckSource, NextOption, FinalSurplus
<1>2. ASSUME NEW p \in P, IgnoreOrDelete(p) PROVE TypeOK'
  <2>1. Plain(phase) \in Operation
    BY <1>2 DEF IgnoreOrDelete, Plain, Operation
  <2>2. op' \in [P -> Operation] /\ phase' \in {"ignore", "delete", "error"}
    BY <1>2, <2>1 DEF IgnoreOrDelete, TypeOK
  <2> QED
    BY <1>2, <2>2 DEF IgnoreOrDelete, TypeOK, P
<1>3. ASSUME NEW p \in P, ExpandOrShrink(p) PROVE TypeOK'
  <2>1. source[p].size + surplus \in Int
    BY SMTT(30), SourceType DEF TypeOK, Partition
  <2>2. Marked(p, source[p].size + surplus, FALSE) \in [P -> Operation]
    BY <2>1, MarkedType
  <2>3. op' \in [P -> Operation]
    BY <1>3, <2>2 DEF ExpandOrShrink, TypeOK
  <2>4. /\ phase' \in {"measure", "error"}
        /\ adjusted' \in P \cup {0} /\ then' \in {"expand", "shrink", "final"}
    BY <1>3 DEF ExpandOrShrink, TypeOK
  <2>5. <<0>> \in Seq(Int) /\ Len(<<0>>) = 1 /\ 1 \in 1..(Len(source) + 1)
    BY SourceType DEF TypeOK
  <2>6. sums' = sums \/ sums' = <<0>>
    BY <1>3 DEF ExpandOrShrink
  <2>7. sums' \in Seq(Int) /\ Len(sums') \in 1..(Len(source) + 1)
    BY <2>5, <2>6 DEF TypeOK
  <2> QED
    BY <1>3, <2>3, <2>4, <2>7 DEF ExpandOrShrink, TypeOK, P
<1>4. ASSUME NEW p \in P, NEW newsize \in NewSizes, Resize(p, newsize) PROVE TypeOK'
  <2>1. newsize \in Int /\ (phase = "force") \in BOOLEAN
    OBVIOUS
  <2>2. Marked(p, newsize, phase = "force") \in [P -> Operation]
    BY <2>1, MarkedType
  <2>3. op' \in [P -> Operation]
    BY <1>4, <2>2 DEF Resize, TypeOK
  <2>4. phase' \in {"resize", "force", "error"}
    BY <1>4 DEF Resize
  <2> QED
    BY <1>4, <2>3, <2>4 DEF Resize, TypeOK, P
<1>5. CASE EndOptions
  BY <1>5 DEF EndOptions, TypeOK, P
<1>6. CASE AddUp
  <2>1. Len(sums) \in P
    BY <1>6, SourceType DEF AddUp, TypeOK
  <2>2. sums[Len(sums)] + NewSize(Len(sums)) \in Int
    BY <2>1, NewSizeType, ElementOfSeq DEF TypeOK
  <2>3. sums' \in Seq(Int) /\ Len(sums') = Len(sums) + 1
    BY <1>6, <2>2, AppendProperties DEF AddUp, TypeOK
  <2> QED
    BY <1>6, <2>3, SourceType DEF AddUp, TypeOK, P
<1>7. CASE CalculateSurplus
  <2>1. surplus' \in Int
    BY <1>7, OverheadType, ElementOfSeq DEF CalculateSurplus, TypeOK
  <2> QED
    BY <1>7, <2>1 DEF CalculateSurplus, TypeOK, P
<1> QED
  BY <1>1, <1>2, <1>3, <1>4, <1>5, <1>6, <1>7

(* What part_add makes of an end that is given from the end of the disk.   *)
LEMMA NegativeEnd ==
  ASSUME TypeOK PROVE PartEnd(-GptSects) = Sectors - GptSects
<1>1. Sectors \in Int
  BY DEF Sectors, TypeOK
<1> QED
  BY <1>1 DEF PartEnd

(* The steps that write to the target disk and lay out the partitions.     *)
LEMMA WriteType ==
  ASSUME TypeOK, LoopInv,
         \/ PartInit \/ PartInitFails \/ CopyBootLoader \/ BootLoaderIsShort
         \/ SkipDeleted \/ PlacePartition \/ EndLayout
         \/ AddPartition \/ EndAdding \/ CopyPartition \/ CopyIsRefused \/ EndCopying
         \/ CallFails
  PROVE  TypeOK'
<1> USE DEF input, options, plan, layout
<1>0. Len(source) \in Nat /\ P = 1..Len(source)
  BY SourceType DEF TypeOK
<1>1. CASE PartInit
  <2>1. disk' \in [0..(outsize - 1) -> Byte]
    BY <1>1 DEF PartInit, TypeOK, Table, Byte
  <2> QED
    BY <1>1, <2>1 DEF PartInit, TypeOK, P
<1>2. CASE PartInitFails
  <2>1. attempts' \in 0..Attempts /\ phase' \in {"init", "failed"}
    BY <1>2 DEF PartInitFails, TypeOK
  <2> QED
    BY <1>2, <2>1 DEF PartInitFails, TypeOK, P
<1>3. CASE CopyBootLoader
  <2>1. disk' \in [0..(outsize - 1) -> Byte]
    BY <1>3 DEF CopyBootLoader, Written, TypeOK, BootLoader, Byte
  <2> QED
    BY <1>3, <2>1, OverheadType DEF CopyBootLoader, TypeOK, P
<1>10. CASE BootLoaderIsShort
  <2>1. disk' \in [0..(outsize - 1) -> Byte]
    BY <1>10 DEF BootLoaderIsShort, Written, TypeOK, BootLoader, Byte
  <2> QED
    BY <1>10, <2>1 DEF BootLoaderIsShort, TypeOK, P
<1>4. CASE SkipDeleted
  <2>1. k' \in 1..(Len(source) + 2)
    BY <1>0, <1>4 DEF SkipDeleted, TypeOK
  <2> QED
    BY <1>4, <2>1 DEF SkipDeleted, TypeOK, P
<1>5. CASE PlacePartition
  <2>1. k' \in 1..(Len(source) + 2) /\ k \in P
    BY <1>0, <1>5 DEF PlacePartition, TypeOK
  <2>2. NextStart(k) \in Int
    BY <2>1, NewSizeType, NextStartBound DEF NextStart, SizeInSectors, TypeOK
  <2>3. SizeInSectors(k) \in Int
    BY <2>1, NewSizeType, DivRoundUpBounds DEF SizeInSectors
  <2>4. PICK last \in Int : target' = Append(target, [source |-> k, first |-> start,
                                                      last |-> last])
    <3>1. PICK end \in Int : target' = Append(target, [source |-> k, first |-> start,
                                                       last |-> PartEnd(end)])
      BY SMTT(30), <1>5, <2>2, <2>3 DEF PlacePartition, TypeOK
    <3>2. PartEnd(end) \in Int
      BY DEF PartEnd, Sectors, TypeOK
    <3> QED
      BY <3>1, <3>2
  <2>5. /\ target' \in Seq([source : P \cup {0}, first : Int, last : Int])
        /\ Len(target') = Len(target) + 1
    BY <2>1, <2>4, AppendProperties DEF TypeOK
  <2>6. Len(target) <= Len(source) /\ Len(target) \in Nat
    BY <1>0, <1>5, <2>1, LenProperties DEF PlacePartition, LoopInv, TypeOK
  <2>7. added' \in 0..Len(target') /\ Len(target') <= Len(source) + 1
    BY <1>0, <1>5, <2>5, <2>6 DEF PlacePartition, TypeOK
  <2> QED
    BY <1>5, <2>1, <2>2, <2>5, <2>7 DEF PlacePartition, TypeOK, P
<1>6. CASE EndLayout
  <2>1. Len(target) <= Len(source) /\ Len(target) \in Nat
    BY <1>0, <1>6, LenProperties DEF EndLayout, LoopInv, TypeOK
  <2>2. Sectors - GptSects \in Int
    BY DEF Sectors, TypeOK
  <2>6. PartEnd(-GptSects) = Sectors - GptSects
    BY NegativeEnd
  <2>3. /\ target' \in Seq([source : P \cup {0}, first : Int, last : Int])
        /\ Len(target') \in {Len(target), Len(target) + 1}
    <3>1. CASE target' = target
      BY <3>1 DEF TypeOK
    <3>2. CASE target' = Append(target, [source |-> 0, first |-> start,
                                         last |-> Sectors - GptSects])
      BY <2>2, <3>2, AppendProperties DEF TypeOK
    <3> QED
      BY <1>6, <2>6, <3>1, <3>2 DEF EndLayout
  <2>4. added' \in 0..Len(target') /\ Len(target') <= Len(source) + 1
    BY <1>0, <1>6, <2>1, <2>3 DEF EndLayout, TypeOK
  <2>5. k' \in 1..(Len(source) + 2)
    BY <1>0, <1>6 DEF EndLayout
  <2> QED
    BY <1>6, <2>3, <2>4, <2>5 DEF EndLayout, TypeOK, P
<1>7. CASE AddPartition
  <2>1. added' \in 0..Len(target) /\ phase' \in {"add", "refused"}
    BY SMTT(30), <1>7, LenProperties DEF AddPartition, TypeOK
  <2> QED
    BY <1>7, <2>1 DEF AddPartition, TypeOK, P
<1>8. CASE EndAdding \/ CopyIsRefused \/ EndCopying \/ CallFails
  BY <1>8, PhaseType DEF EndAdding, CopyIsRefused, EndCopying, CallFails
<1>9. CASE CopyPartition
  <2>1. Len(target) \in Nat /\ k \in 1..Len(target) /\ Len(target) <= Len(source) + 1
    BY <1>0, <1>9, LenProperties DEF CopyPartition, TypeOK
  <2>2. target[k] \in [source : P \cup {0}, first : Int, last : Int]
    BY <2>1, ElementOfSeq DEF TypeOK
  <2>3. disk' \in [0..(outsize - 1) -> Byte]
    <3>1. CASE ~IsCopied(target[k])
      BY <1>9, <3>1 DEF CopyPartition, TypeOK
    <3>2. CASE IsCopied(target[k])
      <4>1. target[k].source \in P
        BY <2>2, <3>2 DEF IsCopied
      <4>2. PICK d \in Int : d = DestOffset(target[k])
        BY <2>2 DEF DestOffset
      <4>3. source[target[k].source] \in Partition /\ NewSize(target[k].source) \in Int
        BY <4>1, NewSizeType, SourceType DEF TypeOK
      <4>4. PICK size \in Int : size = CopySize(target[k].source)
        BY <4>3 DEF CopySize, Partition
      <4>5. \A b \in d..(d + size - 1) : ByteOf(target[k].source, b - d) \in Byte
        BY <1>0, <4>1 DEF ByteOf, Byte
      <4>6. disk' = [b \in DOMAIN disk |-> IF b \in d..(d + size - 1)
                                           THEN ByteOf(target[k].source, b - d)
                                           ELSE disk[b]]
        BY <1>9, <3>2, <4>2, <4>4 DEF CopyPartition, Written
      <4> QED
        BY <4>5, <4>6 DEF TypeOK
    <3> QED
      BY <3>1, <3>2
  <2>4. k' \in 1..(Len(source) + 2)
    BY SMTT(30), <1>0, <1>9, <2>1 DEF CopyPartition
  <2> QED
    BY <1>9, <2>3, <2>4 DEF CopyPartition, TypeOK, P
<1> QED
  BY <1>1, <1>2, <1>3, <1>4, <1>5, <1>6, <1>7, <1>8, <1>9, <1>10

-----------------------------------------------------------------------------
(* The sums, the surplus and the loops.                                    *)

InitialPhases == {"check", "ignore", "delete", "resize", "force"}

LEMMA SumsKept ==
  ASSUME SumsInv, UNCHANGED <<source, op, sums>>,
         phase' \in InitialPhases => phase \in InitialPhases
  PROVE  SumsInv'
  BY DEF SumsInv, NewSize, InitialPhases

LEMMA SumsStep == ASSUME TypeOK, SumsInv, Next PROVE SumsInv'
<1> USE DEF input, options, plan, layout
<1>1. ASSUME NEW p \in P,
             IgnoreOrDelete(p) \/ \E newsize \in NewSizes : Resize(p, newsize)
      PROVE  SumsInv'
  <2>1. Len(sums) = 1 /\ sums' = sums /\ sums[1] = 0
    BY <1>1 DEF IgnoreOrDelete, Resize, SumsInv
  <2> QED
    BY <2>1 DEF SumsInv
<1>2. ASSUME NEW p \in P, ExpandOrShrink(p) PROVE SumsInv'
  <2>1. CASE sums' = <<0>>
    <3>1. Len(sums') = 1 /\ sums'[1] = 0
      BY <2>1
    <3> QED
      BY <3>1 DEF SumsInv
  <2>2. CASE UNCHANGED <<op, sums>> /\ phase' = "error"
    BY <1>2, <2>2, SumsKept DEF ExpandOrShrink, InitialPhases
  <2> QED
    BY <1>2, <2>1, <2>2 DEF ExpandOrShrink
<1>3. CASE AddUp
  <2>1. PICK n \in Nat \ {0} : n = Len(sums)
    BY DEF TypeOK
  <2>2. n \in P
    BY <1>3, <2>1, SourceType DEF AddUp, TypeOK
  <2>3. PICK total \in Int : total = sums[n] + NewSize(n)
    BY <2>1, <2>2, NewSizeType, ElementOfSeq DEF TypeOK
  <2>4. sums' = Append(sums, total)
    BY <1>3, <2>1, <2>3 DEF AddUp
  <2>5. /\ Len(sums') = n + 1 /\ sums'[n + 1] = total
        /\ \A i \in 1..n : sums'[i] = sums[i]
    BY <2>1, <2>4, AppendProperties DEF TypeOK
  <2>6. \A i \in P : NewSize(i)' = NewSize(i)
    BY <1>3 DEF AddUp, NewSize
  <2>7. ASSUME NEW i \in 1..n PROVE sums'[i + 1] = sums'[i] + NewSize(i)'
    <3>1. CASE i = n
      BY <2>2, <2>3, <2>5, <2>6, <3>1
    <3>2. CASE i # n
      <4>1. i \in 1..(n - 1) /\ i + 1 \in 1..n
        BY <2>1, <3>2
      <4>2. sums[i + 1] = sums[i] + NewSize(i)
        BY <2>1, <4>1 DEF SumsInv
      <4>3. i \in P
        BY <2>2, <4>1, SourceType DEF TypeOK
      <4> QED
        BY <2>5, <2>6, <4>1, <4>2, <4>3
    <3> QED
      BY <3>1, <3>2
  <2>8. Len(sums') - 1 = n /\ sums'[1] = 0 /\ phase' = "measure"
    BY <1>3, <2>1, <2>5 DEF SumsInv, AddUp
  <2> QED
    BY <2>7, <2>8 DEF SumsInv
<1>4. CASE CheckSource \/ NextOption \/ EndOptions \/ CalculateSurplus \/ FinalSurplus
  BY <1>4, SumsKept DEF CheckSource, NextOption, EndOptions, CalculateSurplus,
     FinalSurplus, InitialPhases, TypeOK
<1>5. CASE \/ PartInit \/ PartInitFails \/ CopyBootLoader \/ BootLoaderIsShort
           \/ SkipDeleted \/ PlacePartition \/ EndLayout
           \/ AddPartition \/ EndAdding \/ CopyPartition \/ CopyIsRefused \/ EndCopying
           \/ CallFails
  BY <1>5, SumsKept DEF PartInit, PartInitFails, CopyBootLoader, BootLoaderIsShort, SkipDeleted,
     PlacePartition, EndLayout, AddPartition, EndAdding, CopyPartition, CopyIsRefused, EndCopying,
     CallFails, InitialPhases
<1> QED
  BY <1>1, <1>2, <1>3, <1>4, <1>5 DEF Next

LEMMA SurplusKept ==
  ASSUME SurplusInv, UNCHANGED <<source, outsize, sums, surplus>>,
         phase' \in Writing => phase \in Writing,
         phase' \in {"expand", "shrink", "final"} =>
           phase \in {"expand", "shrink", "final"}
  PROVE  SurplusInv'
  BY DEF SurplusInv, Overhead

LEMMA SurplusStep == ASSUME TypeOK, SurplusInv, Next PROVE SurplusInv'
<1> USE DEF input, options, plan, layout, Writing
<1>1. CASE CalculateSurplus
  <2>1. Len(sums) = Len(source) + 1
    BY <1>1, SourceType DEF CalculateSurplus, TypeOK
  <2>2. Overhead' = Overhead
    BY <1>1 DEF CalculateSurplus, Overhead
  <2>3. phase' \notin Writing
    BY <1>1 DEF CalculateSurplus, TypeOK
  <2> QED
    BY <1>1, <2>1, <2>2, <2>3 DEF CalculateSurplus, SurplusInv
<1>2. CASE FinalSurplus
  <2>1. Overhead' = Overhead
    BY <1>2 DEF FinalSurplus, Overhead
  <2>2. surplus \in Int
    BY DEF TypeOK
  <2> QED
    BY <1>2, <2>1, <2>2 DEF FinalSurplus, SurplusInv
<1>3. CASE \E p \in P : ExpandOrShrink(p)
  BY <1>3 DEF ExpandOrShrink, SurplusInv
<1>4. CASE \/ CheckSource \/ NextOption \/ EndOptions \/ AddUp
           \/ \E p \in P : IgnoreOrDelete(p)
           \/ \E p \in P, newsize \in NewSizes : Resize(p, newsize)
  <2>1. phase' \notin Writing /\ phase' \notin {"expand", "shrink", "final"}
    BY <1>4 DEF CheckSource, NextOption, EndOptions, AddUp, IgnoreOrDelete, Resize
  <2> QED
    BY <2>1 DEF SurplusInv
<1>5. CASE \/ PartInit \/ PartInitFails \/ CopyBootLoader \/ BootLoaderIsShort
           \/ SkipDeleted \/ PlacePartition \/ EndLayout
           \/ AddPartition \/ EndAdding \/ CopyPartition \/ CopyIsRefused \/ EndCopying
           \/ CallFails
  BY <1>5, SurplusKept DEF PartInit, PartInitFails, CopyBootLoader, BootLoaderIsShort, SkipDeleted,
     PlacePartition, EndLayout, AddPartition, EndAdding, CopyPartition, CopyIsRefused, EndCopying,
     CallFails
<1> QED
  BY <1>1, <1>2, <1>3, <1>4, <1>5 DEF Next

LEMMA LoopStep == ASSUME TypeOK, LoopInv, Next PROVE LoopInv'
<1> USE DEF input, options, plan, layout
<1>0. Len(source) \in Nat \ {0} /\ Len(target) \in Nat /\ k \in Int
  BY SourceType, LenProperties DEF TypeOK
<1>1. CASE \/ CheckSource \/ NextOption
           \/ \E p \in P : IgnoreOrDelete(p) \/ ExpandOrShrink(p)
           \/ \E p \in P, newsize \in NewSizes : Resize(p, newsize)
           \/ EndOptions \/ AddUp \/ CalculateSurplus \/ FinalSurplus
           \/ PartInit \/ PartInitFails
  <2>1. UNCHANGED <<k, target>> /\ k = 1 /\ target = << >>
    BY <1>1 DEF CheckSource, NextOption, IgnoreOrDelete, ExpandOrShrink, Resize,
       EndOptions, AddUp, CalculateSurplus, FinalSurplus, PartInit, PartInitFails,
       LoopInv
  <2>2. phase' \notin {"layout", "add", "copy"}
    BY <1>1 DEF CheckSource, NextOption, IgnoreOrDelete, ExpandOrShrink, Resize,
       EndOptions, AddUp, CalculateSurplus, FinalSurplus, PartInit, PartInitFails,
       TypeOK
  <2> QED
    BY <2>1, <2>2 DEF LoopInv
<1>2. CASE CopyBootLoader
  <2>1. Len(source') = Len(source) /\ k' = 1 /\ target' = << >> /\ phase' = "layout"
    BY <1>2 DEF CopyBootLoader, LoopInv
  <2>2. Len(target') = 0
    BY <2>1
  <2>3. added' = 0
    <3>1. added' = added /\ target = << >>
      BY <1>2 DEF CopyBootLoader, LoopInv
    <3>2. Len(target) = 0
      BY <3>1
    <3> QED
      BY <3>1, <3>2 DEF TypeOK
  <2> QED
    BY <1>0, <2>1, <2>2, <2>3 DEF LoopInv
<1>8. CASE BootLoaderIsShort
  BY <1>8 DEF BootLoaderIsShort, LoopInv
<1>3. CASE SkipDeleted
  BY <1>0, <1>3 DEF SkipDeleted, LoopInv
<1>4. CASE PlacePartition
  <2>1. PICK t : target' = Append(target, t)
    BY <1>4 DEF PlacePartition
  <2>2. Len(target') = Len(target) + 1
    BY <2>1 DEF TypeOK
  <2> QED
    BY <1>0, <1>4, <2>2 DEF PlacePartition, LoopInv
<1>5. CASE EndLayout
  <2>1. /\ phase' = "add" /\ k' = 1 /\ source' = source /\ Len(target) <= Len(source)
        /\ extra_partition' = extra_partition /\ (target' = target \/ extra_partition)
    BY <1>0, <1>5 DEF EndLayout, LoopInv
  <2> QED
    BY <1>0, <2>1 DEF LoopInv
<1>6. CASE AddPartition \/ EndAdding \/ CopyIsRefused \/ EndCopying \/ CallFails
  BY <1>0, <1>6 DEF AddPartition, EndAdding, CopyIsRefused, EndCopying, CallFails, LoopInv
<1>7. CASE CopyPartition
  BY <1>0, <1>7 DEF CopyPartition, LoopInv
<1> QED
  BY <1>1, <1>2, <1>3, <1>4, <1>5, <1>6, <1>7, <1>8 DEF Next

-----------------------------------------------------------------------------
(* The places of the partitions.                                           *)

(* Once the target disk is written the plan is not changed any more.       *)
LEMMA PlanKept ==
  ASSUME UNCHANGED <<source, outsize, align_first, copy_boot_loader, extra_partition, op>>
  PROVE  /\ FirstStart' = FirstStart /\ Sectors' = Sectors
         /\ SizesArePositive' = SizesArePositive /\ NoneNegative' = NoneNegative
  BY DEF FirstStart, AlignFirst, CanFixBootLoader, Sectors, SizesArePositive,
     NoneNegative, NewSize, P

(* The bound of PlacedInv goes up by one size and one alignment.           *)
LEMMA OneMore ==
  ASSUME NEW S \in Nat, NEW A \in Nat, NEW i \in Int, NEW f \in Int, NEW sum \in Int,
         NEW s \in Int, NEW size \in Int, NEW next \in Int,
         S * s <= f + sum + S * A * (i - 1),
         S * next <= S * s + size + S * A
  PROVE  S * next <= f + (sum + size) + S * A * ((i + 1) - 1)
<1>1. PICK a \in Int : a = S * A
  OBVIOUS
<1>2. a * ((i + 1) - 1) = a * (i - 1) + a
  BY Z3
<1>3. S * next \in Int /\ S * s \in Int /\ a * (i - 1) \in Int
  OBVIOUS
<1>4. S * s <= f + sum + a * (i - 1) /\ S * next <= S * s + size + a
  BY <1>1
<1>5. S * next <= f + (sum + size) + (a * (i - 1) + a)
  BY <1>3, <1>4
<1> QED
  BY <1>1, <1>2, <1>5

(* The type and the size of a partition that is laid out.                  *)
LEMMA PlacingType ==
  ASSUME TypeOK, SumsInv, SurplusInv, phase = "layout", k <= Len(source)
  PROVE  /\ k \in P /\ NewSize(k) \in Int /\ sums[k] \in Int
         /\ sums[k + 1] = sums[k] + NewSize(k)
<1>1. Len(source) \in Nat /\ P = 1..Len(source)
  BY SourceType DEF TypeOK
<1>2. k \in P
  BY <1>1 DEF TypeOK
<1>3. Len(sums) = Len(source) + 1
  BY DEF SurplusInv, Writing
<1>4. k \in 1..(Len(sums) - 1)
  BY <1>1, <1>2, <1>3
<1>5. sums[k] \in Int
  BY <1>4, ElementOfSeq DEF TypeOK
<1> QED
  BY <1>2, <1>4, <1>5, NewSizeType DEF SumsInv

LEMMA SkipStep ==
  ASSUME TypeOK, SumsInv, SurplusInv, PlacedInv, SkipDeleted PROVE PlacedInv'
<1> USE DEF input, options, plan, layout
<1> SUFFICES ASSUME SizesArePositive' PROVE PlacedInv'
  BY DEF PlacedInv
<1>0. /\ FirstStart' = FirstStart /\ SizesArePositive
      /\ phase = "layout" /\ k' = k + 1 /\ UNCHANGED <<start, target, sums>>
  BY PlanKept DEF SkipDeleted
<1>1. k <= Len(source) /\ NewSize(k) = 0
  BY DEF SkipDeleted, NewSize
<1>2. sums[k] \in Int /\ sums[k + 1] = sums[k] + 0
  BY <1>0, <1>1, PlacingType
<1>3. k \in Int /\ start \in Int
  BY DEF TypeOK
<1>4. PICK f \in Int : f = SectSize * FirstStart
  BY OverheadType
<1>5. SectSize * start <= f + sums[k] + SectSize * Alignment * (k - 1)
  BY <1>0, <1>4 DEF PlacedInv
<1>6. SectSize * start <= SectSize * start + 0 + SectSize * Alignment
  BY <1>3
<1>7. SectSize * start <= f + (sums[k] + 0) + SectSize * Alignment * ((k + 1) - 1)
  BY <1>2, <1>3, <1>5, <1>6, OneMore
<1>8. SectSize * start' <= SectSize * FirstStart' + sums'[k'] + SectSize * Alignment * (k' - 1)
  BY <1>0, <1>2, <1>4, <1>7
<1> QED
  BY <1>0, <1>8 DEF PlacedInv, InOrder

LEMMA PlaceStep ==
  ASSUME TypeOK, SumsInv, SurplusInv, PlacedInv, PlacePartition PROVE PlacedInv'
<1> USE DEF input, options, plan, layout
<1> SUFFICES ASSUME SizesArePositive' PROVE PlacedInv'
  BY DEF PlacedInv
<1>0. /\ FirstStart' = FirstStart /\ SizesArePositive
      /\ phase = "layout" /\ k <= Len(source) /\ k' = k + 1 /\ UNCHANGED sums
  BY PlanKept DEF PlacePartition
<1>1. /\ k \in P /\ k \in Int /\ start \in Int /\ FirstStart \in Int
      /\ NewSize(k) \in Int /\ sums[k] \in Int /\ sums[k + 1] = sums[k] + NewSize(k)
  BY <1>0, PlacingType, OverheadType DEF TypeOK
<1>2. PICK size \in Nat \ {0} : size = NewSize(k)
  <2>1. NewSize(k) > 0
    BY <1>0, <1>1 DEF SizesArePositive, PlacePartition
  <2> QED
    BY <1>1, <2>1
<1>3. PICK d \in Int : d = SizeInSectors(k) /\ d >= 1
  <2>1. DivRoundUp(size, SectSize) \in Int /\ DivRoundUp(size, SectSize) >= 1
    BY DivRoundUpBounds, DivRoundUpPositive
  <2> QED
    BY <1>2, <2>1 DEF SizeInSectors
<1>4. PICK next \in Int : next = NextStart(k) /\ start + d <= next
                         /\ SectSize * next <= SectSize * start + size + SectSize * Alignment
  <2>1. NewSize(k) >= 0
    BY <1>2
  <2>2. LET next == RoundUp(start + DivRoundUp(NewSize(k), SectSize), Alignment)
        IN  /\ next \in Int /\ start + DivRoundUp(NewSize(k), SectSize) <= next
            /\ SectSize * next <= SectSize * start + NewSize(k) + SectSize * Alignment
    BY <1>1, <2>1, NextStartBound
  <2> QED
    BY <1>2, <1>3, <2>2 DEF NextStart, SizeInSectors
<1>5. start' = next
  BY <1>4 DEF PlacePartition
<1>18. FirstStart >= 0
  <2>1. source[1].start \in Nat
    BY SourceType DEF TypeOK, Partition
  <2> QED
    BY <2>1 DEF FirstStart
<1>19. start >= 0
  BY <1>0, <1>1, <1>18 DEF PlacedInv
<1>6. PICK last \in Int :
        /\ start <= last /\ last < next
        /\ target' = Append(target, [source |-> k, first |-> start, last |-> last])
  <2>1. CASE op[k].kind = "resize"
    <3>1. target' = Append(target, [source |-> k, first |-> start,
                                    last |-> PartEnd(next - 1)])
      BY <1>4, <2>1 DEF PlacePartition
    <3>2. next - 1 \in Int /\ start <= next - 1 /\ next - 1 < next
      BY <1>1, <1>3, <1>4
    <3>3. PartEnd(next - 1) = next - 1
      BY <1>1, <1>19, <3>2 DEF PartEnd
    <3> QED
      BY <3>1, <3>2, <3>3
  <2>2. CASE op[k].kind # "resize"
    <3>1. target' = Append(target, [source |-> k, first |-> start,
                                    last |-> PartEnd(start + d - 1)])
      BY <1>3, <2>2 DEF PlacePartition
    <3>2. start + d - 1 \in Int /\ start <= start + d - 1 /\ start + d - 1 < next
      BY <1>1, <1>3, <1>4
    <3>3. PartEnd(start + d - 1) = start + d - 1
      BY <1>1, <1>19, <3>2 DEF PartEnd
    <3> QED
      BY <3>1, <3>2, <3>3
  <2> QED
    BY <2>1, <2>2
<1>7. PICK n \in Nat : n = Len(target)
  BY LenProperties DEF TypeOK
<1>8. /\ Len(target') = n + 1
      /\ \A j \in 1..n : target'[j] = target[j]
      /\ target'[n + 1].first = start /\ target'[n + 1].last = last
  BY <1>1, <1>6, <1>7, AppendProperties DEF TypeOK
<1>9. ASSUME NEW j \in 1..n PROVE target[j].first \in Int /\ target[j].last \in Int
  <2>1. target[j] \in [source : P \cup {0}, first : Int, last : Int]
    BY <1>7, ElementOfSeq DEF TypeOK
  <2> QED
    BY <2>1
<1>10. /\ \A i, j \in 1..n : i < j => target[i].last < target[j].first
       /\ \A j \in 1..n : /\ FirstStart <= target[j].first
                          /\ target[j].first <= target[j].last
                          /\ target[j].last < start
       /\ FirstStart <= start
  BY <1>0, <1>7 DEF PlacedInv, InOrder
<1>11. InOrder'
  <2> SUFFICES ASSUME NEW i \in 1..(n + 1), NEW j \in 1..(n + 1), i < j
               PROVE  target'[i].last < target'[j].first
    BY <1>8 DEF InOrder
  <2>1. i \in 1..n
    OBVIOUS
  <2>2. CASE j \in 1..n
    BY <1>8, <1>10, <2>1, <2>2
  <2>3. CASE j = n + 1
    BY <1>8, <1>10, <2>1, <2>3
  <2> QED
    BY <2>2, <2>3
<1>12. ASSUME NEW j \in 1..(n + 1)
       PROVE  /\ FirstStart <= target'[j].first
              /\ target'[j].first <= target'[j].last
              /\ target'[j].last < next
  <2>1. CASE j \in 1..n
    <3>1. start < next
      BY <1>1, <1>3, <1>4
    <3> QED
      BY <1>1, <1>8, <1>9, <1>10, <2>1, <3>1
  <2>2. CASE j = n + 1
    BY <1>6, <1>8, <1>10, <2>2
  <2> QED
    BY <2>1, <2>2
<1>13. FirstStart <= next
  BY <1>1, <1>3, <1>4, <1>10
<1>14. PICK f \in Int : f = SectSize * FirstStart
  BY <1>1
<1>15. SectSize * start <= f + sums[k] + SectSize * Alignment * (k - 1)
  BY <1>0, <1>14 DEF PlacedInv
<1>16. SectSize * next <= f + (sums[k] + size) + SectSize * Alignment * ((k + 1) - 1)
  BY <1>1, <1>4, <1>15, OneMore
<1>17. SectSize * start' <= SectSize * FirstStart' + sums'[k'] + SectSize * Alignment * (k' - 1)
  BY <1>0, <1>1, <1>2, <1>5, <1>14, <1>16
<1> QED
  BY <1>0, <1>5, <1>8, <1>11, <1>12, <1>13, <1>17 DEF PlacedInv

LEMMA PlacedStep ==
  ASSUME TypeOK, SumsInv, SurplusInv, LoopInv, PlacedInv, Next PROVE PlacedInv'
<1> USE DEF input, options, plan, layout
<1>1. CASE CopyBootLoader
  <2>1. /\ start' = FirstStart /\ FirstStart' = FirstStart /\ k' = 1 /\ target' = << >>
        /\ UNCHANGED sums
    BY <1>1, PlanKept DEF CopyBootLoader, LoopInv
  <2>2. Len(target') = 0
    BY <2>1
  <2>3. FirstStart \in Int /\ sums[1] = 0
    BY OverheadType DEF SumsInv
  <2>4. SectSize * FirstStart <= SectSize * FirstStart + 0 + SectSize * Alignment * (1 - 1)
    BY <2>3
  <2> QED
    BY <2>1, <2>2, <2>3, <2>4 DEF PlacedInv, InOrder
<1>2. CASE \/ CheckSource \/ NextOption
           \/ \E p \in P : IgnoreOrDelete(p) \/ ExpandOrShrink(p)
           \/ \E p \in P, newsize \in NewSizes : Resize(p, newsize)
           \/ EndOptions \/ AddUp \/ CalculateSurplus \/ FinalSurplus
           \/ PartInit \/ PartInitFails \/ BootLoaderIsShort \/ EndLayout
           \/ AddPartition \/ EndAdding \/ CopyPartition \/ CopyIsRefused \/ EndCopying \/ CallFails
  <2>1. phase' # "layout"
    BY <1>2 DEF CheckSource, NextOption, IgnoreOrDelete, ExpandOrShrink, Resize,
       EndOptions, AddUp, CalculateSurplus, FinalSurplus, PartInit, PartInitFails,
       BootLoaderIsShort, EndLayout, AddPartition, EndAdding, CopyPartition, CopyIsRefused, EndCopying, CallFails, TypeOK
  <2> QED
    BY <2>1 DEF PlacedInv
<1> QED
  BY <1>1, <1>2, SkipStep, PlaceStep DEF Next

LEMMA DivAtLeast ==
  ASSUME NEW S \in Nat \ {0}, NEW q \in Int, NEW size \in Int, S * q <= size
  PROVE  size \div S \in Int /\ q <= size \div S
<1>1. PICK r \in Int : r = size \div S /\ size < S * r + S
  OBVIOUS
<1>2. ASSUME r < q PROVE FALSE
  <2>1. S * (r + 1) <= S * q
    BY <1>2, Scale
  <2>2. S * (r + 1) = S * r + S
    BY Z3
  <2>3. S * r \in Int /\ S * q \in Int
    OBVIOUS
  <2> QED
    BY <1>1, <2>1, <2>2, <2>3
<1> QED
  BY <1>1, <1>2

(* Of n partitions whose first one starts at sector f, by m at the latest  *)
(* or at the first aligned sector, g sectors are left after the last one.  *)
LEMMA Room ==
  ASSUME NEW S \in Nat \ {0}, NEW A \in Nat \ {0}, NEW n \in Nat, NEW m \in Int,
         NEW g \in Int, NEW f \in Int, f <= m + A, NEW sum \in Int, NEW s \in Int,
         NEW size \in Int,
         S * s <= S * f + sum + S * A * ((n + 1) - 1),
         size - (sum + S * (m + A * (n + 1) + g)) >= 0
  PROVE  s <= (size \div S) - g
<1>1. PICK x \in Int : x = S * A * n
  OBVIOUS
<1>2. S * A * ((n + 1) - 1) = x
  BY <1>1, Z3
<1>3. S * (m + A * (n + 1) + g) = S * m + S * A + S * g + x
  BY <1>1, Z3
<1>4. S * f <= S * (m + A)
  BY Scale
<1>5. S * (m + A) = S * m + S * A /\ S * (s + g) = S * s + S * g
  BY Z3
<1>6. /\ S * f \in Int /\ S * m \in Int /\ S * A \in Int /\ S * g \in Int
      /\ S * s \in Int
  OBVIOUS
<1>7. S * f <= S * m + S * A
  BY <1>4, <1>5
<1>8. size - (sum + (S * m + S * A + S * g + x)) >= 0
  BY <1>3
<1>9. S * s <= S * f + sum + x
  BY <1>2
<1>10. S * s + S * g <= size
  BY <1>6, <1>7, <1>8, <1>9
<1>11. S * (s + g) <= size
  BY <1>5, <1>10
<1>12. size \div S \in Int /\ s + g <= size \div S
  BY <1>11, DivAtLeast
<1> QED
  BY <1>12

(* When all partitions are laid out, there is room for the backup of the   *)
(* partition table after them: what a surplus that is not negative means.  *)
LEMMA RoomIsLeft ==
  ASSUME TypeOK, SumsInv, SurplusInv, LoopInv, PlacedInv, SizesArePositive,
         phase = "layout", k > Len(source)
  PROVE  start \in Int /\ Sectors - GptSects \in Int /\ start <= Sectors - GptSects
<1>1. PICK n \in Nat \ {0} : n = Len(source) /\ k = n + 1
  BY SourceType DEF LoopInv, TypeOK
<1>2. PICK sum \in Int : sum = sums[n + 1]
  BY <1>1, ElementOfSeq DEF SurplusInv, Writing, TypeOK
<1>3. PICK m \in Int :
        /\ m = Larger(GptSects, Larger(MaxBootLoader \div Sector512,
                                       source[1].start \div SectSize))
        /\ source[1].start \div SectSize \in Int /\ source[1].start \div SectSize <= m
        /\ 0 <= m
  <2>1. source[1] \in Partition
    BY SourceType DEF TypeOK
  <2>2. source[1].start \div SectSize \in Int /\ MaxBootLoader \div Sector512 \in Int
    BY <2>1 DEF Partition
  <2> QED
    BY <2>2 DEF Larger
<1>4. FirstStart \in Int /\ FirstStart <= m + Alignment
  BY <1>3 DEF FirstStart
<1>5. Overhead = SectSize * (m + Alignment * (n + 1) + GptSects)
  BY <1>1, <1>3 DEF Overhead
<1>6. outsize - (sum + SectSize * (m + Alignment * (n + 1) + GptSects)) >= 0
  BY <1>1, <1>2, <1>5 DEF SurplusInv, Writing
<1>7. SectSize * start <= SectSize * FirstStart + sum + SectSize * Alignment * ((n + 1) - 1)
  BY <1>1, <1>2 DEF PlacedInv
<1>8. start \in Int /\ outsize \in Int
  BY DEF TypeOK
<1>9. start <= (outsize \div SectSize) - GptSects
  BY <1>4, <1>6, <1>7, <1>8, Room
<1>10. Sectors - GptSects \in Int
  BY <1>8 DEF Sectors
<1> QED
  BY <1>8, <1>9, <1>10 DEF Sectors

LEMMA EndFits ==
  ASSUME TypeOK, SumsInv, SurplusInv, LoopInv, PlacedInv, EndLayout PROVE PartitionsFit'
<1> USE DEF input, options, plan, layout
<1> SUFFICES ASSUME SizesArePositive' PROVE (InOrder /\ OnDisk)'
  BY DEF PartitionsFit
<1>0. /\ FirstStart' = FirstStart /\ Sectors' = Sectors /\ SizesArePositive
      /\ phase = "layout" /\ k > Len(source)
  BY PlanKept DEF EndLayout
<1>1. start \in Int /\ Sectors - GptSects \in Int /\ start <= Sectors - GptSects
  BY <1>0, RoomIsLeft
<1>2. PICK n \in Nat : n = Len(target)
  BY LenProperties DEF TypeOK
<1>3. /\ \A i, j \in 1..n : i < j => target[i].last < target[j].first
      /\ \A j \in 1..n : /\ FirstStart <= target[j].first
                         /\ target[j].first <= target[j].last
                         /\ target[j].last < start
      /\ FirstStart <= start
  BY <1>0, <1>2 DEF PlacedInv, InOrder
<1>4. ASSUME NEW j \in 1..n PROVE target[j].last <= Sectors - GptSects
  <2>1. target[j] \in [source : P \cup {0}, first : Int, last : Int]
    BY <1>2, ElementOfSeq DEF TypeOK
  <2>2. target[j].last \in Int
    BY <2>1
  <2> QED
    BY <1>1, <1>3, <2>2
<1>5. CASE target' = target
  BY <1>0, <1>2, <1>3, <1>4, <1>5 DEF InOrder, OnDisk
<1>6. CASE target' = Append(target, [source |-> 0, first |-> start,
                                     last |-> Sectors - GptSects])
  <2>1. /\ Len(target') = n + 1
        /\ \A j \in 1..n : target'[j] = target[j]
        /\ target'[n + 1].first = start /\ target'[n + 1].last = Sectors - GptSects
    BY <1>1, <1>2, <1>6, AppendProperties DEF TypeOK
  <2>2. InOrder'
    <3> SUFFICES ASSUME NEW i \in 1..(n + 1), NEW j \in 1..(n + 1), i < j
                 PROVE  target'[i].last < target'[j].first
      BY <2>1 DEF InOrder
    <3>1. i \in 1..n
      OBVIOUS
    <3>2. CASE j \in 1..n
      BY <1>3, <2>1, <3>1, <3>2
    <3>3. CASE j = n + 1
      BY <1>3, <2>1, <3>1, <3>3
    <3> QED
      BY <3>2, <3>3
  <2>3. ASSUME NEW j \in 1..(n + 1)
        PROVE  /\ FirstStart <= target'[j].first
               /\ target'[j].first <= target'[j].last
               /\ target'[j].last <= Sectors - GptSects
    <3>1. CASE j \in 1..n
      BY <1>3, <1>4, <2>1, <3>1
    <3>2. CASE j = n + 1
      BY <1>1, <1>3, <2>1, <3>2
    <3> QED
      BY <3>1, <3>2
  <2> QED
    BY <1>0, <2>1, <2>2, <2>3 DEF OnDisk
<1> QED
  BY <1>5, <1>6, NegativeEnd DEF EndLayout

LEMMA FitStep ==
  ASSUME TypeOK, SumsInv, SurplusInv, LoopInv, PlacedInv, PartitionsFit, Next
  PROVE  PartitionsFit'
<1> USE DEF input, options, plan, layout
<1>1. CASE AddPartition \/ EndAdding \/ CopyPartition \/ CopyIsRefused \/ EndCopying
  <2>1. /\ phase \in {"add", "copy", "done"}
        /\ UNCHANGED <<source, outsize, align_first, copy_boot_loader,
                       extra_partition, op, target>>
    BY <1>1 DEF AddPartition, EndAdding, CopyPartition, CopyIsRefused, EndCopying
  <2> QED
    BY <2>1, PlanKept DEF PartitionsFit, InOrder, OnDisk
<1>2. CASE \/ CheckSource \/ NextOption
           \/ \E p \in P : IgnoreOrDelete(p) \/ ExpandOrShrink(p)
           \/ \E p \in P, newsize \in NewSizes : Resize(p, newsize)
           \/ EndOptions \/ AddUp \/ CalculateSurplus \/ FinalSurplus
           \/ PartInit \/ PartInitFails \/ CopyBootLoader \/ BootLoaderIsShort
           \/ SkipDeleted \/ PlacePartition \/ CopyIsRefused \/ CallFails
  <2>1. phase' \notin {"add", "copy", "done"}
    BY <1>2 DEF CheckSource, NextOption, IgnoreOrDelete, ExpandOrShrink, Resize,
       EndOptions, AddUp, CalculateSurplus, FinalSurplus, PartInit, PartInitFails,
       CopyBootLoader, BootLoaderIsShort, SkipDeleted, PlacePartition, CopyIsRefused,
       CallFails, TypeOK
  <2> QED
    BY <2>1 DEF PartitionsFit
<1> QED
  BY <1>1, <1>2, EndFits DEF Next

-----------------------------------------------------------------------------
(* The invariant of ResizeLayoutInvariant: whatever the options, the sizes *)
(* and the alignment, the sums, the surplus and the places agree.          *)
THEOREM Invariance == Spec => []IInv
<1>1. Init => IInv
  <2> SUFFICES ASSUME Init PROVE IInv
    OBVIOUS
  <2>1. SumsInv
    <3>1. Len(sums) = 1 /\ sums[1] = 0
      BY DEF Init
    <3> QED
      BY <3>1 DEF SumsInv
  <2>2. SurplusInv /\ PlacedInv /\ PartitionsFit
    BY DEF Init, SurplusInv, PlacedInv, PartitionsFit, Writing
  <2>3. LoopInv
    BY DEF Init, LoopInv
  <2> QED
    BY <2>1, <2>2, <2>3, InitType DEF IInv
<1>2. IInv /\ [Next]_vars => IInv'
  <2> SUFFICES ASSUME IInv, [Next]_vars PROVE IInv'
    OBVIOUS
  <2>1. CASE Next
    <3>1. TypeOK /\ SumsInv /\ SurplusInv /\ LoopInv /\ PlacedInv /\ PartitionsFit
      BY DEF IInv
    <3>2. TypeOK'
      BY <2>1, <3>1, PlanType, WriteType DEF Next
    <3>3. SumsInv' /\ SurplusInv' /\ LoopInv'
      BY <2>1, <3>1, SumsStep, SurplusStep, LoopStep
    <3>4. PlacedInv' /\ PartitionsFit'
      BY <2>1, <3>1, PlacedStep, FitStep
    <3> QED
      BY <3>2, <3>3, <3>4 DEF IInv
  <2>2. CASE UNCHANGED vars
    <3> USE <2>2 DEF vars
    <3>1. TypeOK' /\ LoopInv'
      BY DEF IInv, TypeOK, LoopInv, P
    <3>2. SumsInv' /\ SurplusInv'
      BY DEF IInv, SumsInv, SurplusInv, NewSize, Overhead
    <3>3. FirstStart' = FirstStart /\ Sectors' = Sectors
          /\ SizesArePositive' = SizesArePositive
      BY PlanKept
    <3>4. PlacedInv' /\ PartitionsFit'
      BY <3>3 DEF IInv, PlacedInv, PartitionsFit, InOrder, OnDisk
    <3> QED
      BY <3>1, <3>2, <3>4 DEF IInv
  <2> QED
    BY <2>1, <2>2
<1> QED
  BY <1>1, <1>2, PTL DEF Spec

(* Every variable of virt-resize's plan, layout and disk keeps its type.   *)
THEOREM TypeCorrect == Spec => []TypeOK
<1>1. IInv => TypeOK
  BY DEF IInv
<1> QED
  BY <1>1, Invariance, PTL

(* The target partitions are in order, do not overlap and leave room for   *)
(* the backup of the partition table: the surplus counts all that is lost. *)
THEOREM PartitionsAlwaysFit == Spec => []PartitionsFit
<1>1. IInv => PartitionsFit
  BY DEF IInv
<1> QED
  BY <1>1, Invariance, PTL

-----------------------------------------------------------------------------
(* --expand and --shrink.                                                  *)

(* The totals that the fold over the partitions will arrive at.            *)
Totals == {t \in [1..(Len(source) + 1) -> Int] :
             t[1] = 0 /\ \A p \in P : t[p + 1] = t[p] + NewSize(p)}

(* After a partition has been adjusted the sums are on their way to a      *)
(* total that leaves no surplus.                                           *)
AdjustInv ==
  adjusted # 0 =>
    /\ phase \in {"measure", "final", "error", "failed", "refused"} \cup Writing
    /\ phase = "measure" =>
         /\ then = "final"
         /\ \E t \in Totals : /\ t[Len(source) + 1] = outsize - Overhead
                              /\ \A i \in 1..Len(sums) : t[i] = sums[i]
    /\ phase \in {"final"} \cup Writing => surplus = 0

(* The partition takes up the surplus, and so do all totals after it.      *)
LEMMA AdjustedTotals ==
  ASSUME TypeOK, SumsInv, SurplusInv, NEW p \in P, ExpandOrShrink(p), phase' = "measure"
  PROVE  /\ then' = "final"
         /\ \E t \in Totals' : /\ t[Len(source') + 1] = outsize' - Overhead'
                               /\ \A i \in 1..Len(sums') : t[i] = sums'[i]
<1> USE DEF input, options
<1>1. /\ phase \in {"expand", "shrink"} /\ CanMark(p, source[p].size + surplus, FALSE)
      /\ op' = Marked(p, source[p].size + surplus, FALSE) /\ sums' = <<0>>
      /\ then' = "final" /\ source' = source /\ outsize' = outsize
  BY DEF ExpandOrShrink
<1>2. PICK n \in Nat \ {0} : n = Len(source) /\ P = 1..n
  BY SourceType DEF TypeOK
<1>3. /\ Len(sums) = n + 1 /\ sums[1] = 0
      /\ surplus = outsize - (sums[n + 1] + Overhead)
      /\ \A q \in P : sums[q + 1] = sums[q] + NewSize(q)
  BY <1>1, <1>2 DEF SumsInv, SurplusInv
<1>4. \A i \in 1..(n + 1) : sums[i] \in Int
  BY <1>3, ElementOfSeq DEF TypeOK
<1>5. surplus \in Int /\ outsize \in Int /\ Overhead \in Int
  BY OverheadType DEF TypeOK
<1>6. P' = P /\ Overhead' = Overhead
  BY <1>1 DEF P, Overhead
<1>7. source[p].size \in Int /\ NewSize(p) = source[p].size
  <2>1. source[p] \in Partition
    BY SourceType DEF TypeOK
  <2> QED
    BY <1>1, <2>1 DEF CanMark, NewSize, Partition
<1>8. op \in [P -> Operation]
  BY DEF TypeOK
<1>9. NewSize(p)' = source[p].size + surplus
  <2>1. CASE source[p].size + surplus = source[p].size
    BY <1>1, <1>7, <2>1 DEF Marked, NewSize
  <2>2. CASE source[p].size + surplus # source[p].size
    <3>1. op'[p] = [kind |-> "resize", size |-> source[p].size + surplus, force |-> FALSE]
      BY <1>1, <1>8, <2>2 DEF Marked
    <3> QED
      BY <3>1 DEF NewSize
  <2> QED
    BY <2>1, <2>2
<1>10. ASSUME NEW q \in P, q # p PROVE NewSize(q)' = NewSize(q)
  <2>1. op'[q] = op[q]
    BY <1>1, <1>8, <1>10 DEF Marked
  <2> QED
    BY <1>1, <2>1 DEF NewSize
<1> DEFINE t == [i \in 1..(n + 1) |-> IF i <= p THEN sums[i] ELSE sums[i] + surplus]
<1>11. t \in [1..(n + 1) -> Int] /\ t[1] = 0
  BY <1>2, <1>3, <1>4, <1>5
<1>12. ASSUME NEW q \in P PROVE t[q + 1] = t[q] + NewSize(q)'
  <2>1. q \in 1..(n + 1) /\ q + 1 \in 1..(n + 1) /\ p \in Nat
    BY <1>2
  <2>2. sums[q + 1] = sums[q] + NewSize(q) /\ sums[q] \in Int /\ sums[q + 1] \in Int
    BY <1>3, <1>4, <2>1
  <2>3. CASE q < p
    BY <1>10, <2>1, <2>2, <2>3
  <2>4. CASE q = p
    BY <1>5, <1>7, <1>9, <2>1, <2>2, <2>4
  <2>5. CASE q > p
    <3>1. q # p
      BY <2>1, <2>5
    <3>2. NewSize(q)' = NewSize(q) /\ NewSize(q) \in Int
      BY <1>10, <3>1, NewSizeType
    <3> QED
      BY <1>5, <2>1, <2>2, <2>5, <3>2
  <2> QED
    BY <2>1, <2>3, <2>4, <2>5, <1>2
<1>13. t \in Totals'
  BY <1>1, <1>2, <1>6, <1>11, <1>12 DEF Totals
<1>14. t[n + 1] = outsize' - Overhead'
  <2>1. t[n + 1] = sums[n + 1] + surplus
    BY <1>2
  <2>2. sums[n + 1] \in Int
    BY <1>4
  <2> QED
    BY <1>1, <1>3, <1>5, <1>6, <2>1, <2>2
<1>15. Len(sums') = 1 /\ sums'[1] = 0
  BY <1>1
<1>16. \A i \in 1..Len(sums') : t[i] = sums'[i]
  BY <1>11, <1>15
<1> QED
  BY <1>1, <1>2, <1>13, <1>14, <1>16

LEMMA AdjustStep ==
  ASSUME TypeOK, SumsInv, SurplusInv, AdjustInv, Next PROVE AdjustInv'
<1> USE DEF input, options, plan, layout
<1>1. ASSUME NEW p \in P, ExpandOrShrink(p) PROVE AdjustInv'
  <2>1. CASE phase' = "measure"
    BY <1>1, <2>1, AdjustedTotals DEF AdjustInv, Writing
  <2>2. CASE phase' # "measure"
    <3>1. adjusted' = adjusted /\ phase' = "error"
      BY <1>1, <2>2 DEF ExpandOrShrink
    <3> QED
      BY <3>1 DEF AdjustInv, Writing
  <2> QED
    BY <2>1, <2>2
<1>2. CASE AddUp
  <2> SUFFICES ASSUME adjusted' # 0 PROVE AdjustInv'
    BY DEF AdjustInv
  <2>1. /\ phase = "measure" /\ phase' = phase /\ adjusted' = adjusted /\ then' = then
        /\ source' = source /\ outsize' = outsize /\ op' = op
        /\ sums' = Append(sums, sums[Len(sums)] + NewSize(Len(sums)))
        /\ Len(sums) <= Len(source)
    BY <1>2 DEF AddUp
  <2>2. then = "final"
    BY <2>1 DEF AdjustInv
  <2>3. PICK t \in Totals : /\ t[Len(source) + 1] = outsize - Overhead
                            /\ \A i \in 1..Len(sums) : t[i] = sums[i]
    BY <2>1 DEF AdjustInv
  <2>4. Totals' = Totals /\ Overhead' = Overhead
    <3>1. P' = P /\ \A p \in P : NewSize(p)' = NewSize(p)
      BY <2>1 DEF P, NewSize
    <3> QED
      BY <2>1, <3>1 DEF Totals, Overhead
  <2>5. PICK n \in Nat \ {0} : n = Len(sums) /\ n \in P
    BY <2>1, SourceType DEF TypeOK
  <2>6. /\ Len(sums') = n + 1 /\ sums'[n + 1] = sums[n] + NewSize(n)
        /\ \A i \in 1..n : sums'[i] = sums[i]
    <3>1. PICK total \in Int : total = sums[n] + NewSize(n)
      BY <2>5, NewSizeType, ElementOfSeq DEF TypeOK
    <3>2. sums' = Append(sums, total) /\ sums \in Seq(Int)
      BY <2>1, <2>5, <3>1 DEF TypeOK
    <3> QED
      BY <2>5, <3>1, <3>2, AppendProperties
  <2>7. t[n + 1] = t[n] + NewSize(n)
    BY <2>3, <2>5 DEF Totals
  <2>8. \A i \in 1..Len(sums') : t[i] = sums'[i]
    BY <2>3, <2>5, <2>6, <2>7
  <2>9. t[Len(source') + 1] = outsize' - Overhead'
    BY <2>1, <2>3, <2>4
  <2> QED
    BY <2>1, <2>2, <2>3, <2>4, <2>8, <2>9 DEF AdjustInv, Writing
<1>3. CASE CalculateSurplus
  <2> SUFFICES ASSUME adjusted' # 0 PROVE AdjustInv'
    BY DEF AdjustInv
  <2>1. /\ phase = "measure" /\ phase' = then /\ adjusted' = adjusted
        /\ surplus' = outsize - (sums[Len(sums)] + Overhead) /\ Len(sums) > Len(source)
    BY <1>3 DEF CalculateSurplus
  <2>2. then = "final"
    BY <2>1 DEF AdjustInv
  <2>3. PICK t \in Totals : /\ t[Len(source) + 1] = outsize - Overhead
                            /\ \A i \in 1..Len(sums) : t[i] = sums[i]
    BY <2>1 DEF AdjustInv
  <2>4. Len(sums) = Len(source) + 1 /\ Len(sums) \in 1..Len(sums)
    BY <2>1, SourceType DEF TypeOK
  <2>5. sums[Len(sums)] = outsize - Overhead
    BY <2>3, <2>4
  <2>6. surplus' = 0
    BY <2>1, <2>5, OverheadType DEF TypeOK
  <2> QED
    BY <2>1, <2>2, <2>6 DEF AdjustInv, Writing
<1>4. CASE \/ CheckSource \/ NextOption \/ EndOptions
           \/ \E p \in P : IgnoreOrDelete(p)
           \/ \E p \in P, newsize \in NewSizes : Resize(p, newsize)
  <2>1. adjusted' = adjusted /\ phase \in {"check", "ignore", "delete", "resize", "force"}
    BY <1>4 DEF CheckSource, NextOption, EndOptions, IgnoreOrDelete, Resize
  <2> QED
    BY <2>1 DEF AdjustInv, Writing
<1>5. CASE \/ FinalSurplus \/ PartInit \/ PartInitFails \/ CopyBootLoader \/ BootLoaderIsShort
           \/ SkipDeleted \/ PlacePartition \/ EndLayout
           \/ AddPartition \/ EndAdding \/ CopyPartition \/ CopyIsRefused \/ EndCopying
           \/ CallFails
  <2>1. /\ adjusted' = adjusted /\ surplus' = surplus
        /\ phase \in {"final"} \cup Writing
        /\ phase' \in {"error", "failed", "refused"} \cup Writing
    BY <1>5 DEF FinalSurplus, PartInit, PartInitFails, CopyBootLoader, BootLoaderIsShort, SkipDeleted,
       PlacePartition, EndLayout, AddPartition, EndAdding, CopyPartition, CopyIsRefused, EndCopying,
       CallFails, Writing
  <2> QED
    BY <2>1 DEF AdjustInv, Writing
<1> QED
  BY <1>1, <1>2, <1>3, <1>4, <1>5 DEF Next

LEMMA AdjustStutter == ASSUME AdjustInv, UNCHANGED vars PROVE AdjustInv'
<1>1. P' = P /\ \A p \in P : NewSize(p)' = NewSize(p)
  BY DEF vars, P, NewSize
<1>2. Totals' = Totals /\ Overhead' = Overhead
  BY <1>1 DEF vars, Totals, Overhead
<1> QED
  BY <1>2 DEF vars, AdjustInv

(* --expand uses up the surplus exactly, and --shrink frees exactly what   *)
(* is missing (calculate_surplus and the two options, resize.ml 784-890).  *)
THEOREM SurplusIsUsedUp == Spec => []AdjustedExactly
<1>1. Init => AdjustInv
  BY DEF Init, AdjustInv
<1>2. IInv /\ AdjustInv /\ [Next]_vars => AdjustInv'
  <2> SUFFICES ASSUME IInv, AdjustInv, [Next]_vars PROVE AdjustInv'
    OBVIOUS
  <2>1. CASE Next
    BY <2>1, AdjustStep DEF IInv
  <2>2. CASE UNCHANGED vars
    BY <2>2, AdjustStutter
  <2> QED
    BY <2>1, <2>2
<1>3. AdjustInv => AdjustedExactly
  BY DEF AdjustInv, AdjustedExactly, Writing
<1> QED
  BY <1>1, <1>2, <1>3, Invariance, PTL DEF Spec

-----------------------------------------------------------------------------
(* The sizes.                                                              *)

LEMMA PartitionType ==
  ASSUME TypeOK, NEW p \in P
  PROVE  /\ source[p] \in Partition
         /\ source[p].size \in Nat /\ source[p].content \in Nat
<1>1. source[p] \in Partition
  BY SourceType DEF TypeOK
<1> QED
  BY <1>1 DEF Partition

(* How a step changes the operations: not at all, by --ignore and --delete *)
(* or by marking a partition.                                              *)
LEMMA OperationChange ==
  ASSUME TypeOK, Next
  PROVE  /\ source' = source /\ P' = P
         /\ \/ op' = op
            \/ \E p \in P, kind \in {"ignore", "delete"} :
                 op' = [op EXCEPT ![p] = Plain(kind)]
            \/ \E p \in P, newsize \in Int, force \in BOOLEAN :
                 /\ force => newsize > 0
                 /\ CanMark(p, newsize, force) /\ op' = Marked(p, newsize, force)
<1> USE DEF input, options, plan, layout
<1>1. source' = source
  BY DEF Next, CheckSource, NextOption, IgnoreOrDelete, ExpandOrShrink, Resize,
     EndOptions, AddUp, CalculateSurplus, FinalSurplus, PartInit, PartInitFails,
     CopyBootLoader, BootLoaderIsShort, SkipDeleted, PlacePartition, EndLayout, AddPartition, EndAdding,
     CopyPartition, CopyIsRefused, EndCopying, CallFails
<1>2. P' = P
  BY <1>1 DEF P
<1>3. ASSUME NEW p \in P, IgnoreOrDelete(p)
      PROVE  op' = op \/ \E kind \in {"ignore", "delete"} :
                           op' = [op EXCEPT ![p] = Plain(kind)]
  BY <1>3 DEF IgnoreOrDelete
<1>4. ASSUME NEW p \in P, ExpandOrShrink(p)
      PROVE  \/ op' = op
             \/ \E newsize \in Int :
                  CanMark(p, newsize, FALSE) /\ op' = Marked(p, newsize, FALSE)
  <2>1. source[p].size \in Int /\ surplus \in Int
    BY PartitionType DEF TypeOK
  <2>2. source[p].size + surplus \in Int
    BY <2>1
  <2> QED
    BY <1>4, <2>2 DEF ExpandOrShrink
<1>5. ASSUME NEW p \in P, NEW newsize \in NewSizes, Resize(p, newsize)
      PROVE  \/ op' = op
             \/ /\ newsize \in Int /\ newsize > 0
                /\ \E force \in BOOLEAN :
                     CanMark(p, newsize, force) /\ op' = Marked(p, newsize, force)
  <2>1. newsize \in Int /\ (phase = "force") \in BOOLEAN
    OBVIOUS
  <2> QED
    BY <1>5, <2>1 DEF Resize
<1>6. CASE \/ CheckSource \/ NextOption \/ EndOptions \/ AddUp \/ CalculateSurplus
           \/ FinalSurplus \/ PartInit \/ PartInitFails \/ CopyBootLoader \/ BootLoaderIsShort
           \/ SkipDeleted \/ PlacePartition \/ EndLayout
           \/ AddPartition \/ EndAdding \/ CopyPartition \/ CopyIsRefused \/ EndCopying \/ CallFails
  <2>1. op' = op
    BY <1>6 DEF CheckSource, NextOption, EndOptions, AddUp, CalculateSurplus,
       FinalSurplus, PartInit, PartInitFails, CopyBootLoader, BootLoaderIsShort, SkipDeleted,
       PlacePartition, EndLayout, AddPartition, EndAdding, CopyPartition, CopyIsRefused, EndCopying,
       CallFails
  <2> QED
    BY <1>1, <1>2, <2>1
<1>7. CASE \E p \in P : IgnoreOrDelete(p)
  BY <1>1, <1>2, <1>3, <1>7
<1>8. CASE \E p \in P : ExpandOrShrink(p)
  BY <1>1, <1>2, <1>4, <1>8
<1>9. CASE \E p \in P, newsize \in NewSizes : Resize(p, newsize)
  BY <1>1, <1>2, <1>5, <1>9
<1> QED
  BY <1>6, <1>7, <1>8, <1>9 DEF Next

(* What marking does to the operation of a partition.                      *)
LEMMA MarkedAt ==
  ASSUME TypeOK, NEW p \in P, NEW newsize \in Int, NEW force \in BOOLEAN,
         CanMark(p, newsize, force), NEW q \in P
  PROVE  \/ Marked(p, newsize, force)[q] = op[q]
         \/ /\ q = p
            /\ Marked(p, newsize, force)[q]
                 = [kind |-> "resize", size |-> newsize, force |-> force]
  BY DEF Marked, TypeOK

LEMMA MarkStep == ASSUME TypeOK, MarkInv, Next PROVE MarkInv'
<1>1. source' = source /\ P' = P
  BY OperationChange
<1>2. ASSUME NEW q \in P', phase' \notin {"check", "error"}, source'[q].kind = "content"
      PROVE  source'[q].content <= source'[q].size
  <2>1. CASE CheckSource
    <3>1. SourceIsSane
      BY <1>2, <2>1 DEF CheckSource
    <3> QED
      BY <1>1, <1>2, <3>1 DEF SourceIsSane
  <2>2. CASE ~CheckSource
    <3>1. phase \notin {"check", "error"}
      BY <1>2, <2>2 DEF Next, NextOption, IgnoreOrDelete, ExpandOrShrink, Resize,
         EndOptions, AddUp, CalculateSurplus, FinalSurplus, PartInit, PartInitFails,
         CopyBootLoader, BootLoaderIsShort, SkipDeleted, PlacePartition, EndLayout, AddPartition,
         EndAdding, CopyPartition, CopyIsRefused, EndCopying, CallFails
    <3> QED
      BY <1>1, <1>2, <3>1 DEF MarkInv
  <2> QED
    BY <2>1, <2>2
<1>3. ASSUME NEW q \in P', op'[q].kind = "resize", ~op'[q].force
      PROVE  op'[q].size >= source'[q].size \/ Shrinkable(q, op[q].size)'
  <2>1. Shrinkable(q, op[q].size)' = Shrinkable(q, op'[q].size)
    BY <1>1 DEF Shrinkable
  <2>2. CASE op'[q] = op[q]
    BY <1>1, <1>3, <2>1, <2>2 DEF MarkInv
  <2>3. CASE op'[q] # op[q]
    <3>1. CASE \E p \in P, kind \in {"ignore", "delete"} :
                 op' = [op EXCEPT ![p] = Plain(kind)]
      <4>1. PICK p \in P, kind \in {"ignore", "delete"} :
              op' = [op EXCEPT ![p] = Plain(kind)]
        BY <3>1
      <4>2. op'[q] = Plain(kind)
        BY <1>1, <2>3, <4>1 DEF TypeOK
      <4> QED
        BY <1>3, <4>2 DEF Plain
    <3>2. CASE \E p \in P, newsize \in Int, force \in BOOLEAN :
                 CanMark(p, newsize, force) /\ op' = Marked(p, newsize, force)
      <4>1. PICK p \in P, newsize \in Int, force \in BOOLEAN :
              CanMark(p, newsize, force) /\ op' = Marked(p, newsize, force)
        BY <3>2
      <4>2. q = p /\ op'[q] = [kind |-> "resize", size |-> newsize, force |-> force]
        BY <1>1, <2>3, <4>1, MarkedAt
      <4>3. source[p].size \in Int
        BY SourceType DEF TypeOK, Partition
      <4>4. newsize >= source[p].size \/ Shrinkable(p, newsize)
        BY <1>3, <4>1, <4>2, <4>3 DEF CanMark
      <4> QED
        BY <1>1, <2>1, <4>2, <4>4
    <3> QED
      BY <2>3, <3>1, <3>2, OperationChange
  <2> QED
    BY <2>2, <2>3
<1> QED
  BY <1>2, <1>3 DEF MarkInv

(* The sums are not negative.                                              *)
LEMMA SumsPositiveStep ==
  ASSUME TypeOK, SumsInv, SumsPositive, Next PROVE SumsPositive'
<1> USE DEF input, options, plan, layout
<1>1. ASSUME Len(sums') = 1, sums'[1] = 0 PROVE SumsPositive'
  BY <1>1 DEF SumsPositive
<1>2. ASSUME NEW p \in P,
             IgnoreOrDelete(p) \/ \E newsize \in NewSizes : Resize(p, newsize)
      PROVE  SumsPositive'
  <2>1. Len(sums) = 1 /\ sums' = sums /\ sums[1] = 0
    BY <1>2 DEF IgnoreOrDelete, Resize, SumsInv
  <2> QED
    BY <1>1, <2>1
<1>3. ASSUME NEW p \in P, ExpandOrShrink(p) PROVE SumsPositive'
  <2>1. CASE sums' = <<0>>
    <3>1. Len(sums') = 1 /\ sums'[1] = 0
      BY <2>1
    <3> QED
      BY <1>1, <3>1
  <2>2. CASE UNCHANGED <<op, sums>>
    <3>1. NoneNegative' = NoneNegative
      BY <1>3, <2>2 DEF ExpandOrShrink, NoneNegative, NewSize, P
    <3> QED
      BY <2>2, <3>1 DEF SumsPositive
  <2> QED
    BY <1>3, <2>1, <2>2 DEF ExpandOrShrink
<1>4. CASE AddUp
  <2>1. NoneNegative' = NoneNegative
    BY <1>4 DEF AddUp, NoneNegative, NewSize, P
  <2> SUFFICES ASSUME NoneNegative, NEW i \in 1..Len(sums') PROVE sums'[i] >= 0
    BY <2>1 DEF SumsPositive
  <2>2. PICK n \in Nat \ {0} : n = Len(sums) /\ n \in P
    BY <1>4, SourceType DEF AddUp, TypeOK
  <2>3. PICK size \in Int : size = NewSize(n) /\ size >= 0
    BY <2>2, NewSizeType DEF NoneNegative
  <2>4. sums[n] \in Int /\ sums[n] >= 0
    BY <2>2, ElementOfSeq DEF SumsPositive, TypeOK
  <2>5. PICK total \in Int : total = sums[n] + size /\ total >= 0
    BY <2>3, <2>4
  <2>6. sums' = Append(sums, total) /\ sums \in Seq(Int)
    BY <1>4, <2>2, <2>3, <2>5 DEF AddUp, TypeOK
  <2>7. /\ Len(sums') = n + 1 /\ sums'[n + 1] = total
        /\ \A j \in 1..n : sums'[j] = sums[j]
    BY <2>2, <2>5, <2>6, AppendProperties
  <2>8. CASE i = n + 1
    BY <2>5, <2>7, <2>8
  <2>9. CASE i \in 1..n
    BY <2>2, <2>7, <2>9 DEF SumsPositive
  <2> QED
    BY <2>2, <2>7, <2>8, <2>9
<1>5. CASE \/ CheckSource \/ NextOption \/ EndOptions \/ CalculateSurplus \/ FinalSurplus
           \/ PartInit \/ PartInitFails \/ CopyBootLoader \/ BootLoaderIsShort
           \/ SkipDeleted \/ PlacePartition \/ EndLayout
           \/ AddPartition \/ EndAdding \/ CopyPartition \/ CopyIsRefused \/ EndCopying \/ CallFails
  <2>1. UNCHANGED <<source, op, sums>>
    BY <1>5 DEF CheckSource, NextOption, EndOptions, CalculateSurplus, FinalSurplus,
       PartInit, PartInitFails, CopyBootLoader, BootLoaderIsShort, SkipDeleted, PlacePartition, EndLayout,
       AddPartition, EndAdding, CopyPartition, CopyIsRefused, EndCopying, CallFails
  <2>2. NoneNegative' = NoneNegative
    BY <2>1 DEF NoneNegative, NewSize, P
  <2> QED
    BY <2>1, <2>2 DEF SumsPositive
<1> QED
  BY <1>2, <1>3, <1>4, <1>5 DEF Next

-----------------------------------------------------------------------------
(* What is copied where.                                                   *)

(* The steps before the partitions are laid out, and what they keep.       *)
LEMMA NoTargetYet ==
  ASSUME TypeOK, LoopInv,
         \/ CheckSource \/ NextOption
         \/ \E p \in P : IgnoreOrDelete(p) \/ ExpandOrShrink(p)
         \/ \E p \in P, newsize \in NewSizes : Resize(p, newsize)
         \/ EndOptions \/ AddUp \/ CalculateSurplus \/ FinalSurplus
         \/ PartInit \/ PartInitFails \/ CopyBootLoader \/ BootLoaderIsShort
  PROVE  /\ target' = << >> /\ phase' \notin {"add", "copy", "done"}
         /\ phase' = "layout" => k' = 1
         /\ phase \in {"check", "ignore", "delete", "resize", "force", "measure",
                       "expand", "shrink", "final", "init", "boot"}
<1> USE DEF input, options, plan, layout
<1>1. /\ target' = target /\ k' = k
      /\ phase \in {"check", "ignore", "delete", "resize", "force", "measure",
                    "expand", "shrink", "final", "init", "boot"}
  BY DEF CheckSource, NextOption, IgnoreOrDelete, ExpandOrShrink, Resize,
     EndOptions, AddUp, CalculateSurplus, FinalSurplus, PartInit, PartInitFails,
     CopyBootLoader, BootLoaderIsShort
<1>2. target = << >> /\ k = 1
  BY <1>1 DEF LoopInv
<1>3. phase' \notin {"add", "copy", "done"}
  BY <1>1 DEF CheckSource, NextOption, IgnoreOrDelete, ExpandOrShrink, Resize,
     EndOptions, AddUp, CalculateSurplus, FinalSurplus, PartInit, PartInitFails,
     CopyBootLoader, BootLoaderIsShort, TypeOK
<1> QED
  BY <1>1, <1>2, <1>3

(* The steps after that keep the plan.                                     *)
LEMMA NoPlanAnyMore ==
  ASSUME \/ SkipDeleted \/ PlacePartition \/ EndLayout
         \/ AddPartition \/ EndAdding \/ CopyPartition \/ CopyIsRefused \/ EndCopying \/ CallFails
  PROVE  /\ source' = source /\ outsize' = outsize /\ op' = op /\ P' = P
         /\ Sectors' = Sectors /\ NoneNegative' = NoneNegative
         /\ SizesArePositive' = SizesArePositive
         /\ \A p \in P : NewSize(p)' = NewSize(p) /\ CopySize(p)' = CopySize(p)
<1> USE DEF input, options, plan, layout
<1>1. source' = source /\ outsize' = outsize /\ op' = op
  BY DEF SkipDeleted, PlacePartition, EndLayout, AddPartition, EndAdding,
     CopyPartition, CopyIsRefused, EndCopying, CallFails
<1> QED
  BY <1>1 DEF P, Sectors, SizesArePositive, NoneNegative, NewSize, CopySize

LEMMA CopySizeType ==
  ASSUME TypeOK, NEW p \in P
  PROVE  /\ CopySize(p) \in Int /\ CopySize(p) <= NewSize(p)
         /\ CopySize(p) <= source[p].size
  BY NewSizeType, PartitionType DEF CopySize

LEMMA FilledStep ==
  ASSUME TypeOK, LoopInv, FilledInv, Next PROVE FilledInv'
<1> USE DEF input, options, plan, layout
<1>1. CASE target' = << >>
  BY <1>1 DEF FilledInv
<1>2. CASE SkipDeleted \/ AddPartition \/ EndAdding \/ CopyPartition \/ CopyIsRefused \/ EndCopying
             \/ CallFails
  <2>1. target' = target
    BY <1>2 DEF SkipDeleted, AddPartition, EndAdding, CopyPartition, CopyIsRefused, EndCopying, CallFails
  <2>2. source' = source /\ op' = op
    BY <1>2, NoPlanAnyMore
  <2> QED
    BY <2>1, <2>2 DEF FilledInv, CopySize, NewSize
<1>3. ASSUME NEW t, target' = Append(target, t), source' = source, op' = op,
             t.source # 0 => CopySize(t.source) <= SectSize * (t.last - t.first + 1)
      PROVE  FilledInv'
  <2>1. PICK n \in Nat : n = Len(target)
    BY LenProperties DEF TypeOK
  <2>2. /\ Len(target') = n + 1 /\ target'[n + 1] = t
        /\ \A j \in 1..n : target'[j] = target[j]
    BY <1>3, <2>1 DEF TypeOK
  <2> SUFFICES ASSUME NEW j \in 1..(n + 1), target'[j].source # 0
               PROVE  CopySize(target[j].source)'
                        <= SectSize * (target'[j].last - target'[j].first + 1)
    BY <2>2 DEF FilledInv
  <2>3. CopySize(target[j].source)' = CopySize(target'[j].source)
    BY <1>3 DEF CopySize, NewSize
  <2>4. CASE j = n + 1
    BY <1>3, <2>2, <2>3, <2>4
  <2>5. CASE j \in 1..n
    BY <2>1, <2>2, <2>3, <2>5 DEF FilledInv
  <2> QED
    BY <2>4, <2>5
<1>4. CASE PlacePartition
  <2>1. k \in P /\ k <= Len(source)
    BY <1>4, SourceType DEF PlacePartition, TypeOK
  <2>2. PICK d \in Int : d = SizeInSectors(k) /\ NewSize(k) <= SectSize * d
    BY <2>1, NewSizeType, DivRoundUpBounds DEF SizeInSectors
  <2>3. PICK s \in Int : s = start
    BY DEF TypeOK
  <2>4. PICK next \in Int : next = NextStart(k) /\ s + d <= next
    BY <2>1, <2>2, <2>3, NewSizeType, NextStartBound DEF NextStart, SizeInSectors
  <2>5. PICK last \in Int : /\ s + d - 1 <= last
                            /\ target' = Append(target, [source |-> k, first |-> s,
                                                         last |-> last])
    <3>1. PICK end \in Int : /\ s + d - 1 <= end
                             /\ target' = Append(target, [source |-> k, first |-> s,
                                                          last |-> PartEnd(end)])
      <4>1. CASE op[k].kind = "resize"
        <5>1. target' = Append(target, [source |-> k, first |-> s,
                                        last |-> PartEnd(next - 1)])
          BY <1>4, <2>3, <2>4, <4>1 DEF PlacePartition
        <5>2. next - 1 \in Int /\ s + d - 1 <= next - 1
          BY <2>4
        <5> QED
          BY <5>1, <5>2
      <4>2. CASE op[k].kind # "resize"
        <5>1. target' = Append(target, [source |-> k, first |-> s,
                                        last |-> PartEnd(s + d - 1)])
          BY <1>4, <2>2, <2>3, <4>2 DEF PlacePartition
        <5> QED
          BY <5>1
      <4> QED
        BY <4>1, <4>2
    <3>2. PartEnd(end) \in Int /\ end <= PartEnd(end)
      <4>1. Sectors \in Int /\ 0 <= Sectors
        <5>1. outsize \in Int /\ SectSize * 0 <= outsize
          BY DEF TypeOK
        <5> QED
          BY <5>1, DivAtLeast DEF Sectors
      <4> QED
        BY <4>1 DEF PartEnd
    <3> QED
      BY <3>1, <3>2
  <2>6. SectSize * d <= SectSize * (last - s + 1)
    <3>1. d <= last - s + 1 /\ last - s + 1 \in Int
      BY <2>5
    <3> QED
      BY <3>1, Scale
  <2>7. CopySize(k) <= SectSize * (last - s + 1)
    <3>1. /\ CopySize(k) \in Int /\ NewSize(k) \in Int /\ SectSize * d \in Int
          /\ SectSize * (last - s + 1) \in Int
      BY <2>1, NewSizeType, CopySizeType
    <3> QED
      BY <2>1, <2>2, <2>6, <3>1, CopySizeType
  <2> QED
    BY <1>3, <1>4, <2>5, <2>7, NoPlanAnyMore
<1>5. CASE EndLayout
  <2>1. CASE target' = target
    BY <1>5, <2>1, NoPlanAnyMore DEF FilledInv, CopySize, NewSize
  <2>2. CASE target' = Append(target, [source |-> 0, first |-> start,
                                       last |-> Sectors - GptSects])
    BY <1>3, <1>5, <2>2, NoPlanAnyMore
  <2> QED
    BY <1>5, <2>1, <2>2, NegativeEnd DEF EndLayout
<1> QED
  BY <1>1, <1>2, <1>4, <1>5, NoTargetYet DEF Next

LEMMA EachPlacedStep ==
  ASSUME TypeOK, LoopInv, EachPlacedInv, Next PROVE EachPlacedInv'
<1> USE DEF input, options, plan, layout
<1>1. CASE \/ CheckSource \/ NextOption
           \/ \E p \in P : IgnoreOrDelete(p) \/ ExpandOrShrink(p)
           \/ \E p \in P, newsize \in NewSizes : Resize(p, newsize)
           \/ EndOptions \/ AddUp \/ CalculateSurplus \/ FinalSurplus
           \/ PartInit \/ PartInitFails \/ CopyBootLoader \/ BootLoaderIsShort
  <2>1. phase' \notin {"add", "copy", "done"} /\ (phase' = "layout" => k' = 1)
    BY <1>1, NoTargetYet
  <2>2. \A p \in P' : p >= 1
    <3>1. source' = source
      BY OperationChange
    <3> QED
      BY <3>1, SourceType DEF TypeOK, P
  <2>3. \A p \in P' : ~(p < 1)
    <3>1. \A p \in P' : p \in Int
      BY OperationChange, SourceType DEF TypeOK
    <3> QED
      BY <2>2, <3>1
  <2> QED
    BY <2>1, <2>3 DEF EachPlacedInv
<1> SUFFICES ASSUME ~(\/ CheckSource \/ NextOption
                      \/ \E p \in P : IgnoreOrDelete(p) \/ ExpandOrShrink(p)
                      \/ \E p \in P, newsize \in NewSizes : Resize(p, newsize)
                      \/ EndOptions \/ AddUp \/ CalculateSurplus \/ FinalSurplus
                      \/ PartInit \/ PartInitFails \/ CopyBootLoader \/ BootLoaderIsShort),
                    NEW q \in P', phase' \in {"layout", "add", "copy", "done"},
                    phase' = "layout" => q < k', op'[q].kind # "delete"
             PROVE  \E j \in 1..Len(target') : target'[j].source = q
  BY <1>1 DEF EachPlacedInv
<1>2. PICK n \in Nat : n = Len(target)
  BY LenProperties DEF TypeOK
<1>3. \/ SkipDeleted \/ PlacePartition \/ EndLayout
      \/ AddPartition \/ EndAdding \/ CopyPartition \/ CopyIsRefused \/ EndCopying \/ CallFails
  BY DEF Next
<1>4. op' = op /\ q \in P /\ q \in Int /\ k \in Int
  BY <1>3, NoPlanAnyMore, SourceType DEF TypeOK
<1>5. phase \in {"layout", "add", "copy"}
  BY <1>3 DEF SkipDeleted, PlacePartition, EndLayout, AddPartition, EndAdding,
     CopyPartition, CopyIsRefused, EndCopying, CallFails
<1>6. target' = target \/ \E t : target' = Append(target, t)
  BY <1>3 DEF SkipDeleted, PlacePartition, EndLayout, AddPartition, EndAdding,
     CopyPartition, CopyIsRefused, EndCopying, CallFails
<1>7. Len(target') >= n /\ \A j \in 1..n : target'[j] = target[j]
  <2>1. ASSUME NEW t, target' = Append(target, t)
        PROVE  Len(target') = n + 1 /\ \A j \in 1..n : target'[j] = target[j]
    BY <1>2, <2>1 DEF TypeOK
  <2> QED
    BY <1>2, <1>6, <2>1
<1>8. CASE phase = "layout" => q < k
  <2>1. PICK j \in 1..n : target[j].source = q
    BY <1>2, <1>4, <1>5, <1>8 DEF EachPlacedInv
  <2>2. Len(target') \in Nat
    BY <1>2, <1>6 DEF TypeOK
  <2> QED
    BY <1>7, <2>1, <2>2
<1>9. CASE phase = "layout" /\ ~(q < k)
  <2>1. CASE SkipDeleted
    <3>1. k' = k + 1 /\ op[k].kind = "delete" /\ phase' = "layout"
      BY <1>9, <2>1 DEF SkipDeleted
    <3> QED
      BY <1>4, <1>9, <3>1
  <2>2. CASE PlacePartition
    <3>1. k' = k + 1 /\ phase' = "layout"
      BY <1>9, <2>2 DEF PlacePartition
    <3>2. q = k
      BY <1>4, <1>9, <3>1
    <3>3. Len(target') = n + 1 /\ target'[n + 1].source = k
      BY <1>2, <2>2 DEF PlacePartition, TypeOK
    <3> QED
      BY <1>2, <3>2, <3>3
  <2>3. CASE EndLayout
    <3>1. k > Len(source)
      BY <2>3 DEF EndLayout
    <3>2. q <= Len(source) /\ Len(source) \in Nat
      BY <1>4, SourceType DEF TypeOK
    <3> QED
      BY <1>4, <1>9, <3>1, <3>2
  <2>4. CASE AddPartition \/ EndAdding \/ CopyPartition \/ CopyIsRefused \/ EndCopying \/ CallFails
    BY <1>9, <2>4 DEF AddPartition, EndAdding, CopyPartition, CopyIsRefused, EndCopying, CallFails
  <2> QED
    BY <1>3, <2>1, <2>2, <2>3, <2>4
<1> QED
  BY <1>8, <1>9

-----------------------------------------------------------------------------
(* The bytes of the target disk.                                           *)

(* The first partition starts after the partition table.                   *)
LEMMA FirstStartFits ==
  ASSUME Geometry, TypeOK
  PROVE  FirstStart \in Int /\ TableBytes <= SectSize * FirstStart
<1>1. TableBytes <= SectSize * (source[1].start \div SectSize)
  BY DEF Geometry, TypeOK
<1>2. TableBytes <= SectSize * Alignment
  BY DEF Geometry
<1> QED
  BY <1>1, <1>2, OverheadType DEF FirstStart

LEMMA SectorsFit ==
  ASSUME TypeOK
  PROVE  /\ Sectors \in Int /\ outsize \in Nat
         /\ SectSize * Sectors <= outsize
<1>1. outsize \in Nat
  BY DEF TypeOK
<1>2. PICK q \in Int : q = outsize \div SectSize /\ SectSize * q <= outsize
  BY <1>1
<1> QED
  BY <1>1, <1>2 DEF Sectors

(* What the boot loader needs is part of what is required, as long as the  *)
(* partitions do not have negative sizes.                                  *)
LEMMA BootLoaderRoom ==
  ASSUME NEW S \in Nat \ {0}, NEW D \in Nat \ {0}, D <= S, NEW A \in Nat \ {0},
         NEW n \in Nat \ {0}, NEW m \in Int, NEW g \in Nat, NEW b \in Nat, NEW t \in Nat,
         NEW l \in Nat, l \div D <= m, NEW sum \in Nat, NEW size \in Int,
         size - (sum + S * (m + A * (n + 1) + g)) >= 0,
         t + D <= S * (2 * A + g - b)
  PROVE  t + l <= S * ((size \div S) - b)
<1>1. PICK q \in Int : q = m + A * (n + 1) + g
  OBVIOUS
<1>2. S * q <= size
  <2>1. S * q \in Int
    OBVIOUS
  <2> QED
    BY <1>1, <2>1
<1>3. PICK sectors \in Int : sectors = size \div S /\ q <= sectors
  BY <1>2, DivAtLeast
<1>4. A * (n + 1) >= 2 * A
  <2>1. A * 2 <= A * (n + 1)
    BY Scale
  <2> QED
    BY <2>1
<1>5. m + (2 * A + g - b) <= sectors - b
  BY <1>1, <1>3, <1>4
<1>6. S * (m + (2 * A + g - b)) <= S * (sectors - b)
  BY <1>3, <1>5, Scale
<1>7. PICK r \in Int : r = 2 * A + g - b
  OBVIOUS
<1>8. S * (m + r) = S * m + S * r
  BY Z3
<1>9. PICK e \in Nat : e = l \div D /\ l < D * e + D
  OBVIOUS
<1>10. S * e <= S * m
  BY <1>9, Scale
<1>11. D * e <= S * e
  <2>1. e * D <= e * S
    BY Scale
  <2> QED
    BY <2>1, Z3
<1>12. /\ S * m \in Int /\ S * r \in Int /\ S * e \in Int /\ D * e \in Int
       /\ S * (sectors - b) \in Int
  BY <1>3
<1>13. t + D <= S * r /\ S * m + S * r <= S * (sectors - b)
  BY <1>6, <1>7, <1>8
<1> QED
  BY <1>3, <1>9, <1>10, <1>11, <1>12, <1>13

LEMMA BootLoaderFits ==
  ASSUME Geometry, TypeOK, SurplusInv, SumsPositive, NoneNegative, phase = "boot"
  PROVE  LoaderStart + MaxBootLoader <= SectSize * (Sectors - BackupSects)
<1>1. PICK n \in Nat \ {0} : n = Len(source)
  BY SourceType DEF TypeOK
<1>2. Len(sums) = n + 1 /\ surplus >= 0 /\ surplus = outsize - (sums[n + 1] + Overhead)
  BY <1>1 DEF SurplusInv, Writing
<1>3. PICK sum \in Nat : sum = sums[n + 1]
  <2>1. n + 1 \in 1..Len(sums)
    BY <1>1, <1>2
  <2>2. sums[n + 1] \in Int /\ sums[n + 1] >= 0
    BY <2>1, ElementOfSeq DEF SumsPositive, TypeOK
  <2> QED
    BY <2>2
<1>4. PICK m \in Int :
        /\ m = Larger(GptSects, Larger(MaxBootLoader \div Sector512,
                                       source[1].start \div SectSize))
        /\ MaxBootLoader \div Sector512 <= m
  <2>1. source[1] \in Partition
    BY SourceType DEF TypeOK
  <2>2. source[1].start \div SectSize \in Int /\ MaxBootLoader \div Sector512 \in Int
    BY <2>1 DEF Partition
  <2> QED
    BY <2>2 DEF Larger
<1>5. outsize - (sum + SectSize * (m + Alignment * (n + 1) + GptSects)) >= 0
  BY <1>1, <1>2, <1>3, <1>4 DEF Overhead
<1>6. outsize \in Int
  BY DEF TypeOK
<1>7. /\ Sector512 <= SectSize
      /\ LoaderStart + Sector512 <= SectSize * (2 * Alignment + GptSects - BackupSects)
  BY DEF Geometry
<1>8. LoaderStart + MaxBootLoader <= SectSize * ((outsize \div SectSize) - BackupSects)
  BY <1>4, <1>5, <1>6, <1>7, BootLoaderRoom
<1> QED
  BY <1>8 DEF Sectors

(* The bytes that the copy of a partition writes: inside of its target     *)
(* partition, after the partition table and before the backup of it.       *)
LEMMA CopyArea ==
  ASSUME Geometry, TypeOK, FilledInv, AcceptedInv, phase = "copy",
         NEW j \in 1..Len(target), IsCopied(target[j])
  PROVE  /\ target[j].source \in P /\ target[j].first \in Int /\ target[j].last \in Int
         /\ CopySize(target[j].source) \in Int
         /\ DestOffset(target[j]) = SectSize * target[j].first
         /\ TableBytes <= SectSize * target[j].first
         /\ SectSize * target[j].first + CopySize(target[j].source)
              <= SectSize * (target[j].last + 1)
         /\ SectSize * (target[j].last + 1) <= SectSize * (Sectors - BackupSects)
<1>1. target[j] \in [source : P \cup {0}, first : Int, last : Int]
  BY ElementOfSeq, LenProperties DEF TypeOK
<1>2. PICK f \in Int, l \in Int, p \in P :
        target[j].first = f /\ target[j].last = l /\ target[j].source = p
  BY <1>1 DEF IsCopied
<1>3. SectSize * f >= TableBytes /\ l < Sectors - BackupSects
  BY <1>2 DEF AcceptedInv, Acceptable
<1>4. TableBytes <= SectSize * f
  <2>1. SectSize * f \in Int
    OBVIOUS
  <2> QED
    BY <1>3, <2>1
<1>5. SectSize * (l + 1) <= SectSize * (Sectors - BackupSects)
  <2>1. l + 1 <= Sectors - BackupSects /\ Sectors - BackupSects \in Int
    BY <1>3, SectorsFit
  <2> QED
    BY <2>1, Scale
<1>6. DestOffset(target[j]) = SectSize * f
  <2>1. source[p].kind = "extended" => SectSize = Sector512
    <3>1. source \in Sources /\ p \in DOMAIN source
      BY DEF TypeOK, P
    <3> QED
      BY <3>1 DEF Geometry
  <2>2. f * SectSize = SectSize * f
    BY Z3
  <2> QED
    BY <1>2, <2>1, <2>2 DEF DestOffset
<1>7. PICK size \in Int : size = CopySize(p)
  BY CopySizeType
<1>8. SectSize * f + size <= SectSize * (l + 1)
  <2>1. p # 0
    BY SourceType DEF TypeOK
  <2>2. size <= SectSize * (l - f + 1)
    BY <1>2, <1>7, <2>1 DEF FilledInv
  <2>3. SectSize * (l + 1) = SectSize * f + SectSize * (l - f + 1)
    BY Z3
  <2>4. SectSize * f \in Int /\ SectSize * (l - f + 1) \in Int
    OBVIOUS
  <2> QED
    BY <2>2, <2>3, <2>4
<1> QED
  BY <1>2, <1>4, <1>5, <1>6, <1>7, <1>8

LEMMA CopyingAt ==
  ASSUME TypeOK, CopyPartition PROVE phase = "copy" /\ k \in 1..Len(target)
<1>1. phase = "copy" /\ k <= Len(target)
  BY DEF CopyPartition
<1>2. k \in Int /\ k >= 1 /\ Len(target) \in Nat
  <2>1. k \in Int /\ k >= 1
    BY SourceType DEF TypeOK
  <2>2. Len(target) \in Nat
    BY LenProperties DEF TypeOK
  <2> QED
    BY <2>1, <2>2
<1> QED
  BY <1>1, <1>2

(* A copy, with its offsets written out.                                   *)
LEMMA CopyWrites ==
  ASSUME Geometry, TypeOK, FilledInv, AcceptedInv, CopyPartition,
         IsCopied(target[k])
  PROVE  LET d == SectSize * target[k].first
             size == CopySize(target[k].source)
         IN disk' = [b \in DOMAIN disk |-> IF b \in d..(d + size - 1)
                                           THEN ByteOf(target[k].source, b - d)
                                           ELSE disk[b]]
<1>1. phase = "copy" /\ k \in 1..Len(target)
  BY CopyingAt
<1>2. DestOffset(target[k]) = SectSize * target[k].first
  BY <1>1, CopyArea
<1> QED
  BY <1>2 DEF CopyPartition, Written

(* Neither the boot loader nor a partition is written over the table.      *)
LEMMA TableStep ==
  ASSUME Geometry, TypeOK, SurplusInv, LoopInv, SumsPositive, FilledInv, AcceptedInv,
         TableIntact, Next
  PROVE  TableIntact'
<1> USE DEF input, options, plan, layout
<1> SUFFICES ASSUME phase' \in {"boot", "layout", "add", "copy", "done"}, NoneNegative'
             PROVE  \A b \in TableArea' : disk'[b] = Table
  BY DEF TableIntact
<1>1. CASE PartInit
  <2>1. disk' = [b \in DOMAIN disk |-> IF b \in TableArea THEN Table ELSE disk[b]]
    BY <1>1 DEF PartInit
  <2>2. TableArea' = TableArea /\ TableArea \subseteq DOMAIN disk
    BY <1>1, <2>1 DEF PartInit, TableArea, Sectors
  <2> QED
    BY <2>1, <2>2
<1>2. CASE CopyBootLoader
  <2>1. NoneNegative /\ phase = "boot" /\ Sectors' = Sectors
    BY <1>2, PlanKept DEF CopyBootLoader
  <2>2. \A b \in TableArea : disk[b] = Table
    BY <2>1 DEF TableIntact
  <2>3. LoaderStart + MaxBootLoader <= SectSize * (Sectors - BackupSects)
    BY <2>1, BootLoaderFits
  <2>4. disk \in [0..(outsize - 1) -> Byte] /\ SectSize * (Sectors - BackupSects) \in Int
    BY SectorsFit DEF TypeOK
  <2> DEFINE area == (0..(BootSector - 1)) \cup LoaderStart..(LoaderStart + MaxBootLoader - 1)
  <2>5. ASSUME NEW b \in TableArea PROVE b \notin area
    <3>1. b \in DOMAIN disk /\ b \in Int
      BY <2>4 DEF TableArea
    <3>2. CASE b \in BootSector..(TableBytes - 1)
      <4>1. TableBytes <= LoaderStart
        BY DEF Geometry
      <4> QED
        BY <3>1, <3>2, <4>1
    <3>3. CASE b >= SectSize * (Sectors - BackupSects)
      <4>1. PICK end \in Int : end = SectSize * (Sectors - BackupSects)
        BY <2>4
      <4>2. b >= end /\ LoaderStart + MaxBootLoader <= end
        BY <2>3, <3>3, <4>1
      <4>3. BootSector <= LoaderStart
        BY DEF Geometry
      <4> QED
        BY <3>1, <4>2, <4>3
    <3> QED
      BY <3>2, <3>3 DEF TableArea
  <2>6. \/ disk' = disk
        \/ disk' = [b \in DOMAIN disk |-> IF b \in area THEN BootLoader ELSE disk[b]]
    BY <1>2 DEF CopyBootLoader, Written
  <2>7. TableArea' = TableArea /\ TableArea \subseteq DOMAIN disk
    BY <2>1, <2>6 DEF TableArea
  <2> QED
    BY <2>2, <2>5, <2>6, <2>7
<1>3. CASE CopyPartition
  <2>1. NoneNegative /\ phase = "copy" /\ Sectors' = Sectors /\ k \in 1..Len(target)
    <3>1. NoneNegative /\ Sectors' = Sectors
      BY <1>3, NoPlanAnyMore
    <3> QED
      BY <1>3, <3>1, CopyingAt
  <2>2. \A b \in TableArea : disk[b] = Table
    BY <2>1 DEF TableIntact
  <2>3. CASE ~IsCopied(target[k])
    <3>1. disk' = disk
      BY <1>3, <2>3 DEF CopyPartition
    <3>2. TableArea' = TableArea
      BY <2>1, <3>1 DEF TableArea
    <3> QED
      BY <2>2, <3>1, <3>2
  <2>4. CASE IsCopied(target[k])
    <3>1. PICK d \in Int, size \in Int, end \in Int :
            /\ d = SectSize * target[k].first /\ size = CopySize(target[k].source)
            /\ TableBytes <= d /\ d + size <= end
            /\ end = SectSize * (Sectors - BackupSects)
      <4>1. PICK f \in Int, l \in Int, z \in Int :
              /\ f = target[k].first /\ l = target[k].last + 1
              /\ z = Sectors - BackupSects
        <5>1. target[k].first \in Int /\ target[k].last \in Int
          BY <2>1, <2>4, CopyArea
        <5>2. Sectors - BackupSects \in Int
          BY SectorsFit
        <5>3. target[k].last + 1 \in Int
          BY <5>1
        <5> QED
          BY <5>1, <5>2, <5>3
      <4>2. PICK d \in Int, last \in Int, end \in Int :
              d = SectSize * f /\ last = SectSize * l /\ end = SectSize * z
        OBVIOUS
      <4>3. PICK size \in Int : size = CopySize(target[k].source)
        BY <2>1, <2>4, CopyArea
      <4>4. TableBytes <= d /\ d + size <= last /\ last <= end
        BY <2>1, <2>4, <4>1, <4>2, <4>3, CopyArea
      <4> QED
        BY <4>1, <4>2, <4>3, <4>4
    <3>2. disk' = [b \in DOMAIN disk |-> IF b \in d..(d + size - 1)
                                         THEN ByteOf(target[k].source, b - d)
                                         ELSE disk[b]]
      BY <1>3, <2>1, <2>4, <3>1, CopyWrites
    <3>3. TableArea' = TableArea /\ TableArea \subseteq DOMAIN disk
      BY <2>1, <3>2 DEF TableArea
    <3>4. ASSUME NEW b \in TableArea PROVE b \notin d..(d + size - 1)
      <4>1. disk \in [0..(outsize - 1) -> Byte] /\ b \in DOMAIN disk
        BY DEF TypeOK, TableArea
      <4>2. b \in Int
        BY <4>1
      <4>3. b <= TableBytes - 1 \/ b >= end
        BY <3>1 DEF TableArea
      <4> QED
        BY <3>1, <4>2, <4>3
    <3> QED
      BY <2>2, <3>2, <3>3, <3>4
  <2> QED
    BY <2>3, <2>4
<1>4. CASE SkipDeleted \/ PlacePartition \/ EndLayout \/ AddPartition \/ EndAdding
             \/ CopyIsRefused \/ EndCopying \/ CallFails
  <2>1. disk' = disk /\ phase \in {"layout", "add", "copy"}
    BY <1>4 DEF SkipDeleted, PlacePartition, EndLayout, AddPartition, EndAdding,
       CopyIsRefused, EndCopying, CallFails
  <2>2. NoneNegative /\ TableArea' = TableArea
    BY <1>4, <2>1, NoPlanAnyMore DEF TableArea
  <2> QED
    BY <2>1, <2>2 DEF TableIntact
<1>5. CASE \/ CheckSource \/ NextOption
           \/ \E p \in P : IgnoreOrDelete(p) \/ ExpandOrShrink(p)
           \/ \E p \in P, newsize \in NewSizes : Resize(p, newsize)
           \/ EndOptions \/ AddUp \/ CalculateSurplus \/ FinalSurplus
           \/ PartInitFails \/ BootLoaderIsShort
  <2>1. phase' \notin {"boot", "layout", "add", "copy", "done"}
    BY <1>5 DEF CheckSource, NextOption, IgnoreOrDelete, ExpandOrShrink, Resize,
       EndOptions, AddUp, CalculateSurplus, FinalSurplus, PartInitFails,
       BootLoaderIsShort, TypeOK
  <2> QED
    BY <2>1
<1> QED
  BY <1>1, <1>2, <1>3, <1>4, <1>5 DEF Next

(* What is copied is there.                                                *)
LEMMA IsWritten ==
  ASSUME Geometry, TypeOK, FilledInv, AcceptedInv, CopyPartition,
         IsCopied(target[k]), NEW offset \in 0..(CopySize(target[k].source) - 1)
  PROVE  disk'[SectSize * target[k].first + offset] = ByteOf(target[k].source, offset)
<1>1. phase = "copy" /\ k \in 1..Len(target)
  BY CopyingAt
<1>2. PICK size \in Int : size = CopySize(target[k].source)
  BY <1>1, CopyArea
<1>3. PICK f \in Int, l \in Int : f = target[k].first /\ l = target[k].last
  BY <1>1, CopyArea
<1>4. PICK d \in Int, last \in Int, end \in Int, all \in Int :
        /\ d = SectSize * f /\ last = SectSize * (l + 1)
        /\ end = SectSize * (Sectors - BackupSects) /\ all = SectSize * Sectors
  BY SectorsFit
<1>5. TableBytes <= d /\ d + size <= last /\ last <= end
  BY <1>1, <1>2, <1>3, <1>4, CopyArea
<1>6. end <= all
  <2>1. Sectors - BackupSects <= Sectors /\ Sectors - BackupSects \in Int
    BY SectorsFit
  <2> QED
    BY <1>4, <2>1, SectorsFit, Scale
<1>7. all <= outsize /\ outsize \in Nat
  BY <1>4, SectorsFit
<1>8. offset \in Int /\ 0 <= offset /\ offset < size
  BY <1>2
<1>9. d + offset \in 0..(outsize - 1)
  BY <1>5, <1>6, <1>7, <1>8
<1>10. d + offset \in d..(d + size - 1) /\ (d + offset) - d = offset
  BY <1>8
<1>11. disk' = [b \in DOMAIN disk |-> IF b \in d..(d + size - 1)
                                     THEN ByteOf(target[k].source, b - d)
                                     ELSE disk[b]]
  BY <1>2, <1>3, <1>4, CopyWrites
<1>12. DOMAIN disk = 0..(outsize - 1)
  BY DEF TypeOK
<1> QED
  BY <1>3, <1>4, <1>9, <1>10, <1>11, <1>12

(* What was copied before is not written over.                             *)
LEMMA IsKept ==
  ASSUME Geometry, TypeOK, FilledInv, AcceptedInv, CopyPartition,
         IsCopied(target[k]), NEW j \in 1..Len(target), j < k, IsCopied(target[j]),
         NEW offset \in 0..(CopySize(target[j].source) - 1)
  PROVE  disk'[SectSize * target[j].first + offset]
           = disk[SectSize * target[j].first + offset]
<1>1. phase = "copy" /\ k \in 1..Len(target)
  BY CopyingAt
<1>2. PICK size \in Int, size_k \in Int :
        size = CopySize(target[j].source) /\ size_k = CopySize(target[k].source)
  BY <1>1, CopyArea
<1>3. PICK f \in Int, l \in Int, f_k \in Int :
        f = target[j].first /\ l = target[j].last /\ f_k = target[k].first
  BY <1>1, CopyArea
<1>4. PICK d \in Int, last \in Int, end \in Int, all \in Int, d_k \in Int :
        /\ d = SectSize * f /\ last = SectSize * (l + 1) /\ d_k = SectSize * f_k
        /\ end = SectSize * (Sectors - BackupSects) /\ all = SectSize * Sectors
  BY SectorsFit
<1>5. TableBytes <= d /\ d + size <= last /\ last <= end
  BY <1>1, <1>2, <1>3, <1>4, CopyArea
<1>6. end <= all
  <2>1. Sectors - BackupSects <= Sectors /\ Sectors - BackupSects \in Int
    BY SectorsFit
  <2> QED
    BY <1>4, <2>1, SectorsFit, Scale
<1>7. all <= outsize /\ outsize \in Nat
  BY <1>4, SectorsFit
<1>8. offset \in Int /\ 0 <= offset /\ offset < size
  BY <1>2
<1>9. d + offset \in 0..(outsize - 1)
  BY <1>5, <1>6, <1>7, <1>8
<1>10. last <= d_k \/ d_k + size_k <= d
  <2>1. PICK l_k \in Int : l_k = target[k].last
    BY <1>1, CopyArea
  <2>2. l < f_k \/ l_k < f
    <3>1. Acceptable(k)
      BY <1>1 DEF AcceptedInv
    <3>2. j \in 1..(k - 1)
      BY <1>1, LenProperties DEF TypeOK
    <3> QED
      BY <1>3, <2>1, <3>1, <3>2 DEF Acceptable
  <2>3. CASE l < f_k
    <3>1. l + 1 <= f_k /\ l + 1 \in Int
      BY <2>3
    <3> QED
      BY <1>4, <3>1, Scale
  <2>4. CASE l_k < f
    <3>1. l_k + 1 <= f /\ l_k + 1 \in Int
      BY <2>1, <2>4
    <3>2. PICK last_k \in Int : last_k = SectSize * (l_k + 1) /\ last_k <= d
      BY <1>4, <3>1, Scale
    <3>3. d_k + size_k <= last_k
      BY <1>1, <1>2, <1>3, <1>4, <2>1, <3>2, CopyArea
    <3> QED
      BY <1>4, <3>2, <3>3
  <2> QED
    BY <2>2, <2>3, <2>4
<1>11. d + offset \notin d_k..(d_k + size_k - 1)
  BY <1>5, <1>8, <1>10
<1>12. disk' = [b \in DOMAIN disk |-> IF b \in d_k..(d_k + size_k - 1)
                                     THEN ByteOf(target[k].source, b - d_k)
                                     ELSE disk[b]]
  BY <1>2, <1>3, <1>4, CopyWrites
<1>13. DOMAIN disk = 0..(outsize - 1)
  BY DEF TypeOK
<1> QED
  BY <1>3, <1>4, <1>9, <1>11, <1>12, <1>13

(* What part_add has accepted stays as it is.                              *)
LEMMA AcceptedStep ==
  ASSUME TypeOK, LoopInv, AcceptedInv, Next PROVE AcceptedInv'
<1> USE DEF input, options, plan, layout
<1>1. CASE AddPartition
  <2>1. CASE phase' # "add"
    BY <1>1, <2>1 DEF AddPartition, AcceptedInv
  <2>2. CASE phase' = "add"
    <3>1. /\ phase = "add" /\ Acceptable(added + 1) /\ added' = added + 1
          /\ target' = target /\ outsize' = outsize
      BY <1>1, <2>2 DEF AddPartition
    <3>2. \A j \in 1..added : Acceptable(j)
      BY <3>1 DEF AcceptedInv
    <3>3. added \in Nat
      BY LenProperties DEF TypeOK
    <3>4. \A j \in 1..(added + 1) : Acceptable(j)
      BY <3>1, <3>2, <3>3
    <3>5. \A j : Acceptable(j)' = Acceptable(j)
      BY <3>1 DEF Acceptable, Sectors
    <3> QED
      BY <2>2, <3>1, <3>4, <3>5 DEF AcceptedInv
  <2> QED
    BY <2>1, <2>2
<1>2. CASE EndAdding \/ CopyPartition \/ EndCopying
  <2>1. /\ phase \in {"add", "copy"} /\ added' = added /\ target' = target
        /\ outsize' = outsize /\ (phase = "add" => added = Len(target))
    BY <1>2 DEF EndAdding, CopyPartition, EndCopying
  <2>2. \A j : Acceptable(j)' = Acceptable(j)
    BY <2>1 DEF Acceptable, Sectors
  <2> QED
    BY <2>1, <2>2 DEF AcceptedInv
<1>3. CASE EndLayout
  <2>1. phase' = "add" /\ added' = 0
    BY <1>3 DEF EndLayout, LoopInv
  <2> QED
    BY <2>1 DEF AcceptedInv
<1>4. CASE SkipDeleted \/ PlacePartition \/ CopyIsRefused \/ CallFails
  <2>1. phase' \notin {"add", "copy", "done"}
    BY <1>4 DEF SkipDeleted, PlacePartition, CopyIsRefused, CallFails
  <2> QED
    BY <2>1 DEF AcceptedInv
<1>5. CASE \/ CheckSource \/ NextOption
           \/ \E p \in P : IgnoreOrDelete(p) \/ ExpandOrShrink(p)
           \/ \E p \in P, newsize \in NewSizes : Resize(p, newsize)
           \/ EndOptions \/ AddUp \/ CalculateSurplus \/ FinalSurplus
           \/ PartInit \/ PartInitFails \/ CopyBootLoader \/ BootLoaderIsShort
  BY <1>5, NoTargetYet DEF AcceptedInv
<1> QED
  BY <1>1, <1>2, <1>3, <1>4, <1>5 DEF Next

LEMMA CopiedStep ==
  ASSUME Geometry, TypeOK, LoopInv, FilledInv, AcceptedInv, CopiedInv, Next
  PROVE  CopiedInv'
<1> USE DEF input, options, plan, layout
<1> SUFFICES ASSUME phase' \in {"copy", "done"},
                    NEW j \in 1..Len(target'), phase' = "copy" => j < k',
                    IsCopied(target[j])'
             PROVE  Copied(target[j])'
  BY DEF CopiedInv
<1>1. CASE CopyPartition
  <2>1. /\ phase = "copy" /\ k \in 1..Len(target) /\ k \in Int /\ Len(target) \in Nat
        /\ k' = k + 1 /\ phase' = "copy" /\ target' = target
    <3>1. phase = "copy" /\ k \in 1..Len(target)
      BY <1>1, CopyingAt
    <3>2. k' = k + 1 /\ phase' = phase /\ target' = target
      BY <1>1 DEF CopyPartition
    <3>3. Len(target) \in Nat
      BY LenProperties DEF TypeOK
    <3> QED
      BY <3>1, <3>2, <3>3
  <2>2. op' = op /\ source' = source
    BY <1>1, NoPlanAnyMore
  <2>3. j \in 1..Len(target) /\ j \in Int /\ j <= k
    BY <2>1
  <2>4. IsCopied(target[j])
    BY <2>1, <2>2 DEF IsCopied
  <2>5. CopySize(target[j].source)' = CopySize(target[j].source)
    BY <2>1, <2>2 DEF CopySize, NewSize
  <2> SUFFICES ASSUME NEW offset \in 0..(CopySize(target[j].source) - 1)
               PROVE  disk'[SectSize * target[j].first + offset]
                        = ByteOf(target[j].source, offset)
    BY <2>1, <2>5 DEF Copied
  <2>6. CASE j = k
    BY <1>1, <2>2, <2>4, <2>6, IsWritten
  <2>7. CASE j < k
    <3>1. disk[SectSize * target[j].first + offset] = ByteOf(target[j].source, offset)
      BY <2>1, <2>2, <2>3, <2>4, <2>7 DEF CopiedInv, Copied
    <3>2. CASE IsCopied(target[k])
      BY <1>1, <2>2, <2>3, <2>4, <2>7, <3>1, <3>2, IsKept
    <3>3. CASE ~IsCopied(target[k])
      BY <1>1, <3>1, <3>3 DEF CopyPartition
    <3> QED
      BY <3>2, <3>3
  <2> QED
    BY <2>1, <2>3, <2>6, <2>7
<1>2. CASE EndAdding
  <2>1. phase' = "copy" /\ k' = k /\ phase = "add" /\ target' = target
    BY <1>2 DEF EndAdding
  <2>2. k = 1
    BY <2>1 DEF LoopInv
  <2>3. j \in Int /\ j >= 1
    BY <2>1, LenProperties DEF TypeOK
  <2> QED
    BY <2>1, <2>2, <2>3
<1>3. CASE EndCopying
  <2>1. /\ phase = "copy" /\ k > Len(target)
        /\ target' = target /\ disk' = disk
    BY <1>3 DEF EndCopying
  <2>2. op' = op /\ source' = source
    BY <1>3, NoPlanAnyMore
  <2>3. j < k
    <3>1. Len(target) \in Nat
      BY LenProperties DEF TypeOK
    <3>2. k \in Int
      BY SourceType DEF TypeOK
    <3> QED
      BY <2>1, <3>1, <3>2
  <2>4. IsCopied(target[j])
    BY <2>1, <2>2 DEF IsCopied
  <2>5. Copied(target[j])
    BY <2>1, <2>2, <2>3, <2>4 DEF CopiedInv
  <2> QED
    BY <2>1, <2>2, <2>5 DEF Copied, CopySize, NewSize
<1>4. CASE SkipDeleted \/ PlacePartition \/ EndLayout \/ AddPartition
             \/ CopyIsRefused \/ CallFails
  <2>1. phase' \notin {"copy", "done"}
    BY <1>4 DEF SkipDeleted, PlacePartition, EndLayout, AddPartition,
       CopyIsRefused, CallFails
  <2> QED
    BY <2>1
<1>5. CASE \/ CheckSource \/ NextOption
           \/ \E p \in P : IgnoreOrDelete(p) \/ ExpandOrShrink(p)
           \/ \E p \in P, newsize \in NewSizes : Resize(p, newsize)
           \/ EndOptions \/ AddUp \/ CalculateSurplus \/ FinalSurplus
           \/ PartInit \/ PartInitFails \/ CopyBootLoader \/ BootLoaderIsShort
  BY <1>5, NoTargetYet
<1> QED
  BY <1>1, <1>2, <1>3, <1>4, <1>5 DEF Next

-----------------------------------------------------------------------------
(* What the target disk holds in the end.                                  *)

LEMMA DiskStep ==
  ASSUME Geometry, IInv, DiskInv, Next PROVE DiskInv'
<1> USE DEF IInv, DiskInv
<1>1. MarkInv'
  BY MarkStep
<1>2. SumsPositive'
  BY SumsPositiveStep
<1>3. FilledInv' /\ EachPlacedInv'
  BY FilledStep, EachPlacedStep
<1>4. AcceptedInv' /\ CopiedInv'
  BY AcceptedStep, CopiedStep
<1>5. TableIntact'
  BY TableStep
<1> QED
  BY <1>1, <1>2, <1>3, <1>4, <1>5

LEMMA DiskStutter == ASSUME DiskInv, UNCHANGED vars PROVE DiskInv'
<1> USE DEF vars
<1>1. P' = P /\ Sectors' = Sectors /\ TableArea' = TableArea
  BY DEF P, Sectors, TableArea
<1>2. \A p : NewSize(p)' = NewSize(p) /\ CopySize(p)' = CopySize(p)
  BY DEF NewSize, CopySize
<1>3. NoneNegative' = NoneNegative
  BY <1>1, <1>2 DEF NoneNegative
<1>4. MarkInv'
  BY <1>1 DEF DiskInv, MarkInv, Shrinkable
<1>5. SumsPositive' /\ FilledInv' /\ EachPlacedInv'
  BY <1>1, <1>2, <1>3 DEF DiskInv, SumsPositive, FilledInv, EachPlacedInv
<1>6. AcceptedInv'
  BY <1>1 DEF DiskInv, AcceptedInv, Acceptable
<1>7. CopiedInv'
  BY <1>2 DEF DiskInv, CopiedInv, Copied, IsCopied
<1>8. TableIntact'
  BY <1>1, <1>3 DEF DiskInv, TableIntact
<1> QED
  BY <1>4, <1>5, <1>6, <1>7, <1>8 DEF DiskInv

LEMMA DiskInit == ASSUME Init PROVE DiskInv
<1>1. MarkInv
  BY DEF Init, MarkInv, Plain, P
<1>2. SumsPositive
  BY DEF Init, SumsPositive
<1>3. FilledInv /\ EachPlacedInv /\ AcceptedInv /\ CopiedInv
  BY DEF Init, FilledInv, EachPlacedInv, AcceptedInv, CopiedInv
<1>4. TableIntact
  BY DEF Init, TableIntact
<1> QED
  BY <1>1, <1>2, <1>3, <1>4 DEF DiskInv

(* What has to be on the target disk is copied: a partition is not made    *)
(* smaller than its content unless that is forced.                         *)
LEMMA NeededIsCopied ==
  ASSUME TypeOK, MarkInv, phase = "done", NEW p \in P,
         op[p].kind \in {"copy", "resize"}
  PROVE  Needed(p) \in Int /\ (Needed(p) > 0 => Needed(p) <= CopySize(p))
<1>1. PICK size \in Nat, content \in Nat :
        size = source[p].size /\ content = source[p].content
  BY PartitionType
<1>2. PICK newsize \in Int : newsize = NewSize(p)
  BY NewSizeType
<1>3. PICK needed \in Nat :
        /\ needed = CASE source[p].kind = "content" -> content
                      [] source[p].kind = "swap" -> 0
                      [] OTHER -> size
        /\ needed <= size /\ (source[p].kind = "swap" => needed = 0)
  <2>1. source[p].kind = "content" => content <= size
    BY <1>1 DEF MarkInv
  <2> QED
    BY <2>1
<1>4. Needed(p) = IF op[p].kind = "resize" /\ op[p].force /\ op[p].size < needed
                  THEN op[p].size ELSE needed
  BY <1>1, <1>3 DEF Needed
<1>5. CopySize(p) = IF newsize < size THEN newsize ELSE size
  BY <1>1, <1>2 DEF CopySize
<1>6. CASE op[p].kind = "copy"
  BY <1>1, <1>2, <1>3, <1>4, <1>5, <1>6 DEF NewSize
<1>7. CASE op[p].kind = "resize"
  <2>1. newsize = op[p].size
    BY <1>2, <1>7 DEF NewSize
  <2>2. CASE op[p].force
    BY <1>3, <1>4, <1>5, <1>7, <2>1, <2>2
  <2>3. CASE ~op[p].force
    <3>1. newsize >= size \/ Shrinkable(p, newsize)
      BY <1>1, <1>7, <2>1, <2>3 DEF MarkInv
    <3>2. newsize < size /\ needed > 0 => needed <= newsize
      BY <1>1, <1>2, <1>3, <3>1 DEF Shrinkable
    <3>3. Needed(p) = needed
      BY <1>4, <2>3
    <3> QED
      BY <1>3, <1>5, <3>2, <3>3
  <2> QED
    BY <2>2, <2>3
<1> QED
  BY <1>6, <1>7

(* Once everything has been copied it is where the table says.             *)
LEMMA ContentIsThere ==
  ASSUME IInv, DiskInv PROVE ContentPreserved
<1> SUFFICES ASSUME phase = "done", NEW p \in P, op[p].kind \in {"copy", "resize"}
             PROVE  \E j \in 1..Len(target) :
                      /\ target[j].source = p
                      /\ Needed(p) <= SectSize * (target[j].last - target[j].first + 1)
                      /\ \A offset \in 0..(Needed(p) - 1) :
                           disk[SectSize * target[j].first + offset] = ByteOf(p, offset)
  BY DEF ContentPreserved
<1>1. PICK j \in 1..Len(target) : target[j].source = p
  BY DEF DiskInv, EachPlacedInv
<1>2. p # 0 /\ IsCopied(target[j])
  BY <1>1, SourceType DEF IInv, TypeOK, IsCopied
<1>3. PICK needed \in Int, size \in Int :
        /\ needed = Needed(p) /\ size = CopySize(p)
        /\ needed > 0 => needed <= size
  BY NeededIsCopied, CopySizeType DEF IInv, DiskInv
<1>4. needed <= SectSize * (target[j].last - target[j].first + 1)
  <2>1. PICK f \in Int, l \in Int : f = target[j].first /\ l = target[j].last
    <3>1. target[j] \in [source : P \cup {0}, first : Int, last : Int]
      BY ElementOfSeq, LenProperties DEF IInv, TypeOK
    <3> QED
      BY <3>1
  <2>2. PICK room \in Int : room = SectSize * (l - f + 1)
    OBVIOUS
  <2>3. size <= room
    BY <1>1, <1>2, <1>3, <2>1, <2>2 DEF DiskInv, FilledInv
  <2>4. room >= 0
    <3>1. f <= l
      BY <2>1 DEF DiskInv, AcceptedInv, Acceptable
    <3> QED
      BY <2>1, <2>2, <3>1
  <2> QED
    BY <1>3, <2>1, <2>2, <2>3, <2>4
<1>5. ASSUME NEW offset \in 0..(needed - 1)
      PROVE  disk[SectSize * target[j].first + offset] = ByteOf(p, offset)
  <2>1. offset \in 0..(size - 1)
    BY <1>3
  <2>2. Copied(target[j])
    BY <1>2 DEF DiskInv, CopiedInv
  <2> QED
    BY <1>1, <1>3, <2>1, <2>2 DEF Copied
<1> QED
  BY <1>1, <1>3, <1>4, <1>5

(* Content and partition tables are on the target disk in the end.         *)
LEMMA DiskIsRight ==
  ASSUME Geometry PROVE Spec => [](ContentPreserved /\ TableIntact)
<1>1. Init => DiskInv
  BY DiskInit
<1>2. IInv /\ DiskInv /\ [Next]_vars => DiskInv'
  BY DiskStep, DiskStutter
<1>3. IInv /\ DiskInv => ContentPreserved /\ TableIntact
  BY ContentIsThere DEF DiskInv
<1> QED
  BY <1>1, <1>2, <1>3, Invariance, PTL DEF Spec

(* Every partition that is neither ignored nor deleted has its content at  *)
(* the place that the partition table of the target disk gives it, swap    *)
(* space shrunk away or not (copy_partition, resize.ml 1287-1329), where   *)
(* Geometry holds: the partition table is before the first partition, and  *)
(* an extended partition is on a disk with sectors of 512 bytes.           *)
THEOREM ContentIsPreserved ==
  ASSUME Geometry PROVE Spec => []ContentPreserved
BY DiskIsRight, PTL

(* Neither the boot loader nor a partition is copied over the partition    *)
(* table or its backup, where Geometry holds: the boot loader is read and  *)
(* written after the partition table, which is so for an MBR and for a GPT *)
(* in sectors of 512 bytes.                                                *)
THEOREM TableStaysIntact ==
  ASSUME Geometry PROVE Spec => []TableIntact
BY DiskIsRight, PTL

-----------------------------------------------------------------------------
(* What is refused after the target disk has been written.                 *)

(* A partition is not left with nothing, but for the swap space that       *)
(* --expand or --shrink has adjusted.                                      *)
LEMMA SwapStep ==
  ASSUME SizedSources, TypeOK, AdjustInv, SwapInv, Next PROVE SwapInv'
<1> USE DEF input, options, plan, layout
<1>1. source' = source /\ P' = P
  BY OperationChange
<1> SUFFICES ASSUME NEW q \in P, op'[q].kind # "delete", NewSize(q)' <= 0
             PROVE  q = adjusted' /\ source[q].kind = "swap"
  BY <1>1 DEF SwapInv
<1>2. /\ source[q].size > 0 /\ (source[q].kind = "content" => source[q].content > 0)
      /\ source[q].size \in Nat /\ source[q].content \in Nat
  <2>1. source \in Sources /\ q \in DOMAIN source
    BY DEF TypeOK, P
  <2> QED
    BY <2>1, PartitionType DEF SizedSources
<1>3. ASSUME op'[q] = op[q] PROVE q = adjusted /\ source[q].kind = "swap"
  BY <1>1, <1>3 DEF SwapInv, NewSize
<1>4. ASSUME NEW p \in P, IgnoreOrDelete(p)
      PROVE  q = adjusted' /\ source[q].kind = "swap"
  <2>1. adjusted' = adjusted
    BY <1>4 DEF IgnoreOrDelete
  <2>2. CASE op'[q] # op[q]
    <3>1. op' = [op EXCEPT ![p] = Plain(phase)] /\ phase \in {"ignore", "delete"}
      BY <1>4, <2>2 DEF IgnoreOrDelete
    <3>2. op'[q] = Plain(phase)
      BY <2>2, <3>1 DEF TypeOK
    <3>3. op'[q].kind = "ignore"
      BY <3>1, <3>2 DEF Plain
    <3> QED
      BY <1>1, <1>2, <3>3 DEF NewSize
  <2> QED
    BY <1>3, <2>1, <2>2
<1>5. ASSUME NEW p \in P, NEW newsize \in NewSizes, Resize(p, newsize)
      PROVE  q = adjusted' /\ source[q].kind = "swap"
  <2>1. adjusted' = adjusted
    BY <1>5 DEF Resize
  <2>2. CASE op'[q] # op[q]
    <3>1. PICK force \in BOOLEAN :
            /\ newsize \in Int /\ newsize > 0
            /\ CanMark(p, newsize, force) /\ op' = Marked(p, newsize, force)
      <4>1. (phase = "force") \in BOOLEAN
        OBVIOUS
      <4> QED
        BY <1>5, <2>2, <4>1 DEF Resize
    <3>2. op'[q] = [kind |-> "resize", size |-> newsize, force |-> force]
      <4>1. Marked(p, newsize, force)[q] # op[q]
        BY <2>2, <3>1
      <4>2. Marked(p, newsize, force)[q]
              = [kind |-> "resize", size |-> newsize, force |-> force]
        BY <3>1, <4>1, MarkedAt
      <4> QED
        BY <3>1, <4>2
    <3> QED
      BY <3>1, <3>2 DEF NewSize
  <2> QED
    BY <1>3, <2>1, <2>2
<1>6. ASSUME NEW p \in P, ExpandOrShrink(p)
      PROVE  q = adjusted' /\ source[q].kind = "swap"
  <2>1. adjusted = 0
    BY <1>6 DEF ExpandOrShrink, AdjustInv, Writing
  <2>2. op'[q] # op[q]
    <3>1. q # 0
      BY SourceType DEF TypeOK
    <3> QED
      BY <1>3, <2>1, <3>1
  <2>3. PICK newsize \in Int : newsize = source[p].size + surplus
    <3>1. source[p].size \in Int /\ surplus \in Int
      BY PartitionType DEF TypeOK
    <3> QED
      BY <3>1
  <2>4. PICK force \in BOOLEAN :
          /\ ~force /\ CanMark(p, newsize, force) /\ op' = Marked(p, newsize, force)
          /\ adjusted' = p
    BY <1>6, <2>2, <2>3 DEF ExpandOrShrink
  <2>5. q = p /\ op'[q] = [kind |-> "resize", size |-> newsize, force |-> force]
    <3>1. Marked(p, newsize, force)[q] # op[q]
      BY <2>2, <2>4
    <3>2. /\ q = p
          /\ Marked(p, newsize, force)[q]
               = [kind |-> "resize", size |-> newsize, force |-> force]
      BY <2>4, <3>1, MarkedAt
    <3> QED
      BY <2>4, <3>2
  <2>6. newsize <= 0
    BY <2>5 DEF NewSize
  <2> QED
    BY <1>2, <2>4, <2>5, <2>6 DEF CanMark, Shrinkable
<1>7. CASE \/ CheckSource \/ NextOption \/ EndOptions \/ AddUp \/ CalculateSurplus
           \/ FinalSurplus \/ PartInit \/ PartInitFails
           \/ CopyBootLoader \/ BootLoaderIsShort
           \/ SkipDeleted \/ PlacePartition \/ EndLayout
           \/ AddPartition \/ EndAdding \/ CopyPartition \/ CopyIsRefused
           \/ EndCopying \/ CallFails
  <2>1. op' = op /\ adjusted' = adjusted
    BY <1>7 DEF CheckSource, NextOption, EndOptions, AddUp, CalculateSurplus,
       FinalSurplus, PartInit, PartInitFails, CopyBootLoader, BootLoaderIsShort,
       SkipDeleted, PlacePartition, EndLayout, AddPartition, EndAdding, CopyPartition,
       CopyIsRefused, EndCopying, CallFails
  <2> QED
    BY <1>3, <2>1
<1> QED
  BY <1>4, <1>5, <1>6, <1>7 DEF Next

(* part_add accepts the partitions, if there is something in each of them. *)
LEMMA AcceptsAll ==
  ASSUME Geometry, TypeOK, LoopInv, PartitionsFit, SizesArePositive, AddPartition
  PROVE  Acceptable(added + 1) \/ NoSlotForExtra
<1>1. phase = "add" /\ added < Len(target)
  BY DEF AddPartition
<1>2. PICK n \in Nat : n = Len(target)
  BY LenProperties DEF TypeOK
<1>3. PICK j \in Int : j = added + 1 /\ j \in 1..n
  BY <1>1, <1>2 DEF TypeOK
<1>4. PICK f \in Int, l \in Int : f = target[j].first /\ l = target[j].last
  <2>1. target[j] \in [source : P \cup {0}, first : Int, last : Int]
    BY <1>2, <1>3, ElementOfSeq DEF TypeOK
  <2> QED
    BY <2>1
<1>5. FirstStart <= f /\ f <= l /\ l <= Sectors - GptSects
  BY <1>1, <1>2, <1>3, <1>4 DEF PartitionsFit, OnDisk
<1>6. SectSize * f >= TableBytes
  <2>1. PICK s \in Int : s = FirstStart /\ TableBytes <= SectSize * s /\ s <= f
    BY <1>5, FirstStartFits
  <2>2. SectSize * s <= SectSize * f
    BY <2>1, Scale
  <2>3. SectSize * s \in Int /\ SectSize * f \in Int
    BY <2>1
  <2> QED
    BY <2>1, <2>2, <2>3
<1>7. l < Sectors - BackupSects
  <2>1. BackupSects < GptSects
    BY DEF Geometry
  <2> QED
    BY <1>5, <2>1, SectorsFit
<1>8. ASSUME NEW i \in 1..(j - 1) PROVE target[i].last < f
  BY <1>1, <1>2, <1>3, <1>4 DEF PartitionsFit, InOrder
<1>9. CASE j <= MaxPrimary
  BY <1>3, <1>4, <1>5, <1>6, <1>7, <1>8, <1>9 DEF Acceptable
<1>10. CASE j > MaxPrimary
  <2>1. Len(source) <= MaxPrimary /\ Len(source) \in Nat
    BY SourceType DEF Geometry, TypeOK
  <2>2. Len(target) > MaxPrimary /\ Len(target) > Len(source)
    BY <1>2, <1>3, <1>10, <2>1
  <2> QED
    BY <1>1, <2>2 DEF LoopInv, NoSlotForExtra
<1> QED
  BY <1>3, <1>9, <1>10

(* A partition with nothing in it is swap space that was shrunk away.      *)
LEMMA NothingIsSwap ==
  ASSUME TypeOK, SwapInv, NEW p \in P, op[p].kind # "delete", NewSize(p) <= 0
  PROVE  SwapShrunkAway
<1>1. p = adjusted /\ source[p].kind = "swap"
  BY DEF SwapInv
<1>2. p # 0
  BY SourceType DEF TypeOK
<1> QED
  BY <1>1, <1>2 DEF SwapShrunkAway

LEMMA RefusedStep ==
  ASSUME Geometry, IInv, DiskInv, SwapInv, NothingRefusedLate, Next
  PROVE  NothingRefusedLate'
<1> USE DEF input, options, plan, layout
<1> SUFFICES ASSUME phase' = "refused"
             PROVE  (SwapShrunkAway \/ NoSlotForExtra \/ LoaderCutOff)'
  BY DEF NothingRefusedLate
<1>0. TypeOK /\ LoopInv /\ PartitionsFit
  BY DEF IInv
<1>1. CASE AddPartition
  <2>1. ~Acceptable(added + 1)
    BY <1>1 DEF AddPartition
  <2>2. SwapShrunkAway \/ NoSlotForExtra
    <3>1. CASE SizesArePositive
      BY <1>0, <1>1, <2>1, <3>1, AcceptsAll
    <3>2. CASE ~SizesArePositive
      <4>1. PICK p \in P : op[p].kind # "delete" /\ ~(NewSize(p) > 0)
        BY <3>2 DEF SizesArePositive
      <4>2. NewSize(p) <= 0
        BY <1>0, <4>1, NewSizeType
      <4> QED
        BY <1>0, <4>1, <4>2, NothingIsSwap
    <3> QED
      BY <3>1, <3>2
  <2> QED
    BY <1>1, <2>2 DEF AddPartition, SwapShrunkAway, NoSlotForExtra, NewSize
<1>2. CASE CopyIsRefused
  <2>1. k \in 1..Len(target) /\ IsCopied(target[k]) /\ CopySize(target[k].source) < 0
    <3>1. k \in Int /\ k >= 1 /\ Len(target) \in Nat
      BY <1>0, SourceType, LenProperties DEF TypeOK
    <3> QED
      BY <1>2, <3>1 DEF CopyIsRefused
  <2>2. PICK p \in P : p = target[k].source
    <3>1. target[k] \in [source : P \cup {0}, first : Int, last : Int]
      BY <1>0, <2>1, ElementOfSeq, LenProperties DEF TypeOK
    <3> QED
      BY <2>1, <3>1 DEF IsCopied
  <2>3. op[p].kind # "delete"
    BY <2>1, <2>2 DEF IsCopied
  <2>4. NewSize(p) <= 0
    BY <1>0, <2>1, <2>2, NewSizeType, PartitionType DEF CopySize
  <2>5. SwapShrunkAway
    BY <1>0, <2>3, <2>4, NothingIsSwap
  <2> QED
    BY <1>2, <2>5 DEF CopyIsRefused, SwapShrunkAway, NewSize
<1>3. CASE BootLoaderIsShort
  BY <1>3 DEF BootLoaderIsShort, LoaderCutOff
<1>4. CASE SkipDeleted \/ PlacePartition \/ EndLayout \/ EndAdding \/ CopyPartition
             \/ EndCopying \/ CallFails
  BY <1>4 DEF SkipDeleted, PlacePartition, EndLayout, EndAdding, CopyPartition,
     EndCopying, CallFails
<1>5. CASE \/ CheckSource \/ NextOption
           \/ \E p \in P : IgnoreOrDelete(p) \/ ExpandOrShrink(p)
           \/ \E p \in P, newsize \in NewSizes : Resize(p, newsize)
           \/ EndOptions \/ AddUp \/ CalculateSurplus \/ FinalSurplus
           \/ PartInit \/ PartInitFails \/ CopyBootLoader
  <2>1. phase' # "refused"
    BY <1>0, <1>5 DEF CheckSource, NextOption, IgnoreOrDelete, ExpandOrShrink, Resize,
       EndOptions, AddUp, CalculateSurplus, FinalSurplus, PartInit, PartInitFails,
       CopyBootLoader, TypeOK
  <2> QED
    BY <2>1
<1> QED
  BY <1>1, <1>2, <1>3, <1>4, <1>5 DEF Next

(* part_add, the copies and the boot loader: what cannot be done is turned *)
(* down before the target disk is written, but for swap space that is      *)
(* shrunk away (mark_partition_for_resize does not ask what is left of it, *)
(* resize.ml 863), an extra partition for which there is no slot (1259)    *)
(* and a source disk that ends within the boot loader (417-419, 1126).     *)
THEOREM NothingIsRefusedLate ==
  ASSUME Geometry, SizedSources PROVE Spec => []NothingRefusedLate
<1> DEFINE Inv == DiskInv /\ AdjustInv /\ SwapInv /\ NothingRefusedLate
<1>1. Init => Inv
  <2> SUFFICES ASSUME Init PROVE Inv
    OBVIOUS
  <2>1. ASSUME NEW p \in P PROVE NewSize(p) > 0
    <3>1. source[p].size > 0
      BY DEF Init, SizedSources, P
    <3>2. op[p].kind = "copy"
      BY DEF Init, Plain
    <3> QED
      BY <3>1, <3>2 DEF NewSize
  <2>2. SwapInv
    <3>1. TypeOK
      BY InitType
    <3>2. \A p \in P : NewSize(p) \in Int
      BY <3>1, NewSizeType
    <3> QED
      BY <2>1, <3>2 DEF SwapInv
  <2> QED
    BY <2>2, DiskInit DEF Init, AdjustInv, NothingRefusedLate
<1>2. IInv /\ Inv /\ [Next]_vars => Inv'
  <2> SUFFICES ASSUME IInv, Inv, [Next]_vars PROVE Inv'
    OBVIOUS
  <2>1. CASE Next
    <3>1. TypeOK /\ SumsInv /\ SurplusInv
      BY DEF IInv
    <3> QED
      BY <2>1, <3>1, DiskStep, AdjustStep, SwapStep, RefusedStep
  <2>2. CASE UNCHANGED vars
    <3>1. SwapInv' /\ NothingRefusedLate'
      BY <2>2 DEF vars, SwapInv, NothingRefusedLate, SwapShrunkAway, NoSlotForExtra,
         LoaderCutOff, NewSize, P
    <3> QED
      BY <2>2, <3>1, DiskStutter, AdjustStutter
  <2> QED
    BY <2>1, <2>2
<1> QED
  BY <1>1, <1>2, Invariance, PTL DEF Spec
=============================================================================
