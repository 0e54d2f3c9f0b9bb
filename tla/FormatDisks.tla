----------------------------- MODULE FormatDisks -----------------------------
(***************************************************************************)
(* virt-format (format/format.c): erases disks and makes partitions,       *)
(* logical volumes and filesystems on them.  The kernel of the appliance   *)
(* may refuse to read the partition table of an erased disk again; the     *)
(* whole sequence is then run a second time in a new appliance.            *)
(* libguestfs, its kernel and LVM are external.                            *)
(***************************************************************************)
EXTENDS Integers, FiniteSets, Sequences

CONSTANTS MaxDisks,     \* bound on the number of disks
          CommandLines  \* the command lines that are tried

ASSUME MaxDisksAssumption == MaxDisks \in Nat

None == "none"

Filesystem == {"msdos", "vfat", "ntfs", "ext4", "minix", "xfs"}
PartitionTable == {"mbr", "gpt"}

\* An option and its argument, "" if that is left out.
Arg == [name : {"filesystem", "lvm", "partition", "wipe", "label", "add", "other"},
        value : Filesystem \cup PartitionTable
                  \cup {"", None, "--lvm", "VG/LV", "VG", "DEFAULT", "disk"}]

\* large: disks of 2 TB or more.
ASSUME CommandLinesAssumption ==
  \A c \in CommandLines : /\ c.args \in Seq(Arg)
                          /\ c.large \subseteq 1..MaxDisks
                          /\ Cardinality({i \in DOMAIN c.args : c.args[i].name = "add"})
                               <= MaxDisks

\* A volume group without a logical volume cannot be parsed; "" stands for VG/LV.
ParseVgLv(o, value) ==
  IF value = "VG" THEN [o EXCEPT !.bad = TRUE] ELSE [o EXCEPT !.lvm = value # None]

\* What main makes of one option.  lvm stands for vg and lv.
HandleOption(o, arg) ==
  CASE arg.name = "filesystem" -> IF arg.value = "--lvm" THEN [o EXCEPT !.bad = TRUE]
                                  ELSE [o EXCEPT !.filesystem = arg.value]
    [] arg.name = "lvm" /\ o.lvm -> [o EXCEPT !.bad = TRUE]
    [] arg.name = "lvm" /\ ~o.lvm -> ParseVgLv(o, arg.value)
    [] arg.name = "partition" ->
         [o EXCEPT !.partition = IF arg.value = "" THEN "DEFAULT" ELSE arg.value]
    [] arg.name = "label" -> [o EXCEPT !.label = TRUE]
    [] arg.name = "wipe" -> [o EXCEPT !.wipe = TRUE]
    [] arg.name = "add" -> [o EXCEPT !.drives = @ + 1]
    [] arg.name = "other" -> [o EXCEPT !.bad = TRUE]
    [] OTHER -> o

Defaults == [filesystem |-> None, lvm |-> FALSE, partition |-> "DEFAULT", label |-> FALSE,
             wipe |-> FALSE, drives |-> 0, bad |-> FALSE]

\* What the disk held before: a signature of the whole disk, out of the reach of
\* guestfs_zero, which clears the first blocks only, and data anywhere.
Old == {"signature", "data"}

\* A disk: its partition table and type byte, whether a logical volume fills it, the
\* filesystem made on it, and what remains of the old contents.
TypeByte == {0, 1, 7, 11, 129, 131, 142}
Disk == [table : {None, "old"} \cup PartitionTable, id : TypeByte,
         lv : BOOLEAN, fs : {None, "old"} \cup Filesystem, label : BOOLEAN,
         remains : SUBSET Old]

Hiding(remains) == [table |-> None, id |-> 0, lv |-> FALSE, fs |-> None, label |-> FALSE,
                    remains |-> remains]
BlankDisk == Hiding({})
OldDisk == [BlankDisk EXCEPT !.table = "old", !.fs = "old", !.remains = Old]

VARIABLES args,     \* the options that getopt_long has yet to return
          opt,      \* what main has made of the others
          large,    \* disks of 2 TB or more
          at,       \* position in main and do_format
          dev,      \* the disk that the present loop is at
          retries,  \* the local variable of main
          errors,   \* of do_rescan
          disks,    \* the disks of -a, as the appliance has written them
          host,     \* the disks, as far as they have reached the host
          stale,    \* disks of which the kernel still knows the old contents
          have_wipefs,  \* the appliance has wipefs
          exit      \* exit status, -1 while the program runs, 139 after a crash

\* The disks of -a, in the order of list_devices.
Disks == 1..opt.drives

format_vars == <<args, opt, large, at, dev, retries, errors, disks, host, stale,
                 have_wipefs, exit>>

FormatInit ==
  /\ \E c \in CommandLines : args = c.args /\ large = c.large
  /\ opt = Defaults
  /\ at = "options"
  /\ dev = 1 /\ retries = 0 /\ errors = 0
  /\ disks = << >> /\ host = << >>
  /\ stale = {}
  /\ have_wipefs = FALSE
  /\ exit = -1

At(place) == exit = -1 /\ at = place

\* Moves on to the next disk, or after the last one to another place.
EachDisk(place, after) ==
  IF dev < opt.drives THEN dev' = dev + 1 /\ at' = place
                      ELSE dev' = 1 /\ at' = after

-----------------------------------------------------------------------------
(* main.                                                                     *)

\* One round of the loop around getopt_long; an option that is refused ends the program.
GetOpt ==
  /\ At("options") /\ args # << >> /\ ~opt.bad
  /\ opt' = HandleOption(opt, Head(args))
  /\ args' = Tail(args)
  /\ UNCHANGED <<large, at, dev, retries, errors, disks, host, stale, have_wipefs, exit>>

Refuse ==
  /\ At("options") /\ (opt.bad \/ (args = << >> /\ opt.drives = 0))
  /\ exit' = 1
  /\ UNCHANGED <<args, opt, large, at, dev, retries, errors, disks, host, stale, have_wipefs>>

\* All options are accepted, and -a named the disks.
Accept ==
  /\ At("options") /\ args = << >> /\ ~opt.bad /\ opt.drives > 0
  /\ disks' = [d \in Disks |-> OldDisk]
  /\ host' = disks'
  /\ at' = "launch"
  /\ UNCHANGED <<args, opt, large, dev, retries, errors, stale, have_wipefs, exit>>

\* A new appliance reads the disks afresh, and has wipefs or not.
Launch ==
  /\ At("launch")
  /\ at' = "erase" /\ dev' = 1 /\ errors' = 0
  /\ stale' = {}
  /\ have_wipefs' \in BOOLEAN
  /\ UNCHANGED <<args, opt, large, retries, disks, host, exit>>

Reopen_Mutant ==
  /\ At("retry") /\ retries = 0
  /\ host' = disks
  /\ at' = "launch"
  /\ UNCHANGED <<args, opt, large, dev, retries, errors, disks, stale, have_wipefs, exit>>

\* The appliance is shut down and closed, and a second one is tried.
Reopen ==
  /\ At("retry") /\ retries = 0
  /\ retries' = 1
  /\ host' = disks
  /\ at' = "launch"
  /\ UNCHANGED <<args, opt, large, dev, errors, disks, stale, have_wipefs, exit>>

\* guestfs_create returns NULL, which is not looked at before the handle is used.
CreateFails ==
  /\ At("retry") /\ retries = 0
  /\ exit' = 139
  /\ UNCHANGED <<args, opt, large, at, dev, retries, errors, disks, host, stale, have_wipefs>>

GiveUp ==
  /\ At("retry") /\ retries = 1
  /\ exit' = 1
  /\ UNCHANGED <<args, opt, large, at, dev, retries, errors, disks, host, stale, have_wipefs>>

Shutdown ==
  /\ At("shutdown")
  /\ host' = disks
  /\ exit' = 0
  /\ UNCHANGED <<args, opt, large, at, dev, retries, errors, disks, stale, have_wipefs>>

-----------------------------------------------------------------------------
(* do_format: erasing.                                                       *)

\* Without --wipe the signatures of each disk go first, if there is wipefs, ...
Wipefs ==
  /\ At("erase") /\ ~opt.wipe
  /\ disks' = IF have_wipefs THEN [disks EXCEPT ![dev].remains = @ \ {"signature"}]
                             ELSE disks
  /\ at' = "zero"
  /\ UNCHANGED <<args, opt, large, dev, retries, errors, host, stale, have_wipefs, exit>>

\* ... and then the first blocks: guestfs_zero.
Zero ==
  /\ At("zero")
  /\ disks' = [disks EXCEPT ![dev] = Hiding(disks[dev].remains)]
  /\ stale' = stale \cup {dev}
  /\ EachDisk("erase", "discard")
  /\ UNCHANGED <<args, opt, large, retries, errors, host, have_wipefs, exit>>

\* With --wipe: guestfs_zero_device.
ZeroDevice ==
  /\ At("erase") /\ opt.wipe
  /\ disks' = [disks EXCEPT ![dev] = BlankDisk]
  /\ stale' = stale \cup {dev}
  /\ EachDisk("erase", "discard")
  /\ UNCHANGED <<args, opt, large, retries, errors, host, have_wipefs, exit>>

\* blkdiscard, which may clear the rest; its failure is ignored.
Discard ==
  /\ At("discard")
  /\ \E remains \in {disks[dev].remains, {}} : disks' = [disks EXCEPT ![dev].remains = remains]
  /\ EachDisk("discard", "rescan")
  /\ UNCHANGED <<args, opt, large, retries, errors, host, stale, have_wipefs, exit>>

Rescan_Mutant ==
  /\ At("rescan")
  /\ \/ stale' = stale \ {dev} /\ UNCHANGED errors
     \/ errors' = 1 /\ UNCHANGED stale
  /\ EachDisk("rescan", "format")
  /\ UNCHANGED <<args, opt, large, retries, disks, host, have_wipefs, exit>>

\* blockdev_rereadpt for each disk, counting errors.
Rescan ==
  /\ At("rescan")
  /\ \/ stale' = stale \ {dev} /\ UNCHANGED errors
     \/ errors' = errors + 1 /\ UNCHANGED stale
  /\ EachDisk("rescan", "lvmscan")
  /\ UNCHANGED <<args, opt, large, retries, disks, host, have_wipefs, exit>>

\* lvm_scan, and the result of do_rescan.
LvmScan ==
  /\ At("lvmscan")
  /\ \E e \in {0, 1} :
       /\ errors' = errors + e
       /\ at' = IF errors + e > 0 THEN "retry" ELSE "format"
  /\ UNCHANGED <<args, opt, large, dev, retries, disks, host, stale, have_wipefs, exit>>

-----------------------------------------------------------------------------
(* do_format: formatting one disk after the other.                           *)

TableType(d) == CASE opt.partition = "DEFAULT" /\ d \in large -> "gpt"
                  [] opt.partition = "DEFAULT" /\ d \notin large -> "mbr"
                  [] OTHER -> opt.partition

\* The type byte of an MBR partition, 0 if it is left alone.
MbrId == CASE opt.lvm -> 142
           [] ~opt.lvm /\ opt.filesystem = "msdos" -> 1
           [] ~opt.lvm /\ opt.filesystem = "vfat" -> 11
           [] ~opt.lvm /\ opt.filesystem = "ntfs" -> 7
           [] ~opt.lvm /\ opt.filesystem = "ext4" -> 131
           [] ~opt.lvm /\ opt.filesystem = "minix" -> 129
           [] OTHER -> 0

\* part_disk, which knows the table type; the result of part_set_mbr_id is ignored.
MakePartition ==
  /\ At("format")
  /\ IF opt.partition = None
     THEN UNCHANGED disks
     ELSE /\ TableType(dev) \in PartitionTable
          /\ \E id \in {0, IF TableType(dev) = "mbr" THEN MbrId ELSE 0} :
               disks' = [disks EXCEPT ![dev] =
                          [disks[dev] EXCEPT !.table = TableType(dev), !.id = id]]
  /\ at' = "lvm"
  /\ UNCHANGED <<args, opt, large, dev, retries, errors, host, stale, have_wipefs, exit>>

\* The name of the volume group is the same for all disks.
VolumeGroupExists == \E d \in Disks : disks[d].lv

\* pvcreate, vgcreate and lvcreate_free.
CreateLV ==
  /\ At("lvm")
  /\ CASE ~opt.lvm -> at' = "mkfs" /\ UNCHANGED <<disks, exit>>
       [] opt.lvm /\ VolumeGroupExists -> exit' = 1 /\ UNCHANGED <<disks, at>>
       [] OTHER -> /\ disks' = [disks EXCEPT ![dev].lv = TRUE]
                   /\ at' = "mkfs" /\ UNCHANGED exit
  /\ UNCHANGED <<args, opt, large, dev, retries, errors, host, stale, have_wipefs>>

Mkfs_Mutant ==
  /\ At("mkfs") /\ opt.filesystem \in {None} \cup Filesystem
  /\ disks' = IF opt.filesystem = None THEN disks
             ELSE [disks EXCEPT ![dev].fs = opt.filesystem, ![dev].label = opt.label]
  /\ at' = "sync" /\ dev' = 1
  /\ UNCHANGED <<args, opt, large, retries, errors, host, stale, have_wipefs, exit>>

\* mkfs, which knows the filesystem.
Mkfs ==
  /\ At("mkfs") /\ opt.filesystem \in {None} \cup Filesystem
  /\ disks' = IF opt.filesystem = None THEN disks
             ELSE [disks EXCEPT ![dev].fs = opt.filesystem, ![dev].label = opt.label]
  /\ EachDisk("format", "sync")
  /\ UNCHANGED <<args, opt, large, retries, errors, host, stale, have_wipefs, exit>>

Sync ==
  /\ At("sync")
  /\ host' = disks
  /\ at' = "shutdown"
  /\ UNCHANGED <<args, opt, large, dev, retries, errors, disks, stale, have_wipefs, exit>>

\* Every call that is not mentioned above as ignored or retried ends the program.
AnyCallFails ==
  /\ exit = -1 /\ at \notin {"options", "discard", "rescan", "lvmscan"}
  /\ exit' = 1
  /\ UNCHANGED <<args, opt, large, at, dev, retries, errors, disks, host, stale, have_wipefs>>

FormatNext ==
  \/ GetOpt \/ Refuse \/ Accept \/ Launch \/ Reopen \/ CreateFails \/ GiveUp
  \/ Shutdown \/ Wipefs \/ Zero \/ ZeroDevice \/ Discard \/ Rescan \/ LvmScan
  \/ MakePartition \/ CreateLV \/ Mkfs \/ Sync \/ AnyCallFails

FormatSpec == FormatInit /\ [][FormatNext]_format_vars /\ WF_format_vars(FormatNext)

-----------------------------------------------------------------------------
(* Properties.                                                               *)

\* What was asked for; the type byte is best effort.
Requested(d, x) ==
  /\ x.table = IF opt.partition = None THEN None ELSE TableType(d)
  /\ x.id \in {0, IF x.table = "mbr" THEN MbrId ELSE 0}
  /\ x.lv = opt.lvm
  /\ x.fs = opt.filesystem
  /\ x.label = (opt.label /\ opt.filesystem # None)

\* --wipe leaves nothing of the old contents (virt-format.pod 167-175), and wipefs no
\* signature that would tell what the disk was.
Hidden(x) == /\ opt.wipe => x.remains = {}
             /\ have_wipefs => "signature" \notin x.remains

\* After a successful exit every disk, on the host, holds what was asked for, and of
\* its old contents no more than the options and the appliance allow, whichever attempt
\* succeeded (format.c 255-301).
SuccessIsAsRequested ==
  exit = 0 => \A d \in Disks : Requested(d, host[d]) /\ Hidden(host[d])

\* Nothing is made on disks while the kernel still has the old partitions or volumes
\* of one of them (do_rescan, format.c 467-485).
BuiltOnFreshView ==
  at \in {"format", "lvm", "mkfs", "sync", "shutdown"} => stale = {} /\ errors = 0

\* A kernel that never gets rid of the old partitions does not keep the program
\* going: it ends whatever the rescans return (main, format.c 255-292).
FormatEnds == <>(exit # -1)
=============================================================================
