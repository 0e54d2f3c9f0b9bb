---------------------------- MODULE ResizeLayout ----------------------------
(***************************************************************************)
(* virt-resize (resize/resize.ml): how the options decide what happens to  *)
(* each partition of the source disk, how much space is left over, where   *)
(* the partitions go on the target disk, and what is copied there.         *)
(*                                                                         *)
(* Offsets and sizes of the source are in bytes, those of the target       *)
(* partitions in sectors, as in the code.  Each byte of the target disk    *)
(* says where it was copied from.  Expanding the content of partitions and *)
(* of logical volumes is not modelled.                                     *)
(***************************************************************************)
EXTENDS Integers, Sequences

CONSTANTS
  SectSize,       \* sectsize, of the target disk
  Sector512,      \* 512
  Alignment,      \* --alignment, in sectors
  GptSects,       \* gpt_start_sects, gpt_end_sects (64)
  BootSector,     \* bytes of boot code in sector 0, before the partition table
  TableBytes,     \* bytes of the partition table at the start (external)
  LoaderStart,    \* where the boot loader is copied from and to, in bytes
  BackupSects,    \* sectors of the backup partition table at the end (external)
  MaxBootLoader,  \* max_bootloader, in bytes
  EnoughAligned,  \* 4096: no need to move a partition that is so aligned
  MinExtra,       \* min_extra_partition
  MaxPrimary,     \* partitions that the partition table can hold (external)
  Attempts,       \* attempts of initialize_partition_table
  Sources,        \* the partition tables of source disks: a set of sequences
  InSizes,        \* sizes of source disks
  OutSizes,       \* sizes of target disks
  NewSizes        \* sizes that --resize and --resize-force ask for

(* "content" is a filesystem or a physical volume, whose size is known.    *)
Kind == {"unknown", "content", "extended", "swap"}
Partition == [start : Nat, size : Nat, kind : Kind, content : Nat,
              bootable_ntfs : BOOLEAN]

ASSUME SizesAssumption ==
  /\ SectSize \in Nat \ {0} /\ Sector512 \in Nat \ {0} /\ Alignment \in Nat \ {0}
  /\ GptSects \in Nat \ {0} /\ BootSector \in Nat /\ TableBytes \in Nat
  /\ LoaderStart \in Nat /\ BackupSects \in Nat /\ InSizes \subseteq Nat
  /\ MaxBootLoader \in Nat /\ EnoughAligned \in Nat \ {0} /\ MinExtra \in Nat
  /\ MaxPrimary \in Nat /\ Attempts \in Nat
  /\ OutSizes \subseteq Nat /\ NewSizes \subseteq Int

ASSUME SourcesAssumption == Sources \subseteq Seq(Partition) \ {<< >>}

VARIABLES
  source,        \* the partitions of /dev/sda
  insize,        \* the size of /dev/sda
  outsize,       \* the size of /dev/sdb
  align_first, copy_boot_loader, extra_partition,   \* options
  phase,
  op,            \* p_operation of each partition, and whether it was forced
  adjusted,      \* the partition of --expand or --shrink, 0 if there is none
  then,          \* where the calculation of the surplus goes back to
  sums,          \* running totals of "required": sums[k] before partition k
  surplus,
  attempts,
  k,             \* the partition that the loops over the list are at
  start,         \* start of the next target partition
  target,        \* the target partitions: [source, first, last]
  added,         \* how many of them part_add has created
  disk           \* /dev/sdb

options == <<align_first, copy_boot_loader, extra_partition>>
input == <<source, insize, outsize, options>>
plan == <<op, adjusted, then, sums, surplus>>
layout == <<k, start, target, added>>
vars == <<source, insize, outsize, align_first, copy_boot_loader, extra_partition,
          phase, op, adjusted, then, sums, surplus, attempts, k, start, target,
          added, disk>>

Blank == <<0, 0>>          \* what was on the target disk before
Table == <<0, 1>>          \* the partition table
BootLoader == <<0, 2>>
ByteOf(p, offset) == <<p, offset>>
Byte == Nat \X Nat

P == DOMAIN source
EndOf(p) == source[p].start + source[p].size - 1
Operation == [kind : {"copy", "ignore", "delete", "resize"}, size : Int,
              force : BOOLEAN]
Plain(kind) == [kind |-> kind, size |-> 0, force |-> FALSE]

Init ==
  /\ source \in Sources
  /\ insize \in {size \in InSizes : \A p \in P : EndOf(p) < size}
  /\ outsize \in OutSizes
  /\ align_first \in {"never", "auto", "always"}
  /\ copy_boot_loader \in BOOLEAN
  /\ extra_partition \in BOOLEAN
  /\ phase = "check"
  /\ op = [p \in P |-> Plain("copy")]
  /\ adjusted = 0
  /\ then = "final"
  /\ sums = <<0>>
  /\ surplus = 0
  /\ attempts = Attempts
  /\ k = 1
  /\ start = 0
  /\ target = << >>
  /\ added = 0
  /\ disk = [b \in 0..(outsize - 1) |-> Blank]

-----------------------------------------------------------------------------
(* The source disk.                                                        *)

(* "Check the disks are at least as big as the bootloader", "Check content *)
(* isn't larger than partitions", "Check partitions don't overlap".        *)
SourceIsSane ==
  /\ insize >= MaxBootLoader /\ outsize >= MaxBootLoader
  /\ \A p \in P : source[p].kind = "content" => source[p].content <= source[p].size
  /\ \A p \in P : p + 1 \in P => EndOf(p) <= source[p + 1].start

CheckSource ==
  /\ phase = "check"
  /\ phase' = IF SourceIsSane THEN "ignore" ELSE "error"
  /\ UNCHANGED <<input, plan, attempts, layout, disk>>

-----------------------------------------------------------------------------
(* The options, in the order in which they are handled.                    *)

NextOption ==
  /\ phase \in {"ignore", "delete", "resize"}
  /\ phase' = CASE phase = "ignore" -> "delete"
                [] phase = "delete" -> "resize"
                [] phase = "resize" -> "force"
  /\ UNCHANGED <<input, plan, attempts, layout, disk>>

(* find_partition: not a partition that is already ignored or deleted.     *)
Usable(p) == op[p].kind \notin {"ignore", "delete"}

(* --ignore and --delete.                                                  *)
IgnoreOrDelete(p) ==
  /\ phase \in {"ignore", "delete"}
  /\ IF Usable(p)
     THEN op' = [op EXCEPT ![p] = Plain(phase)] /\ UNCHANGED phase
     ELSE phase' = "error" /\ UNCHANGED op
  /\ UNCHANGED <<input, adjusted, then, sums, surplus, attempts, layout, disk>>

(* mark_partition_for_resize: may the partition be made that small?        *)
Shrinkable(p, newsize) ==
  \/ source[p].kind = "content" /\ source[p].content <= newsize
  \/ source[p].kind = "swap"

CanMark(p, newsize, force) ==
  /\ op[p].kind = "copy"
  /\ newsize < source[p].size /\ ~force => Shrinkable(p, newsize)

(* "Only do something if the size will change."                            *)
Marked(p, newsize, force) ==
  IF newsize = source[p].size THEN op
  ELSE [op EXCEPT ![p] = [kind |-> "resize", size |-> newsize, force |-> force]]

(* Mutant: the size is not checked.                                        *)
Resize_Mutant(p, newsize) ==
  /\ phase \in {"resize", "force"}
  /\ IF CanMark(p, newsize, phase = "force")
     THEN op' = Marked(p, newsize, phase = "force") /\ UNCHANGED phase
     ELSE phase' = "error" /\ UNCHANGED op
  /\ UNCHANGED <<input, adjusted, then, sums, surplus, attempts, layout, disk>>

(* --resize and --resize-force.                                            *)
Resize(p, newsize) ==
  /\ phase \in {"resize", "force"}
  /\ IF newsize > 0 /\ CanMark(p, newsize, phase = "force")
     THEN op' = Marked(p, newsize, phase = "force") /\ UNCHANGED phase
     ELSE phase' = "error" /\ UNCHANGED op
  /\ UNCHANGED <<input, adjusted, then, sums, surplus, attempts, layout, disk>>

(* After the last --resize-force the surplus is calculated, for --expand   *)
(* or --shrink if one of them is given.                                    *)
EndOptions ==
  /\ phase = "force"
  /\ then' \in {"expand", "shrink", "final"}
  /\ phase' = "measure"
  /\ UNCHANGED <<input, op, adjusted, sums, surplus, attempts, layout, disk>>

-----------------------------------------------------------------------------
(* calculate_surplus                                                       *)

(* Mutant: the size that a partition had.                                  *)
NewSize_Mutant(p) == IF op[p].kind = "delete" THEN 0 ELSE source[p].size

NewSize(p) ==
  CASE op[p].kind \in {"copy", "ignore"} -> source[p].size
    [] op[p].kind = "delete" -> 0
    [] op[p].kind = "resize" -> op[p].size

Larger(a, b) == IF a >= b THEN a ELSE b

(* Mutant: the space lost by aligning is forgotten.                        *)
Overhead_Mutant ==
  SectSize * (Larger(GptSects, Larger(MaxBootLoader \div Sector512,
                                      source[1].start \div SectSize))
              + GptSects)

(* The space before the first partition, lost by aligning the partitions,  *)
(* and after the last one.                                                 *)
Overhead ==
  SectSize * (Larger(GptSects, Larger(MaxBootLoader \div Sector512,
                                      source[1].start \div SectSize))
              + Alignment * (Len(source) + 1)
              + GptSects)

(* One step of List.fold_left.                                             *)
AddUp ==
  /\ phase = "measure"
  /\ Len(sums) <= Len(source)
  /\ sums' = Append(sums, sums[Len(sums)] + NewSize(Len(sums)))
  /\ UNCHANGED <<input, phase, op, adjusted, then, surplus, attempts, layout, disk>>

CalculateSurplus ==
  /\ phase = "measure"
  /\ Len(sums) > Len(source)
  /\ surplus' = outsize - (sums[Len(sums)] + Overhead)
  /\ phase' = then
  /\ UNCHANGED <<input, op, adjusted, then, sums, attempts, layout, disk>>

(* --expand and --shrink, then the final calculation.                      *)
ExpandOrShrink(p) ==
  /\ phase \in {"expand", "shrink"}
  /\ IF /\ IF phase = "expand" THEN surplus >= 0 ELSE surplus <= 0
        /\ CanMark(p, source[p].size + surplus, FALSE)
     THEN /\ op' = Marked(p, source[p].size + surplus, FALSE)
          /\ adjusted' = p
          /\ sums' = <<0>>
          /\ then' = "final"
          /\ phase' = "measure"
     ELSE /\ phase' = "error"
          /\ UNCHANGED <<op, adjusted, sums, then>>
  /\ UNCHANGED <<input, surplus, attempts, layout, disk>>

(* "At this point, this number must be >= 0."                              *)
FinalSurplus ==
  /\ phase = "final"
  /\ phase' = IF surplus < 0 THEN "error" ELSE "init"
  /\ UNCHANGED <<input, plan, attempts, layout, disk>>

-----------------------------------------------------------------------------
(* The target disk is written from here on.                                *)

Sectors == outsize \div SectSize
TableArea ==
  {b \in DOMAIN disk : \/ b \in BootSector..(TableBytes - 1)
                       \/ b >= SectSize * (Sectors - BackupSects)}

PartInit ==
  /\ phase = "init"
  /\ disk' = [b \in DOMAIN disk |-> IF b \in TableArea THEN Table ELSE disk[b]]
  /\ phase' = "boot"
  /\ UNCHANGED <<input, plan, attempts, layout>>

(* part_init fails: zero the disk, connect again and retry.  Of what is    *)
(* left there the next attempt overwrites all that matters.                *)
PartInitFails ==
  /\ phase = "init"
  /\ IF attempts > 0
     THEN attempts' = attempts - 1 /\ UNCHANGED phase
     ELSE phase' = "failed" /\ UNCHANGED attempts
  /\ UNCHANGED <<input, plan, layout, disk>>

(* "Are we going to align the first partition and fix the bootloader?"     *)
CanFixBootLoader ==
  /\ Len(source) = 1 /\ source[1].bootable_ntfs /\ op[1].kind # "delete"
  /\ source[1].start % EnoughAligned # 0
AlignFirst == (align_first = "always") \/ (align_first = "auto" /\ CanFixBootLoader)
FirstStart == IF AlignFirst THEN Alignment ELSE source[1].start \div SectSize

Written(area, value(_)) ==
  [b \in DOMAIN disk |-> IF b \in area THEN value(b) ELSE disk[b]]

(* Mutant: all of sector 0 is copied, with the old partition table.       *)
CopyBootLoader_Mutant ==
  /\ phase = "boot"
  /\ disk' = IF copy_boot_loader
             THEN Written((0..(Sector512 - 1))
                            \cup LoaderStart..(LoaderStart + MaxBootLoader - 1),
                          LAMBDA b : BootLoader)
             ELSE disk
  /\ start' = FirstStart
  /\ phase' = "layout"
  /\ UNCHANGED <<input, plan, attempts, k, target, added>>

(* The boot code in sector 0, then what follows the partition table:       *)
(* "Don't disturb the partition table that we just wrote."                 *)
CopyBootLoader ==
  /\ phase = "boot"
  /\ copy_boot_loader => LoaderStart + MaxBootLoader <= insize
  /\ disk' = IF copy_boot_loader
             THEN Written((0..(BootSector - 1))
                            \cup LoaderStart..(LoaderStart + MaxBootLoader - 1),
                          LAMBDA b : BootLoader)
             ELSE disk
  /\ start' = FirstStart
  /\ phase' = "layout"
  /\ UNCHANGED <<input, plan, attempts, k, target, added>>

(* The source disk is big enough for a boot loader, but not for one that   *)
(* starts at LoaderStart: "pread-device: short read".                      *)
LoaderCutOff == copy_boot_loader /\ insize < LoaderStart + MaxBootLoader

BootLoaderIsShort ==
  /\ phase = "boot"
  /\ LoaderCutOff
  /\ disk' = Written(0..(BootSector - 1), LAMBDA b : BootLoader)
  /\ phase' = "refused"
  /\ UNCHANGED <<input, plan, attempts, layout>>

(* Int64.div rounds towards zero, which shows in a size below nothing; the *)
(* mask of roundup64 rounds down.                                          *)
DivRoundUp(n, d) ==                                        \* div_roundup64
  IF n + d - 1 >= 0 THEN (n + d - 1) \div d ELSE -((1 - n - d) \div d)
RoundUp(n, d) == ((n + d - 1) \div d) * d                  \* roundup64

SizeInSectors(p) == DivRoundUp(NewSize(p), SectSize)
NextStart(p) == RoundUp(start + SizeInSectors(p), Alignment)

SkipDeleted ==
  /\ phase = "layout" /\ k <= Len(source)
  /\ op[k].kind = "delete"
  /\ k' = k + 1
  /\ UNCHANGED <<input, phase, plan, attempts, start, target, added, disk>>

(* part_add counts a negative end from the end of the disk.                *)
PartEnd(last) == IF last < 0 THEN Sectors + last ELSE last

(* A partition of the same size ends where its data does, a resized one    *)
(* where the next one starts.                                              *)
PlacePartition ==
  /\ phase = "layout" /\ k <= Len(source)
  /\ op[k].kind # "delete"
  /\ target' = Append(target,
       [source |-> k, first |-> start,
        last |-> PartEnd(IF op[k].kind = "resize" THEN NextStart(k) - 1
                         ELSE start + SizeInSectors(k) - 1)])
  /\ start' = NextStart(k)
  /\ k' = k + 1
  /\ UNCHANGED <<input, phase, plan, attempts, added, disk>>

(* "Create the surplus partition if there is room for it."  Its end is     *)
(* -64.                                                                    *)
EndLayout ==
  /\ phase = "layout" /\ k > Len(source)
  /\ target' = IF extra_partition /\ surplus >= MinExtra
               THEN Append(target, [source |-> 0, first |-> start,
                                    last |-> PartEnd(-GptSects)])
               ELSE target
  /\ phase' = "add"
  /\ k' = 1
  /\ UNCHANGED <<input, plan, attempts, start, added, disk>>

(* What part_add accepts as partition j.                                   *)
Acceptable(j) ==
  /\ j <= MaxPrimary
  /\ target[j].first <= target[j].last
  /\ SectSize * target[j].first >= TableBytes
  /\ target[j].last < Sectors - BackupSects
  /\ \A i \in 1..(j - 1) :
       target[i].last < target[j].first \/ target[j].last < target[i].first

AddPartition ==
  /\ phase = "add" /\ added < Len(target)
  /\ IF Acceptable(added + 1)
     THEN added' = added + 1 /\ UNCHANGED phase
     ELSE phase' = "refused" /\ UNCHANGED added
  /\ UNCHANGED <<input, plan, attempts, k, start, target, disk>>

EndAdding ==
  /\ phase = "add" /\ added = Len(target)
  /\ phase' = "copy"
  /\ UNCHANGED <<input, plan, attempts, layout, disk>>

-----------------------------------------------------------------------------
(* copy_partition                                                          *)

CopySize(p) == IF NewSize(p) < source[p].size THEN NewSize(p) ELSE source[p].size

(* An extended partition cannot be written by its name but only at its     *)
(* offset on the disk.                                                     *)
DestOffset(t) ==
  IF source[t.source].kind = "extended" THEN t.first * Sector512
  ELSE t.first * SectSize

IsCopied(t) == t.source # 0 /\ op[t.source].kind \in {"copy", "resize"}

(* Mutant: whole sectors are copied.                                       *)
CopyPartition_Mutant ==
  /\ phase = "copy" /\ k <= Len(target)
  /\ LET t == target[k]
         size == SectSize * (CopySize(t.source) \div SectSize)
     IN disk' = IF IsCopied(t)
                THEN Written(DestOffset(t)..(DestOffset(t) + size - 1),
                             LAMBDA b : ByteOf(t.source, b - DestOffset(t)))
                ELSE disk
  /\ k' = k + 1
  /\ UNCHANGED <<input, phase, plan, attempts, start, target, added>>

CopyPartition ==
  /\ phase = "copy" /\ k <= Len(target)
  /\ LET t == target[k]
     IN /\ IsCopied(t) => CopySize(t.source) >= 0
        /\ disk' = IF IsCopied(t)
                   THEN Written(DestOffset(t)..(DestOffset(t) + CopySize(t.source) - 1),
                                LAMBDA b : ByteOf(t.source, b - DestOffset(t)))
                   ELSE disk
  /\ k' = k + 1
  /\ UNCHANGED <<input, phase, plan, attempts, start, target, added>>

(* copy_device_to_device takes no negative size.                           *)
CopyIsRefused ==
  /\ phase = "copy" /\ k <= Len(target)
  /\ IsCopied(target[k]) /\ CopySize(target[k].source) < 0
  /\ phase' = "refused"
  /\ UNCHANGED <<input, plan, attempts, layout, disk>>

EndCopying ==
  /\ phase = "copy" /\ k > Len(target)
  /\ phase' = "done"
  /\ UNCHANGED <<input, plan, attempts, layout, disk>>

(* Any other call into the appliance fails, which is not handled.          *)
CallFails ==
  /\ phase \in {"boot", "add", "copy"}
  /\ phase' = "failed"
  /\ UNCHANGED <<input, plan, attempts, layout, disk>>

-----------------------------------------------------------------------------
Next ==
  \/ CheckSource \/ NextOption
  \/ \E p \in P : IgnoreOrDelete(p) \/ ExpandOrShrink(p)
  \/ \E p \in P, newsize \in NewSizes : Resize(p, newsize)
  \/ EndOptions \/ AddUp \/ CalculateSurplus \/ FinalSurplus
  \/ PartInit \/ PartInitFails \/ CopyBootLoader \/ BootLoaderIsShort
  \/ SkipDeleted \/ PlacePartition \/ EndLayout
  \/ AddPartition \/ EndAdding \/ CopyPartition \/ CopyIsRefused \/ EndCopying
  \/ CallFails

Spec == Init /\ [][Next]_vars

-----------------------------------------------------------------------------
(* Every variable stays in its type.                                       *)
TypeOK ==
  /\ source \in Sources
  /\ insize \in InSizes
  /\ outsize \in OutSizes
  /\ align_first \in {"never", "auto", "always"}
  /\ copy_boot_loader \in BOOLEAN
  /\ extra_partition \in BOOLEAN
  /\ phase \in {"check", "ignore", "delete", "resize", "force", "measure",
                "expand", "shrink", "final", "init", "boot", "layout", "add",
                "copy", "done", "error", "refused", "failed"}
  /\ op \in [P -> Operation]
  /\ adjusted \in P \cup {0}
  /\ then \in {"expand", "shrink", "final"}
  /\ sums \in Seq(Int) /\ Len(sums) \in 1..(Len(source) + 1)
  /\ surplus \in Int
  /\ attempts \in 0..Attempts
  /\ k \in 1..(Len(source) + 2)
  /\ start \in Int
  /\ target \in Seq([source : P \cup {0}, first : Int, last : Int])
  /\ Len(target) <= Len(source) + 1
  /\ added \in 0..Len(target)
  /\ disk \in [0..(outsize - 1) -> Byte]

SizesArePositive == \A p \in P : op[p].kind # "delete" => NewSize(p) > 0

NoneNegative == \A p \in P : NewSize(p) >= 0

(* A surplus that is not negative is enough: however the sizes and the     *)
(* first start are aligned, whichever partitions are deleted or resized,   *)
(* the target partitions are in order, do not overlap, and leave the last  *)
(* GptSects - 1 sectors of the disk free.                                  *)
InOrder == \A i, j \in 1..Len(target) : i < j => target[i].last < target[j].first
OnDisk ==
  \A j \in 1..Len(target) :
    /\ FirstStart <= target[j].first
    /\ target[j].first <= target[j].last
    /\ target[j].last <= Sectors - GptSects
PartitionsFit ==
  (phase \in {"add", "copy", "done"} /\ SizesArePositive) => InOrder /\ OnDisk

(* What has to be on the target: the content, or everything if it is not   *)
(* known, but no more than a forced size leaves room for.  Swap space is   *)
(* made anew.                                                              *)
Needed(p) ==
  LET content == CASE source[p].kind = "content" -> source[p].content
                   [] source[p].kind = "swap" -> 0
                   [] OTHER -> source[p].size
  IN IF op[p].kind = "resize" /\ op[p].force /\ op[p].size < content
     THEN op[p].size ELSE content

(* In the end every partition that is neither ignored nor deleted has its  *)
(* content at the place where the target partition table says it is:       *)
(* nothing is cut off, and neither the boot loader nor another partition   *)
(* was written over it.                                                    *)
ContentPreserved ==
  phase = "done" => \A p \in P : op[p].kind \in {"copy", "resize"} =>
    \E j \in 1..Len(target) :
      /\ target[j].source = p
      /\ Needed(p) <= SectSize * (target[j].last - target[j].first + 1)
      /\ \A offset \in 0..(Needed(p) - 1) :
           disk[SectSize * target[j].first + offset] = ByteOf(p, offset)

(* The partition tables at both ends of the target disk survive the copy   *)
(* of the boot loader and of the partitions.  A size below nothing, which  *)
(* only swap space can be given and which is refused in the end, is left   *)
(* out: the surplus then says nothing of where the disk ends.              *)
TableIntact ==
  /\ phase \in {"boot", "layout", "add", "copy", "done"}
  /\ NoneNegative
  => \A b \in TableArea : disk[b] = Table

(* Swap space may be shrunk to any size, and --shrink takes from it all    *)
(* that is missing on the target disk.                                     *)
SwapShrunkAway ==
  adjusted # 0 /\ source[adjusted].kind = "swap" /\ NewSize(adjusted) <= 0
NoSlotForExtra == extra_partition /\ Len(target) > MaxPrimary

(* A request that cannot be met is turned down before the target disk is   *)
(* written, with three exceptions that nothing checks in time: swap space  *)
(* is shrunk to nothing, the partition table has no slot left for the      *)
(* extra partition, the source disk ends within the boot loader.           *)
NothingRefusedLate ==
  phase = "refused" => SwapShrunkAway \/ NoSlotForExtra \/ LoaderCutOff

(* --expand uses up exactly the space that is left over, --shrink frees    *)
(* exactly what is missing: calculated again, the surplus is zero.         *)
AdjustedExactly ==
  (adjusted # 0 /\ phase \in {"final", "init", "boot", "layout", "add", "copy", "done"})
    => surplus = 0
=============================================================================
