----------------------- MODULE ResizeLayoutInvariant -----------------------
(***************************************************************************)
(* The inductive invariant of ResizeLayout, in named parts.  TLC checks it *)
(* on a small instance, DisksProofs proves it.                             *)
(***************************************************************************)
EXTENDS ResizeLayout

Writing == {"init", "boot", "layout", "add", "copy", "done"}

(* sums[i] is what the partitions before i require, with the operations    *)
(* that they have now: whoever changes one starts again.                   *)
SumsInv ==
  /\ sums[1] = 0
  /\ \A i \in 1..(Len(sums) - 1) : sums[i + 1] = sums[i] + NewSize(i)
  /\ phase \in {"check", "ignore", "delete", "resize", "force"} => Len(sums) = 1

(* The surplus is the one of the complete sum.                             *)
SurplusInv ==
  /\ phase \in {"expand", "shrink", "final"} \cup Writing =>
       /\ Len(sums) = Len(source) + 1
       /\ surplus = outsize - (sums[Len(source) + 1] + Overhead)
  /\ phase \in Writing => surplus >= 0

(* How far the loops have got.                                             *)
LoopInv ==
  /\ phase \in {"check", "ignore", "delete", "resize", "force", "measure",
                "expand", "shrink", "final", "init", "boot"}
       => k = 1 /\ target = << >>
  /\ phase = "layout" => k <= Len(source) + 1 /\ Len(target) < k /\ added = 0
  /\ phase = "add" => k = 1
  /\ phase = "copy" => k <= Len(target) + 1
  /\ phase \in {"add", "copy", "done"} /\ Len(target) > Len(source) => extra_partition

(* While the partitions are laid out: they lie one after the other before  *)
(* the next start, which the sizes so far and one alignment for each       *)
(* partition bound.                                                        *)
PlacedInv ==
  (phase = "layout" /\ SizesArePositive) =>
    /\ InOrder
    /\ \A j \in 1..Len(target) :
         /\ FirstStart <= target[j].first
         /\ target[j].first <= target[j].last
         /\ target[j].last < start
    /\ FirstStart <= start
    /\ SectSize * start
         <= SectSize * FirstStart + sums[k] + SectSize * Alignment * (k - 1)

IInv == TypeOK /\ SumsInv /\ SurplusInv /\ LoopInv /\ PlacedInv /\ PartitionsFit

-----------------------------------------------------------------------------
(* What the content of the target disk rests on.                           *)

(* The partition table fits before the boot loader and the first partition *)
(* and its backup after the last one, it can hold the partitions of the    *)
(* source, and a partition that is addressed in sectors of 512 bytes is on *)
(* a disk that has them.  A GPT in sectors of 4096 bytes is larger than    *)
(* LoaderStart.                                                            *)
Geometry ==
  /\ Sector512 <= SectSize /\ BackupSects < GptSects
  /\ BootSector <= TableBytes /\ TableBytes <= LoaderStart
  /\ TableBytes <= SectSize * Alignment
  /\ LoaderStart + Sector512 <= SectSize * (2 * Alignment + GptSects - BackupSects)
  /\ \A s \in Sources :
       /\ Len(s) <= MaxPrimary
       /\ TableBytes <= SectSize * (s[1].start \div SectSize)
       /\ \A p \in DOMAIN s : s[p].kind = "extended" => SectSize = Sector512

(* No partition is empty, nor is its content.                              *)
SizedSources ==
  \A s \in Sources : \A p \in DOMAIN s :
    /\ s[p].size > 0
    /\ s[p].kind = "content" => s[p].content > 0

(* Content fits in its partition, and in the new size unless it is forced. *)
MarkInv == \A p \in P :
  /\ phase \notin {"check", "error"} /\ source[p].kind = "content" =>
       source[p].content <= source[p].size
  /\ op[p].kind = "resize" /\ ~op[p].force =>
       op[p].size >= source[p].size \/ Shrinkable(p, op[p].size)

SumsPositive == NoneNegative => \A i \in 1..Len(sums) : sums[i] >= 0

(* What will be copied fits in the target partition.                       *)
FilledInv ==
  \A j \in 1..Len(target) : target[j].source # 0 =>
    CopySize(target[j].source) <= SectSize * (target[j].last - target[j].first + 1)

(* Every partition up to k that is not deleted has a target partition.     *)
EachPlacedInv ==
  phase \in {"layout", "add", "copy", "done"} => \A p \in P :
    (phase = "layout" => p < k) /\ op[p].kind # "delete" =>
      \E j \in 1..Len(target) : target[j].source = p

(* The partition table holds what part_add has accepted.                   *)
AcceptedInv ==
  /\ phase \in {"add", "copy", "done"} => \A j \in 1..added : Acceptable(j)
  /\ phase \in {"copy", "done"} => added = Len(target)

(* What has been copied is still there.                                    *)
Copied(t) ==
  \A offset \in 0..(CopySize(t.source) - 1) :
    disk[SectSize * t.first + offset] = ByteOf(t.source, offset)
CopiedInv ==
  phase \in {"copy", "done"} =>
    \A j \in 1..Len(target) :
      (phase = "copy" => j < k) /\ IsCopied(target[j]) => Copied(target[j])

DiskInv ==
  /\ MarkInv /\ SumsPositive /\ FilledInv /\ EachPlacedInv /\ AcceptedInv
  /\ CopiedInv /\ TableIntact

(* Only swap space can be left with nothing, and only by --shrink.         *)
SwapInv == \A p \in P : op[p].kind # "delete" /\ NewSize(p) <= 0 =>
  p = adjusted /\ source[p].kind = "swap"
=============================================================================
