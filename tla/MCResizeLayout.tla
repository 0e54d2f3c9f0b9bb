--------------------------- MODULE MCResizeLayout ---------------------------
(* Instances of ResizeLayout for TLC: disks of a few sectors of 2 bytes.   *)
EXTENDS ResizeLayoutInvariant

Part(first, sectors, what, size) ==
  [start |-> first * SectSize, size |-> sectors * SectSize, kind |-> what,
   content |-> size, bootable_ntfs |-> FALSE]

Boot == [Part(3, 2, "content", 3) EXCEPT !.bootable_ntfs = TRUE]

(* One bootable NTFS partition that is not aligned, alone and not; a first *)
(* partition that is aligned and one that is not; one of each kind, with   *)
(* swap space alone, before and after another; a partition that ends where *)
(* a boot loader may not; and a partition table that overlaps itself.      *)
MCSources ==
  {<<Boot>>,
   <<Boot, Part(5, 1, "unknown", 0)>>,
   <<Part(2, 2, "content", 2), Part(5, 2, "content", 3)>>,
   <<Part(3, 1, "extended", 0), Part(4, 3, "content", 5)>>,
   <<Part(3, 2, "swap", 0)>>,
   <<Part(3, 2, "swap", 0), Part(5, 1, "content", 2)>>,
   <<Part(2, 2, "content", 2), Part(4, 2, "swap", 0)>>,
   <<[Part(1, 1, "unknown", 0) EXCEPT !.size = 1]>>,
   <<Part(2, 3, "content", 1), Part(4, 1, "unknown", 0)>>}

MCInSizes == {3, 5, 16}
MCOutSizes == {16, 24, 29, 35}
MCNewSizes == {0, 1, 3, 7}

(* What the theorems about the target disk assume holds of these disks.    *)
ASSUME InstanceAssumption == Geometry /\ SizedSources
=============================================================================
