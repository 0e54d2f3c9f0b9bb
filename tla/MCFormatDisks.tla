---------------------------- MODULE MCFormatDisks ----------------------------
(* One disk or two, one of them perhaps large; every partition type, the     *)
(* filesystems that differ in their type byte, with LVM and without; options *)
(* that are repeated or refused; with --wipe and without.                    *)
EXTENDS FormatDisks

A(name, values) == {<<>>} \cup {<<[name |-> name, value |-> v]>> : v \in values}
Disk1 == <<[name |-> "add", value |-> "disk"]>>
Usual ==
  {f \o p \o l \o n \o w \o d :
     f \in A("filesystem", {None, "msdos", "vfat", "ntfs", "ext4", "minix", "xfs"}),
     p \in A("partition", {None, "", "mbr", "gpt"}),
     l \in A("lvm", {"", "VG/LV", None}), n \in A("label", {"disk"}),
     w \in A("wipe", {""}),
     d \in {Disk1, Disk1 \o Disk1}}
Odd ==
  {f \o l \o k \o d :
     f \in A("filesystem", {"--lvm", "ext4"}), l \in A("lvm", {"", "VG", None}),
     k \in A("lvm", {"VG/LV", None}), d \in {<<>>, Disk1}}
MCCommandLines == [args : Usual \cup Odd \cup {<<[name |-> "other", value |-> ""]>>},
                   large : {{}, {1}}]
=============================================================================
