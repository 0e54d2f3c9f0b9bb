------------------------- MODULE MCFilesystemsReport -------------------------
(* Guests with labels and names that are awkward in CSV, swap, a btrfs       *)
(* subvolume, a RAID, two volume groups, and tables of both kinds; every     *)
(* combination of a few options.                                             *)
EXTENDS FilesystemsReport

Fs(name, vfs, label) ==
  [name |-> <<name>>, vfs |-> <<vfs>>, label |-> label,
   uuid |-> <<"uuid of", name>>, version |-> <<vfs, "version">>,
   size |-> <<"100">>, subvolume |-> FALSE, mounts |-> TRUE, md |-> <<>>]
Part(name, device, table, id) ==
  [name |-> <<name>>, device |-> <<device>>, table |-> table, id |-> <<id>>, size |-> <<"100">>]
Dev(name) == [name |-> <<name>>, size |-> <<"1000">>, md |-> <<>>]
Pv(name, uuid) == [name |-> <<name>>, uuid |-> uuid, size |-> <<"90">>]
Vg(name, uuids) == [name |-> <<name>>, uuids |-> uuids, size |-> <<"80">>, uuid |-> <<"u">>]
Lv(vg, name) == [vg |-> <<vg>>, name |-> name, size |-> <<"70">>, uuid |-> <<"v">>]

Empty == [filesystem |-> <<>>, lv |-> <<>>, vg |-> <<>>, pv |-> <<>>, partition |-> <<>>,
          device |-> <<>>]
Plain ==
  [Empty EXCEPT
     !.filesystem = <<Fs("/dev/sda1", "swap", <<>>), Fs("/dev/sda2", "ntfs", <<"my", "space", "disk">>),
                      [Fs("/dev/sdb", "btrfs", <<>>) EXCEPT !.subvolume = TRUE]>>,
     !.partition = <<Part("/dev/sda1", "/dev/sda", "msdos", "82"),
                     Part("/dev/sda2", "/dev/sda", "msdos", "07")>>,
     !.device = <<Dev("/dev/sda"), Dev("/dev/sdb")>>]
Raid ==
  [Empty EXCEPT
     !.filesystem = <<[Fs("/dev/md0", "ext4", <<"quote", "a", "comma">>) EXCEPT
                         !.md = <<<<"/dev/sda">>, <<"/dev/sdb">>>>, !.mounts = FALSE],
                      Fs("/dev/sdc1", "vfat", <<"b", "newline">>)>>,
     !.partition = <<Part("/dev/sdc1", "/dev/sdc", "gpt", "83")>>,
     !.device = <<Dev("/dev/sda"), Dev("/dev/sdb"),
                  [Dev("/dev/md0") EXCEPT !.md = <<<<"/dev/sda">>, <<"/dev/sdb">>>>]>>]
Lvm ==
  [Empty EXCEPT
     !.filesystem = <<Fs("/dev/VG/LV", "xfs", <<>>)>>,
     !.pv = <<Pv("/dev/sda1", <<"x", "y">>), Pv("/dev/sdb", <<"y", "x">>)>>,
     !.vg = <<Vg("VG", <<<<"x", "-", "y">>>>), Vg("VH", <<<<"y", "-", "x">>>>)>>,
     !.lv = <<Lv("/dev/VG", "LV"), Lv("/dev/VH", "comma")>>]

MCGuests == {Empty, Plain, Raid, Lvm}
O(names) == {<<>>} \cup {<<n>> : n \in names}
MCCommandLines ==
  {a \o k \o m \o t \o u \o <<"add">> :
     a \in O({"filesystems", "extra", "all"}), k \in O({"parts", "lvs", "vgs"}),
     m \in O({"csv"}), t \in O({"long"}), u \in O({"uuid", "no-title", "fs-version"})}
  \cup {<<"csv", "human", "add">>, <<"human", "pvs", "blkdevs", "long", "add">>, <<"csv">>,
        <<"unknown", "add">>}
=============================================================================
