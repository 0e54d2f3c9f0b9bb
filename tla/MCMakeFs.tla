------------------------------ MODULE MCMakeFs ------------------------------
(* Up to three chunks of 1000 KiB through a pipe that holds one.  Each       *)
(* filesystem, with and without a partition, and options that override each  *)
(* other, with a --size of each kind.                                        *)
EXTENDS MakeFs

A(name, value) == [name |-> name, value |-> value]
Partitions == {<<>>} \cup {<<A("partition", p)>> : p \in {"", "gpt"}}
MCContents == {0, 1, 3}
MCCommandLines ==
  {<<A("type", t)>> \o p : t \in Types, p \in Partitions} \cup
  {<<A("type", "xfs"), A("floppy", "")>>, <<A("floppy", ""), A("type", "ntfs")>>,
   <<A("partition", "gpt"), A("floppy", ""), A("size", [plus |-> TRUE, kib |-> 200])>>,
   <<A("size", [plus |-> FALSE, kib |-> 1500]), A("partition", "")>>,
   <<A("blocksize", 512), A("type", "ext4"), A("partition", "")>>,
   <<A("blocksize", 4096), A("type", "ext4"), A("partition", "gpt")>>,
   <<A("other", "")>>}
=============================================================================
