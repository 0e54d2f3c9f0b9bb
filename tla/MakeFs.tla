------------------------------- MODULE MakeFs -------------------------------
(***************************************************************************)
(* virt-make-fs (make-fs/make-fs.c): makes a disk image with a filesystem  *)
(* and the files of a directory or a tar file in it.  Directories and      *)
(* compressed tar files are read through a pipe from a subprocess, once to *)
(* learn how large they are (only the latter) and once to upload them.     *)
(* The subprocess, the kernel, and libguestfs are external.  Sizes are in  *)
(* KiB.                                                                    *)
(***************************************************************************)
EXTENDS Integers, Sequences

CONSTANTS Contents,     \* numbers of chunks the input may have
          ChunkSize,    \* size of one of them
          PipeSize,     \* chunks that a pipe holds
          CommandLines  \* sequences of options that are tried

None == "none"
Types == {"ext2", "ext4", "vfat", "ntfs", "btrfs", "xfs"}

\* The argument of --size; +0 is the same as no --size.
Size == [plus : BOOLEAN, kib : Nat]
NoSize == [plus |-> TRUE, kib |-> 0]
FloppySize == [plus |-> FALSE, kib |-> 1440]

\* An option and its argument, "" if it has none; other block sizes than these are
\* refused by guestfs_add_drive.
FlagArg == [name : {"floppy", "other"}, value : {""}]
PartitionArg == [name : {"partition"}, value : {"", "mbr", "gpt"}]
TypeArg == [name : {"type"}, value : Types]
SizeArg == [name : {"size"}, value : Size]
BlocksizeArg == [name : {"blocksize"}, value : {512, 4096}]
Arg == FlagArg \cup PartitionArg \cup TypeArg \cup SizeArg \cup BlocksizeArg

ASSUME SizesAssumption ==
  Contents \subseteq Nat /\ ChunkSize \in Nat \ {0} /\ PipeSize \in Nat \ {0}
ASSUME CommandLinesAssumption == CommandLines \subseteq Seq(Arg)

\* Later options override earlier ones; --floppy stands for three of them.
HandleOption(o, arg) ==
  CASE arg.name = "floppy" -> [o EXCEPT !.size = FloppySize,
                                        !.partition = "mbr", !.type = "vfat"]
    [] arg.name = "partition" ->
         [o EXCEPT !.partition = IF arg.value = "" THEN "mbr" ELSE arg.value]
    [] arg.name = "type" -> [o EXCEPT !.type = arg.value]
    [] arg.name = "size" -> [o EXCEPT !.size = arg.value]
    [] arg.name = "blocksize" -> [o EXCEPT !.blocksize = arg.value]
    [] OTHER -> [o EXCEPT !.bad = TRUE]

Defaults == [size |-> NoSize, partition |-> None, type |-> "ext2", blocksize |-> 0,
             bad |-> FALSE]

VARIABLES args,     \* the options that getopt_long has yet to return
          opt,      \* what main has made of the others
          input,    \* kind of the input: directory, plain or compressed tar file
          content,  \* chunks in it
          at,       \* position in do_make_fs
          tmpfile,  \* whether the temporary file of estimate_input exists
          counted,  \* bytes of the input, as estimated
          capacity, \* size of the output disk
          out,      \* the output file: absent, an old one, or this program's
          disk,     \* what is on it
          child,    \* the subprocess
          pipe,     \* chunks in the pipe, and who has its ends open
          exit      \* exit status, -1 while the program runs, 2 when it was killed

given == <<args, opt, input, content>>
vars == <<given, at, tmpfile, counted, capacity, out, disk, child, pipe, exit>>

Process == {"parent", "child"}
NoChild == [at |-> None, left |-> 0]
NoPipe  == [chunks |-> 0, readers |-> {}, writers |-> {}]
Blank   == [table |-> None, id |-> 0, fs |-> None, chunks |-> 0, synced |-> FALSE]

Init ==
  /\ args \in CommandLines
  /\ opt = Defaults
  /\ input \in {"directory", "tar", "compressed", "unknown compression", "other"}
  /\ content \in Contents
  /\ at = "options"
  /\ tmpfile = FALSE
  /\ counted = 0 /\ capacity = 0
  /\ out \in {"absent", "old"}
  /\ disk = Blank
  /\ child = NoChild /\ pipe = NoPipe
  /\ exit = -1

At(place) == exit = -1 /\ at = place
Compressed == input = "compressed"

\* The kernel closes the files of a process that ends.
Closed(process) == [pipe EXCEPT !.readers = @ \ {process}, !.writers = @ \ {process}]

\* Every return of -1: the output is unlinked, whoever made it, and so is the
\* temporary file while estimate_input runs.
ReturnFailure ==
  /\ exit' = 1
  /\ out' = "absent" /\ tmpfile' = FALSE
  /\ pipe' = Closed("parent")
  /\ UNCHANGED <<given, at, counted, capacity, disk, child>>

-----------------------------------------------------------------------------
(* main, and estimate_input.                                                 *)

\* One round of the loop around getopt_long; an option that is refused ends the program.
GetOpt ==
  /\ At("options") /\ args # << >> /\ ~opt.bad
  /\ opt' = HandleOption(opt, Head(args))
  /\ args' = Tail(args)
  /\ UNCHANGED <<input, content, at, tmpfile, counted, capacity, out, disk, child,
                 pipe, exit>>

Refuse ==
  /\ At("options") /\ opt.bad
  /\ exit' = 1
  /\ UNCHANGED <<given, at, tmpfile, counted, capacity, out, disk, child, pipe>>

Accept ==
  /\ At("options") /\ args = << >> /\ ~opt.bad
  /\ at' = "estimate"
  /\ UNCHANGED <<given, tmpfile, counted, capacity, out, disk, child, pipe, exit>>

MakeTmpfile ==
  /\ At("estimate") /\ ~tmpfile
  /\ tmpfile' = TRUE
  /\ UNCHANGED <<given, at, counted, capacity, out, disk, child, pipe, exit>>

\* du or file write into the temporary file and are waited for.
Identify ==
  /\ At("estimate") /\ tmpfile
  /\ input \notin {"unknown compression", "other"}
  /\ IF Compressed THEN at' = "fork" /\ UNCHANGED <<counted, tmpfile>>
                   ELSE /\ counted' = content * ChunkSize
                        /\ at' = "size" /\ tmpfile' = FALSE
  /\ UNCHANGED <<given, capacity, out, disk, child, pipe, exit>>

NotIdentified ==
  /\ At("estimate") /\ tmpfile
  /\ input \in {"unknown compression", "other"}
  /\ ReturnFailure

-----------------------------------------------------------------------------
(* The subprocess: exec_command_count_output when the input is counted,      *)
(* bg_command when it is uploaded.                                           *)

Forked(chunks) ==
  /\ child' = [at |-> "forked", left |-> chunks]
  /\ pipe' = [chunks |-> 0, readers |-> {"parent", "child"}, writers |-> {"parent", "child"}]

ForkToCount ==
  /\ At("fork")
  /\ Forked(content)
  /\ at' = "counting"
  /\ UNCHANGED <<given, tmpfile, counted, capacity, out, disk, exit>>

ParentCloses_Mutant ==
  /\ At("counting") /\ "parent" \in pipe.writers
  /\ pipe' = [pipe EXCEPT !.writers = @ \ {"parent"}]
  /\ UNCHANGED <<given, at, tmpfile, counted, capacity, out, disk, child, exit>>

\* The parent keeps the read end only.
ParentCloses ==
  /\ exit = -1 /\ "parent" \in pipe.writers
  /\ pipe' = [pipe EXCEPT !.writers = @ \ {"parent"}]
  /\ UNCHANGED <<given, at, tmpfile, counted, capacity, out, disk, child, exit>>

\* The child keeps the write end only, as its standard output.
ChildStarts ==
  /\ child.at = "forked"
  /\ pipe' = [pipe EXCEPT !.readers = @ \ {"child"}]
  /\ child' = [child EXCEPT !.at = "writing"]
  /\ UNCHANGED <<given, at, tmpfile, counted, capacity, out, disk, exit>>

ChildWrites ==
  /\ child.at = "writing" /\ child.left > 0
  /\ pipe.chunks < PipeSize /\ pipe.readers # {}
  /\ pipe' = [pipe EXCEPT !.chunks = @ + 1]
  /\ child' = [child EXCEPT !.left = @ - 1]
  /\ UNCHANGED <<given, at, tmpfile, counted, capacity, out, disk, exit>>

ChildEnds(how) ==
  /\ child' = [child EXCEPT !.at = how]
  /\ pipe' = Closed("child")
  /\ UNCHANGED <<given, at, tmpfile, counted, capacity, out, disk, exit>>

ChildSucceeds == child.at = "writing" /\ child.left = 0 /\ ChildEnds("succeeded")

\* It may fail at any time: a damaged file, or one that went away.
ChildFails == child.at \in {"forked", "writing"} /\ ChildEnds("failed")

\* SIGPIPE.
ChildIsKilled ==
  /\ child.at = "writing" /\ child.left > 0 /\ pipe.readers = {}
  /\ ChildEnds("failed")

AtEOF == pipe.chunks = 0 /\ pipe.writers = {}

Count ==
  /\ At("counting") /\ "parent" \notin pipe.writers /\ pipe.chunks > 0
  /\ pipe' = [pipe EXCEPT !.chunks = @ - 1]
  /\ counted' = counted + ChunkSize
  /\ UNCHANGED <<given, at, tmpfile, capacity, out, disk, child, exit>>

\* read returns 0, the pipe is closed, and the child is waited for.
EndCount ==
  /\ At("counting") /\ "parent" \notin pipe.writers /\ AtEOF
  /\ pipe' = NoPipe
  /\ at' = "count status"
  /\ UNCHANGED <<given, tmpfile, counted, capacity, out, disk, child, exit>>

EndEstimate(succeeded) ==
  /\ At("count status") /\ child.at \in succeeded
  /\ child' = NoChild
  /\ at' = "size" /\ tmpfile' = FALSE
  /\ UNCHANGED <<given, counted, capacity, out, disk, pipe, exit>>

CheckCountStatus_Mutant == EndEstimate({"succeeded", "failed"})
CheckCountStatus == EndEstimate({"succeeded"})

BadStatus ==
  /\ exit = -1 /\ at \in {"count status", "upload status"}
  /\ child.at = "failed"
  /\ ReturnFailure

-----------------------------------------------------------------------------
(* do_make_fs: the disk.                                                     *)

\* Room for the journal or for the least that the filesystem works with.
Journal ==
  CASE opt.type = "ext4" -> IF opt.blocksize = 512 THEN 1024 ELSE 4096
    [] opt.type = "ntfs" -> 4096
    [] opt.type = "btrfs" -> 262144
    [] opt.type = "xfs" -> 16384
    [] OTHER -> 0

Estimate ==
  ((counted + (IF opt.partition = None THEN 0 ELSE (2 * 128 * opt.blocksize) \div 1024)
      + 256 + Journal) * 11) \div 10

DiskCreate ==
  /\ At("size")
  /\ capacity' = IF opt.size.plus THEN Estimate + opt.size.kib ELSE opt.size.kib
  /\ out' = "new"
  /\ disk' = Blank
  /\ at' = "partition"
  /\ UNCHANGED <<given, tmpfile, counted, child, pipe, exit>>

MbrId == CASE opt.partition # "mbr" -> 0
           [] opt.partition = "mbr" /\ opt.type = "vfat" -> 11
           [] opt.partition = "mbr" /\ opt.type = "ntfs" -> 7
           [] opt.partition = "mbr" /\ opt.type \in {"ext2", "ext4"} -> 131
           [] OTHER -> 0

\* add_drive, launch, check_ntfs_available, part_disk and part_set_mbr_id.
PartDisk ==
  /\ At("partition")
  /\ disk' = [disk EXCEPT !.table = opt.partition, !.id = MbrId]
  /\ at' = "mkfs"
  /\ UNCHANGED <<given, tmpfile, counted, capacity, out, child, pipe, exit>>

\* mkfs or mkfs_btrfs, and mount_options.
Mkfs ==
  /\ At("mkfs")
  /\ disk' = [disk EXCEPT !.fs = opt.type]
  /\ at' = "prepare"
  /\ UNCHANGED <<given, tmpfile, counted, capacity, out, child, pipe, exit>>

-----------------------------------------------------------------------------
(* do_make_fs: the upload.                                                   *)

\* Files are written to the input while the appliance is started.
InputChanges ==
  /\ At("mkfs")
  /\ content' \in Contents \ {content}
  /\ UNCHANGED <<args, opt, input, at, tmpfile, counted, capacity, out, disk, child, pipe,
                 exit>>

PrepareInput ==
  /\ At("prepare")
  /\ at' = "upload"
  /\ IF input = "tar" THEN UNCHANGED <<child, pipe>> ELSE Forked(content)
  /\ UNCHANGED <<given, tmpfile, counted, capacity, out, disk, exit>>

\* The whole file is there, or the pipe is at its end.  How much of the disk the files
\* take is not known (make-fs.c 388-394, 529-532): tar_in may find it full at any chunk,
\* which is one way for CallFails to happen.
Received == IF input = "tar" THEN disk.chunks = content
            ELSE "parent" \notin pipe.writers /\ AtEOF
MayReceive == IF input = "tar" THEN disk.chunks < content
              ELSE "parent" \notin pipe.writers /\ pipe.chunks > 0

TarIn ==
  /\ At("upload") /\ MayReceive
  /\ disk' = [disk EXCEPT !.chunks = @ + 1]
  /\ pipe' = IF input = "tar" THEN pipe ELSE [pipe EXCEPT !.chunks = @ - 1]
  /\ UNCHANGED <<given, at, tmpfile, counted, capacity, out, child, exit>>

EndUpload ==
  /\ At("upload") /\ Received
  /\ at' = IF input = "tar" THEN "shutdown" ELSE "upload status"
  /\ UNCHANGED <<given, tmpfile, counted, capacity, out, disk, child, pipe, exit>>

EndWait(succeeded) ==
  /\ At("upload status") /\ child.at \in succeeded
  /\ child' = NoChild
  /\ pipe' = NoPipe
  /\ at' = "shutdown"
  /\ UNCHANGED <<given, tmpfile, counted, capacity, out, disk, exit>>

CheckUploadStatus_Mutant == EndWait({"succeeded", "failed"})
CheckUploadStatus == EndWait({"succeeded"})

\* shutdown; the output is now kept.
Shutdown ==
  /\ At("shutdown")
  /\ disk' = [disk EXCEPT !.synced = TRUE]
  /\ exit' = 0
  /\ UNCHANGED <<given, at, tmpfile, counted, capacity, out, child, pipe>>

\* Any call in do_make_fs may fail, other than the closing of files.
CallFails ==
  /\ exit = -1 /\ at \notin {"options", "count status", "upload status"}
  /\ ReturnFailure

\* A signal: nothing is cleaned up.
Kill ==
  /\ exit = -1
  /\ exit' = 2
  /\ pipe' = Closed("parent")
  /\ UNCHANGED <<given, at, tmpfile, counted, capacity, out, disk, child>>

Program ==
  \/ GetOpt \/ Refuse \/ Accept \/ MakeTmpfile \/ Identify \/ NotIdentified
  \/ ForkToCount \/ ParentCloses \/ Count \/ EndCount \/ CheckCountStatus \/ BadStatus
  \/ DiskCreate \/ PartDisk \/ Mkfs \/ PrepareInput
  \/ TarIn \/ EndUpload \/ CheckUploadStatus \/ Shutdown

Child == ChildStarts \/ ChildWrites \/ ChildSucceeds \/ ChildIsKilled

Next == Program \/ Child \/ CallFails \/ ChildFails \/ InputChanges \/ Kill

\* Both processes run as long as they can; nothing has to fail.
Spec == Init /\ [][Next]_vars /\ WF_vars(Program) /\ WF_vars(Child)

-----------------------------------------------------------------------------
(* Properties.                                                               *)

\* A successful exit leaves the whole input on the disk that was asked for; after a
\* failure there is neither an output nor a temporary file, so nobody takes a
\* partial image for a good one (make-fs.c 667-674, 883-889).
OutputIsCompleteOrGone ==
  /\ exit = 0 => /\ out = "new" /\ ~tmpfile
                 /\ disk = [table |-> opt.partition, id |-> MbrId, fs |-> opt.type,
                            chunks |-> content, synced |-> TRUE]
  /\ exit = 1 /\ at # "options" => out = "absent" /\ ~tmpfile

\* The disk is never sized from a part of the input: a subprocess that dies half-way
\* through the first pass looks at the pipe like one that is done, and the output would
\* be too small for the second pass (make-fs.c 320-341, 687-726).
SizedFromTheWholeInput ==
  at = "partition" => /\ counted = content * ChunkSize
                      /\ opt.size.plus => capacity >= content * ChunkSize + opt.size.kib

\* The program and its subprocess end, whichever of them fails first and whoever
\* waits for the other at a full or an empty pipe (make-fs.c 287-381, 858).
BothEnd == <>[](exit # -1 /\ child.at \notin {"forked", "writing"})
=============================================================================
