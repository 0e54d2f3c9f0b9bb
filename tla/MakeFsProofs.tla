---------------------------- MODULE MakeFsProofs ----------------------------
(***************************************************************************)
(* Proofs about MakeFs, for inputs and options of any size, any pipe, and  *)
(* every interleaving of the program with its subprocess, the failures of  *)
(* both, and the programs that change the input.                           *)
(***************************************************************************)
EXTENDS MakeFs, SequenceTheorems, TLAPS

-----------------------------------------------------------------------------
(* The inductive invariant, in named parts.                                *)

Place == {"options", "estimate", "fork", "counting", "count status", "size", "partition",
          "mkfs", "prepare", "upload", "upload status", "shutdown"}

(* Where the size of the input has been estimated, the output file has     *)
(* been made, the disk has been formatted.                                 *)
Formatted == {"upload", "upload status", "shutdown"}
Created == {"partition", "mkfs", "prepare"} \cup Formatted
Sized == {"size"} \cup Created

Partition == {None, "", "mbr", "gpt"}
BlockSize == {0, 512, 4096}
Options == [size : Size, partition : Partition, type : Types, blocksize : BlockSize,
            bad : BOOLEAN]
DiskState == [table : Partition, id : Nat, fs : Types \cup {None}, chunks : Nat,
              synced : BOOLEAN]
ChildState == [at : {None, "forked", "writing", "succeeded", "failed"}, left : Nat]
PipeState == [chunks : Nat, readers : SUBSET Process, writers : SUBSET Process]

TypeOK ==
  /\ args \in Seq(Arg)
  /\ opt \in Options
  /\ content \in Nat
  /\ at \in Place
  /\ tmpfile \in BOOLEAN
  /\ counted \in Nat
  /\ capacity \in Nat
  /\ disk \in DiskState
  /\ child \in ChildState
  /\ pipe \in PipeState
  /\ exit \in {-1, 0, 1, 2}

(* While the program reads from the pipe, the subprocess is the writer as  *)
(* long as it runs, and the program waits only for one that has ended.     *)
Running == child.at \in {"forked", "writing"}
Reading == at = "counting" \/ (at = "upload" /\ input # "tar")

PipeInv == exit = -1 =>
  /\ Reading => child.at # None
  /\ Reading /\ Running => "child" \in pipe.writers
  /\ at \in {"count status", "upload status"} => child.at \in {"succeeded", "failed"}

(* A subprocess that succeeds has written everything.                      *)
SucceededInv == child.at = "succeeded" => child.left = 0

(* What is counted, in the pipe and still to be written makes up the       *)
(* input, unless the subprocess has failed.                                *)
CountedChunks(n) ==
  /\ counted = n * ChunkSize
  /\ n + pipe.chunks + child.left = content

CountInv == exit = -1 =>
  /\ at \in {"options", "estimate", "fork"} => counted = 0
  /\ at \in {"counting", "count status"} /\ child.at # "failed" =>
       \E n \in 0..content : CountedChunks(n)
  /\ at = "count status" => pipe.chunks = 0

(* The input has been counted when the disk is sized, and the disk has     *)
(* the size of the estimate and what was asked for on top of it.           *)
SizeInv ==
  /\ at \in {"size", "partition"} => counted = content * ChunkSize
  /\ at = "partition" /\ opt.size.plus => capacity = Estimate + opt.size.kib

(* What is on the disk, in the pipe and still to be written makes up the   *)
(* input, unless the subprocess has failed.                                *)
UploadInv == exit = -1 =>
  /\ at \in {"upload", "upload status"} =>
       IF input = "tar"
       THEN at = "upload" /\ disk.chunks <= content
       ELSE /\ disk.chunks + pipe.chunks + child.left <= content
            /\ child.at # "failed" => disk.chunks + pipe.chunks + child.left = content
  /\ at = "upload status" => pipe.chunks = 0

(* The files: how far the disk is.                                         *)
DiskInv ==
  /\ exit \in {-1, 0} /\ at \in Created => out = "new"
  /\ at \in Sized => ~tmpfile
  /\ at = "partition" => disk = Blank
  /\ at \in {"mkfs", "prepare"} \cup Formatted =>
       disk.table = opt.partition /\ disk.id = MbrId
  /\ at \in {"prepare"} \cup Formatted => disk.fs = opt.type
  /\ at \in {"partition", "mkfs", "prepare"} => disk.chunks = 0
  /\ exit = 0 => at = "shutdown"
  /\ at = "shutdown" => disk.chunks = content /\ disk.synced = (exit = 0)
  /\ at # "shutdown" => disk.synced = FALSE

FilesInv == exit = 1 /\ at # "options" => out = "absent" /\ ~tmpfile

IInv == TypeOK /\ PipeInv /\ SucceededInv /\ CountInv /\ SizeInv /\ UploadInv
          /\ DiskInv /\ FilesInv

-----------------------------------------------------------------------------
(* Lemmas.                                                                 *)

LEMMA OptionsSet ==
  ASSUME NEW o \in Options, NEW s \in Size, NEW p \in Partition, NEW t \in Types
  PROVE  [o EXCEPT !.size = s, !.partition = p, !.type = t] \in Options
  BY DEF Options

(* Reading an option keeps the type of what main knows.                    *)
LEMMA OptionType ==
  ASSUME NEW o \in Options, NEW arg \in Arg
  PROVE  HandleOption(o, arg) \in Options
<1>1. o \in [size : Size, partition : Partition, type : Types, blocksize : BlockSize,
             bad : BOOLEAN]
  BY DEF Options
<1>2. [o EXCEPT !.bad = TRUE] \in Options
  BY <1>1 DEF Options
<1>3. CASE arg \in FlagArg
  <2>1. FloppySize \in Size /\ "vfat" \in Types /\ "mbr" \in Partition
    BY DEF FloppySize, Size, Types, Partition
  <2>2. [o EXCEPT !.size = FloppySize, !.partition = "mbr", !.type = "vfat"] \in Options
    BY <2>1, OptionsSet
  <2>3. arg.name = "floppy" \/ arg.name = "other"
    BY <1>3 DEF FlagArg
  <2> QED
    BY <1>2, <2>2, <2>3 DEF HandleOption
<1>4. CASE arg \in PartitionArg
  <2>1. arg.name = "partition" /\ (IF arg.value = "" THEN "mbr" ELSE arg.value) \in Partition
    BY <1>4 DEF PartitionArg, Partition
  <2>2. HandleOption(o, arg)
          = [o EXCEPT !.partition = IF arg.value = "" THEN "mbr" ELSE arg.value]
    BY <2>1 DEF HandleOption
  <2> QED
    BY <1>1, <2>1, <2>2 DEF Options
<1>5. CASE arg \in TypeArg
  BY <1>1, <1>5 DEF HandleOption, Options, TypeArg
<1>6. CASE arg \in SizeArg
  BY <1>1, <1>6 DEF HandleOption, Options, SizeArg
<1>7. CASE arg \in BlocksizeArg
  <2>1. arg.name = "blocksize" /\ arg.value \in BlockSize
    BY <1>7 DEF BlockSize, BlocksizeArg
  <2> QED
    BY <1>1, <2>1 DEF HandleOption, Options
<1> QED
  BY <1>3, <1>4, <1>5, <1>6, <1>7 DEF Arg

LEMMA Numbers ==
  ASSUME TypeOK
  PROVE  /\ content \in Nat /\ counted \in Nat /\ capacity \in Nat
         /\ disk.chunks \in Nat /\ child.left \in Nat /\ pipe.chunks \in Nat
         /\ ChunkSize \in Nat \ {0} /\ PipeSize \in Nat \ {0}
         /\ opt.blocksize \in {0, 512, 4096} /\ opt.size.kib \in Nat
         /\ Journal \in Nat /\ MbrId \in Nat
<1>1. opt \in Options /\ opt.size \in Size
  BY DEF TypeOK, Options
<1>2. opt.blocksize \in {0, 512, 4096} /\ opt.size.kib \in Nat
  BY <1>1 DEF Options, Size, BlockSize
<1>3. Journal \in Nat /\ MbrId \in Nat
  BY DEF Journal, MbrId
<1>4. disk.chunks \in Nat /\ child.left \in Nat /\ pipe.chunks \in Nat
  BY DEF TypeOK, DiskState, ChildState, PipeState
<1> QED
  BY <1>2, <1>3, <1>4, SizesAssumption DEF TypeOK

LEMMA NextChunk ==
  ASSUME NEW n \in Nat
  PROVE  (n + 1) * ChunkSize = n * ChunkSize + ChunkSize /\ 0 * ChunkSize = 0
  BY SizesAssumption

LEMMA TenPercentMore ==
  ASSUME NEW c \in Nat, NEW t \in Nat, NEW j \in Nat
  PROVE  /\ ((c + t + 256 + j) * 11) \div 10 \in Nat
         /\ ((c + t + 256 + j) * 11) \div 10 >= c + t + 256 + j
  OBVIOUS

(* The estimate is more than what was counted.                             *)
LEMMA EstimateCovers ==
  ASSUME TypeOK
  PROVE  Estimate \in Nat /\ Estimate >= counted
<1>1. counted \in Nat /\ Journal \in Nat /\ opt.blocksize \in {0, 512, 4096}
  BY Numbers
<1>2. PICK table \in Nat :
        table = IF opt.partition = None THEN 0 ELSE (2 * 128 * opt.blocksize) \div 1024
  BY <1>1
<1>3. Estimate = ((counted + table + 256 + Journal) * 11) \div 10
  BY <1>2 DEF Estimate
<1>4. Estimate \in Nat /\ Estimate >= counted + table + 256 + Journal
  BY <1>1, <1>3, TenPercentMore
<1> QED
  BY <1>1, <1>2, <1>4

(* Parts of the invariant that a step leaves alone.                        *)
LEMMA SizeKept ==
  ASSUME SizeInv, opt' = opt, content' = content, counted' = counted, capacity' = capacity,
         at' = "size" => at = "size", at' = "partition" => at = "partition"
  PROVE  SizeInv'
<1>1. Estimate' = Estimate
  BY DEF Estimate, Journal
<1> QED
  BY <1>1 DEF SizeInv

LEMMA CountKept ==
  ASSUME CountInv, content' = content, counted' = counted, at' = at,
         exit' = -1 => exit = -1, child' = child, pipe'.chunks = pipe.chunks
  PROVE  CountInv'
  BY DEF CountInv, CountedChunks

LEMMA UploadKept ==
  ASSUME UploadInv, input' = input, content' = content, at' = at, disk' = disk,
         exit' = -1 => exit = -1, child' = child, pipe'.chunks = pipe.chunks
  PROVE  UploadInv'
  BY DEF UploadInv

LEMMA DiskKept ==
  ASSUME DiskInv, opt' = opt, content' = content, at' = at, disk' = disk, out' = out,
         tmpfile' = tmpfile, exit' = exit
  PROVE  DiskInv'
<1>1. MbrId' = MbrId
  BY DEF MbrId
<1> QED
  BY <1>1 DEF DiskInv

LEMMA MbrKept == opt' = opt => MbrId' = MbrId
  BY DEF MbrId

(* The kernel closes the files of a process.                               *)
LEMMA ClosedType ==
  ASSUME TypeOK, NEW process \in Process
  PROVE  /\ Closed(process) \in PipeState
         /\ Closed(process).chunks = pipe.chunks
         /\ Closed(process).writers = pipe.writers \ {process}
  BY DEF TypeOK, Closed, PipeState

LEMMA ForkedType ==
  ASSUME NEW n \in Nat, Forked(n)
  PROVE  /\ child' \in ChildState /\ child'.at = "forked" /\ child'.left = n
         /\ pipe' \in PipeState /\ pipe'.chunks = 0
         /\ pipe'.writers = {"parent", "child"}
  BY DEF Forked, ChildState, PipeState, Process

-----------------------------------------------------------------------------
(* The steps.                                                              *)

LEMMA InitIInv == Init => IInv
<1> SUFFICES ASSUME Init
             PROVE  IInv
  OBVIOUS
<1>1. opt \in Options /\ disk \in DiskState /\ child \in ChildState /\ pipe \in PipeState
  BY DEF Init, Defaults, Options, BlockSize, Partition, NoSize, Size, Types, None, Blank, DiskState,
         NoChild, ChildState, NoPipe, PipeState, Process
<1>2. args \in Seq(Arg) /\ content \in Nat
  BY CommandLinesAssumption, SizesAssumption DEF Init
<1>3. TypeOK
  BY <1>1, <1>2 DEF Init, TypeOK, Place
<1>4. disk.synced = FALSE /\ child.left = 0 /\ at = "options" /\ exit = -1 /\ counted = 0
  BY DEF Init, Blank, NoChild
<1>5. PipeInv /\ SucceededInv
  BY <1>4 DEF PipeInv, Reading, SucceededInv
<1>6. CountInv /\ UploadInv
  BY <1>4 DEF CountInv, UploadInv
<1>7. SizeInv
  BY <1>4 DEF SizeInv
<1>8. DiskInv
  BY <1>4 DEF DiskInv, Sized, Created, Formatted
<1>9. FilesInv
  BY <1>4 DEF FilesInv
<1> QED
  BY <1>3, <1>5, <1>6, <1>7, <1>8, <1>9 DEF IInv

LEMMA GetOptStep == IInv /\ GetOpt => IInv'
<1> SUFFICES ASSUME IInv, GetOpt
             PROVE  IInv'
  OBVIOUS
<1>1. /\ at = "options" /\ exit = -1 /\ args # << >> /\ args' = Tail(args)
      /\ opt' = HandleOption(opt, Head(args)) /\ input' = input /\ content' = content
      /\ at' = at /\ tmpfile' = tmpfile /\ counted' = counted
      /\ capacity' = capacity /\ out' = out /\ disk' = disk /\ child' = child
      /\ pipe' = pipe /\ exit' = exit
  BY DEF IInv, GetOpt, At
<1>2. /\ TypeOK /\ PipeInv /\ SucceededInv /\ CountInv /\ SizeInv /\ UploadInv
      /\ DiskInv /\ FilesInv
  BY DEF IInv
<1>3. TypeOK'
  <2>1. Head(args) \in Arg /\ args' \in Seq(Arg)
    BY <1>1, <1>2, HeadTailProperties DEF TypeOK
  <2>2. opt' \in Options
    BY <1>1, <1>2, <2>1, OptionType DEF TypeOK
  <2> QED
    BY <1>1, <1>2, <2>1, <2>2 DEF TypeOK
<1>4. PipeInv' /\ SucceededInv'
  BY <1>1, <1>2 DEF PipeInv, Reading, Running, SucceededInv, None
<1>5. CountInv'
  BY <1>1, <1>2 DEF CountInv
<1>6. SizeInv'
  BY <1>1 DEF SizeInv
<1>7. UploadInv'
  BY <1>1, <1>2 DEF UploadInv
<1>8. DiskInv'
  BY <1>1, <1>2 DEF DiskInv, Sized, Created, Formatted
<1>9. FilesInv'
  BY <1>1, <1>2 DEF FilesInv
<1> QED
  BY <1>3, <1>4, <1>5, <1>6, <1>7, <1>8, <1>9 DEF IInv

LEMMA AcceptStep == IInv /\ Accept => IInv'
<1> SUFFICES ASSUME IInv, Accept
             PROVE  IInv'
  OBVIOUS
<1>1. /\ at = "options" /\ exit = -1 /\ args' = args /\ opt' = opt /\ input' = input
      /\ content' = content /\ at' = "estimate" /\ tmpfile' = tmpfile
      /\ counted' = counted /\ capacity' = capacity /\ out' = out /\ disk' = disk
      /\ child' = child /\ pipe' = pipe /\ exit' = exit
  BY DEF IInv, Accept, At, given
<1>2. /\ TypeOK /\ PipeInv /\ SucceededInv /\ CountInv /\ SizeInv /\ UploadInv
      /\ DiskInv /\ FilesInv
  BY DEF IInv
<1>3. TypeOK'
  BY <1>1, <1>2 DEF TypeOK, Place
<1>4. PipeInv' /\ SucceededInv'
  BY <1>1, <1>2 DEF PipeInv, Reading, Running, SucceededInv, None
<1>5. CountInv'
  BY <1>1, <1>2 DEF CountInv
<1>6. SizeInv'
  BY <1>1, <1>2, SizeKept
<1>7. UploadInv'
  BY <1>1, <1>2 DEF UploadInv
<1>8. DiskInv'
  BY <1>1, <1>2 DEF DiskInv, Sized, Created, Formatted
<1>9. FilesInv'
  BY <1>1, <1>2 DEF FilesInv
<1> QED
  BY <1>3, <1>4, <1>5, <1>6, <1>7, <1>8, <1>9 DEF IInv

LEMMA MakeTmpfileStep == IInv /\ MakeTmpfile => IInv'
<1> SUFFICES ASSUME IInv, MakeTmpfile
             PROVE  IInv'
  OBVIOUS
<1>1. /\ at = "estimate" /\ exit = -1 /\ args' = args /\ opt' = opt /\ input' = input
      /\ content' = content /\ at' = at /\ tmpfile' = TRUE
      /\ counted' = counted /\ capacity' = capacity /\ out' = out /\ disk' = disk
      /\ child' = child /\ pipe' = pipe /\ exit' = exit
  BY DEF IInv, MakeTmpfile, At, given
<1>2. /\ TypeOK /\ PipeInv /\ SucceededInv /\ CountInv /\ SizeInv /\ UploadInv
      /\ DiskInv /\ FilesInv
  BY DEF IInv
<1>3. TypeOK'
  BY <1>1, <1>2 DEF TypeOK, Place
<1>4. PipeInv' /\ SucceededInv'
  BY <1>1, <1>2 DEF PipeInv, Reading, Running, SucceededInv, None
<1>5. CountInv'
  BY <1>1, <1>2 DEF CountInv
<1>6. SizeInv'
  BY <1>1, <1>2, SizeKept
<1>7. UploadInv'
  BY <1>1, <1>2 DEF UploadInv
<1>8. DiskInv'
  BY <1>1, <1>2 DEF DiskInv, Sized, Created, Formatted
<1>9. FilesInv'
  BY <1>1, <1>2 DEF FilesInv
<1> QED
  BY <1>3, <1>4, <1>5, <1>6, <1>7, <1>8, <1>9 DEF IInv

(* A directory or a plain tar file is estimated by one command.              *)
LEMMA IdentifyStep == IInv /\ Identify => IInv'
<1> SUFFICES ASSUME IInv, Identify
             PROVE  IInv'
  OBVIOUS
<1>1. /\ at = "estimate" /\ exit = -1
      /\ \/ at' = "fork" /\ counted' = counted /\ tmpfile' = tmpfile
         \/ at' = "size" /\ counted' = content * ChunkSize /\ tmpfile' = FALSE
      /\ args' = args /\ opt' = opt /\ input' = input /\ content' = content
      /\ capacity' = capacity /\ out' = out /\ disk' = disk
      /\ child' = child /\ pipe' = pipe /\ exit' = exit
  BY DEF IInv, Identify, At, given
<1>2. /\ TypeOK /\ PipeInv /\ SucceededInv /\ CountInv /\ SizeInv /\ UploadInv
      /\ DiskInv /\ FilesInv
  BY DEF IInv
<1>3. TypeOK'
  <2>1. counted' \in Nat
    BY <1>1, <1>2, Numbers
  <2> QED
    BY <1>1, <1>2, <2>1 DEF TypeOK, Place
<1>4. PipeInv' /\ SucceededInv'
  BY <1>1, <1>2 DEF PipeInv, Reading, Running, SucceededInv, None
<1>5. CountInv'
  BY <1>1, <1>2 DEF CountInv
<1>6. SizeInv'
  <2>1. content * ChunkSize \in Nat
    BY <1>2, Numbers
  <2> QED
    BY <1>1, <2>1 DEF SizeInv
<1>7. UploadInv'
  BY <1>1, <1>2 DEF UploadInv
<1>8. DiskInv'
  BY <1>1, <1>2 DEF DiskInv, Sized, Created, Formatted
<1>9. FilesInv'
  BY <1>1, <1>2 DEF FilesInv
<1> QED
  BY <1>3, <1>4, <1>5, <1>6, <1>7, <1>8, <1>9 DEF IInv

LEMMA RefuseStep == IInv /\ Refuse => IInv'
<1> SUFFICES ASSUME IInv, Refuse
             PROVE  IInv'
  OBVIOUS
<1>1. /\ at = "options" /\ exit = -1 /\ args' = args /\ opt' = opt /\ input' = input
      /\ content' = content /\ at' = at /\ tmpfile' = tmpfile
      /\ counted' = counted /\ capacity' = capacity /\ out' = out /\ disk' = disk
      /\ child' = child /\ pipe' = pipe /\ exit' = 1
  BY DEF IInv, Refuse, At, given
<1>2. /\ TypeOK /\ PipeInv /\ SucceededInv /\ CountInv /\ SizeInv /\ UploadInv
      /\ DiskInv /\ FilesInv
  BY DEF IInv
<1>3. TypeOK'
  BY <1>1, <1>2 DEF TypeOK, Place
<1>4. PipeInv' /\ SucceededInv'
  BY <1>1, <1>2 DEF PipeInv, Reading, Running, SucceededInv, None
<1>5. CountInv'
  BY <1>1, <1>2 DEF CountInv
<1>6. SizeInv'
  BY <1>1, <1>2, SizeKept
<1>7. UploadInv'
  BY <1>1, <1>2 DEF UploadInv
<1>8. DiskInv'
  BY <1>1, <1>2, MbrKept DEF DiskInv, Sized, Created, Formatted
<1>9. FilesInv'
  BY <1>1, <1>2 DEF FilesInv
<1> QED
  BY <1>3, <1>4, <1>5, <1>6, <1>7, <1>8, <1>9 DEF IInv

(* Every failure of do_make_fs.                                            *)
LEMMA ReturnFailureStep == IInv /\ (NotIdentified \/ BadStatus \/ CallFails) => IInv'
<1> SUFFICES ASSUME IInv, (NotIdentified \/ BadStatus \/ CallFails)
             PROVE  IInv'
  OBVIOUS
<1>1. /\ at # "options" /\ exit = -1 /\ args' = args /\ opt' = opt /\ input' = input
      /\ content' = content /\ at' = at /\ tmpfile' = FALSE
      /\ counted' = counted /\ capacity' = capacity /\ out' = "absent" /\ disk' = disk
      /\ child' = child /\ exit' \notin {-1, 0} /\ exit' = 1
      /\ pipe' \in PipeState
  <2>1. Closed("parent") \in PipeState
    BY ClosedType DEF IInv, Process
  <2>2. ReturnFailure /\ exit = -1 /\ at # "options"
    BY DEF NotIdentified, BadStatus, CallFails, At
  <2> QED
    BY <2>1, <2>2 DEF ReturnFailure, given
<1>2. /\ TypeOK /\ PipeInv /\ SucceededInv /\ CountInv /\ SizeInv /\ UploadInv
      /\ DiskInv /\ FilesInv
  BY DEF IInv
<1>3. TypeOK'
  BY <1>1, <1>2 DEF TypeOK
<1>4. PipeInv' /\ SucceededInv'
  BY <1>1, <1>2 DEF PipeInv, Reading, Running, SucceededInv, None
<1>5. CountInv'
  BY <1>1, <1>2 DEF CountInv
<1>6. SizeInv'
  BY <1>1, <1>2, SizeKept
<1>7. UploadInv'
  BY <1>1, <1>2 DEF UploadInv
<1>8. DiskInv'
  <2>1. disk.synced = FALSE
    <3>1. CASE at = "shutdown"
      <4>1. disk.synced = (exit = 0)
        BY <1>2, <3>1 DEF DiskInv
      <4>2. (exit = 0) = FALSE
        BY <1>1
      <4> QED
        BY <4>1, <4>2
    <3> QED
      BY <1>2, <3>1 DEF DiskInv
  <2>2. MbrId' = MbrId /\ exit' # 0 /\ exit' # -1
    BY <1>1, MbrKept
  <2>3. at' = "shutdown" => disk'.chunks = content' /\ disk'.synced = (exit' = 0)
    BY <1>1, <1>2, <2>1, <2>2 DEF DiskInv
  <2> QED
    BY <1>1, <1>2, <2>1, <2>2, <2>3 DEF DiskInv
<1>9. FilesInv'
  BY <1>1, <1>2 DEF FilesInv
<1> QED
  BY <1>3, <1>4, <1>5, <1>6, <1>7, <1>8, <1>9 DEF IInv

LEMMA KillStep == IInv /\ Kill => IInv'
<1> SUFFICES ASSUME IInv, Kill
             PROVE  IInv'
  OBVIOUS
<1>1. /\ exit = -1 /\ args' = args /\ opt' = opt /\ input' = input
      /\ content' = content /\ at' = at /\ tmpfile' = tmpfile
      /\ counted' = counted /\ capacity' = capacity /\ out' = out /\ disk' = disk
      /\ child' = child /\ exit' \notin {-1, 0} /\ exit' = 2
      /\ pipe' \in PipeState
  <2>1. Closed("parent") \in PipeState
    BY ClosedType DEF IInv, Process
  <2> QED
    BY <2>1 DEF IInv, Kill, given
<1>2. /\ TypeOK /\ PipeInv /\ SucceededInv /\ CountInv /\ SizeInv /\ UploadInv
      /\ DiskInv /\ FilesInv
  BY DEF IInv
<1>3. TypeOK'
  BY <1>1, <1>2 DEF TypeOK
<1>4. PipeInv' /\ SucceededInv'
  BY <1>1, <1>2 DEF PipeInv, Reading, Running, SucceededInv, None
<1>5. CountInv'
  BY <1>1, <1>2 DEF CountInv
<1>6. SizeInv'
  BY <1>1, <1>2, SizeKept
<1>7. UploadInv'
  BY <1>1, <1>2 DEF UploadInv
<1>8. DiskInv'
  <2>1. disk.synced = FALSE
    <3>1. CASE at = "shutdown"
      <4>1. disk.synced = (exit = 0)
        BY <1>2, <3>1 DEF DiskInv
      <4>2. (exit = 0) = FALSE
        BY <1>1
      <4> QED
        BY <4>1, <4>2
    <3> QED
      BY <1>2, <3>1 DEF DiskInv
  <2>2. MbrId' = MbrId /\ exit' # 0 /\ exit' # -1
    BY <1>1, MbrKept
  <2>3. at' = "shutdown" => disk'.chunks = content' /\ disk'.synced = (exit' = 0)
    BY <1>1, <1>2, <2>1, <2>2 DEF DiskInv
  <2> QED
    BY <1>1, <1>2, <2>1, <2>2, <2>3 DEF DiskInv
<1>9. FilesInv'
  BY <1>1, <1>2 DEF FilesInv
<1> QED
  BY <1>3, <1>4, <1>5, <1>6, <1>7, <1>8, <1>9 DEF IInv

(* The subprocess is started; nothing has been counted.                     *)
LEMMA ForkToCountStep == IInv /\ ForkToCount => IInv'
<1> SUFFICES ASSUME IInv, ForkToCount
             PROVE  IInv'
  OBVIOUS
<1>1. /\ at = "fork" /\ exit = -1 /\ Forked(content) /\ args' = args /\ opt' = opt
      /\ input' = input /\ content' = content /\ at' = "counting"
      /\ tmpfile' = tmpfile /\ counted' = counted /\ capacity' = capacity /\ out' = out
      /\ disk' = disk /\ exit' = exit
  BY DEF IInv, ForkToCount, At, given
<1>2. /\ TypeOK /\ PipeInv /\ SucceededInv /\ CountInv /\ SizeInv /\ UploadInv
      /\ DiskInv /\ FilesInv
  BY DEF IInv
<1>3. /\ child' \in ChildState /\ child'.at = "forked" /\ child'.left = content
      /\ pipe' \in PipeState /\ pipe'.chunks = 0 /\ "child" \in pipe'.writers
  BY <1>1, <1>2, ForkedType DEF TypeOK
<1>4. TypeOK'
  BY <1>1, <1>2, <1>3 DEF TypeOK, Place
<1>5. PipeInv' /\ SucceededInv'
  BY <1>1, <1>2, <1>3 DEF PipeInv, Reading, Running, SucceededInv, None
<1>6. CountInv'
  <2>1. counted' = 0 * ChunkSize /\ 0 + pipe'.chunks + child'.left = content
    BY <1>1, <1>2, <1>3, NextChunk, Numbers DEF CountInv
  <2>2. CountedChunks(0)'
    BY <1>1, <2>1 DEF CountedChunks
  <2>3. 0 \in 0..content'
    BY <1>1, <1>2, Numbers
  <2> QED
    BY <1>1, <2>2, <2>3 DEF CountInv
<1>7. SizeInv'
  BY <1>1, <1>2, SizeKept
<1>8. UploadInv'
  BY <1>1, <1>2 DEF UploadInv
<1>9. DiskInv'
  BY <1>1, <1>2, MbrKept DEF DiskInv, Sized, Created, Formatted
<1>10. FilesInv'
  BY <1>1, <1>2 DEF FilesInv
<1> QED
  BY <1>4, <1>5, <1>6, <1>7, <1>8, <1>9, <1>10 DEF IInv

LEMMA ParentClosesStep == IInv /\ ParentCloses => IInv'
<1> SUFFICES ASSUME IInv, ParentCloses
             PROVE  IInv'
  OBVIOUS
<1>1. /\ exit = -1 /\ args' = args /\ opt' = opt /\ input' = input
      /\ content' = content /\ at' = at /\ tmpfile' = tmpfile
      /\ counted' = counted /\ capacity' = capacity /\ out' = out /\ disk' = disk
      /\ child' = child
      /\ pipe' = [pipe EXCEPT !.writers = @ \ {"parent"}]
      /\ exit' = exit
  BY DEF IInv, ParentCloses, given
<1>2. /\ TypeOK /\ PipeInv /\ SucceededInv /\ CountInv /\ SizeInv /\ UploadInv
      /\ DiskInv /\ FilesInv
  BY DEF IInv
<1>3. /\ pipe' \in PipeState /\ pipe'.chunks = pipe.chunks
      /\ pipe'.writers = pipe.writers \ {"parent"}
  BY <1>1, <1>2 DEF TypeOK, PipeState
<1>4. TypeOK'
  BY <1>1, <1>2, <1>3 DEF TypeOK
<1>5. PipeInv' /\ SucceededInv'
  BY <1>1, <1>2, <1>3 DEF PipeInv, Reading, Running, SucceededInv, None
<1>6. CountInv'
  BY <1>1, <1>2, <1>3, CountKept
<1>7. SizeInv'
  BY <1>1, <1>2, SizeKept
<1>8. UploadInv'
  BY <1>1, <1>2, <1>3, UploadKept
<1>9. DiskInv'
  BY <1>1, <1>2, DiskKept
<1>10. FilesInv'
  BY <1>1, <1>2 DEF FilesInv
<1> QED
  BY <1>4, <1>5, <1>6, <1>7, <1>8, <1>9, <1>10 DEF IInv

LEMMA ChildStartsStep == IInv /\ ChildStarts => IInv'
<1> SUFFICES ASSUME IInv, ChildStarts
             PROVE  IInv'
  OBVIOUS
<1>1. /\ child.at = "forked" /\ args' = args /\ opt' = opt /\ input' = input
      /\ content' = content /\ at' = at /\ tmpfile' = tmpfile
      /\ counted' = counted /\ capacity' = capacity /\ out' = out /\ disk' = disk
      /\ child' = [child EXCEPT !.at = "writing"]
      /\ pipe' = [pipe EXCEPT !.readers = @ \ {"child"}]
      /\ exit' = exit
  BY DEF IInv, ChildStarts, given
<1>2. /\ TypeOK /\ PipeInv /\ SucceededInv /\ CountInv /\ SizeInv /\ UploadInv
      /\ DiskInv /\ FilesInv
  BY DEF IInv
<1>3. /\ pipe' \in PipeState /\ pipe'.chunks = pipe.chunks /\ pipe'.writers = pipe.writers
      /\ child' \in ChildState /\ child'.at = "writing" /\ child'.left = child.left
  BY <1>1, <1>2 DEF TypeOK, PipeState, ChildState
<1>4. TypeOK'
  BY <1>1, <1>2, <1>3 DEF TypeOK
<1>5. PipeInv' /\ SucceededInv'
  BY <1>1, <1>2, <1>3 DEF PipeInv, Reading, Running, SucceededInv, None
<1>6. CountInv'
  BY <1>1, <1>2, <1>3 DEF CountInv, CountedChunks
<1>7. SizeInv'
  BY <1>1, <1>2, SizeKept
<1>8. UploadInv'
  BY <1>1, <1>2, <1>3 DEF UploadInv
<1>9. DiskInv'
  BY <1>1, <1>2, DiskKept
<1>10. FilesInv'
  BY <1>1, <1>2 DEF FilesInv
<1> QED
  BY <1>4, <1>5, <1>6, <1>7, <1>8, <1>9, <1>10 DEF IInv

(* A chunk moves from the subprocess to the pipe.                            *)
LEMMA ChildWritesStep == IInv /\ ChildWrites => IInv'
<1> SUFFICES ASSUME IInv, ChildWrites
             PROVE  IInv'
  OBVIOUS
<1>1. /\ child.at = "writing" /\ child.left > 0 /\ args' = args /\ opt' = opt
      /\ input' = input /\ content' = content /\ at' = at
      /\ tmpfile' = tmpfile /\ counted' = counted /\ capacity' = capacity /\ out' = out
      /\ disk' = disk /\ child' = [child EXCEPT !.left = @ - 1]
      /\ pipe' = [pipe EXCEPT !.chunks = @ + 1] /\ exit' = exit
  BY DEF IInv, ChildWrites, given
<1>2. /\ TypeOK /\ PipeInv /\ SucceededInv /\ CountInv /\ SizeInv /\ UploadInv
      /\ DiskInv /\ FilesInv
  BY DEF IInv
<1>3. /\ pipe' \in PipeState /\ pipe'.chunks = pipe.chunks + 1 /\ pipe'.writers = pipe.writers
      /\ child' \in ChildState /\ child'.at = "writing" /\ child'.left = child.left - 1
  <2>1. pipe.chunks + 1 \in Nat /\ child.left - 1 \in Nat
    BY <1>1, <1>2, Numbers
  <2> QED
    BY <1>1, <1>2, <2>1 DEF TypeOK, PipeState, ChildState
<1>4. TypeOK'
  BY <1>1, <1>2, <1>3 DEF TypeOK
<1>5. PipeInv' /\ SucceededInv'
  BY <1>1, <1>2, <1>3 DEF PipeInv, Reading, Running, SucceededInv, None
<1>6. CountInv'
  <2>1. \A n \in Nat : CountedChunks(n) => CountedChunks(n)'
    BY <1>1, <1>2, <1>3, Numbers DEF CountedChunks
  <2>2. exit = -1 => at # "count status"
    BY <1>1, <1>2 DEF PipeInv
  <2>3. \A n \in 0..content : n \in Nat
    BY <1>2, Numbers
  <2> QED
    BY <1>1, <1>2, <1>3, <2>1, <2>2, <2>3 DEF CountInv
<1>7. SizeInv'
  BY <1>1, <1>2, SizeKept
<1>8. UploadInv'
  <2>1. pipe'.chunks + child'.left = pipe.chunks + child.left
    BY <1>2, <1>3, Numbers
  <2>2. disk.chunks + pipe'.chunks + child'.left = disk.chunks + pipe.chunks + child.left
    BY <1>2, <1>3, <2>1, Numbers
  <2>3. exit = -1 => at # "upload status"
    BY <1>1, <1>2 DEF PipeInv
  <2> QED
    BY <1>1, <1>2, <1>3, <2>2, <2>3 DEF UploadInv
<1>9. DiskInv'
  BY <1>1, <1>2, DiskKept
<1>10. FilesInv'
  BY <1>1, <1>2 DEF FilesInv
<1> QED
  BY <1>4, <1>5, <1>6, <1>7, <1>8, <1>9, <1>10 DEF IInv

(* The subprocess ends.                                                     *)
LEMMA ChildEndsStep == IInv /\ (ChildSucceeds \/ ChildFails \/ ChildIsKilled) => IInv'
<1> SUFFICES ASSUME IInv, (ChildSucceeds \/ ChildFails \/ ChildIsKilled)
             PROVE  IInv'
  OBVIOUS
<1>1. /\ child.at \in {"forked", "writing"} /\ child'.at \in {"succeeded", "failed"}
      /\ child'.at = "succeeded" => child.left = 0
      /\ child'.left = child.left /\ child' \in ChildState /\ args' = args
      /\ opt' = opt /\ input' = input /\ content' = content
      /\ at' = at /\ tmpfile' = tmpfile /\ counted' = counted /\ capacity' = capacity
      /\ out' = out /\ disk' = disk /\ pipe' = Closed("child") /\ exit' = exit
  BY DEF IInv, TypeOK, ChildState, ChildSucceeds, ChildFails, ChildIsKilled,
         ChildEnds, given
<1>2. /\ TypeOK /\ PipeInv /\ SucceededInv /\ CountInv /\ SizeInv /\ UploadInv
      /\ DiskInv /\ FilesInv
  BY DEF IInv
<1>3. pipe' \in PipeState /\ pipe'.chunks = pipe.chunks
  BY <1>1, <1>2, ClosedType DEF Process
<1>4. TypeOK'
  BY <1>1, <1>2, <1>3 DEF TypeOK
<1>5. PipeInv' /\ SucceededInv'
  BY <1>1, <1>2, <1>3 DEF PipeInv, Reading, Running, SucceededInv, None
<1>6. CountInv'
  BY <1>1, <1>2, <1>3 DEF CountInv, CountedChunks
<1>7. SizeInv'
  BY <1>1, <1>2, SizeKept
<1>8. UploadInv'
  BY <1>1, <1>2, <1>3 DEF UploadInv
<1>9. DiskInv'
  BY <1>1, <1>2, DiskKept
<1>10. FilesInv'
  BY <1>1, <1>2 DEF FilesInv
<1> QED
  BY <1>4, <1>5, <1>6, <1>7, <1>8, <1>9, <1>10 DEF IInv

(* A chunk moves from the pipe to what is counted.                           *)
LEMMA CountStep == IInv /\ Count => IInv'
<1> SUFFICES ASSUME IInv, Count
             PROVE  IInv'
  OBVIOUS
<1>1. /\ at = "counting" /\ exit = -1 /\ pipe.chunks > 0 /\ args' = args /\ opt' = opt
      /\ input' = input /\ content' = content /\ at' = at
      /\ tmpfile' = tmpfile /\ counted' = counted + ChunkSize /\ capacity' = capacity
      /\ out' = out /\ disk' = disk /\ child' = child
      /\ pipe' = [pipe EXCEPT !.chunks = @ - 1] /\ exit' = exit
  BY DEF IInv, Count, At, given
<1>2. /\ TypeOK /\ PipeInv /\ SucceededInv /\ CountInv /\ SizeInv /\ UploadInv
      /\ DiskInv /\ FilesInv
  BY DEF IInv
<1>3. /\ pipe' \in PipeState /\ pipe'.chunks = pipe.chunks - 1 /\ pipe'.writers = pipe.writers
  <2>1. pipe.chunks - 1 \in Nat
    BY <1>1, <1>2, Numbers
  <2> QED
    BY <1>1, <1>2, <2>1 DEF TypeOK, PipeState
<1>4. TypeOK'
  <2>1. counted' \in Nat
    BY <1>1, <1>2, Numbers
  <2> QED
    BY <1>1, <1>2, <1>3, <2>1 DEF TypeOK
<1>5. PipeInv' /\ SucceededInv'
  BY <1>1, <1>2, <1>3 DEF PipeInv, Reading, Running, SucceededInv, None
<1>6. CountInv'
  <2>1. ASSUME NEW n \in 0..content, CountedChunks(n)
        PROVE  n + 1 \in 0..content /\ CountedChunks(n + 1)'
    <3>1. counted = n * ChunkSize /\ n + pipe.chunks + child.left = content
      BY <2>1 DEF CountedChunks
    <3>2. n + 1 \in 0..content /\ (n + 1) + (pipe.chunks - 1) + child.left = content
      BY <1>1, <1>2, <3>1, Numbers
    <3>3. counted' = (n + 1) * ChunkSize
      BY <1>1, <3>1, NextChunk
    <3> QED
      BY <1>1, <1>3, <3>2, <3>3 DEF CountedChunks
  <2> QED
    BY <1>1, <1>2, <2>1 DEF CountInv
<1>7. SizeInv'
  BY <1>1 DEF SizeInv
<1>8. UploadInv'
  BY <1>1, <1>2 DEF UploadInv
<1>9. DiskInv'
  BY <1>1, <1>2, DiskKept
<1>10. FilesInv'
  BY <1>1, <1>2 DEF FilesInv
<1> QED
  BY <1>4, <1>5, <1>6, <1>7, <1>8, <1>9, <1>10 DEF IInv

(* The end of the pipe is reached only when the subprocess has ended.        *)
LEMMA EndCountStep == IInv /\ EndCount => IInv'
<1> SUFFICES ASSUME IInv, EndCount
             PROVE  IInv'
  OBVIOUS
<1>1. /\ at = "counting" /\ exit = -1 /\ AtEOF /\ args' = args /\ opt' = opt
      /\ input' = input /\ content' = content /\ at' = "count status"
      /\ tmpfile' = tmpfile /\ counted' = counted /\ capacity' = capacity /\ out' = out
      /\ disk' = disk /\ child' = child /\ pipe' = NoPipe /\ exit' = exit
  BY DEF IInv, EndCount, At, given
<1>2. /\ TypeOK /\ PipeInv /\ SucceededInv /\ CountInv /\ SizeInv /\ UploadInv
      /\ DiskInv /\ FilesInv
  BY DEF IInv
<1>3. NoPipe \in PipeState /\ NoPipe.chunks = 0 /\ NoChild \in ChildState /\ NoChild.at = None
  BY DEF NoPipe, PipeState, NoChild, ChildState
<1>4. TypeOK'
  BY <1>1, <1>2, <1>3 DEF TypeOK, Place
<1>5. PipeInv' /\ SucceededInv'
  <2>1. ~Running
    BY <1>1, <1>2 DEF PipeInv, Reading, AtEOF
  <2>2. child.at \in {"succeeded", "failed"}
    BY <1>1, <1>2, <2>1 DEF PipeInv, Reading, Running, TypeOK, ChildState
  <2> QED
    BY <1>1, <1>2, <2>2 DEF PipeInv, Reading, SucceededInv
<1>6. CountInv'
  <2>1. pipe.chunks = 0
    BY <1>1 DEF AtEOF
  <2> QED
    BY <1>1, <1>2, <1>3, <2>1 DEF CountInv, CountedChunks
<1>7. SizeInv'
  BY <1>1, <1>2, SizeKept
<1>8. UploadInv'
  BY <1>1, <1>2 DEF UploadInv
<1>9. DiskInv'
  BY <1>1, <1>2, MbrKept DEF DiskInv, Sized, Created, Formatted
<1>10. FilesInv'
  BY <1>1, <1>2 DEF FilesInv
<1> QED
  BY <1>4, <1>5, <1>6, <1>7, <1>8, <1>9, <1>10 DEF IInv

LEMMA CheckCountStatusStep == IInv /\ CheckCountStatus => IInv'
<1> SUFFICES ASSUME IInv, CheckCountStatus
             PROVE  IInv'
  OBVIOUS
<1>1. /\ at = "count status" /\ exit = -1 /\ child.at = "succeeded" /\ args' = args
      /\ opt' = opt /\ input' = input /\ content' = content
      /\ at' = "size" /\ tmpfile' = FALSE /\ counted' = counted /\ capacity' = capacity
      /\ out' = out /\ disk' = disk /\ child' = NoChild /\ pipe' = pipe /\ exit' = exit
  BY DEF IInv, CheckCountStatus, EndEstimate, At, given
<1>2. /\ TypeOK /\ PipeInv /\ SucceededInv /\ CountInv /\ SizeInv /\ UploadInv
      /\ DiskInv /\ FilesInv
  BY DEF IInv
<1>3. NoPipe \in PipeState /\ NoPipe.chunks = 0 /\ NoChild \in ChildState /\ NoChild.at = None
  BY DEF NoPipe, PipeState, NoChild, ChildState
<1>4. TypeOK'
  BY <1>1, <1>2, <1>3 DEF TypeOK, Place
<1>5. PipeInv' /\ SucceededInv'
  BY <1>1, <1>2, <1>3 DEF PipeInv, Reading, SucceededInv, None
<1>6. CountInv'
  BY <1>1, <1>2 DEF CountInv
<1>7. SizeInv'
  <2>1. child.left = 0 /\ pipe.chunks = 0
    BY <1>1, <1>2 DEF SucceededInv, CountInv
  <2>2. PICK n \in 0..content : CountedChunks(n)
    BY <1>1, <1>2 DEF CountInv
  <2>3. n = content
    BY <1>2, <2>1, <2>2, Numbers DEF CountedChunks
  <2>4. counted = content * ChunkSize
    BY <2>2, <2>3 DEF CountedChunks
  <2> QED
    BY <1>1, <2>4 DEF SizeInv
<1>8. UploadInv'
  BY <1>1, <1>2 DEF UploadInv
<1>9. DiskInv'
  BY <1>1, <1>2, MbrKept DEF DiskInv, Sized, Created, Formatted
<1>10. FilesInv'
  BY <1>1, <1>2 DEF FilesInv
<1> QED
  BY <1>4, <1>5, <1>6, <1>7, <1>8, <1>9, <1>10 DEF IInv

(* The disk gets the size of the estimate, or more.                          *)
LEMMA DiskCreateStep == IInv /\ DiskCreate => IInv'
<1> SUFFICES ASSUME IInv, DiskCreate
             PROVE  IInv'
  OBVIOUS
<1>1. /\ at = "size" /\ exit = -1 /\ args' = args /\ opt' = opt /\ input' = input
      /\ content' = content /\ at' = "partition"
      /\ tmpfile' = tmpfile /\ counted' = counted
      /\ capacity' = IF opt.size.plus THEN Estimate + opt.size.kib ELSE opt.size.kib
      /\ out' = "new" /\ disk' = Blank /\ child' = child /\ pipe' = pipe
      /\ exit' = exit
  BY DEF IInv, DiskCreate, At, given
<1>2. /\ TypeOK /\ PipeInv /\ SucceededInv /\ CountInv /\ SizeInv /\ UploadInv
      /\ DiskInv /\ FilesInv
  BY DEF IInv
<1>3. TypeOK'
  <2>1. capacity' \in Nat
    BY <1>1, <1>2, EstimateCovers, Numbers
  <2>2. Blank \in DiskState
    BY DEF Blank, DiskState, Partition
  <2> QED
    BY <1>1, <1>2, <2>1, <2>2 DEF TypeOK, Place
<1>4. PipeInv' /\ SucceededInv'
  BY <1>1, <1>2 DEF PipeInv, Reading, Running, SucceededInv, None
<1>5. CountInv'
  BY <1>1, <1>2 DEF CountInv
<1>6. SizeInv'
  <2>1. Estimate' = Estimate
    BY <1>1 DEF Estimate, Journal
  <2> QED
    BY <1>1, <1>2, <2>1 DEF SizeInv
<1>7. UploadInv'
  BY <1>1, <1>2 DEF UploadInv
<1>8. DiskInv'
  BY <1>1, <1>2, MbrKept DEF DiskInv, Sized, Created, Formatted, Blank
<1>9. FilesInv'
  BY <1>1, <1>2 DEF FilesInv
<1> QED
  BY <1>3, <1>4, <1>5, <1>6, <1>7, <1>8, <1>9 DEF IInv

LEMMA PartDiskStep == IInv /\ PartDisk => IInv'
<1> SUFFICES ASSUME IInv, PartDisk
             PROVE  IInv'
  OBVIOUS
<1>1. /\ at = "partition" /\ exit = -1 /\ args' = args /\ opt' = opt /\ input' = input
      /\ content' = content /\ at' = "mkfs" /\ tmpfile' = tmpfile
      /\ counted' = counted /\ capacity' = capacity /\ out' = out
      /\ disk' = [disk EXCEPT !.table = opt.partition, !.id = MbrId]
      /\ child' = child /\ pipe' = pipe /\ exit' = exit
  BY DEF IInv, PartDisk, At, given
<1>2. /\ TypeOK /\ PipeInv /\ SucceededInv /\ CountInv /\ SizeInv /\ UploadInv
      /\ DiskInv /\ FilesInv
  BY DEF IInv
<1>3. /\ disk' \in DiskState /\ disk'.table = opt.partition /\ disk'.id = MbrId
      /\ disk'.chunks = disk.chunks /\ disk'.synced = disk.synced
  <2>1. opt.partition \in Partition /\ MbrId \in Nat
    BY <1>2, Numbers DEF TypeOK, Options
  <2> QED
    BY <1>1, <1>2, <2>1 DEF TypeOK, DiskState
<1>4. TypeOK'
  BY <1>1, <1>2, <1>3 DEF TypeOK, Place
<1>5. PipeInv' /\ SucceededInv'
  BY <1>1, <1>2 DEF PipeInv, Reading, Running, SucceededInv, None
<1>6. CountInv'
  BY <1>1, <1>2 DEF CountInv
<1>7. SizeInv'
  BY <1>1, <1>2, SizeKept
<1>8. UploadInv'
  BY <1>1, <1>2 DEF UploadInv
<1>9. DiskInv'
  BY <1>1, <1>2, <1>3, MbrKept DEF DiskInv, Sized, Created, Formatted
<1>10. FilesInv'
  BY <1>1, <1>2 DEF FilesInv
<1> QED
  BY <1>4, <1>5, <1>6, <1>7, <1>8, <1>9, <1>10 DEF IInv

LEMMA MkfsStep == IInv /\ Mkfs => IInv'
<1> SUFFICES ASSUME IInv, Mkfs
             PROVE  IInv'
  OBVIOUS
<1>1. /\ at = "mkfs" /\ exit = -1 /\ args' = args /\ opt' = opt /\ input' = input
      /\ content' = content /\ at' = "prepare" /\ tmpfile' = tmpfile
      /\ counted' = counted /\ capacity' = capacity /\ out' = out
      /\ disk' = [disk EXCEPT !.fs = opt.type] /\ child' = child /\ pipe' = pipe
      /\ exit' = exit
  BY DEF IInv, Mkfs, At, given
<1>2. /\ TypeOK /\ PipeInv /\ SucceededInv /\ CountInv /\ SizeInv /\ UploadInv
      /\ DiskInv /\ FilesInv
  BY DEF IInv
<1>3. /\ disk' \in DiskState /\ disk'.fs = opt.type
      /\ disk'.table = disk.table /\ disk'.id = disk.id
      /\ disk'.chunks = disk.chunks /\ disk'.synced = disk.synced
  <2>1. opt.type \in Types
    BY <1>2 DEF TypeOK, Options
  <2> QED
    BY <1>1, <1>2, <2>1 DEF TypeOK, DiskState
<1>4. TypeOK'
  BY <1>1, <1>2, <1>3 DEF TypeOK, Place
<1>5. PipeInv' /\ SucceededInv'
  BY <1>1, <1>2 DEF PipeInv, Reading, Running, SucceededInv, None
<1>6. CountInv'
  BY <1>1, <1>2 DEF CountInv
<1>7. SizeInv'
  BY <1>1, <1>2, SizeKept
<1>8. UploadInv'
  BY <1>1, <1>2 DEF UploadInv
<1>9. DiskInv'
  BY <1>1, <1>2, <1>3, MbrKept DEF DiskInv, Sized, Created, Formatted
<1>10. FilesInv'
  BY <1>1, <1>2 DEF FilesInv
<1> QED
  BY <1>4, <1>5, <1>6, <1>7, <1>8, <1>9, <1>10 DEF IInv

(* The input may change once the disk has its size.                          *)
LEMMA InputChangesStep == IInv /\ InputChanges => IInv'
<1> SUFFICES ASSUME IInv, InputChanges
             PROVE  IInv'
  OBVIOUS
<1>1. /\ at = "mkfs" /\ exit = -1 /\ content' \in Nat
      /\ args' = args /\ opt' = opt
      /\ input' = input /\ at' = at /\ tmpfile' = tmpfile /\ counted' = counted
      /\ capacity' = capacity /\ out' = out /\ disk' = disk /\ child' = child
      /\ pipe' = pipe /\ exit' = exit
  BY SizesAssumption DEF IInv, InputChanges, At
<1>2. /\ TypeOK /\ PipeInv /\ SucceededInv /\ CountInv /\ SizeInv /\ UploadInv
      /\ DiskInv /\ FilesInv
  BY DEF IInv
<1>3. TypeOK'
  BY <1>1, <1>2 DEF TypeOK
<1>4. PipeInv' /\ SucceededInv'
  BY <1>1, <1>2 DEF PipeInv, Reading, Running, SucceededInv, None
<1>5. CountInv'
  BY <1>1, <1>2 DEF CountInv
<1>6. SizeInv'
  BY <1>1 DEF SizeInv
<1>7. UploadInv'
  BY <1>1, <1>2 DEF UploadInv
<1>8. DiskInv'
  BY <1>1, <1>2, MbrKept DEF DiskInv, Sized, Created, Formatted
<1>9. FilesInv'
  BY <1>1, <1>2 DEF FilesInv
<1> QED
  BY <1>3, <1>4, <1>5, <1>6, <1>7, <1>8, <1>9 DEF IInv

LEMMA PrepareInputStep == IInv /\ PrepareInput => IInv'
<1> SUFFICES ASSUME IInv, PrepareInput
             PROVE  IInv'
  OBVIOUS
<1>1. /\ at = "prepare" /\ exit = -1 /\ args' = args /\ opt' = opt /\ input' = input
      /\ content' = content /\ at' = "upload" /\ tmpfile' = tmpfile
      /\ counted' = counted /\ capacity' = capacity /\ out' = out /\ disk' = disk
      /\ exit' = exit
  BY DEF IInv, PrepareInput, At, given
<1>2. /\ TypeOK /\ PipeInv /\ SucceededInv /\ CountInv /\ SizeInv /\ UploadInv
      /\ DiskInv /\ FilesInv
  BY DEF IInv
<1>3. /\ child' \in ChildState /\ pipe' \in PipeState
      /\ child'.at = "succeeded" => child'.left = 0
      /\ input # "tar" => /\ child'.at = "forked" /\ child'.left = content
                         /\ pipe'.chunks = 0 /\ "child" \in pipe'.writers
  <2>1. CASE input = "tar"
    BY <1>2, <2>1 DEF PrepareInput, TypeOK, SucceededInv
  <2>2. CASE input # "tar"
    BY <1>2, <2>2, ForkedType DEF PrepareInput, TypeOK
  <2> QED
    BY <2>1, <2>2
<1>4. TypeOK'
  BY <1>1, <1>2, <1>3 DEF TypeOK, Place
<1>5. PipeInv' /\ SucceededInv'
  BY <1>1, <1>2, <1>3 DEF PipeInv, Reading, Running, SucceededInv, None
<1>6. CountInv'
  BY <1>1, <1>2 DEF CountInv
<1>7. SizeInv'
  BY <1>1, <1>2, SizeKept
<1>8. UploadInv'
  <2>1. disk.chunks = 0 /\ content \in Nat
    BY <1>1, <1>2, Numbers DEF DiskInv
  <2> QED
    BY <1>1, <1>2, <1>3, <2>1 DEF UploadInv
<1>9. DiskInv'
  BY <1>1, <1>2, MbrKept DEF DiskInv, Sized, Created, Formatted
<1>10. FilesInv'
  BY <1>1, <1>2 DEF FilesInv
<1> QED
  BY <1>4, <1>5, <1>6, <1>7, <1>8, <1>9, <1>10 DEF IInv

(* A chunk moves from the pipe, or from the file, to the disk.               *)
LEMMA TarInStep == IInv /\ TarIn => IInv'
<1> SUFFICES ASSUME IInv, TarIn
             PROVE  IInv'
  OBVIOUS
<1>1. /\ at = "upload" /\ exit = -1 /\ MayReceive /\ args' = args /\ opt' = opt
      /\ input' = input /\ content' = content /\ at' = at
      /\ tmpfile' = tmpfile /\ counted' = counted /\ capacity' = capacity /\ out' = out
      /\ disk' = [disk EXCEPT !.chunks = @ + 1] /\ child' = child /\ exit' = exit
  BY DEF IInv, TarIn, At, given
<1>2. /\ TypeOK /\ PipeInv /\ SucceededInv /\ CountInv /\ SizeInv /\ UploadInv
      /\ DiskInv /\ FilesInv
  BY DEF IInv
<1>3. /\ disk' \in DiskState /\ disk'.chunks = disk.chunks + 1
      /\ disk'.table = disk.table /\ disk'.id = disk.id /\ disk'.fs = disk.fs
      /\ disk'.synced = disk.synced
      /\ pipe' \in PipeState /\ pipe'.writers = pipe.writers
      /\ input # "tar" => pipe'.chunks = pipe.chunks - 1
  <2>1. disk.chunks + 1 \in Nat
    BY <1>2, Numbers
  <2>2. input # "tar" => pipe.chunks - 1 \in Nat
    BY <1>1, <1>2, Numbers DEF MayReceive
  <2>3. /\ disk' \in DiskState /\ disk'.chunks = disk.chunks + 1
        /\ disk'.table = disk.table /\ disk'.id = disk.id /\ disk'.fs = disk.fs
        /\ disk'.synced = disk.synced
    BY <1>1, <1>2, <2>1 DEF TypeOK, DiskState
  <2>4. CASE input = "tar"
    BY <1>2, <2>3, <2>4 DEF TarIn, TypeOK
  <2>5. CASE input # "tar"
    <3>1. pipe' = [pipe EXCEPT !.chunks = @ - 1]
      BY <2>5 DEF TarIn
    <3> QED
      BY <1>2, <2>2, <2>3, <2>5, <3>1 DEF TypeOK, PipeState
  <2> QED
    BY <2>4, <2>5
<1>4. TypeOK'
  BY <1>1, <1>2, <1>3 DEF TypeOK
<1>5. PipeInv' /\ SucceededInv'
  BY <1>1, <1>2, <1>3 DEF PipeInv, Reading, Running, SucceededInv, None
<1>6. CountInv'
  BY <1>1, <1>2 DEF CountInv
<1>7. SizeInv'
  BY <1>1, <1>2, SizeKept
<1>8. UploadInv'
  <2>1. CASE input = "tar"
    <3>1. disk.chunks + 1 <= content
      BY <1>1, <1>2, <2>1, Numbers DEF MayReceive
    <3> QED
      BY <1>1, <1>2, <1>3, <2>1, <3>1 DEF UploadInv
  <2>2. CASE input # "tar"
    <3>1. disk'.chunks + pipe'.chunks + child.left = disk.chunks + pipe.chunks + child.left
      BY <1>2, <1>3, <2>2, Numbers
    <3> QED
      BY <1>1, <1>2, <1>3, <2>2, <3>1 DEF UploadInv
  <2> QED
    BY <2>1, <2>2
<1>9. DiskInv'
  BY <1>1, <1>2, <1>3, MbrKept DEF DiskInv, Sized, Created, Formatted
<1>10. FilesInv'
  BY <1>1, <1>2 DEF FilesInv
<1> QED
  BY <1>4, <1>5, <1>6, <1>7, <1>8, <1>9, <1>10 DEF IInv

LEMMA EndUploadStep == IInv /\ EndUpload => IInv'
<1> SUFFICES ASSUME IInv, EndUpload
             PROVE  IInv'
  OBVIOUS
<1>1. /\ at = "upload" /\ exit = -1 /\ Received
      /\ at' = IF input = "tar" THEN "shutdown" ELSE "upload status"
      /\ args' = args /\ opt' = opt /\ input' = input /\ content' = content
      /\ tmpfile' = tmpfile /\ counted' = counted
      /\ capacity' = capacity /\ out' = out /\ disk' = disk /\ child' = child
      /\ pipe' = pipe /\ exit' = exit
  BY DEF IInv, EndUpload, At, given
<1>2. /\ TypeOK /\ PipeInv /\ SucceededInv /\ CountInv /\ SizeInv /\ UploadInv
      /\ DiskInv /\ FilesInv
  BY DEF IInv
<1>3. TypeOK'
  BY <1>1, <1>2 DEF TypeOK, Place
<1>4. PipeInv' /\ SucceededInv'
  <2>1. CASE input = "tar"
    BY <1>1, <1>2, <2>1 DEF PipeInv, Reading, SucceededInv
  <2>2. CASE input # "tar"
    <3>1. ~Running /\ child.at # None
      BY <1>1, <1>2, <2>2 DEF PipeInv, Reading, Received, AtEOF
    <3>2. child.at \in {"succeeded", "failed"}
      BY <1>2, <3>1 DEF Running, TypeOK, ChildState
    <3> QED
      BY <1>1, <1>2, <2>2, <3>2 DEF PipeInv, Reading, SucceededInv
  <2> QED
    BY <2>1, <2>2
<1>5. CountInv'
  BY <1>1, <1>2 DEF CountInv
<1>6. SizeInv'
  BY <1>1, <1>2, SizeKept
<1>7. UploadInv'
  BY <1>1, <1>2 DEF UploadInv, Received, AtEOF
<1>8. DiskInv'
  BY <1>1, <1>2, MbrKept DEF DiskInv, Sized, Created, Formatted, Received
<1>9. FilesInv'
  BY <1>1, <1>2 DEF FilesInv
<1> QED
  BY <1>3, <1>4, <1>5, <1>6, <1>7, <1>8, <1>9 DEF IInv

LEMMA CheckUploadStatusStep == IInv /\ CheckUploadStatus => IInv'
<1> SUFFICES ASSUME IInv, CheckUploadStatus
             PROVE  IInv'
  OBVIOUS
<1>1. /\ at = "upload status" /\ exit = -1 /\ child.at = "succeeded" /\ args' = args
      /\ opt' = opt /\ input' = input /\ content' = content
      /\ at' = "shutdown" /\ tmpfile' = tmpfile /\ counted' = counted
      /\ capacity' = capacity /\ out' = out /\ disk' = disk /\ child' = NoChild
      /\ pipe' = NoPipe /\ exit' = exit
  BY DEF IInv, CheckUploadStatus, EndWait, At, given
<1>2. /\ TypeOK /\ PipeInv /\ SucceededInv /\ CountInv /\ SizeInv /\ UploadInv
      /\ DiskInv /\ FilesInv
  BY DEF IInv
<1>3. NoPipe \in PipeState /\ NoPipe.chunks = 0 /\ NoChild \in ChildState /\ NoChild.at = None
  BY DEF NoPipe, PipeState, NoChild, ChildState
<1>4. TypeOK'
  BY <1>1, <1>2, <1>3 DEF TypeOK, Place
<1>5. PipeInv' /\ SucceededInv'
  BY <1>1, <1>2, <1>3 DEF PipeInv, Reading, SucceededInv, None
<1>6. CountInv'
  BY <1>1, <1>2 DEF CountInv
<1>7. SizeInv'
  BY <1>1, <1>2, SizeKept
<1>8. UploadInv'
  BY <1>1, <1>2 DEF UploadInv
<1>9. DiskInv'
  <2>1. child.left = 0 /\ pipe.chunks = 0
    BY <1>1, <1>2 DEF SucceededInv, UploadInv
  <2>2. disk.chunks + pipe.chunks + child.left = content
    BY <1>1, <1>2 DEF UploadInv
  <2>3. disk.chunks = content
    BY <1>2, <2>1, <2>2, Numbers
  <2> QED
    BY <1>1, <1>2, <2>3, MbrKept DEF DiskInv, Sized, Created, Formatted
<1>10. FilesInv'
  BY <1>1, <1>2 DEF FilesInv
<1> QED
  BY <1>4, <1>5, <1>6, <1>7, <1>8, <1>9, <1>10 DEF IInv

LEMMA ShutdownStep == IInv /\ Shutdown => IInv'
<1> SUFFICES ASSUME IInv, Shutdown
             PROVE  IInv'
  OBVIOUS
<1>1. /\ at = "shutdown" /\ exit = -1 /\ args' = args /\ opt' = opt /\ input' = input
      /\ content' = content /\ at' = at /\ tmpfile' = tmpfile
      /\ counted' = counted /\ capacity' = capacity /\ out' = out
      /\ disk' = [disk EXCEPT !.synced = TRUE] /\ child' = child /\ pipe' = pipe
      /\ exit' = 0
  BY DEF IInv, Shutdown, At, given
<1>2. /\ TypeOK /\ PipeInv /\ SucceededInv /\ CountInv /\ SizeInv /\ UploadInv
      /\ DiskInv /\ FilesInv
  BY DEF IInv
<1>3. /\ disk' \in DiskState /\ disk'.synced = TRUE /\ disk'.fs = disk.fs
      /\ disk'.table = disk.table /\ disk'.id = disk.id /\ disk'.chunks = disk.chunks
  BY <1>1, <1>2 DEF TypeOK, DiskState
<1>4. TypeOK'
  BY <1>1, <1>2, <1>3 DEF TypeOK, Place
<1>5. PipeInv' /\ SucceededInv'
  BY <1>1, <1>2 DEF PipeInv, Reading, Running, SucceededInv, None
<1>6. CountInv'
  BY <1>1, <1>2 DEF CountInv
<1>7. SizeInv'
  BY <1>1, <1>2, SizeKept
<1>8. UploadInv'
  BY <1>1, <1>2 DEF UploadInv
<1>9. DiskInv'
  BY <1>1, <1>2, <1>3, MbrKept DEF DiskInv, Sized, Created, Formatted
<1>10. FilesInv'
  BY <1>1, <1>2 DEF FilesInv
<1> QED
  BY <1>4, <1>5, <1>6, <1>7, <1>8, <1>9, <1>10 DEF IInv

LEMMA StutterStep == IInv /\ UNCHANGED vars => IInv'
<1> SUFFICES ASSUME IInv, UNCHANGED vars
             PROVE  IInv'
  OBVIOUS
<1>1. /\ args' = args /\ opt' = opt /\ input' = input /\ content' = content
      /\ at' = at /\ tmpfile' = tmpfile /\ counted' = counted
      /\ capacity' = capacity /\ out' = out /\ disk' = disk /\ child' = child
      /\ pipe' = pipe /\ exit' = exit
  BY DEF IInv, vars, given
<1>2. /\ TypeOK /\ PipeInv /\ SucceededInv /\ CountInv /\ SizeInv /\ UploadInv
      /\ DiskInv /\ FilesInv
  BY DEF IInv
<1>3. TypeOK'
  BY <1>1, <1>2 DEF TypeOK, Place
<1>4. PipeInv' /\ SucceededInv'
  BY <1>1, <1>2 DEF PipeInv, Reading, Running, SucceededInv, None
<1>5. CountInv'
  BY <1>1, <1>2, CountKept
<1>6. SizeInv'
  BY <1>1, <1>2, SizeKept
<1>7. UploadInv'
  BY <1>1, <1>2, UploadKept
<1>8. DiskInv'
  BY <1>1, <1>2, DiskKept
<1>9. FilesInv'
  BY <1>1, <1>2 DEF FilesInv
<1> QED
  BY <1>3, <1>4, <1>5, <1>6, <1>7, <1>8, <1>9 DEF IInv

-----------------------------------------------------------------------------
(* Theorems.                                                               *)

(* The inductive invariant of do_make_fs and its subprocesses.             *)
THEOREM Invariance == Spec => []IInv
<1>1. ASSUME IInv, Program
      PROVE  IInv'
  BY <1>1, GetOptStep, RefuseStep, AcceptStep, MakeTmpfileStep, IdentifyStep,
     ReturnFailureStep, ForkToCountStep, ParentClosesStep, CountStep, EndCountStep,
     CheckCountStatusStep, DiskCreateStep, PartDiskStep, MkfsStep, PrepareInputStep,
     TarInStep, EndUploadStep, CheckUploadStatusStep, ShutdownStep
     DEF Program
<1>2. ASSUME IInv, Child \/ ChildFails
      PROVE  IInv'
  BY <1>2, ChildStartsStep, ChildWritesStep, ChildEndsStep DEF Child
<1>3. IInv /\ [Next]_vars => IInv'
  BY <1>1, <1>2, ReturnFailureStep, InputChangesStep, KillStep, StutterStep DEF Next
<1> QED
  BY InitIInv, <1>3, PTL DEF Spec

(* The options, the disk, the subprocess and the pipe are of their types.  *)
THEOREM TypeCorrect == Spec => []TypeOK
<1>1. IInv => TypeOK
  BY DEF IInv
<1> QED
  BY <1>1, Invariance, PTL

(* A successful exit leaves the whole input on the disk that was asked     *)
(* for, a failure neither an output nor a temporary file (make-fs.c        *)
(* 667-674, 883-889).                                                      *)
THEOREM OutputIsWhole == Spec => []OutputIsCompleteOrGone
<1>1. IInv => OutputIsCompleteOrGone
  <2> SUFFICES ASSUME IInv
               PROVE  OutputIsCompleteOrGone
    OBVIOUS
  <2>1. exit = 1 /\ at # "options" => out = "absent" /\ ~tmpfile
    BY DEF IInv, FilesInv
  <2>2. ASSUME exit = 0
        PROVE  /\ out = "new" /\ ~tmpfile
               /\ disk = [table |-> opt.partition, id |-> MbrId, fs |-> opt.type,
                          chunks |-> content, synced |-> TRUE]
    <3>1. at = "shutdown" /\ out = "new" /\ ~tmpfile
      BY <2>2 DEF IInv, DiskInv, Sized, Created, Formatted
    <3>2. /\ disk.table = opt.partition /\ disk.id = MbrId /\ disk.fs = opt.type
          /\ disk.chunks = content /\ disk.synced = TRUE
      BY <2>2, <3>1 DEF IInv, DiskInv, Formatted
    <3>3. disk \in DiskState
      BY DEF IInv, TypeOK
    <3> QED
      BY <3>1, <3>2, <3>3 DEF DiskState
  <2> QED
    BY <2>1, <2>2 DEF OutputIsCompleteOrGone
<1> QED
  BY <1>1, Invariance, PTL

(* The disk is never sized from a part of the input, whenever the          *)
(* subprocess that counts it dies (make-fs.c 320-341, 687-726).            *)
THEOREM SizedFromAll == Spec => []SizedFromTheWholeInput
<1>1. IInv => SizedFromTheWholeInput
  <2> SUFFICES ASSUME IInv, at = "partition"
               PROVE  /\ counted = content * ChunkSize
                      /\ opt.size.plus => capacity >= content * ChunkSize + opt.size.kib
    BY DEF SizedFromTheWholeInput
  <2>1. counted = content * ChunkSize
    BY DEF IInv, SizeInv
  <2>2. opt.size.plus => capacity = Estimate + opt.size.kib
    BY DEF IInv, SizeInv
  <2>3. Estimate \in Nat /\ Estimate >= counted /\ counted \in Nat /\ opt.size.kib \in Nat
    BY EstimateCovers, Numbers DEF IInv
  <2> QED
    BY <2>1, <2>2, <2>3
<1> QED
  BY <1>1, Invariance, PTL

=============================================================================
