# Verification of guestfs-tools

TLA+ models of the parts of guestfs-tools in which something can go wrong that
a test would hardly reach: concurrent threads and processes, files shared
between them, a guest that goes on running, disks that are overwritten in many
steps, reports that have to be complete. TLC checks the models on small
instances; TLAPS proves every safety property of these runs for every value of
the constants.

Paths are relative to the root of the repository. Every module names the file
it models; `PROJECT.json` maps each definition to the lines it stands for.

## 1. Inventory

The repository is a collection of programs around libguestfs. Each of them is
one process that drives an appliance through one handle. They do not talk to
each other; what they share is files: the template cache of virt-builder, the
index of a repository, a disk image that a guest has open. The directory
`common` is a submodule and empty here, so the planner, the thread pool of
virt-df and virt-alignment-scan, the curl wrapper and the customize library are external.

| Part | State it keeps | Operations | What is hard about it | What makes it correct |
|---|---|---|---|---|
| **pxzcat** `builder/pxzcat-c.c` | output file, shared block iterator and mutex, position and buffer of each thread, status of each thread | prepare output, parse the index, start threads, take a block, decode, skip zeroes, write, join | threads share an iterator, a file and the caller's stack frame; zeroes are not written; one thread may fail while others succeed | the output is exact or the call raises; no block is taken twice or left out; no thread outlives the call |
| **downloader and cache** `builder/downloader.ml`, `cache.ml` | files in the cache directory, temporary files, files to unlink at exit | look up, HEAD, GET, rename, `--delete-cache`, exit | parallel instances, kills, network errors, a site that changes, `rm -rf` in between | no partial file under a final name, no temporary left behind, what is used was verified as far as its index entry allows |
| **index selection** `builder/builder.ml` 37-102 | list of entries, hash table, result | fill, filter, select | two scans that have to agree; revisions of two types | each template once, the earlier source first, what is offered is found |
| **planner and build** `builder/builder.ml` 435-660 | tags of the input and the goal, plan, output file | search of transitions, execution of tasks, removal of the output at exit | which transition leads to which tags; never modify the cached template | a plan ends in the goal and leaves the cache alone |
| **sources, signatures** `builder/sources.ml`, `sigchecker.ml`, `cmdline.ml` | list of sources, imported keys | read `.conf` files, import keys, verify | precedence of directories; a file that cannot be parsed; `--source` paired with `--fingerprint` | nothing unverified is accepted while a key is given |
| **virt-builder-repository** `builder/repository_main.ml` | index, images, temporary directory | find new images, compress, write the index, sign, publish | files are moved one by one; a crash in between | the published index only names images that are there |
| **virt-resize** `resize/resize.ml` | operation of each partition, surplus, layout, target disk | options, surplus, `--expand`, `--shrink`, partition, copy, expand content | arithmetic of two units and three roundings; the target is overwritten before all is known | requests that cannot be met are refused first; partitions fit; content and tables survive |
| **virt-sparsify** `sparsify/in_place.ml`, `copying.ml` | list of tasks, quit flag; overlay, three SIGINT handlers | zero, trim, discard, save and restore the swap header; fill, convert | ^C or a failure between two calls | a filesystem that is kept loses nothing; no overlay is left |
| **virt-tail** `tail/tail.c` | size and mtime of each file, last file displayed, handle, quit flag | launch, stat, read, display, wait, reopen | the guest writes meanwhile; ^C at any point; failing calls | what is appended is displayed once and under its banner; the program ends |
| **virt-format** `format/format.c` | disks as the appliance and the host have them, attempt, count of errors | wipefs and zero, or wipe, discard, rescan, partition, LVM, mkfs, sync, retry | a sequence run twice in two appliances; a kernel that keeps the old partitions | after a success every disk holds what was asked for; nothing is made on a stale view |
| **virt-make-fs** `make-fs/make-fs.c` | output file, temporary file, subprocess, pipe, estimate | estimate, create, partition, mkfs, upload, unlink | two processes and a pipe, twice; either may fail; the first pass sizes the disk for the second | the output is complete or gone; the disk is never sized from a part of the input; both processes end |
| **virt-diff** `diff/diff.c` | two lists of files, position in both, buffer of stdio | walk, merge, compare, run diff | merge of lists that must be sorted; two writers of one output; a full disk | every difference reported once, diff behind its line |
| **virt-alignment-scan**, **virt-df** `align/scan.c`, `df/` | worst alignment and its mutex, a stream for each guest, result of each | add, launch, list, classify or mount and stat, print | threads that share one minimum; a guest, disk or filesystem that fails among others | the exit status is that of the worst; success means a full report |
| **virt-filesystems** `filesystems/filesystems.c` | rows, widths of the columns | list six kinds of objects, find parents, print text or CSV | columns dropped at the end; CSV written in blocks, before later calls fail; two spellings of UUIDs | each object once, values under their headings, CSV that reads back |
| **virt-sysprep** `sysprep/` | set of operations, side effects | select, order, perform | algebra of `--operations`; device operations last | the operations asked for run once, in order |
| others: cat, ls, log, inspector, edit, get-kernel, drivers, win-reg, customize | none between calls | mount, read, print | little: read-only, sequential | output |

Interactions: virt-builder selects an entry (index selection), looks its file
up in the cache or downloads it (downloader), verifies it (sigchecker), and
carries out a plan whose first task reads the cached file by name (cp, pxzcat
or virt-resize); pxzcat runs threads inside that process. `PROJECT.json` lists
every component with its status, and under `hazards` what is hard to test, each
at its line.

## 2. Plan

Order: what can silently produce a wrong disk image first.

| Step | Module | Composes | Status |
|---|---|---|---|
| 1 | `XzOutput` (abstract), `Pxzcat`, `PxzcatInvariant`, `PxzcatProofs` | Pxzcat implements XzOutput | done, proved |
| 2 | `XzIndex`, `PxzcatProofs` | its result is what Pxzcat assumes of the index | done, proved |
| 3 | `TemplateCache`, `BuilderProofs` | lookup, download, verification and use by parallel instances | done, proved |
| 4 | `IndexSelection`, `BuilderProofs` | its entry is what TemplateCache downloads | done, proved |
| 5 | `VirtTail`, `VirtTailProofs` | program, guest, user | done, proved |
| 6 | `ResizeLayout`, `ResizeLayoutInvariant`, `DisksProofs` | options, surplus, layout, copies | done, proved |
| 7 | `GuestScan`, `GuestReportProofs` | the pool's threads, virt-alignment-scan or virt-df in each | done, proved |
| 8 | `DiffTrees`, `DiffTreesProofs` | program, external diff, disk that fills up | done, proved |
| 9 | `FormatDisks`, `DisksProofs` | program, kernel of the appliance, two attempts | done, proved |
| 10 | `MakeFs`, `MakeFsProofs` | program, subprocess, pipe, signal | done, proved |
| 11 | `FilesystemsReport`, `GuestReportProofs` | text and CSV output of one list | done, proved |
| 12 | `RepositoryPublish`, with an abstract specification of a published repository (index and images change at once) | readers of the repository at the same time | to do |
| 13 | `SparsifyTasks`: tasks, quit flag, swap header, overlay | user, failing calls | to do |
| 14 | `BuildPlan`: the transitions of builder.ml over all inputs, with the removal of the output at exit | uses the cached file of TemplateCache | to do |
| 15 | `SysprepOperations`, `GetKernel` | pure algorithms against a reference definition | to do |

Theorems to prove next, in this order: that `TemplateCache` implements a cache
in which a template appears at once (an abstract specification as there is for
pxzcat); what `ResizeLayout` and `MakeFs` may write when, as action properties.

Runs for the later modules: bounded as the present ones, a few hundred thousand
states each, one run for each question.

## 3. Modules and code

**Pxzcat** has the calling thread (`main`) and the workers (`pc[t]`). One
action stands for the code between two points where another thread can
interfere. The caller: `OpenOutput`, `TruncateToOne`, `ZeroFirst`, `Extend`
(pxzcat-c.c 175-214), `CreateThread` and `CreateFails` (466-471), `JoinThread`
(473-483), `CheckErrors` (485), `CloseFiles`. A worker: `Lock`, `IterNext` or
`IterExhausted`, `CopyIter`, `Unlock`, `ReadHeader`, then `FillBuffer`
(decode), `SkipZeroes` or `Pwrite`, and `EndBlock`; `BlockFails` is every early
return. A `pwrite` writes any part of what is left, as xpwrite allows for. A
position stands for any fixed run of bytes. The file may exist, with any
content, before the call. `status` has a third value for memory that malloc
did not initialize. Blocks are intact, or have a header or data that liblzma
rejects; data that is rejected may have been written in part.

**XzOutput** is the promise to the caller: all zeroes, then each position goes
to its final value, and a normal return means that the file is the data of an
undamaged input. `ImplementsXzOutput` maps the four preparing steps to
`prepare`.

**PxzcatInvariant** holds the inductive invariant, **PxzcatProofs** the proofs.

**XzIndex** is `parse_indexes` (246-402): `CheckSize`, `SkipPadding`,
`DecodeFooter`, `DecodeIndex`, `DecodeHeader`, `Return`, and `Reject`, which is
every exception. `pos` is the variable of the code,
`offset` the kernel's file offset; they differ after a stream header has been
read, and after padding. A file is a sequence of units of 4 bytes, each with
the part it belongs to, and at most one unit is damaged.

**TemplateCache** has any number of instances: `Lookup`, `HeadRequest`, `Get`,
`Transfer`, `Rename` (downloader.ml 43-144), `Template` (builder.ml 309-319),
then `Verify` for an entry that has a checksum (321-341), which is compared even
with `--no-check-signature`, or `GetSignature` and `VerifyDetached` for one that
has not (343-354), `Use` (the first task of the plan), and `Exit`, which is what
On_exit does with the names in `unlinks`. Around them are the site, `Kill` and
`--delete-cache`, which deletes one file at a time. `setup` says what a
behaviour tries: `disturb` which of these disturbances there are, `entry`
whether the index entry has a checksum, a signature or nothing, and `check` who
checks signatures; `--no-check-signature` and a source without a key
(sigchecker.ml 100-104) both mean that nobody does. Without disturbances other
than kills and deletion, `NotKilledSucceeds` is claimed.

**IndexSelection** has one action for each iteration of the two scans of
`remove_duplicates` and `Select` for `selected_cli_item`; `First`, `Aliased` and
`Wanted` are what List.find, over a list in its order, is asked for. Revisions are
integers or strings, compared as the code does, so that mixed ones need not be
transitive.

**VirtTail** is `do_tail` with the guest (append, rewrite, delete), the drive's
mtime, SIGINT at any point and the failure of any call. `shown[f][p]` counts
how often position p of file f has been displayed, which is what the
properties speak of. statns and the read are two steps (`Notice`, `Display`),
and the appliance may see a file anew before each of them (`NewView`); a read
may fail or be short (`ReadLess`). `reopen_handle` is three steps, since a
signal can come between them: `UserCancel` on the handle that is already closed
may be a crash. `setup` is what a behaviour tries: the number of files, what the
guest does, which calls may fail, and the limits of the code in units of the
model.

**ResizeLayout** goes from the sanity checks of the source through the options,
one at a time in the code's order, `calculate_surplus` (each step of the fold),
`--expand` and `--shrink`, to `part_init` with its retries, the boot loader,
the loop that places the partitions, `part_add` and `copy_partition`. Each byte
of the target disk says where it was copied from. The boot loader is copied in
two parts, the second from `LoaderStart`, which is a constant of its own: where
the partition table ends (`TableBytes`) depends on its type and on the sectors.
The source disk has a size (`insize`), and the boot loader may reach beyond it
(`BootLoaderIsShort`). parted is external: `Acceptable` is what it accepts, with
ends below zero counted from the end of the disk (`PartEnd`), and a copy of a
negative size is refused (`CopyIsRefused`). Logical volumes, the expansion of contents,
attributes of partitions and the fix of the NTFS boot sector are left out.

**GuestScan** is `scan_work` of align/scan.c and `df_work` of df/df.c, one call
`work[d]` for each guest, in at most `MaxThreads` threads: `AddDomain`,
`Launch`, `List`, then `NextDevice`, `NextPartition`, `Lock`, `Compare`,
`Assign`, `Unlock` for a scan, or `NextFilesystem` for df. `CallFails` is every
call of libguestfs that returns an error, `NameFails` the `exit` in
`print_stat`, which ends the program from within a thread. The read and the
write of `worst_alignment` (336, 337) are two steps, so that the mutex is what
makes them one. A row is a sequence of fields; `Scale`, `Size` and `Percent`
are the arithmetic of df/output.c. `Finish` is the exit status. `start_threads`
is external: it gives each call a stream of its own and copies it to standard
output (`TakeDomain`, `Retire`). `FullReport` is what a complete report holds:
the rows of each disk, or of each filesystem that can be mounted, one after the
other. Block sizes are powers of two (`BlockSizes`), which is what makes
`scale` exact (df/output.c 82).

**DiffTrees** is diff/diff.c: `OpenGuest`, `VisitEntry`, `EndVisit` and
`VisitFails` for each guest, then the merge of `diff_guests` (`Deleted`,
`Added`, `Same`, `OnlyStatsChanged`, `FileChanged`) and `RunDiff`. A file is a
record of the attributes that the code treats differently, `Flattened` is what
`visit_entry` does to them. Paths are numbers in the order of strcmp, and
`walk` is the order in which the guest is walked, which need not be the same:
`VisitEntry` takes the next file of that order which the guest has.
Lines go to `buffer`, and to `stdout` when it is full or flushed; `DiskFull`
may happen at any time.

**FormatDisks** is format/format.c: `HandleOption` for each option, read one at a
time from `args` as getopt_long does, `Launch`,
`Wipefs` and `Zero` without `--wipe`, `ZeroDevice` with it, `Discard`, `Rescan`
and `LvmScan`, `Reopen` or `GiveUp`, `MakePartition`, `CreateLV`, `Mkfs`, `Sync`,
`Shutdown`. `remains` is what a disk still has of its old contents: signatures
that only wipefs finds, and data. `CreateFails` is the new handle that is NULL
and used nevertheless. `disks` is what the appliance has written, `host`
what has reached the host; `stale` are the disks whose old partitions the
kernel of the appliance still knows.

**MakeFs** is make-fs/make-fs.c: its options, one at a time, the program (`at`), its subprocess (`child`)
and the pipe with the processes that have each end open. `ForkToCount` to
`CheckCountStatus` are `exec_command_count_output`, `PrepareInput` to
`CheckUploadStatus` are `bg_command`, `guestfs_tar_in` and `waitpid`.
`ReturnFailure` is every `return -1`, with the unlinking that the attributes of
the variables do. Sizes are KiB: `Estimate` is the computation of 687-726. How
much of the disk the files take is not known, since blocks, indirect blocks and
directories are not counted (388-394, 529-532): the disk may be full at any chunk,
which is one of the failures of `guestfs_tar_in`.

**FilesystemsReport** is filesystems/filesystems.c: `Kinds` are the six
functions of `do_output`; `Skip` and `Write` handle one entry of a list,
`WriteRow` goes to `rows` in text mode and to `csv_output` in CSV; `End` prints
the rows to `printout`. Tokens of CSV are in the buffer of stdio until it writes
them, any number at any time (`Flush`, `written`), at the latest at `Exit`; in a
crash they are lost. Standard output may take no more from some moment on
(`OutputFills`), which nobody looks at. Fields are sequences of tokens, so that quoting can be
checked by reading the output back (`ReadCsv`). `GuestsAssumption` gives the
types of what libguestfs returns, kind by kind: a name is never empty, a label
may be.
`ComparePvuuids` and `ResolvePv` are as in the code, with its results the wrong
way round.

## 4. Runs

| Run | Shows | Bounds and why they are enough |
|---|---|---|
| `pxzcat` | exact output or an exception; no block shared; failures reported; no thread left when all were started; end of everything; the refinement | 2 threads, 3 blocks: one of two buffers with a partial last one, one empty, one short; contents over {0, 1}; an old file of at most one position; every set of damaged blocks. Races are between two threads; the proofs cover all numbers |
| `xz_index` | an index that is returned is exact; what xz writes is parsed; parsing ends | up to 2 streams, each with padding; one damaged unit anywhere |
| `virt_tail` | the end of a changed file is shown, with several files under its banner; the handle is open; appended positions shown once; ^C and deletion end the program, if only by a crash | one file, 2 generations, sizes to 2, 2 mtimes, reads that fail; one file of a local drive with any call failing; and two files that grow and are deleted, where growth by a lot cannot occur, since then the code shows the end only |
| `template_cache` | no partial file in the cache; an instance that ends leaves nothing of its own and takes nothing from the others; what is used was verified, unless a parallel instance replaced the file in between (`replaced`); an instance that is left alone succeeds | 2 instances, 2 revisions; with a checksum everything may happen; with a signature, which one instance checks, the site changes, or only kills and `--delete-cache` happen; with neither |
| `index_selection` | each template once, order of sources, what is offered is found | all indexes of up to 3 entries, 2 names, 2 spellings of one architecture, revisions that form a cycle |
| `resize` | the layout fits; content and tables survive; nothing is refused late, but for three cases that are named; `--expand` and `--shrink` are exact | 9 source disks of one or two partitions (bootable NTFS alone and not, aligned and not, extended, swap, overlapping), 3 source sizes, two of them too small for some boot loader, 4 target sizes from too small to roomy, tables that hold 2 partitions and so are full, sectors of 2 bytes; every option |
| `guest_scan` | exit status of the worst partition; success means a complete report; the end | 3 guests, 2 threads, so that a thread takes a second guest; offsets of each class of alignment, also of the one for which code and manual disagree; disks without a label, filesystems that cannot be mounted, guests that cannot be added; block sizes below, at and above 1K |
| `diff_trees` | the report is the difference; nothing is missed; diff behind its line | 3 paths, sorted and in the order of a directory walk, each equal, changed in one of several ways or absent; 6 command lines |
| `format_disks` | success is as requested, with no more of the old contents than `--wipe` or wipefs allow; no stale view; the end | 1 and 2 disks, appliances with wipefs and without: with LVM only one disk can succeed, and with two one can be stale; each type of partition table and of filesystem with a type byte of its own |
| `make_fs` | complete or gone; never sized from a part of the input; both processes end | up to 3 chunks of 1000 KiB through a pipe of one, so that the writer waits and more than one chunk can be missing; all filesystems, partitions and block sizes that change the estimate |
| `filesystems` | complete reports, all nine columns; CSV that reads back as far as it was written | guests with every kind of object, RAID, names with separators; text, CSV, titles, and selections of columns; stdio writes any part of the CSV at any time, and standard output may fill up |
| `filesystems_vg_parents` | **violated**: the parent of a volume group is the first PV of the guest | one guest with two PVs |

Every run has CHECK_DEADLOCK FALSE because the programs end.

### Disagreements between code and documentation

`filesystems_vg_parents` shows that `parents_of_vg` does not do what its comment
says (filesystems.c 880 and 883): `compare_pvuuids` returns 1 for a match, the
loop stops at the first 0; besides, `p` is never moved past a character that
has been compared.

Others met while modelling, without a run of their own:

- pxzcat-c.c 282: footers are looked for relative to the file offset, 275 says
  how it is meant; a file of two streams is rejected. 293: stream padding makes
  a file unreadable. 470: a failure of pthread_create leaves threads behind.
- builder.ml 55: of two revisions the lower one is kept, 45 says "higher".
- tail.c 450: the wait for a libvirt guest is 30 seconds, 438 promises five
  minutes. 374: the banner is printed for a single file too, 370-373 says that
  it is printed only if there is more than one; the property excludes a single
  file. 415: content that could not be read, or not all of it, is never
  displayed, and nobody is told. 401: what the guest appends between statns and
  tail, to a file that was empty for statns, is displayed again by the next
  poll. `AppendsShownOnce` and `EndIsShown` except these (`missed`, `unread`). 521:
  between the close of the old handle and the assignment of the new one ^C uses
  the closed handle, which `reopen_handle` says must never be.
- resize.ml 863: `--shrink` of swap space by more than its size passes every
  check and is refused after the target was wiped; virt-resize.pod 584-588
  promises a check. 1259: so is an extra partition on a full MBR table, and
  417-419: a source disk that is at least as long as the boot loader, but ends
  before LoaderStart + max_bootloader (1126). `NothingRefusedLate` names these
  three. 1322: an extended partition is copied to a multiple of 512 on disks
  with larger sectors. 1120-1128: on a GPT with sectors of 4096 bytes the entries
  are at bytes 8192 to 24575, and the boot loader is copied from and to byte
  17408, which is among them.
- builder.ml 343-354: a template whose index entry has no checksum is used
  unverified when signatures are not checked, and is verified against whatever
  signature the site has at that moment when they are.
- builder.ml 326: a parallel instance can replace a template between its
  verification and its use when the site changes. builder.ml 313, cache.ml 43:
  `--cache-all-templates` and an install may spell the architecture of a cached
  file differently.
- scan.c 265: exit status 3 is for alignments below 2^10, the comment beside it
  computes 4096, which virt-alignment-scan.pod 380-382 and the verdicts (341)
  use. `ExitStatusIsOfTheWorst` leaves the status open for a worst alignment
  of 1K or 2K: it may be 2 or 3.
- make-fs.c 692: the space for partition tables is a multiple of `blocksize`,
  which is 0 unless `--blocksize` is given, so nothing is added. 388-394,
  529-532: du --apparent-size and tar count bytes, not blocks, so that the
  estimate may fall short with many small files; tar_in then fails and the
  output is removed. Nothing is claimed about the estimate. Failures unlink an output that was
  there before; a kill leaves a partial one.
- diff.c 618: the merge is by strcmp, the comment in `struct tree` says "sorted
  by path", and the walk goes by directory: a name with a character below the
  slash may be reported as deleted and added. 635: checksums are compared only
  if the stats are equal. 724: the line "# changed:" may name no field. 868: in
  CSV a file without a checksum has one field less.
- filesystems.c 538: a statvfs that fails after a successful mount is used as
  NULL (`StatFails`); rows of CSV that stdio still has are lost, the last one may
  be torn. 977-1023: errors of putchar and printf are ignored, and so is that of
  the last flush: with a full disk the exit status is 0 and rows are missing,
  which is why `ReportIsComplete` excepts it. CSV rows are on standard output
  when a later call fails.
- format.c 428: with LVM and two disks the second `vgcreate` fails, after both
  disks were wiped. 276: guestfs_create may return NULL, which is not checked.
  348: without `--wipe` only the first blocks are zeroed, and signatures beyond
  them stay if the appliance has no wipefs.

## 5. Fairness

`pxzcat`: weak fairness of the caller and of each thread, which is the kernel's
scheduling. A thread that waits for the mutex can be overtaken only finitely
often, since each round takes a block. `virt_tail`: weak fairness of the
program only; neither guest nor user has to do anything. `TailEnds` assumes
that the files are gone for good, or ^C, by its left side. `template_cache`:
weak fairness of each instance, not of kills and not of `--delete-cache`.
`guest_scan`: weak fairness of each guest's call and of the main thread, which
is the kernel's scheduling too. `make_fs`: weak fairness of the program and of
the subprocess, which the kernel schedules; nothing has to fail, so a property
that holds only because a failure ends everything would be found out.
`xz_index`, `format_disks`: sequential, weak fairness of the next step. Calls of
liblzma, libguestfs and curl are assumed to return. The other runs check safety
only.

## 6. Proofs

The theorems about components that belong together are in one module:

| Module | About |
|---|---|
| `PxzcatProofs` | `Pxzcat`, `XzIndex` |
| `BuilderProofs` | `TemplateCache`, `IndexSelection` |
| `DisksProofs` | `ResizeLayout`, `FormatDisks` |
| `VirtTailProofs` | `VirtTail` |
| `MakeFsProofs` | `MakeFs` |
| `GuestReportProofs` | `GuestScan`, `FilesystemsReport` |
| `DiffTreesProofs` | `DiffTrees` |
| `FlattenTheorems` | induction, and `FlattenSeq` of the community modules |

Where two components share a module, the names of one of them carry a prefix
(`ParseSpec`, `SelectionSpec`, `FormatSpec`, `ReportSpec`). Every part has the
same shape: `TypeOK` and named parts are joined in an inductive invariant `IInv`
(in `PxzcatInvariant` and `ResizeLayoutInvariant`, or at the top of the proofs),
a lemma says that the initial states satisfy it, a lemma for each part or each
action that a step keeps it, `Invariance` is `Spec => []IInv`, and the
properties follow from it. None of the properties below is inductive by itself.
All of them hold for every value of the constants that satisfies the named
assumptions of the module; TLC evaluates those on every run.

The models bound what a run explores (sizes, numbers of revisions, threads);
in the proofs these bounds are constants too, so the results do not depend on
them.

### pxzcat, the threads (`PxzcatProofs`)

For every number of threads, blocks and positions, every buffer size and every
set of damages: `TypeCorrect`, `BlocksAreExclusive`, `AllBlocksClaimed`,
`OutputIsExact`, `WorkersAreJoined`; `FailuresAreReported` and `WritesAreLocal`,
which are action properties; and `Refinement`: `Spec => ImplementsXzOutput`.
They assume positive numbers of threads and a positive buffer
(`ConstantsAssumption`), and that the blocks of the index tile the file, which
liblzma's index guarantees (`IndexAssumption`).

`IInv` adds what each part of the program knows: who holds the mutex
(`MutexInv`), how far each thread's life has got (`ThreadInv`), what the caller
has done (`CallerInv`), that the iterator is only finished when no block is left
(`IterInv`), that a block is held by the thread that took it and nobody else,
also while the iterator has moved and the copy has not been made (`ClaimInv`),
where a thread is in its block and what is in its buffer (`PositionInv`), and
the content of the file (`OutputInv`): an unclaimed block reads as zeroes, a
held one has the data up to its thread's position and zeroes after it, and a
block that is neither unclaimed, held nor lost with a failed thread is complete.
`OutputIsExact` follows since at a normal return all threads have ended with
status 0, so all blocks are claimed, none is held and none is lost. Skipping
zeroes is right because of the zeroes after the position; that is where the
order of truncating, overwriting and extending the file is needed.

### pxzcat, the index (`PxzcatProofs`)

For files of any number of streams and any sizes, with any unit damaged:
`ReturnedIndexIsTheFile` and `WhatXzWritesIsParsed`, and on the way to them
`OnlySingleStreamsAreReturned`: the comment at pxzcat-c.c 379 speaks of
multi-stream files, but what is returned is always a single stream without
padding, since the second footer is looked for in the wrong place (282).

The argument is about the last stream of the file. Whatever comes before it,
its parts are the last units (`StreamUnits`, from `FlattenAppend`). Until a
footer is decoded the file offset is at the end of the file (`AtEnd`), so that a
footer is found there only if no padding follows, and it is the one of the last
stream (`OfLast`). Once that stream's header has been read, the offset is behind
a header (`HeaderDecoded`), where no footer can end: no second stream is ever
decoded, and `pos = 0`, without which nothing is returned, says that there is
none. The parts decoded on the way were intact, so damage can only be in the
blocks.

### virt-resize (`DisksProofs`)

For every source disk, size of the target disk, sector size, alignment and list
of options:

- `PartitionsAlwaysFit`: the target partitions are in order, disjoint and on the
  disk, wherever no partition is left with a size of zero or less.
- `SurplusIsUsedUp`: `--expand` and `--shrink` leave a surplus of exactly zero.
- `ContentIsPreserved` and `TableStaysIntact`: under `Geometry`, content is on
  the target disk in the end, at the place that the table says, and the tables
  at both ends survive (the latter while no size is below zero, which only swap
  space can have).
- `NothingIsRefusedLate`: under `Geometry` and `SizedSources`, whatever `part_add`
  or a copy refuses is one of three cases that the code does not check in time:
  swap space that `--shrink` leaves with nothing (`SwapShrunkAway`), an extra
  partition for which the table has no slot (`NoSlotForExtra`), a source disk
  that ends within the boot loader (`LoaderCutOff`). Swap space and full tables
  are among the sources; the theorem says that there is no fourth case.

`Geometry` says that the partition table fits in front of `LoaderStart`, which
holds for an MBR and for a GPT in sectors of 512 bytes but not of 4096, and in
front of the first partition of the source and of the target (which is at a
multiple of the alignment, 128 sectors or what `--alignment` gives); that the
backup of a GPT, 33 sectors, fits in the 64 that the overhead counts; that the
boot loader ends before it; that the source has no more partitions than its
table can hold; and that an extended partition, which is copied by
sectors of 512 bytes (resize.ml 1322), is on a disk that has them; on other disks
the code loses it. So nothing is proved about boot loaders on GPT disks with
sectors of 4096 bytes, where the copy does land in the table, nor about a very
small `--alignment`. `SizedSources` says that no partition is empty, nor known
content. `InstanceAssumption` in `MCResizeLayout` has TLC confirm that
the checked instance satisfies both.

`calculate_surplus` and the loop that places the partitions (resize.ml 1180)
compute the layout independently: one adds sizes and one alignment for each
partition and one more, the other rounds each size up to sectors and each start
up to the alignment. `IInv` ties them together: the sums are those of the
present operations (`SumsInv`), the surplus is that of the complete sum and not
negative once the target is written (`SurplusInv`), and during the loop the next
start, in bytes, is at most the first one plus the sum so far plus one
alignment for each partition behind it (`PlacedInv`). The two roundings of a
partition cost less than a sector and less than an alignment, together at most
one alignment (`Rounding`); the alignment that is counted in addition pays for
moving the first partition (`Room`). For `SurplusIsUsedUp` the fold is run a
second time with one size changed: the new totals differ from the old ones by
the surplus from that partition on (`AdjustInv`, `AdjustedTotals`). `DiskInv`
is a second invariant on top of `IInv`: content fits in its partition and in
its new size unless forced (`MarkInv`), what will be copied fits in its target
partition (`FilledInv`), every partition that is not deleted has one
(`EachPlacedInv`), what `part_add` has accepted is acceptable (`AcceptedInv`), and
what has been copied is still there (`CopiedInv`), because the partitions are
disjoint and behind the table. `SwapInv` says that only swap space, and only by
`--shrink`, can be left with nothing.

### virt-builder: cache and selection (`BuilderProofs`)

For any number of instances and revisions, whichever disturbances (kills,
network errors, a changing site, `--delete-cache`) there are, and whichever kind
of entry the index has: `CacheIsNeverPartial`; `GuestsAreVerified`, by checksum,
by signature or not at all, as `Promised` says; and two action properties.
`InstancesEndCleanly`: an instance that ends, in success or failure, leaves
neither its download nor its private copy behind and removes nothing from the
cache; it rests on what each has handed to On_exit by then.
`TemplatesAppearAtOnce`: a template appears in the cache by the
rename of a complete download, and disappears only by `--delete-cache`. What an
instance renames was downloaded to its end (`TransferredInv`); nothing is built
before the last step (`UnusedInv`); between verification and use a file can
only disappear or be replaced by another instance, which `replaced` records
(`VerifiedInv`).

For indexes of any length and any names, architectures, aliases and order of
revisions: `NoTemplateIsLost`, `PreferenceIsRespected`, `OfferedTemplatesAreFound`
and `SelectedTemplateIsWanted`. The proofs do not use that revisions are
ordered, so the mixed revisions that make `compare_revisions` intransitive do no
harm here: all that matters is that the table holds a revision that some entry
has (`FillInv`), that the second scan removes a template from the table exactly
when it keeps an entry of it, and that an entry with the revision of the table
is still to come until then (`FilterInv`, `KeptInv`).

### virt-tail (`VirtTailProofs`)

For any number of files, any sizes and limits, whatever the guest, the user and
the library do, also between statns and the read of a poll: `HandlesAreOpen`, `BannersAreRight`, `EndsAreShown`,
`AppendsAreShownOnce`. `HandleInv` follows the two handles through
`reopen_handle`; `BannerInv` says that `prev_file_displayed` is the file of the
last banner; for a file that was never rewritten, `GrowthInv` orders the three
sizes (recorded, seen by the appliance, true) and says that its mtime moves
only together with its size, and `SeenInv` that what was displayed is of its
only generation. A file whose size has not
changed is therefore never taken for a changed one and displayed again.

### virt-format (`DisksProofs`) and virt-make-fs (`MakeFsProofs`)

For any number of disks and any options in any order, `SuccessMeansFormatted`
(what was asked for, and no more of the old contents than the options and the
appliance allow) and `FormatsOnlyRescannedDisks`. Each loop over the disks has left finished
disks behind it and finds blank ones before it (`DiskInv`), and without an error
only disks that have not been read again are stale (`RescanInv`). With LVM and
two disks the proofs hold because the second `vgcreate` fails.

For inputs, chunks and pipes of any size, any options, and every interleaving of
the program with its subprocess, failures and programs that change the input once it was counted:
`OutputIsWhole` and `SizedFromAll`. A process that reads waits for a
writer that exists (`PipeInv`); what is counted or uploaded, what is in the pipe
and what is still to be written are the input, unless the subprocess failed
(`CountInv`, `UploadInv`, `SucceededInv`); what was counted is the whole input
when the disk is sized (`SizeInv`); the disk is as far as the program is (`DiskInv`); a failure has
removed its files (`FilesInv`).

### virt-alignment-scan and virt-df (`GuestReportProofs`)

For any guests, any command line and any number of threads:

- `OneThreadCompares` and the action property `WorstIsLocked`: the mutex does
  what it is for, and `worst_alignment` only ever changes for a worse partition.
- `ExitStatusIsRight`: the exit status is that of the worst partition of all
  guests. `WorstInv` says that no partition that has been compared is worse than
  `worst_alignment`, which is itself the alignment of a partition; what a call
  has `Ahead` shrinks only by the partition that it has just compared, under the
  lock. A comparison stays right until the assignment because of the mutex
  (`CallInv`, from `MutexInv`).
- `SuccessReportsAll`: `PrintedInv` says that the rows printed and the rows still
  to print are the full report, at every position of a call; a status of success
  needs all calls to be done with result 0 (`ExitInv`).

They assume at least one thread (`ThreadsAssumption`) and guests and options of
their types (`SetupsAssumption`). `ScaleIsKilobytes` is where a block size has
to be a power of two: `scale` divides by 1024 / size or multiplies by
size / 1024, the full report divides bytes once.

### virt-filesystems (`GuestReportProofs`)

For guests with any number of objects, any names and labels, and any command
line, wherever the program fails and whatever stdio has written by then:
`CsvIsReadable` and `SuccessfulReportIsComplete`, which looks at all nine columns. They assume only the types of what libguestfs
returns (`GuestsAssumption`).

`Finished(current, done)` are the objects that have been dealt with. They are
always a prefix of what was asked for (`FinishedIsPrefix`), and all of it when
the last list has ended (`AllFinished`). `Lines` is the title, if there is one,
and a row for each of them. In text mode `rows` are these lines (`RowsAreKept`).
In CSV the reader, given what putchar was given, is outside of any field and has
read the values of these lines (`CsvIsWritten`); what stdio has written is a
prefix of it, of which the reader has a prefix of these rows: a field that has been written
is read back, whatever quotes, commas and line ends it contains
(`ReadsField`), hence a row, hence one row after another. The report
at the end drops the columns in which every row is NULL. A view (`IsView`) is
such a choice of columns, which has the first one, and all of those that have
a title; `RowOfIs` says for each kind of object what is in its row, so every line
of a view describes its object, with each value under its own heading.

### virt-diff (`DiffTreesProofs`)

For any two guests, any options, any order of the walk and wherever the program
fails or the disk fills up: `EveryDifferenceIsShown` and `OutputOfDiffIsInPlace`.
They assume that a walk meets every path once (`WalksAssumption`) and that files
and options are of their types (`GuestPairsAssumption`, `OptionsAssumption`).
`IInv` says that a tree that is not NULL holds exactly the files of its guest
(`TreeInv`), that every file behind the merge has been reported, or is covered
by an equal file or a report of the change (`CoverageInv`), and, for what has been
written together with what stdio still holds, that a diff follows the line of
its file (`FollowsInv`); this stays so since nothing is in the buffer while diff
runs (`DiffInv`). `NothingIsMissed` needs no order: if the merge gets out of step
it reports too much, never too little.

With walks that are sorted by path, `SortedRunsReportTheDifference`: the report
is exactly the difference. `OrderInv` has the trees ascending, and `ReportInv`
(theorem `ReportGrowsInOrder`) says that at every moment there is a path up to
which both sides have been merged and the report is complete. It is the prefix
of the reference definition up to that path; a step of the merge moves it to the
next path that either guest has.

### Sequences (`FlattenTheorems`)

`FlattenSeq` and functions like `TrailingZeroes` and `ReadUpTo` are recursive,
and the provers know nothing of them. That they satisfy their equations
(`FlattenCons`, `FlattenAppend`, `TrailingZeroesDef`, `ReadCsvIs`) follows from
`CompleteInduction`, induction for a set of numbers. It is proved from the
well-foundedness of the strict subset order, since the library's induction
theorems take an operator and cannot be used. `UnfoldingsExist` builds the
function that the recursion chooses, `UnfoldingPrefix` and `UnfoldingAgrees` say
that there is only one.

### Only model-checked

- Liveness (`Terminates`, `ParsingEnds`, `TailEnds`, `NotKilledSucceeds`,
  `ScanEnds`, `FormatEnds`, `BothEnd`): needs fairness and ENABLED, which are out
  of the prover's reach. They are the only properties of the passing runs
  without a theorem.
- That `VgParentsAreItsPvs` is violated, and that the `..._Mutant` definitions
  break the properties.

## 7. Not modelled

The decoders of liblzma, qemu, the kernel of the appliance, parted, LVM and curl
are external: each is a choice among its outcomes. So is what the empty
directory `common` would hold: the pool of threads, the walk of a guest
(`visit`), the planner, the options shared by the programs. Wording and padding
of text, usage messages, and programs that only read and print one thing after
another (cat, ls, log, inspector, drivers) are left out; `PROJECT.json` gives
the reason for each. The components with a line in the plan that says "to do"
are not modelled yet.

## Files

`tlc -config MCPxzcat.cfg MCPxzcat` checks one run (`XzIndex` needs no MC module:
`tlc -config MCXzIndex.cfg XzIndex`), `tlapm PxzcatProofs.tla` the proofs in one
module, and so on for the other `...Proofs` modules and `FlattenTheorems`. From
nothing most take a few minutes, `GuestReportProofs` about ten.
Definitions named `..._Mutant` are faulty versions of the definition that
follows them; each property has one that breaks it.
