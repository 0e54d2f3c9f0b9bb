------------------------------- MODULE Pxzcat -------------------------------
(***************************************************************************)
(* The parallel xz decompressor of virt-builder, builder/pxzcat-c.c:       *)
(* pxzcat() prepares the output file, iter_blocks() starts nr_threads      *)
(* worker threads and joins them, and each worker repeatedly takes the     *)
(* next non-empty block from an iterator shared under a mutex and          *)
(* decompresses it into its place in the output, skipping buffers that     *)
(* are all zero.                                                           *)
(*                                                                         *)
(* A position of the output stands for any fixed run of bytes.  The index  *)
(* of the input (offsets and sizes of the blocks) is what parse_indexes()  *)
(* returned; it is the subject of module XzIndex.                          *)
(***************************************************************************)
EXTENDS Integers, Sequences

CONSTANTS
  NrThreads,    \* nr_threads, the number of online processors
  NrBlocks,     \* number of blocks in the index
  Offset,       \* Offset[b]: iter.block.uncompressed_file_offset of block b
  Size,         \* Size[b]: uncompressed size of block b in the index
  Total,        \* lzma_index_uncompressed_size
  BufferSize,   \* BUFFER_SIZE
  Byte,         \* the values a position of a file can hold
  Zero,         \* the zero byte
  MaxOld,       \* bound on the size of an output file that exists already
  Faults        \* the damage a block may have: a set of Damage

Thread == 0..(NrThreads - 1)
Block == 1..NrBlocks
Position == 0..(Total - 1)
Extent(b) == Offset[b]..(Offset[b] + Size[b] - 1)
Damage == {"none", "header", "data"}

ASSUME ConstantsAssumption ==
  /\ NrThreads \in Nat \ {0}
  /\ NrBlocks \in Nat
  /\ BufferSize \in Nat \ {0}
  /\ Total \in Nat
  /\ MaxOld \in Nat
  /\ Zero \in Byte
  /\ Faults \subseteq Damage

(* What liblzma's index guarantees: the blocks tile the uncompressed file. *)
ASSUME IndexAssumption ==
  /\ Offset \in [Block -> Nat]
  /\ Size \in [Block -> Nat]
  /\ \A b \in Block : Extent(b) \subseteq Position
  /\ \A b, c \in Block : b # c => Extent(b) \cap Extent(c) = {}
  /\ \A p \in Position : \E b \in Block : p \in Extent(b)

NoThread == -1
Uninitialized == 1    \* per_thread is malloc'd: status has no value yet

VARIABLES
  \* the input file
  content,       \* the uncompressed data
  damage,        \* damage[b]: what is wrong with the compressed block b
  \* the output file
  out,           \* the file opened as ofd, a function from 0..(size - 1)
  \* the calling thread, in pxzcat() and iter_blocks()
  main,          \* where it is
  created,       \* u of the pthread_create loop
  joined,        \* u of the pthread_join loop
  nr_errors,
  \* struct global_state
  iter,          \* the block the shared iterator is at, 0 before the first
  iter_finished,
  iter_mutex,    \* the thread that holds the mutex, or NoThread
  \* the worker threads
  pc,            \* where each worker is
  blk,           \* the worker's own copy of the iterator
  oposition,     \* where the worker writes next
  outbuf,        \* what is left to write of the decompressed buffer
  status         \* per_thread_state.status

input == <<content, damage>>
caller == <<main, created, joined, nr_errors>>
global == <<iter, iter_finished, iter_mutex>>
worker == <<blk, oposition, outbuf>>
vars == <<content, damage, out, main, created, joined, nr_errors, iter,
          iter_finished, iter_mutex, pc, blk, oposition, outbuf, status>>

Init ==
  /\ content \in [Position -> Byte]
  /\ damage \in [Block -> Faults]
  /\ out \in UNION {[0..(n - 1) -> Byte] : n \in 0..MaxOld}
  /\ main = "open"
  /\ created = 0
  /\ joined = 0
  /\ nr_errors = 0
  /\ iter = 0
  /\ iter_finished = FALSE
  /\ iter_mutex = NoThread
  /\ pc = [t \in Thread |-> "unborn"]
  /\ blk = [t \in Thread |-> 0]
  /\ oposition = [t \in Thread |-> 0]
  /\ outbuf = [t \in Thread |-> << >>]
  /\ status = [t \in Thread |-> Uninitialized]

-----------------------------------------------------------------------------
(* pxzcat(): the output file is opened without O_TRUNC, so it may hold old *)
(* data.  It is cut to one byte, that byte is overwritten, and the file is *)
(* extended to its final size.                                             *)

Truncated(f, n) == [p \in 0..(n - 1) |-> IF p \in DOMAIN f THEN f[p] ELSE Zero]

OpenOutput ==
  /\ main = "open"
  /\ main' = "truncate"
  /\ UNCHANGED <<input, out, created, joined, nr_errors, global, pc, worker,
                 status>>

TruncateToOne ==
  /\ main = "truncate"
  /\ out' = Truncated(out, 1)
  /\ main' = "zero"
  /\ UNCHANGED <<input, created, joined, nr_errors, global, pc, worker, status>>

(* Mutant: the byte that is left of an old file is not overwritten.        *)
ZeroFirst_Mutant ==
  /\ main = "zero"
  /\ main' = "extend"
  /\ UNCHANGED <<input, out, created, joined, nr_errors, global, pc, worker,
                 status>>

ZeroFirst ==
  /\ main = "zero"
  /\ out' = [out EXCEPT ![0] = Zero]
  /\ main' = "extend"
  /\ UNCHANGED <<input, created, joined, nr_errors, global, pc, worker, status>>

Extend ==
  /\ main = "extend"
  /\ out' = Truncated(out, Total)
  /\ main' = "create"
  /\ UNCHANGED <<input, created, joined, nr_errors, global, pc, worker, status>>

(* open, ftruncate, lseek or write fails: unix_error raises.               *)
PrepareFails ==
  /\ main \in {"open", "truncate", "zero", "extend"}
  /\ main' = "raised"
  /\ UNCHANGED <<input, out, created, joined, nr_errors, global, pc, worker,
                 status>>

-----------------------------------------------------------------------------
(* iter_blocks()                                                           *)

CreateThread ==
  /\ main = "create"
  /\ created < NrThreads
  /\ pc' = [pc EXCEPT ![created] = "start"]
  /\ created' = created + 1
  /\ main' = IF created' = NrThreads THEN "join" ELSE "create"
  /\ UNCHANGED <<input, out, joined, nr_errors, global, worker, status>>

(* malloc or pthread_mutex_init fails (created = 0), or pthread_create     *)
(* does: an exception is raised at once, whatever threads are running.     *)
CreateFails ==
  /\ main = "create"
  /\ main' = "raised"
  /\ UNCHANGED <<input, out, created, joined, nr_errors, global, pc, worker,
                 status>>

(* Mutant: the threads are not waited for.                                 *)
JoinThreadEarly_Mutant ==
  /\ main = "join"
  /\ joined < NrThreads
  /\ nr_errors' = IF status[joined] = -1 THEN nr_errors + 1 ELSE nr_errors
  /\ joined' = joined + 1
  /\ UNCHANGED <<input, out, main, created, global, pc, worker, status>>

JoinThread ==
  /\ main = "join"
  /\ joined < NrThreads
  /\ pc[joined] = "done"
  /\ nr_errors' = IF status[joined] = -1 THEN nr_errors + 1 ELSE nr_errors
  /\ joined' = joined + 1
  /\ UNCHANGED <<input, out, main, created, global, pc, worker, status>>

(* Mutant: raise only if every thread failed.                              *)
CheckErrors_Mutant ==
  /\ main = "join"
  /\ joined = NrThreads
  /\ main' = IF nr_errors = NrThreads THEN "raised" ELSE "close"
  /\ UNCHANGED <<input, out, created, joined, nr_errors, global, pc, worker,
                 status>>

(* All threads are joined: raise if any of them failed.                    *)
CheckErrors ==
  /\ main = "join"
  /\ joined = NrThreads
  /\ main' = IF nr_errors > 0 THEN "raised" ELSE "close"
  /\ UNCHANGED <<input, out, created, joined, nr_errors, global, pc, worker,
                 status>>

(* Back in pxzcat(): close() of either file may fail, which raises.        *)
CloseFiles ==
  /\ main = "close"
  /\ main' \in {"returned", "raised"}
  /\ UNCHANGED <<input, out, created, joined, nr_errors, global, pc, worker,
                 status>>

-----------------------------------------------------------------------------
(* worker_thread()                                                         *)

Goto(t, l) == pc' = [pc EXCEPT ![t] = l]

(* status starts as -1 and stays so on every early return.                 *)
WorkerStart(t) ==
  /\ pc[t] = "start"
  /\ status' = [status EXCEPT ![t] = -1]
  /\ \/ Goto(t, "lock")
     \/ Goto(t, "done")       \* malloc failed
  /\ UNCHANGED <<input, out, caller, global, worker>>

(* Mutant: the mutex is not waited for.                                    *)
Lock_Mutant(t) ==
  /\ pc[t] = "lock"
  /\ iter_mutex' = t
  /\ Goto(t, "next")
  /\ UNCHANGED <<input, out, caller, iter, iter_finished, worker, status>>

Lock(t) ==
  /\ pc[t] = "lock"
  /\ iter_mutex = NoThread
  /\ iter_mutex' = t
  /\ Goto(t, "next")
  /\ UNCHANGED <<input, out, caller, iter, iter_finished, worker, status>>

(* lzma_index_iter_next (.., LZMA_INDEX_ITER_NONEMPTY_BLOCK)               *)
NonEmptyAfter(i) == {b \in Block : b > i /\ Size[b] > 0}
IsNext(i, b) == b \in NonEmptyAfter(i) /\ \A c \in NonEmptyAfter(i) : b <= c

IterNext(t) ==
  /\ pc[t] = "next"
  /\ ~iter_finished
  /\ \E b \in Block : IsNext(iter, b) /\ iter' = b
  /\ Goto(t, "copy")
  /\ UNCHANGED <<input, out, caller, iter_finished, iter_mutex, worker, status>>

IterExhausted(t) ==
  /\ pc[t] = "next"
  /\ iter_finished \/ NonEmptyAfter(iter) = {}
  /\ iter_finished' = TRUE
  /\ Goto(t, "finish")
  /\ UNCHANGED <<input, out, caller, iter, iter_mutex, worker, status>>

CopyIter(t) ==
  /\ pc[t] = "copy"
  /\ blk' = [blk EXCEPT ![t] = iter]
  /\ Goto(t, "unlock")
  /\ UNCHANGED <<input, out, caller, global, oposition, outbuf, status>>

Unlock(t) ==
  /\ pc[t] = "unlock"
  /\ iter_mutex' = NoThread
  /\ Goto(t, "header")
  /\ UNCHANGED <<input, out, caller, iter, iter_finished, worker, status>>

(* Mutant: the loop is left with the mutex held.                           *)
UnlockAndFinish_Mutant(t) ==
  /\ pc[t] = "finish"
  /\ status' = [status EXCEPT ![t] = 0]
  /\ Goto(t, "done")
  /\ UNCHANGED <<input, out, caller, global, worker>>

(* Unlock, leave the loop and report success.                              *)
UnlockAndFinish(t) ==
  /\ pc[t] = "finish"
  /\ iter_mutex' = NoThread
  /\ status' = [status EXCEPT ![t] = 0]
  /\ Goto(t, "done")
  /\ UNCHANGED <<input, out, caller, iter, iter_finished, worker>>

(* Read and decode the block header, set up the decoder.                   *)
ReadHeader(t) ==
  /\ pc[t] = "header"
  /\ damage[blk[t]] # "header"
  /\ oposition' = [oposition EXCEPT ![t] = Offset[blk[t]]]
  /\ Goto(t, "decode")
  /\ UNCHANGED <<input, out, caller, global, blk, outbuf, status>>

(* An early return: a block that is damaged, a pread or pwrite that fails, *)
(* an unexpected end of file.                                              *)
BlockFails(t) ==
  /\ pc[t] \in {"header", "decode", "write"}
  /\ Goto(t, "done")
  /\ UNCHANGED <<input, out, caller, global, worker, status>>

EndOf(t) == Offset[blk[t]] + Size[blk[t]]
Smaller(a, b) == IF a <= b THEN a ELSE b

(* What lzma_code has put in the buffer once it is full or the block has   *)
(* ended.  The decoder checks the data only at the end of the block, so    *)
(* that a damaged one decodes to anything, possibly past the block's end   *)
(* (the model stops at the end of the file).                               *)
Decoded(t) ==
  IF damage[blk[t]] = "data"
  THEN UNION {[1..n -> Byte] : n \in 1..Smaller(BufferSize, Total - oposition[t])}
  ELSE {[i \in 1..n |-> content[oposition[t] + i - 1]] :
          n \in {Smaller(BufferSize, EndOf(t) - oposition[t])} \ {0}}

IsZero(buf) == \A i \in 1..Len(buf) : buf[i] = Zero

(* A buffer that is all zero is not written.                               *)
SkipZeroes(t) ==
  /\ pc[t] = "decode"
  /\ \E buf \in Decoded(t) :
       /\ IsZero(buf)
       /\ oposition' = [oposition EXCEPT ![t] = @ + Len(buf)]
  /\ UNCHANGED <<input, out, caller, global, pc, blk, outbuf, status>>

FillBuffer(t) ==
  /\ pc[t] = "decode"
  /\ \E buf \in Decoded(t) :
       /\ ~IsZero(buf)
       /\ outbuf' = [outbuf EXCEPT ![t] = buf]
  /\ Goto(t, "write")
  /\ UNCHANGED <<input, out, caller, global, blk, oposition, status>>

(* Mutant: the buffer is not advanced past what a short write has written. *)
Pwrite_Mutant(t) ==
  /\ pc[t] = "write"
  /\ \E r \in 1..Len(outbuf[t]) :
       /\ out' = [p \in DOMAIN out |->
                    IF p \in oposition[t]..(oposition[t] + r - 1)
                    THEN outbuf[t][p - oposition[t] + 1] ELSE out[p]]
       /\ oposition' = [oposition EXCEPT ![t] = @ + r]
       /\ outbuf' = [outbuf EXCEPT ![t] = SubSeq(@, 1, Len(@) - r)]
       /\ Goto(t, IF r = Len(outbuf[t]) THEN "decode" ELSE "write")
  /\ UNCHANGED <<input, caller, global, blk, status>>

(* One pwrite of xpwrite(): it may write less than it was asked to.        *)
Pwrite(t) ==
  /\ pc[t] = "write"
  /\ \E r \in 1..Len(outbuf[t]) :
       /\ out' = [p \in DOMAIN out |->
                    IF p \in oposition[t]..(oposition[t] + r - 1)
                    THEN outbuf[t][p - oposition[t] + 1] ELSE out[p]]
       /\ oposition' = [oposition EXCEPT ![t] = @ + r]
       /\ outbuf' = [outbuf EXCEPT ![t] = SubSeq(@, r + 1, Len(@))]
       /\ Goto(t, IF r = Len(outbuf[t]) THEN "decode" ELSE "write")
  /\ UNCHANGED <<input, caller, global, blk, status>>

(* LZMA_STREAM_END: the block is complete and its check is right.          *)
EndBlock(t) ==
  /\ pc[t] = "decode"
  /\ damage[blk[t]] = "none"
  /\ oposition[t] = EndOf(t)
  /\ Goto(t, "lock")
  /\ UNCHANGED <<input, out, caller, global, worker, status>>

-----------------------------------------------------------------------------
Caller ==
  \/ OpenOutput \/ TruncateToOne \/ ZeroFirst \/ Extend \/ PrepareFails
  \/ CreateThread \/ CreateFails \/ JoinThread \/ CheckErrors \/ CloseFiles

Worker(t) ==
  \/ WorkerStart(t)
  \/ Lock(t) \/ IterNext(t) \/ IterExhausted(t) \/ CopyIter(t)
  \/ Unlock(t) \/ UnlockAndFinish(t)
  \/ ReadHeader(t) \/ SkipZeroes(t) \/ FillBuffer(t) \/ Pwrite(t) \/ EndBlock(t)
  \/ BlockFails(t)

Next == Caller \/ \E t \in Thread : Worker(t)

Spec == Init /\ [][Next]_vars

(* The scheduler keeps running the caller and every worker thread that can *)
(* run.                                                                    *)
Fairness == WF_vars(Caller) /\ \A t \in Thread : WF_vars(Worker(t))

FairSpec == Spec /\ Fairness
-----------------------------------------------------------------------------
(* Every variable stays in its type.                                       *)
TypeOK ==
  /\ content \in [Position -> Byte]
  /\ damage \in [Block -> Damage]
  /\ out \in [DOMAIN out -> Byte]
  /\ main \in {"open", "truncate", "zero", "extend", "create", "join", "close",
               "returned", "raised"}
  /\ created \in 0..NrThreads
  /\ joined \in 0..NrThreads
  /\ nr_errors \in 0..joined
  /\ iter \in 0..NrBlocks
  /\ iter_finished \in BOOLEAN
  /\ iter_mutex \in Thread \cup {NoThread}
  /\ pc \in [Thread -> {"unborn", "start", "lock", "next", "copy", "unlock",
                        "finish", "header", "decode", "write", "done"}]
  /\ blk \in [Thread -> 0..NrBlocks]
  /\ oposition \in [Thread -> Nat]
  /\ outbuf \in [Thread -> Seq(Byte)]
  /\ \A t \in Thread : Len(outbuf[t]) <= BufferSize
  /\ status \in [Thread -> {-1, 0, Uninitialized}]

(* When pxzcat() returns normally the output file is exactly the           *)
(* uncompressed data: whatever the file held before, wherever buffers of   *)
(* zeroes were skipped, however the threads interleaved, and no damaged    *)
(* block went unnoticed.                                                   *)
SuccessIsExact ==
  main = "returned" =>
    /\ out = content
    /\ \A b \in Block : Size[b] > 0 => damage[b] = "none"

Holding(t) == pc[t] \in {"unlock", "header", "decode", "write"}

(* "Each thread takes a copy of it when working on it": two threads never  *)
(* work on the same block, and a block that is being worked on is one the  *)
(* shared iterator has reached.                                            *)
BlocksNotShared ==
  \A t \in Thread : Holding(t) =>
    /\ blk[t] <= iter
    /\ \A u \in Thread \ {t} : Holding(u) => blk[u] # blk[t]

(* A thread that fails is never forgotten: from the moment one has failed  *)
(* pxzcat() cannot return normally any more, however many others succeed.  *)
Failed(t) == pc[t] = "done" /\ status[t] = -1
FailureIsReported ==
  [][(\E t \in Thread : Failed(t)) => main' # "returned"]_vars

(* Once the workers run, the file is only written inside a block that the  *)
(* writing thread holds, as long as the input is sound.                    *)
Sound == \A b \in Block : Size[b] > 0 => damage[b] = "none"
WritesStayInBlock ==
  [][(Sound /\ main \in {"create", "join", "close", "returned", "raised"}) =>
       \A p \in DOMAIN out : out'[p] # out[p] =>
         \E t \in Thread : Holding(t) /\ p \in Extent(blk[t])]_vars

(* A worker that leaves its loop normally leaves no block unclaimed.       *)
NoBlockLeftBehind ==
  \A t \in Thread : status[t] = 0 => \A b \in Block : Size[b] > 0 => b <= iter

(* "Wait for the threads to exit": once all threads have been started,     *)
(* control does not leave iter_blocks(), whose stack frame holds the       *)
(* global state, while a worker still runs.  (When pthread_create fails    *)
(* for a later thread it does: the threads that run are not joined.)       *)
NoWorkerOutlivesCall ==
  (main \in {"returned", "raised"} /\ created = NrThreads) =>
    \A t \in Thread : pc[t] = "done"

(* The call ends, and so does every thread it started.                     *)
Terminates ==
  <>(main \in {"returned", "raised"} /\ \A t \in Thread : pc[t] \in {"unborn", "done"})

-----------------------------------------------------------------------------
(* The threads together do what XzOutput promises of the whole call.       *)
Preparing == main \in {"open", "truncate", "zero", "extend"}

Promise == INSTANCE XzOutput WITH
  phase <- IF Preparing THEN "prepare"
           ELSE IF main \in {"returned", "raised"} THEN main ELSE "fill",
  file <- IF Preparing \/ main = "raised" THEN << >> ELSE out,
  sound <- Sound

ImplementsXzOutput == Promise!ASpec
=============================================================================
