-------------------------- MODULE PxzcatInvariant --------------------------
(***************************************************************************)
(* The inductive invariant of Pxzcat, in named parts.  TLC checks it on a  *)
(* small instance, module PxzcatProofs proves it and what follows from it. *)
(***************************************************************************)
EXTENDS Pxzcat

(* The mutex is held by the one thread that is between lock and unlock.    *)
InCritical(t) == pc[t] \in {"next", "copy", "unlock", "finish"}
MutexInv == \A t \in Thread : InCritical(t) <=> iter_mutex = t

(* per_thread[t] follows the life of thread t.                             *)
ThreadInv ==
  \A t \in Thread :
    /\ pc[t] = "unborn" <=> created <= t
    /\ status[t] = Uninitialized <=> pc[t] \in {"unborn", "start"}
    /\ status[t] = 0 => pc[t] = "done"

(* What the caller has done by the time it is at a given point.            *)
CallerInv ==
  /\ Preparing => created = 0 /\ iter = 0
  /\ main \in {"open", "truncate", "zero", "extend", "create"} => joined = 0
  /\ main = "create" => created < NrThreads
  /\ main = "join" => created = NrThreads
  /\ main = "raised" /\ created = NrThreads => joined = NrThreads
  /\ main \in {"close", "returned"} => joined = NrThreads /\ nr_errors = 0
  /\ \A t \in Thread : t < joined => pc[t] = "done"
  /\ nr_errors = 0 => \A t \in Thread : t < joined => status[t] = 0

(* The iterator is never finished too early.                               *)
IterInv ==
  /\ iter_finished => NonEmptyAfter(iter) = {}
  /\ \A t \in Thread : pc[t] = "finish" \/ status[t] = 0 => iter_finished

(* A block belongs to the thread that took it from the iterator.           *)
ClaimInv ==
  /\ \A t \in Thread : pc[t] = "copy" => iter \in Block /\ Size[iter] > 0
  /\ \A t \in Thread : Holding(t) =>
       blk[t] \in Block /\ Size[blk[t]] > 0 /\ blk[t] <= iter
  /\ \A t, u \in Thread : Holding(t) /\ pc[u] = "copy" => blk[t] # iter
  /\ \A t, u \in Thread : t # u /\ Holding(t) /\ Holding(u) => blk[t] # blk[u]

(* Where a thread is in its block, and what it is about to write there.    *)
InPlace(t) ==
  /\ pc[t] \in {"decode", "write"} =>
       /\ Offset[blk[t]] <= oposition[t]
       /\ damage[blk[t]] \in {"none", "data"}
  /\ pc[t] = "decode" /\ damage[blk[t]] = "none" => oposition[t] <= EndOf(t)
  /\ pc[t] = "write" /\ damage[blk[t]] = "none" =>
       /\ oposition[t] + Len(outbuf[t]) <= EndOf(t)
       /\ \A i \in 1..Len(outbuf[t]) :
            outbuf[t][i] = content[oposition[t] + i - 1]
PositionInv == \A t \in Thread : InPlace(t)

(* The output file while the threads run: each block reads as zeroes until *)
(* it is claimed, then holds the data up to its thread's position, and at  *)
(* last holds all of the data, unless its thread has failed.               *)
Filling == main \in {"create", "join", "close", "returned"}
Unclaimed(b) == b > iter \/ \E t \in Thread : pc[t] = "copy" /\ iter = b
Held(b) == \E t \in Thread : Holding(t) /\ blk[t] = b
Lost(b) == \E t \in Thread : Failed(t) /\ blk[t] = b
Complete(b) == ~Unclaimed(b) /\ ~Held(b) /\ ~Lost(b)

Written(t) == IF pc[t] \in {"decode", "write"} THEN oposition[t]
              ELSE Offset[blk[t]]

UnclaimedInv ==
  Filling => \A b \in Block : Unclaimed(b) => \A p \in Extent(b) : out[p] = Zero
HeldInv ==
  Filling => \A t \in Thread : Holding(t) => \A p \in Extent(blk[t]) :
    out[p] = IF p < Written(t) THEN content[p] ELSE Zero
CompleteInv ==
  Filling => \A b \in Block : Complete(b) => \A p \in Extent(b) : out[p] = content[p]
CompleteIsSound ==
  \A b \in Block : Size[b] > 0 /\ Complete(b) => damage[b] = "none"

(* The three preparing steps, and the size of the file after them.         *)
PrepareInv ==
  /\ main = "zero" => DOMAIN out = {0}
  /\ main = "extend" => out = [p \in {0} |-> Zero]
  /\ Filling => DOMAIN out = Position

OutputInv == Sound => UnclaimedInv /\ HeldInv /\ CompleteInv

IInv ==
  /\ TypeOK /\ MutexInv /\ ThreadInv /\ CallerInv /\ IterInv /\ ClaimInv
  /\ PositionInv /\ PrepareInv /\ OutputInv /\ CompleteIsSound
=============================================================================
