------------------------------ MODULE XzOutput ------------------------------
(***************************************************************************)
(* What a caller of Pxzcat.pxzcat (builder/builder.ml, builder/utils.ml)   *)
(* is promised about the output file, with no threads, blocks, buffers or  *)
(* locks: the file is first made all zeroes, then each position goes       *)
(* from zero to the uncompressed data, and the call returns normally only  *)
(* when every position holds the data of an undamaged input.  A call that  *)
(* raises promises nothing about the file.                                 *)
(***************************************************************************)
EXTENDS Integers

CONSTANTS Total,    \* uncompressed size of the input
          Byte,     \* the values a position of the output can hold
          Zero      \* the zero byte

VARIABLES phase,    \* "prepare", "fill", "returned" or "raised"
          file,     \* the output file, << >> while nothing is promised of it
          content,  \* the uncompressed data
          sound     \* is the whole compressed input undamaged?

avars == <<phase, file, content, sound>>

Positions == 0..(Total - 1)

AInit == /\ phase = "prepare"
         /\ file = << >>
         /\ content \in [Positions -> Byte]
         /\ sound \in BOOLEAN

(* The output exists, has its final size and reads as zeroes.              *)
Prepare == /\ phase = "prepare"
           /\ phase' = "fill"
           /\ file' = [p \in Positions |-> Zero]
           /\ UNCHANGED <<content, sound>>

(* Some positions receive the data.  From an unsound input anything may be *)
(* written.                                                                *)
Fill == /\ phase = "fill"
        /\ file' \in [Positions -> Byte]
        /\ sound => \A p \in Positions : file'[p] \in {file[p], content[p]}
        /\ UNCHANGED <<phase, content, sound>>

Return == /\ phase = "fill"
          /\ sound
          /\ file = content
          /\ phase' = "returned"
          /\ UNCHANGED <<file, content, sound>>

Raise == /\ phase \in {"prepare", "fill"}
         /\ phase' = "raised"
         /\ file' = << >>
         /\ UNCHANGED <<content, sound>>

ANext == Prepare \/ Fill \/ Return \/ Raise

ASpec == AInit /\ [][ANext]_avars
=============================================================================
