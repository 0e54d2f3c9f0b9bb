---------------------------- MODULE PxzcatProofs ----------------------------
(***************************************************************************)
(* Proofs about the two halves of pxzcat.                                  *)
(*                                                                         *)
(* XzIndex, for any file: where the parts of the last stream lie, by the   *)
(* theorems on FlattenSeq, and then the inductive invariant ParseIInv.     *)
(*                                                                         *)
(* Pxzcat, for any number of threads, blocks and bytes and any buffer      *)
(* size: the invariant IInv of PxzcatInvariant is shown to be inductive,   *)
(* one of its parts at a time, first for the steps of the caller and then  *)
(* for those of a worker; the safety properties of Pxzcat and the          *)
(* refinement of XzOutput follow from it.                                  *)
(***************************************************************************)
EXTENDS PxzcatInvariant, XzIndex, FlattenTheorems, SequenceTheorems, TLAPS

-----------------------------------------------------------------------------
(* XzIndex: the units of a file.                                           *)

PartName == {"header", "block", "index", "footer", "padding"}
UnitType == [stream : Nat, part : PartName, k : Nat]
Unit(s, name, j) == [stream |-> s, part |-> name, k |-> j]

StreamOf(s, b, c, d) ==
  Part(s, "header", HeaderSize) \o Part(s, "block", b) \o Part(s, "index", c)
  \o Part(s, "footer", HeaderSize) \o Part(s, "padding", d)
StreamUnits(s, shape) == StreamOf(s, shape.blocks, shape.index, shape.padding)

(* The last stream, where it begins, and the sizes of its parts.           *)
LastStream == Len(streams)
Blocks == streams[LastStream].blocks
IndexSize == streams[LastStream].index
Padding == streams[LastStream].padding
Begin == Length - (2 * HeaderSize + Blocks + IndexSize + Padding)

ParseTypeOK ==
  /\ streams \in UNION {[1..n -> StreamShape] : n \in 1..MaxStreams}
  /\ damaged \in 0..Length
  /\ ragged \in 0..1
  /\ phase \in {"size", "footer", "index", "header", "returned", "rejected"}
  /\ stream_padding \in Nat

(* The parts of the last stream that have been decoded are not damaged.    *)
Intact(first, last) == damaged \notin (Begin + first)..(Begin + last)
AfterHeader == HeaderSize + Blocks
AfterIndex == HeaderSize + Blocks + IndexSize

(* Up to the first footer, pos is behind by the padding that was skipped,  *)
(* but the file offset is still at the end of the file.                    *)
AtEnd ==
  phase \in {"size", "footer"} /\ combined_index = << >> =>
    /\ offset = Length /\ pos = Length - stream_padding /\ pos > 0
    /\ phase = "size" => stream_padding = 0
    /\ stream_padding > 0 => Units(streams)[Length].part = "padding"

(* A footer is only decoded at the very end of a file without padding.     *)
OfLast ==
  phase \in {"index", "header", "returned"} \/ combined_index # << >> =>
    /\ footer = LastStream /\ Padding = 0 /\ stream_padding = 0
    /\ Intact(AfterIndex + 1, AfterIndex + HeaderSize)
    /\ phase = "index" => pos = Begin + AfterHeader /\ offset = pos
    /\ phase # "index" => Intact(AfterHeader + 1, AfterIndex)
    /\ phase = "header" => pos = Begin /\ offset = pos

(* Once a stream has been decoded the file offset is behind its header.    *)
HeaderDecoded ==
  /\ phase \in {"size", "index", "header"} => combined_index = << >>
  /\ phase = "returned" => combined_index # << >> /\ pos = 0
  /\ combined_index # << >> =>
       /\ combined_index = <<[stream |-> LastStream, padding |-> 0]>>
       /\ phase \in {"footer", "returned", "rejected"}
       /\ pos = Begin /\ offset = Begin + HeaderSize
       /\ Intact(1, HeaderSize)

ParseIInv ==
  /\ ParseTypeOK /\ AtEnd /\ OfLast /\ HeaderDecoded
  /\ ragged = 1 => phase \in {"size", "rejected"}
  /\ SingleStreamIsParsed

-----------------------------------------------------------------------------
LEMMA PartType ==
  ASSUME NEW s \in Nat, NEW size \in Nat,
         NEW name \in PartName
  PROVE  /\ Part(s, name, size) \in Seq(UnitType)
         /\ Len(Part(s, name, size)) = size
         /\ \A j \in 1..size : Part(s, name, size)[j] = Unit(s, name, j)
<1>1. \A j \in 1..size : [stream |-> s, part |-> name, k |-> j] \in UnitType
  BY DEF UnitType
<1>2. Part(s, name, size) \in [1..size -> UnitType]
  BY <1>1 DEF Part
<1>3. Part(s, name, size) \in Seq(UnitType) /\ Len(Part(s, name, size)) = size
  BY <1>2, IsASeq
<1> QED
  BY <1>3 DEF Part, Unit

Joined(s, t) == s \o t

LEMMA JoinedAt ==
  ASSUME NEW R, NEW s \in Seq(R), NEW t \in Seq(R), NEW m \in Nat, NEW n \in Nat,
         Len(s) = m, Len(t) = n
  PROVE  /\ Joined(s, t) \in Seq(R) /\ Len(Joined(s, t)) = m + n
         /\ \A j \in 1..m : Joined(s, t)[j] = s[j]
         /\ \A j \in 1..n : Joined(s, t)[m + j] = t[j]
<1>1. /\ Joined(s, t) \in Seq(R) /\ Len(Joined(s, t)) = m + n
      /\ \A j \in 1..(m + n) :
           Joined(s, t)[j] = IF j <= m THEN s[j] ELSE t[j - m]
  BY ConcatProperties DEF Joined
<1>2. \A j \in 1..m : j \in 1..(m + n) /\ j <= m
  OBVIOUS
<1>3. \A j \in 1..n : m + j \in 1..(m + n) /\ ~(m + j <= m) /\ (m + j) - m = j
  OBVIOUS
<1> QED
  BY <1>1, <1>2, <1>3

(* t is a stream: its parts lie behind each other.                         *)
IsStream(t, s, b, c, d) ==
  /\ t \in Seq(UnitType)
  /\ Len(t) = HeaderSize + b + c + HeaderSize + d
  /\ \A j \in 1..HeaderSize : t[j] = Unit(s, "header", j)
  /\ \A j \in 1..b : t[HeaderSize + j] = Unit(s, "block", j)
  /\ \A j \in 1..c : t[HeaderSize + b + j] = Unit(s, "index", j)
  /\ \A j \in 1..HeaderSize : t[HeaderSize + b + c + j] = Unit(s, "footer", j)
  /\ \A j \in 1..d : t[HeaderSize + b + c + HeaderSize + j] = Unit(s, "padding", j)

LEMMA StreamParts ==
  ASSUME NEW s \in Nat, NEW b \in Nat, NEW c \in Nat \ {0}, NEW d \in Nat
  PROVE  IsStream(StreamOf(s, b, c, d), s, b, c, d)
<1>1. PICK H \in Nat : H = HeaderSize
  BY DEF HeaderSize
<1>2. /\ "header" \in PartName /\ "block" \in PartName /\ "index" \in PartName
      /\ "footer" \in PartName /\ "padding" \in PartName
  BY DEF PartName
<1>21. PICK p1 : p1 = Part(s, "header", H)
  OBVIOUS
<1>22. PICK p2 : p2 = Part(s, "block", b)
  OBVIOUS
<1>23. PICK p3 : p3 = Part(s, "index", c)
  OBVIOUS
<1>24. PICK p4 : p4 = Part(s, "footer", H)
  OBVIOUS
<1>25. PICK p5 : p5 = Part(s, "padding", d)
  OBVIOUS
<1>31. /\ p1 \in Seq(UnitType) /\ Len(p1) = H
      /\ \A j \in 1..H : p1[j] = Unit(s, "header", j)
  BY <1>2, <1>21, PartType
<1>32. /\ p2 \in Seq(UnitType) /\ Len(p2) = b
      /\ \A j \in 1..b : p2[j] = Unit(s, "block", j)
  BY <1>2, <1>22, PartType
<1>33. /\ p3 \in Seq(UnitType) /\ Len(p3) = c
      /\ \A j \in 1..c : p3[j] = Unit(s, "index", j)
  BY <1>2, <1>23, PartType
<1>34. /\ p4 \in Seq(UnitType) /\ Len(p4) = H
      /\ \A j \in 1..H : p4[j] = Unit(s, "footer", j)
  BY <1>2, <1>24, PartType
<1>35. /\ p5 \in Seq(UnitType) /\ Len(p5) = d
      /\ \A j \in 1..d : p5[j] = Unit(s, "padding", j)
  BY <1>2, <1>25, PartType
<1>3. PICK m2 \in Nat, m3 \in Nat, m4 \in Nat :
        m2 = H + b /\ m3 = m2 + c /\ m4 = m3 + H
  OBVIOUS
<1>4. PICK t2 : /\ t2 = Joined(p1, p2)
                /\ t2 \in Seq(UnitType) /\ Len(t2) = m2
                /\ \A j \in 1..H : t2[j] = p1[j]
                /\ \A j \in 1..b : t2[H + j] = p2[j]
  <2>1. /\ Joined(p1, p2) \in Seq(UnitType) /\ Len(Joined(p1, p2)) = H + b
        /\ \A j \in 1..H : Joined(p1, p2)[j] = p1[j]
        /\ \A j \in 1..b : Joined(p1, p2)[H + j] = p2[j]
    <3>1. p1 \in Seq(UnitType) /\ p2 \in Seq(UnitType) /\ Len(p1) = H /\ Len(p2) = b
      BY <1>31, <1>32
    <3>2. H \in Nat /\ b \in Nat
      OBVIOUS
    <3> QED
      BY ONLY <3>1, <3>2, JoinedAt
  <2> QED
    BY <1>3, <2>1
<1>5. PICK t3 : /\ t3 = Joined(t2, p3)
                /\ t3 \in Seq(UnitType) /\ Len(t3) = m3
                /\ \A j \in 1..m2 : t3[j] = t2[j]
                /\ \A j \in 1..c : t3[m2 + j] = p3[j]
  <2>1. /\ Joined(t2, p3) \in Seq(UnitType) /\ Len(Joined(t2, p3)) = m2 + c
        /\ \A j \in 1..m2 : Joined(t2, p3)[j] = t2[j]
        /\ \A j \in 1..c : Joined(t2, p3)[m2 + j] = p3[j]
    <3>1. t2 \in Seq(UnitType) /\ p3 \in Seq(UnitType) /\ Len(t2) = m2 /\ Len(p3) = c
      BY <1>4, <1>33
    <3>2. m2 \in Nat /\ c \in Nat
      OBVIOUS
    <3> QED
      BY ONLY <3>1, <3>2, JoinedAt
  <2> QED
    BY <1>3, <2>1
<1>6. PICK t4 : /\ t4 = Joined(t3, p4)
                /\ t4 \in Seq(UnitType) /\ Len(t4) = m4
                /\ \A j \in 1..m3 : t4[j] = t3[j]
                /\ \A j \in 1..H : t4[m3 + j] = p4[j]
  <2>1. /\ Joined(t3, p4) \in Seq(UnitType) /\ Len(Joined(t3, p4)) = m3 + H
        /\ \A j \in 1..m3 : Joined(t3, p4)[j] = t3[j]
        /\ \A j \in 1..H : Joined(t3, p4)[m3 + j] = p4[j]
    <3>1. t3 \in Seq(UnitType) /\ p4 \in Seq(UnitType) /\ Len(t3) = m3 /\ Len(p4) = H
      BY <1>5, <1>34
    <3>2. m3 \in Nat /\ H \in Nat
      OBVIOUS
    <3> QED
      BY ONLY <3>1, <3>2, JoinedAt
  <2> QED
    BY <1>3, <2>1
<1>7. PICK t5 : /\ t5 = Joined(t4, p5)
                /\ t5 \in Seq(UnitType) /\ Len(t5) = m4 + d
                /\ \A j \in 1..m4 : t5[j] = t4[j]
                /\ \A j \in 1..d : t5[m4 + j] = p5[j]
  <2>1. /\ Joined(t4, p5) \in Seq(UnitType) /\ Len(Joined(t4, p5)) = m4 + d
        /\ \A j \in 1..m4 : Joined(t4, p5)[j] = t4[j]
        /\ \A j \in 1..d : Joined(t4, p5)[m4 + j] = p5[j]
    <3>1. t4 \in Seq(UnitType) /\ p5 \in Seq(UnitType) /\ Len(t4) = m4 /\ Len(p5) = d
      BY <1>6, <1>35
    <3>2. m4 \in Nat /\ d \in Nat
      OBVIOUS
    <3> QED
      BY ONLY <3>1, <3>2, JoinedAt
  <2> QED
    BY <1>3, <2>1
<1>8. StreamOf(s, b, c, d) = t5
  BY <1>1, <1>21, <1>22, <1>23, <1>24, <1>25, <1>4, <1>5, <1>6, <1>7 DEF StreamOf, Joined
<1>9. ASSUME NEW j \in 1..H PROVE t5[j] = Unit(s, "header", j)
  <2>1. j \in 1..m2 /\ j \in 1..m3 /\ j \in 1..m4
    BY <1>3
  <2>2. t5[j] = t4[j] /\ t4[j] = t3[j] /\ t3[j] = t2[j] /\ t2[j] = p1[j]
    BY <1>4, <1>5, <1>6, <1>7, <2>1
  <2> QED
    BY <1>31, <2>2
<1>10. ASSUME NEW j \in 1..b PROVE t5[H + j] = Unit(s, "block", j)
  <2>1. H + j \in 1..m2 /\ H + j \in 1..m3 /\ H + j \in 1..m4
    BY <1>3
  <2>2. t5[H + j] = t4[H + j] /\ t4[H + j] = t3[H + j] /\ t3[H + j] = t2[H + j]
    BY <1>5, <1>6, <1>7, <2>1
  <2>3. t2[H + j] = p2[j]
    BY <1>4
  <2> QED
    BY <1>32, <2>2, <2>3
<1>11. ASSUME NEW j \in 1..c PROVE t5[m2 + j] = Unit(s, "index", j)
  <2>1. m2 + j \in 1..m3 /\ m2 + j \in 1..m4
    BY <1>3
  <2>2. t5[m2 + j] = t4[m2 + j] /\ t4[m2 + j] = t3[m2 + j]
    BY <1>6, <1>7, <2>1
  <2>3. t3[m2 + j] = p3[j]
    BY <1>5
  <2> QED
    BY <1>33, <2>2, <2>3
<1>12. ASSUME NEW j \in 1..H PROVE t5[m3 + j] = Unit(s, "footer", j)
  <2>1. m3 + j \in 1..m4
    BY <1>3
  <2>2. t5[m3 + j] = t4[m3 + j] /\ t4[m3 + j] = p4[j]
    BY <1>6, <1>7, <2>1
  <2> QED
    BY <1>34, <2>2
<1>13. ASSUME NEW j \in 1..d PROVE t5[m4 + j] = Unit(s, "padding", j)
  BY <1>35, <1>7
<1>14. m2 = H + b /\ m3 = H + b + c /\ m4 = H + b + c + H
  BY <1>3
<1>15. t5 \in Seq(UnitType) /\ Len(t5) = m4 + d
  BY <1>7
<1> QED
  BY <1>1, <1>8, <1>9, <1>10, <1>11, <1>12, <1>13, <1>14, <1>15 DEF IsStream

LEMMA ShapeParts ==
  ASSUME NEW s \in Nat, NEW shape \in StreamShape
  PROVE  /\ shape.blocks \in Nat /\ shape.index \in Nat \ {0} /\ shape.padding \in Nat
         /\ StreamUnits(s, shape) \in Seq(UnitType)
         /\ Len(StreamUnits(s, shape))
            = HeaderSize + shape.blocks + shape.index + HeaderSize + shape.padding
<1>1. shape.blocks \in Nat /\ shape.index \in Nat \ {0} /\ shape.padding \in Nat
  BY BoundsAssumption DEF StreamShape
<1>2. PICK b \in Nat, c \in Nat \ {0}, d \in Nat :
        b = shape.blocks /\ c = shape.index /\ d = shape.padding
  BY <1>1
<1>3. /\ StreamOf(s, b, c, d) \in Seq(UnitType)
      /\ Len(StreamOf(s, b, c, d)) = HeaderSize + b + c + HeaderSize + d
  BY StreamParts DEF IsStream
<1> QED
  BY <1>1, <1>2, <1>3 DEF StreamUnits

(* The file without its last stream.                                       *)
LEMMA LastIsAppended ==
  ASSUME ParseTypeOK
  PROVE  /\ streams \in Seq(StreamShape) /\ LastStream \in Nat \ {0}
         /\ streams[LastStream] \in StreamShape
         /\ \E front \in Seq(UnitType) :
              /\ Units(streams) = front \o StreamUnits(LastStream, streams[LastStream])
              /\ LastStream = 1 => front = << >>
              /\ LastStream # 1 => Len(front) # 0
<1>1. PICK n \in 1..MaxStreams : streams \in [1..n -> StreamShape]
  BY DEF ParseTypeOK
<1>2. n \in Nat \ {0} /\ streams \in Seq(StreamShape) /\ LastStream = n /\ DOMAIN streams = 1..n
  BY <1>1, BoundsAssumption, IsASeq DEF LastStream
<1> DEFINE T == Seq(UnitType)
<1>3. \A s \in 1..n : streams[s] \in StreamShape /\ StreamUnits(s, streams[s]) \in T
  BY <1>1, <1>2, ShapeParts DEF HeaderSize
<1> DEFINE f(m) == [s \in 1..m |-> StreamUnits(s, streams[s])]
<1>4. \A m \in 0..n : f(m) \in [1..m -> T] /\ f(m) \in Seq(T)
  <2>1. ASSUME NEW m \in 0..n PROVE f(m) \in [1..m -> T]
    BY <1>2, <1>3
  <2>2. ASSUME NEW m \in 0..n PROVE f(m) \in Seq(T)
    BY <1>2, <2>1, IsASeq
  <2> QED
    BY <2>1, <2>2
<1>5. ASSUME NEW m \in 0..n, m # 0
      PROVE  /\ FlattenSeq(f(m - 1)) \in T /\ FlattenSeq(f(m)) \in T
             /\ FlattenSeq(f(m)) = FlattenSeq(f(m - 1)) \o StreamUnits(m, streams[m])
  <2>1. PICK l \in Nat : l = m - 1 /\ m = l + 1 /\ l \in 0..n /\ m \in 1..n
    BY <1>2, <1>5
  <2>2. f(l) \in [1..l -> T] /\ f(l + 1) \in [1..(l + 1) -> T]
    BY <1>4, <2>1
  <2>3. /\ \A i \in 1..l : f(l + 1)[i] = f(l)[i]
        /\ f(l + 1)[l + 1] = StreamUnits(m, streams[m])
    BY <2>1
  <2>4. f(l) \in Seq(Seq(UnitType)) /\ f(m) \in Seq(Seq(UnitType))
    BY <1>4, <2>1
  <2>5. PICK x \in Seq(UnitType) : x = StreamUnits(m, streams[m])
    BY <1>3, <2>1
  <2> HIDE DEF f
  <2>6. f(l + 1) = Append(f(l), f(l + 1)[l + 1])
    BY <2>2, <2>3, AppendedFunction
  <2>7. f(m) = Append(f(l), x)
    BY <2>1, <2>3, <2>5, <2>6
  <2>8. /\ FlattenSeq(f(l)) \in Seq(UnitType)
        /\ FlattenSeq(Append(f(l), x)) = FlattenSeq(f(l)) \o x
    BY ONLY <2>4, <2>5, FlattenAppend
  <2>9. FlattenSeq(f(l)) \o x \in Seq(UnitType)
    BY <2>5, <2>8, ConcatProperties
  <2> QED
    BY <2>1, <2>5, <2>7, <2>8, <2>9
<1>6. Units(streams) = FlattenSeq(f(n))
  BY <1>2 DEF Units, StreamUnits, StreamOf
<1>7. f(0) = << >>
  OBVIOUS
<1> HIDE DEF f
<1>8. PICK front \in Seq(UnitType) :
        /\ front = FlattenSeq(f(n - 1)) /\ Units(streams) = front \o StreamUnits(n, streams[n])
  <2>1. n \in 0..n /\ n # 0
    BY <1>2
  <2> QED
    BY <1>5, <1>6, <2>1
<1>9. n = 1 => front = << >>
  BY <1>7, <1>8, FlattenNothing
<1>10. ASSUME n # 1 PROVE Len(front) # 0
  <2>1. PICK m \in 0..n : m = n - 1 /\ m # 0 /\ m \in 1..n
    BY <1>2, <1>10
  <2>2. front = FlattenSeq(f(m - 1)) \o StreamUnits(m, streams[m]) /\ FlattenSeq(f(m - 1)) \in T
    BY <1>5, <1>8, <2>1
  <2>3. Len(StreamUnits(m, streams[m])) \in Nat \ {0} /\ StreamUnits(m, streams[m]) \in T
    <3>1. PICK shape \in StreamShape : shape = streams[m]
      BY <1>3, <2>1
    <3>2. PICK H \in Nat : H = HeaderSize
      BY DEF HeaderSize
    <3>3. /\ shape.blocks \in Nat /\ shape.index \in Nat \ {0} /\ shape.padding \in Nat
          /\ StreamUnits(m, shape) \in T
          /\ Len(StreamUnits(m, shape)) = H + shape.blocks + shape.index + H + shape.padding
      BY <2>1, <3>2, ShapeParts
    <3>4. Len(StreamUnits(m, shape)) \in Nat \ {0}
      BY <3>3
    <3> QED
      BY <3>1, <3>3, <3>4
  <2> QED
    BY <2>2, <2>3, ConcatProperties
<1>11. LastStream \in 1..n
  BY <1>2
<1>12. Units(streams) = front \o StreamUnits(LastStream, streams[LastStream])
  BY <1>2, <1>8
<1> QED
  BY <1>2, <1>3, <1>9, <1>10, <1>11, <1>12

(* The last stream fills the end of the file.                              *)
LEMMA LastParts ==
  ASSUME ParseTypeOK
  PROVE  /\ LastStream \in Nat \ {0} /\ LastStream \in DOMAIN streams
         /\ streams \in [1..LastStream -> StreamShape]
         /\ Blocks \in Nat /\ IndexSize \in Nat \ {0} /\ Padding \in Nat /\ Begin \in Nat
         /\ Units(streams) \in Seq(UnitType) /\ HeaderSize \in Nat \ {0}
         /\ Length = Begin + HeaderSize + Blocks + IndexSize + HeaderSize + Padding
         /\ Begin = 0 <=> LastStream = 1
         /\ \A j \in 1..HeaderSize :
              Units(streams)[Begin + j] = Unit(LastStream, "header", j)
         /\ \A j \in 1..Blocks :
              Units(streams)[Begin + HeaderSize + j] = Unit(LastStream, "block", j)
         /\ \A j \in 1..IndexSize :
              Units(streams)[Begin + HeaderSize + Blocks + j] = Unit(LastStream, "index", j)
         /\ \A j \in 1..HeaderSize :
              Units(streams)[Begin + HeaderSize + Blocks + IndexSize + j]
              = Unit(LastStream, "footer", j)
         /\ \A j \in 1..Padding :
              Units(streams)[Begin + HeaderSize + Blocks + IndexSize + HeaderSize + j]
              = Unit(LastStream, "padding", j)
<1>0. PICK H \in Nat \ {0} : H = HeaderSize
  BY DEF HeaderSize
<1>1. /\ LastStream \in Nat \ {0} /\ streams[LastStream] \in StreamShape
      /\ streams \in Seq(StreamShape)
  BY LastIsAppended
<1>2. PICK front : /\ front \in Seq(UnitType)
                   /\ Units(streams) = front \o StreamUnits(LastStream, streams[LastStream])
                   /\ LastStream = 1 => front = << >>
                   /\ LastStream # 1 => Len(front) # 0
  BY LastIsAppended
<1>3. PICK b \in Nat, c \in Nat \ {0}, d \in Nat :
        b = Blocks /\ c = IndexSize /\ d = Padding
  BY <1>1, ShapeParts DEF Blocks, IndexSize, Padding, LastStream
<1>4. PICK L, last : L \in Nat /\ L = LastStream /\ last = StreamOf(L, b, c, d)
  BY <1>1
<1>5. /\ last \in Seq(UnitType) /\ Len(last) = H + b + c + H + d
      /\ \A j \in 1..H : last[j] = Unit(LastStream, "header", j)
      /\ \A j \in 1..b : last[H + j] = Unit(LastStream, "block", j)
      /\ \A j \in 1..c : last[H + b + j] = Unit(LastStream, "index", j)
      /\ \A j \in 1..H : last[H + b + c + j] = Unit(LastStream, "footer", j)
      /\ \A j \in 1..d : last[H + b + c + H + j] = Unit(LastStream, "padding", j)
  <2>1. IsStream(StreamOf(L, b, c, d), L, b, c, d)
    BY <1>4, StreamParts
  <2>2. IsStream(last, LastStream, b, c, d)
    BY <1>4, <2>1
  <2> QED
    BY <1>0, <2>2 DEF IsStream
<1>6. Units(streams) = Joined(front, last)
  BY <1>2, <1>3, <1>4 DEF Joined, StreamUnits, Blocks, IndexSize, Padding
<1>7. PICK B \in Nat, N \in Nat : B = Len(front) /\ N = Len(last)
  BY <1>2, <1>5, LenProperties
<1>8. PICK u : /\ u = Units(streams) /\ u \in Seq(UnitType) /\ Len(u) = B + N
               /\ \A j \in 1..N : u[B + j] = last[j]
  <2>1. front \in Seq(UnitType) /\ last \in Seq(UnitType) /\ Len(front) = B /\ Len(last) = N
    BY <1>2, <1>5, <1>7
  <2>3. B \in Nat /\ N \in Nat
    OBVIOUS
  <2>2. /\ Joined(front, last) \in Seq(UnitType) /\ Len(Joined(front, last)) = B + N
        /\ \A j \in 1..N : Joined(front, last)[B + j] = last[j]
    BY ONLY <2>1, <2>3, JoinedAt
  <2> QED
    BY <1>6, <2>2
<1>9. N = H + b + c + H + d
  BY <1>5, <1>7
<1>10. B = Begin
  <2>1. Length = B + N
    BY <1>8 DEF Length
  <2>2. Begin = B + N - (2 * H + b + c + d)
    BY <1>0, <1>3, <2>1 DEF Begin
  <2> QED
    BY <1>9, <2>2
<1>11. Begin = 0 <=> LastStream = 1
  BY <1>2, <1>7, <1>10
<1>12. Length = B + H + b + c + H + d
  BY <1>8, <1>9 DEF Length
<1>13. ASSUME NEW j \in 1..H PROVE u[B + j] = Unit(LastStream, "header", j)
  <2>1. j \in 1..N
    BY <1>9
  <2> QED
    BY <1>5, <1>8, <2>1
<1>14. ASSUME NEW j \in 1..b PROVE u[B + H + j] = Unit(LastStream, "block", j)
  <2>1. H + j \in 1..N /\ B + H + j = B + (H + j)
    BY <1>9
  <2>2. u[B + (H + j)] = last[H + j] /\ last[H + j] = Unit(LastStream, "block", j)
    BY <1>5, <1>8, <2>1
  <2> QED
    BY <2>1, <2>2
<1>15. ASSUME NEW j \in 1..c PROVE u[B + H + b + j] = Unit(LastStream, "index", j)
  <2>1. H + b + j \in 1..N /\ B + H + b + j = B + (H + b + j)
    BY <1>9
  <2>2. u[B + (H + b + j)] = last[H + b + j] /\ last[H + b + j] = Unit(LastStream, "index", j)
    BY <1>5, <1>8, <2>1
  <2> QED
    BY <2>1, <2>2
<1>16. ASSUME NEW j \in 1..H PROVE u[B + H + b + c + j] = Unit(LastStream, "footer", j)
  <2>1. H + b + c + j \in 1..N /\ B + H + b + c + j = B + (H + b + c + j)
    BY <1>9
  <2>2. /\ u[B + (H + b + c + j)] = last[H + b + c + j]
        /\ last[H + b + c + j] = Unit(LastStream, "footer", j)
    BY <1>5, <1>8, <2>1
  <2> QED
    BY <2>1, <2>2
<1>17. ASSUME NEW j \in 1..d PROVE u[B + H + b + c + H + j] = Unit(LastStream, "padding", j)
  <2>1. H + b + c + H + j \in 1..N /\ B + H + b + c + H + j = B + (H + b + c + H + j)
    BY <1>9
  <2>2. /\ u[B + (H + b + c + H + j)] = last[H + b + c + H + j]
        /\ last[H + b + c + H + j] = Unit(LastStream, "padding", j)
    BY <1>5, <1>8, <2>1
  <2> QED
    BY <2>1, <2>2
<1>18. LastStream \in DOMAIN streams /\ streams \in [1..LastStream -> StreamShape]
  BY <1>1 DEF LastStream
<1> QED
  BY <1>0, <1>1, <1>3, <1>8, <1>10, <1>11, <1>12, <1>13, <1>14, <1>15, <1>16, <1>17, <1>18

LEMMA SubSeqIs ==
  ASSUME NEW u \in Seq(UnitType), NEW p \in Nat, NEW size \in Nat, p + size <= Len(u),
         NEW s \in Nat, NEW name \in PartName
  PROVE  SubSeq(u, p + 1, p + size) = Part(s, name, size)
         <=> \A j \in 1..size : u[p + j] = Unit(s, name, j)
<1>1. \A i \in (p + 1)..(p + size) : u[i] \in UnitType
  BY LenProperties, ElementOfSeq
<1>2. PICK m \in Nat, n \in Nat : m = p + 1 /\ n = p + size
  OBVIOUS
<1>3. PICK x : x = SubSeq(u, m, n)
  OBVIOUS
<1>4. /\ x \in Seq(UnitType) /\ Len(x) = IF m <= n THEN n - m + 1 ELSE 0
      /\ \A i \in 1..(n - m + 1) : x[i] = u[m + i - 1]
  BY <1>1, <1>2, <1>3, SubSeqProperties
<1>5. Len(x) = size /\ \A i \in 1..size : x[i] = u[p + i]
  <2>1. Len(x) = size
    BY <1>2, <1>4
  <2>2. ASSUME NEW i \in 1..size PROVE x[i] = u[p + i]
    <3>1. i \in 1..(n - m + 1) /\ m + i - 1 = p + i
      BY <1>2
    <3>2. x[i] = u[m + i - 1]
      BY <1>4, <3>1
    <3> QED
      BY <3>1, <3>2
  <2> QED
    BY <2>1, <2>2
<1>6. PICK y : y = Part(s, name, size)
  OBVIOUS
<1>7. /\ y \in Seq(UnitType) /\ Len(y) = size
      /\ \A j \in 1..size : y[j] = Unit(s, name, j)
  BY <1>6, PartType
<1>8. x = y <=> \A i \in 1..size : x[i] = y[i]
  BY <1>4, <1>5, <1>7, SeqEqual
<1> QED
  BY <1>2, <1>3, <1>5, <1>6, <1>7, <1>8

(* The units of the file behind offset p are those of a part.              *)
HasUnits(p, name, s, size) == \A j \in 1..size : Units(streams)[p + j] = Unit(s, name, j)

LEMMA PartIs ==
  ASSUME ParseTypeOK, NEW p \in Int, NEW s \in Nat, NEW size \in Nat, NEW name \in PartName
  PROVE  PartAt(p, name, s, size)
         <=> /\ p >= 0 /\ p + size <= Length
             /\ HasUnits(p, name, s, size)
             /\ damaged \notin (p + 1)..(p + size)
<1>1. PICK u : u = Units(streams)
  OBVIOUS
<1>2. u \in Seq(UnitType)
  BY <1>1, LastParts
<1>3. ASSUME p \in Nat, p + size <= Len(u)
      PROVE  SubSeq(u, p + 1, p + size) = Part(s, name, size)
             <=> \A j \in 1..size : u[p + j] = Unit(s, name, j)
  BY <1>2, <1>3, SubSeqIs
<1> QED
  BY <1>1, <1>3 DEF PartAt, Length, HasUnits

LEMMA UnitPart ==
  ASSUME NEW s, NEW name, NEW j
  PROVE  Unit(s, name, j).part = name /\ Unit(s, name, j).stream = s
BY DEF Unit

(* A footer at the end of the file is that of the last stream, and nothing *)
(* follows that stream.                                                    *)
LEMMA FooterAtEnd ==
  ASSUME ParseTypeOK, NEW s \in Nat,
         PartAt(Length - HeaderSize, "footer", s, HeaderSize)
  PROVE  /\ Padding = 0 /\ s = LastStream
         /\ Intact(AfterIndex + 1, AfterIndex + HeaderSize)
<1>1. PICK u : u = Units(streams)
  OBVIOUS
<1>2. "footer" \in PartName /\ Length \in Int /\ HeaderSize \in Nat \ {0}
  BY LastParts DEF PartName
<1>3. /\ \A j \in 1..HeaderSize : u[(Length - HeaderSize) + j] = Unit(s, "footer", j)
      /\ damaged \notin ((Length - HeaderSize) + 1)..((Length - HeaderSize) + HeaderSize)
  BY <1>1, <1>2, PartIs DEF HasUnits
<1>4. u[Length] = Unit(s, "footer", HeaderSize)
  <2>1. HeaderSize \in 1..HeaderSize /\ (Length - HeaderSize) + HeaderSize = Length
    BY <1>2
  <2> QED
    BY <1>3, <2>1
<1>5. Padding = 0
  <2> SUFFICES ASSUME Padding # 0 PROVE FALSE
    OBVIOUS
  <2>1. /\ Padding \in 1..Padding
        /\ Begin + HeaderSize + Blocks + IndexSize + HeaderSize + Padding = Length
    BY LastParts
  <2>2. u[Length] = Unit(LastStream, "padding", Padding)
    BY <1>1, <2>1, LastParts
  <2> QED
    BY <1>4, <2>2, UnitPart
<1>6. Length = Begin + HeaderSize + Blocks + IndexSize + HeaderSize
  BY <1>5, LastParts
<1>61. PICK B \in Nat, H \in Nat \ {0}, b \in Nat, c \in Nat :
         B = Begin /\ H = HeaderSize /\ b = Blocks /\ c = IndexSize
  BY LastParts
<1>7. u[Length] = Unit(LastStream, "footer", HeaderSize)
  <2>1. \A j \in 1..H : u[B + H + b + c + j] = Unit(LastStream, "footer", j)
    BY <1>1, <1>61, LastParts
  <2>2. H \in 1..H /\ Length = B + H + b + c + H
    BY <1>6, <1>61
  <2> QED
    BY <1>61, <2>1, <2>2
<1>8. s = LastStream
  BY <1>4, <1>7, UnitPart
<1>9. /\ (Length - HeaderSize) + 1 = Begin + (AfterIndex + 1)
      /\ (Length - HeaderSize) + HeaderSize = Begin + (AfterIndex + HeaderSize)
  BY <1>6, <1>61 DEF AfterIndex
<1> QED
  BY <1>3, <1>5, <1>8, <1>9 DEF Intact

(* Where the parts of the last stream are found.                           *)
LEMMA PartsOfLast ==
  ASSUME ParseTypeOK
  PROVE  /\ PartAt(Begin, "header", LastStream, HeaderSize) <=> Intact(1, HeaderSize)
         /\ PartAt(Begin + AfterHeader, "index", LastStream, IndexSize)
            <=> Intact(AfterHeader + 1, AfterIndex)
         /\ Padding = 0 => (PartAt(Length - HeaderSize, "footer", LastStream, HeaderSize)
                            <=> Intact(AfterIndex + 1, AfterIndex + HeaderSize))
<1>1. PICK u, L : u = Units(streams) /\ L = LastStream /\ L \in Nat
  BY LastParts
<1>2. "header" \in PartName /\ "index" \in PartName /\ "footer" \in PartName
  BY DEF PartName
<1>3. PICK B \in Nat, b \in Nat, c \in Nat \ {0}, d \in Nat, H \in Nat \ {0} :
        B = Begin /\ b = Blocks /\ c = IndexSize /\ d = Padding /\ H = HeaderSize
  BY LastParts
<1>4. /\ Length = B + H + b + c + H + d
      /\ \A j \in 1..H : u[B + j] = Unit(L, "header", j)
      /\ \A j \in 1..c : u[B + H + b + j] = Unit(L, "index", j)
      /\ \A j \in 1..H : u[B + H + b + c + j] = Unit(L, "footer", j)
  BY <1>1, <1>3, LastParts
<1>5. PartAt(B, "header", L, H) <=> damaged \notin (B + 1)..(B + H)
  <2>1. B >= 0 /\ B + H <= Length /\ B \in Int
    BY <1>4
  <2>2. PartAt(B, "header", L, H)
        <=> /\ B >= 0 /\ B + H <= Length
            /\ HasUnits(B, "header", L, H)
            /\ damaged \notin (B + 1)..(B + H)
    BY <1>1, <1>2, <2>1, PartIs
  <2>3. HasUnits(B, "header", L, H)
    BY <1>1, <1>4 DEF HasUnits
  <2> QED
    BY <2>1, <2>2, <2>3
<1>6. PICK p \in Nat, q \in Nat : p = B + H + b /\ q = p + c
  OBVIOUS
<1>7. PartAt(p, "index", L, c) <=> damaged \notin (p + 1)..(p + c)
  <2>1. p >= 0 /\ p + c <= Length /\ p \in Int
    BY <1>4, <1>6
  <2>2. PartAt(p, "index", L, c)
        <=> /\ p >= 0 /\ p + c <= Length
            /\ HasUnits(p, "index", L, c)
            /\ damaged \notin (p + 1)..(p + c)
    BY <1>1, <1>2, <2>1, PartIs
  <2>3. HasUnits(p, "index", L, c)
    BY <1>1, <1>4, <1>6 DEF HasUnits
  <2> QED
    BY <2>1, <2>2, <2>3
<1>8. PartAt(q, "footer", L, H) <=> damaged \notin (q + 1)..(q + H)
  <2>1. q >= 0 /\ q + H <= Length /\ q \in Int
    BY <1>4, <1>6
  <2>2. PartAt(q, "footer", L, H)
        <=> /\ q >= 0 /\ q + H <= Length
            /\ HasUnits(q, "footer", L, H)
            /\ damaged \notin (q + 1)..(q + H)
    BY <1>1, <1>2, <2>1, PartIs
  <2>3. HasUnits(q, "footer", L, H)
    BY <1>1, <1>4, <1>6 DEF HasUnits
  <2> QED
    BY <2>1, <2>2, <2>3
<1>9. /\ Begin + AfterHeader = p /\ Begin + AfterIndex = q
      /\ Begin + (AfterHeader + 1) = p + 1 /\ p + c = q
      /\ Begin + (AfterIndex + 1) = q + 1 /\ Begin + (AfterIndex + HeaderSize) = q + H
      /\ Padding = 0 => Length - HeaderSize = q
  BY <1>3, <1>4, <1>6 DEF AfterHeader, AfterIndex
<1> QED
  BY <1>1, <1>3, <1>5, <1>7, <1>8, <1>9 DEF Intact

(* Behind the header of a stream there is neither a footer nor padding.    *)
LEMMA BehindHeader ==
  ASSUME ParseTypeOK
  PROVE  /\ \A s \in Nat : ~PartAt(Begin, "footer", s, HeaderSize)
         /\ ~ZeroAt(Begin + HeaderSize)
<1>0. PICK u : u = Units(streams)
  OBVIOUS
<1>1. PICK B \in Nat, H \in Nat \ {0} : B = Begin /\ H = HeaderSize
  BY LastParts
<1>2. \A j \in 1..H : u[B + j] = Unit(LastStream, "header", j)
  BY <1>0, <1>1, LastParts
<1>3. ASSUME NEW s \in Nat, PartAt(B, "footer", s, H) PROVE FALSE
  <2>1. "footer" \in PartName /\ B \in Int /\ H \in Nat
    BY DEF PartName
  <2>2. \A j \in 1..H : u[B + j] = Unit(s, "footer", j)
    BY <1>0, <1>1, <1>3, <2>1, PartIs DEF HasUnits
  <2>3. u[B + H] = Unit(s, "footer", H) /\ u[B + H] = Unit(LastStream, "header", H)
    <3>1. H \in 1..H
      OBVIOUS
    <3> QED
      BY <1>2, <2>2, <3>1
  <2> QED
    BY <2>3, UnitPart
<1>4. ~ZeroAt(B + H)
  <2>1. u[B + H] = Unit(LastStream, "header", H)
    BY <1>2
  <2> QED
    BY <1>0, <2>1, UnitPart DEF ZeroAt
<1> QED
  BY <1>1, <1>3, <1>4

(* Without padding the file ends with a footer.                            *)
LEMMA LastUnit ==
  ASSUME ParseTypeOK, Padding = 0
  PROVE  Units(streams)[Length].part = "footer"
<1>0. PICK u : u = Units(streams)
  OBVIOUS
<1>1. PICK B \in Nat, H \in Nat \ {0}, b \in Nat, c \in Nat :
        B = Begin /\ H = HeaderSize /\ b = Blocks /\ c = IndexSize
  BY LastParts
<1>2. \A j \in 1..H : u[B + H + b + c + j] = Unit(LastStream, "footer", j)
  BY <1>0, <1>1, LastParts
<1>3. H \in 1..H /\ Length = B + H + b + c + H
  BY <1>0, <1>1, LastParts
<1>4. u[Length] = Unit(LastStream, "footer", H)
  BY <1>2, <1>3
<1> QED
  BY <1>0, <1>4, UnitPart

(* Damage in a block alone leaves the other parts of the last stream sound. *)
LEMMA SoundBesidesBlocks ==
  ASSUME ParseTypeOK, DamagedPart \in {"none", "block"}
  PROVE  /\ Intact(1, HeaderSize) /\ Intact(AfterHeader + 1, AfterIndex)
         /\ Intact(AfterIndex + 1, AfterIndex + HeaderSize)
<1>0. PICK u, L : u = Units(streams) /\ L = LastStream
  OBVIOUS
<1>1. PICK B \in Nat, H \in Nat \ {0}, b \in Nat, c \in Nat \ {0} :
        B = Begin /\ H = HeaderSize /\ b = Blocks /\ c = IndexSize
  BY LastParts
<1>2. /\ \A j \in 1..H : u[B + j] = Unit(L, "header", j)
      /\ \A j \in 1..c : u[B + H + b + j] = Unit(L, "index", j)
      /\ \A j \in 1..H : u[B + H + b + c + j] = Unit(L, "footer", j)
  BY <1>0, <1>1, LastParts
<1>3. damaged # 0 => u[damaged].part \in {"none", "block"}
  BY <1>0 DEF DamagedPart
<1>4. damaged \notin (B + 1)..(B + H)
  <2> SUFFICES ASSUME damaged \in (B + 1)..(B + H) PROVE FALSE
    OBVIOUS
  <2>1. PICK j \in 1..H : damaged = B + j
    <3>1. damaged - B \in 1..H /\ damaged = B + (damaged - B)
      OBVIOUS
    <3> QED
      BY <3>1
  <2>2. damaged # 0 /\ u[damaged] = Unit(L, "header", j)
    BY <1>2, <2>1
  <2> QED
    BY <1>3, <2>2, UnitPart
<1>5. PICK p \in Nat, q \in Nat : p = B + H + b /\ q = p + c
  OBVIOUS
<1>6. damaged \notin (p + 1)..(p + c)
  <2> SUFFICES ASSUME damaged \in (p + 1)..(p + c) PROVE FALSE
    OBVIOUS
  <2>1. PICK j \in 1..c : damaged = p + j
    <3>1. damaged - p \in 1..c /\ damaged = p + (damaged - p)
      OBVIOUS
    <3> QED
      BY <3>1
  <2>2. damaged # 0 /\ u[damaged] = Unit(L, "index", j)
    BY <1>2, <1>5, <2>1
  <2> QED
    BY <1>3, <2>2, UnitPart
<1>7. damaged \notin (q + 1)..(q + H)
  <2> SUFFICES ASSUME damaged \in (q + 1)..(q + H) PROVE FALSE
    OBVIOUS
  <2>1. PICK j \in 1..H : damaged = q + j
    <3>1. damaged - q \in 1..H /\ damaged = q + (damaged - q)
      OBVIOUS
    <3> QED
      BY <3>1
  <2>2. damaged # 0 /\ u[damaged] = Unit(L, "footer", j)
    BY <1>2, <1>5, <2>1
  <2> QED
    BY <1>3, <2>2, UnitPart
<1>8. /\ Begin + 1 = B + 1 /\ Begin + HeaderSize = B + H
      /\ Begin + (AfterHeader + 1) = p + 1 /\ Begin + AfterIndex = p + c
      /\ Begin + (AfterIndex + 1) = q + 1 /\ Begin + (AfterIndex + HeaderSize) = q + H
  BY <1>1, <1>5 DEF AfterHeader, AfterIndex
<1> QED
  BY <1>4, <1>6, <1>7, <1>8 DEF Intact

(* Of a single stream, sound besides its blocks, only a block is damaged.  *)
LEMMA OnlyBlocksLeft ==
  ASSUME ParseTypeOK, Begin = 0, Padding = 0,
         Intact(1, HeaderSize), Intact(AfterHeader + 1, AfterIndex),
         Intact(AfterIndex + 1, AfterIndex + HeaderSize)
  PROVE  DamagedPart \in {"none", "block"}
<1>0. PICK u : u = Units(streams)
  OBVIOUS
<1>1. PICK H \in Nat \ {0}, b \in Nat, c \in Nat \ {0} :
        H = HeaderSize /\ b = Blocks /\ c = IndexSize
  BY LastParts
<1>2. damaged \in 0..Length /\ Length = H + b + c + H
  BY <1>1, LastParts DEF ParseTypeOK
<1>3. /\ damaged \notin 1..H /\ damaged \notin (H + b + 1)..(H + b + c)
      /\ damaged \notin (H + b + c + 1)..(H + b + c + H)
  <2>1. Intact(1, H) /\ Intact(H + b + 1, H + b + c) /\ Intact(H + b + c + 1, H + b + c + H)
    BY <1>1 DEF AfterHeader, AfterIndex
  <2> QED
    BY <2>1 DEF Intact
<1>4. CASE damaged = 0
  BY <1>4 DEF DamagedPart
<1>5. CASE damaged # 0
  <2>1. damaged - H \in 1..b /\ damaged = H + (damaged - H)
    BY <1>2, <1>3, <1>5
  <2>2. PICK j \in 1..b : damaged = H + j
    BY <2>1
  <2>3. \A i \in 1..b : u[0 + H + i] = Unit(LastStream, "block", i)
    BY <1>0, <1>1, LastParts
  <2>4. 0 + H + j = damaged
    BY <2>2
  <2>5. u[damaged] = Unit(LastStream, "block", j)
    BY <2>3, <2>4
  <2> QED
    BY <1>0, <1>5, <2>5, UnitPart DEF DamagedPart
<1> QED
  BY <1>4, <1>5

-----------------------------------------------------------------------------
(* The steps.                                                              *)

LEMMA SameFile ==
  ASSUME UNCHANGED file_vars
  PROVE  /\ LastStream' = LastStream /\ Blocks' = Blocks /\ IndexSize' = IndexSize
         /\ Padding' = Padding /\ Length' = Length /\ Begin' = Begin
         /\ AfterHeader' = AfterHeader /\ AfterIndex' = AfterIndex
         /\ Units(streams)' = Units(streams)
         /\ Intact(1, HeaderSize)' = Intact(1, HeaderSize)
         /\ Intact(AfterHeader + 1, AfterIndex)' = Intact(AfterHeader + 1, AfterIndex)
         /\ Intact(AfterIndex + 1, AfterIndex + HeaderSize)'
            = Intact(AfterIndex + 1, AfterIndex + HeaderSize)
         /\ DamagedPart' = DamagedPart
<1>1. streams' = streams /\ damaged' = damaged /\ ragged' = ragged
  BY DEF file_vars
<1>2. Units(streams)' = Units(streams)
  BY <1>1 DEF Units
<1>3. /\ LastStream' = LastStream /\ Blocks' = Blocks /\ IndexSize' = IndexSize
      /\ Padding' = Padding /\ Length' = Length
  BY <1>1, <1>2 DEF LastStream, Blocks, IndexSize, Padding, Length
<1>4. Begin' = Begin /\ AfterHeader' = AfterHeader /\ AfterIndex' = AfterIndex
  BY <1>3 DEF Begin, AfterHeader, AfterIndex
<1>5. DamagedPart' = DamagedPart
  BY <1>1, <1>2 DEF DamagedPart
<1> QED
  BY <1>1, <1>2, <1>3, <1>4, <1>5 DEF Intact

LEMMA ParseStart == ParseInit => ParseIInv
<1> SUFFICES ASSUME ParseInit PROVE ParseIInv
  OBVIOUS
<1>1. ParseTypeOK
  BY DEF ParseInit, ParseTypeOK
<1>2. Length > 0
  BY <1>1, LastParts
<1>3. phase = "size" /\ pos = Length /\ offset = Length /\ stream_padding = 0
      /\ combined_index = << >>
  BY DEF ParseInit
<1>4. AtEnd
  BY <1>1, <1>2, <1>3, LastParts DEF AtEnd
<1>5. OfLast /\ HeaderDecoded /\ SingleStreamIsParsed
  BY <1>3 DEF OfLast, HeaderDecoded, SingleStreamIsParsed
<1> QED
  BY <1>1, <1>3, <1>4, <1>5 DEF ParseIInv

LEMMA CheckSizeStep == ParseIInv /\ CheckSize => ParseIInv'
<1> SUFFICES ASSUME ParseIInv, CheckSize PROVE ParseIInv'
  OBVIOUS
<1>1. ParseTypeOK /\ AtEnd /\ OfLast /\ HeaderDecoded
  BY DEF ParseIInv
<1>2. /\ phase = "size" /\ ragged = 0 /\ phase' = "footer" /\ UNCHANGED file_vars
      /\ pos' = pos /\ offset' = offset /\ footer' = footer
      /\ stream_padding' = stream_padding /\ combined_index' = combined_index
  BY DEF CheckSize
<1>3. combined_index = << >>
  BY <1>1, <1>2 DEF HeaderDecoded
<1>4. ParseTypeOK'
  BY <1>1, <1>2, SameFile DEF ParseTypeOK, file_vars
<1>5. AtEnd'
  BY <1>1, <1>2, <1>3, SameFile DEF AtEnd
<1>6. OfLast' /\ HeaderDecoded'
  BY <1>2, <1>3 DEF OfLast, HeaderDecoded
<1>7. ragged' = ragged /\ SingleStreamIsParsed'
  BY <1>2 DEF file_vars, SingleStreamIsParsed
<1> QED
  BY <1>2, <1>4, <1>5, <1>6, <1>7 DEF ParseIInv

LEMMA SkipPaddingStep == ParseIInv /\ SkipPadding => ParseIInv'
<1> SUFFICES ASSUME ParseIInv, SkipPadding PROVE ParseIInv'
  OBVIOUS
<1>1. ParseTypeOK /\ AtEnd /\ OfLast /\ HeaderDecoded
  BY DEF ParseIInv
<1>2. /\ phase = "footer" /\ pos >= HeaderSize /\ ZeroAt(offset)
      /\ stream_padding' = stream_padding + 1 /\ pos' = pos - 1
      /\ UNCHANGED file_vars /\ phase' = phase /\ offset' = offset /\ footer' = footer
      /\ combined_index' = combined_index
  BY DEF SkipPadding, FooterReadable
<1>3. combined_index = << >>
  BY <1>1, <1>2, BehindHeader DEF HeaderDecoded
<1>4. /\ offset = Length /\ pos = Length - stream_padding /\ pos > 0
      /\ Length \in Nat /\ stream_padding \in Nat
  BY <1>1, <1>2, <1>3, LastParts DEF AtEnd, ParseTypeOK
<1>5. Units(streams)[Length].part = "padding"
  BY <1>2, <1>4 DEF ZeroAt
<1>6. ParseTypeOK'
  BY <1>1, <1>2, <1>4, SameFile DEF ParseTypeOK, file_vars
<1>7. AtEnd'
  <2>1. pos' = Length - stream_padding' /\ pos' > 0
    BY <1>2, <1>4 DEF HeaderSize
  <2>2. Length' = Length /\ Units(streams)'[Length'].part = "padding"
    BY <1>2, <1>5, SameFile
  <2> QED
    BY <1>2, <1>4, <2>1, <2>2 DEF AtEnd
<1>8. OfLast' /\ HeaderDecoded'
  BY <1>2, <1>3 DEF OfLast, HeaderDecoded
<1>9. ragged' = ragged /\ SingleStreamIsParsed'
  BY <1>2 DEF file_vars, SingleStreamIsParsed
<1> QED
  BY <1>2, <1>6, <1>7, <1>8, <1>9 DEF ParseIInv

LEMMA DecodeFooterStep == ParseIInv /\ DecodeFooter => ParseIInv'
<1> SUFFICES ASSUME ParseIInv, DecodeFooter PROVE ParseIInv'
  OBVIOUS
<1>1. ParseTypeOK /\ AtEnd /\ OfLast /\ HeaderDecoded
  BY DEF ParseIInv
<1>2. PICK s \in DOMAIN streams :
        /\ PartAt(offset - HeaderSize, "footer", s, HeaderSize)
        /\ footer' = s /\ pos' = pos - HeaderSize - streams[s].index
  BY DEF DecodeFooter, FooterOf
<1>3. /\ phase = "footer" /\ offset' = pos' /\ phase' = "index" /\ UNCHANGED file_vars
      /\ stream_padding' = stream_padding /\ combined_index' = combined_index
  BY DEF DecodeFooter
<1>4. s \in Nat
  BY <1>1, LastParts
<1>5. combined_index = << >>
  <2> SUFFICES ASSUME combined_index # << >> PROVE FALSE
    OBVIOUS
  <2>1. offset - HeaderSize = Begin
    BY <1>1, LastParts DEF HeaderDecoded
  <2> QED
    BY <1>1, <1>2, <1>4, <2>1, BehindHeader
<1>6. /\ offset = Length /\ pos = Length - stream_padding
      /\ stream_padding > 0 => Units(streams)[Length].part = "padding"
  BY <1>1, <1>3, <1>5 DEF AtEnd
<1>7. Padding = 0 /\ s = LastStream /\ Intact(AfterIndex + 1, AfterIndex + HeaderSize)
  BY <1>1, <1>2, <1>4, <1>6, FooterAtEnd
<1>8. stream_padding = 0
  BY <1>1, <1>6, <1>7, LastUnit DEF ParseTypeOK
<1>9. pos' = Begin + AfterHeader
  BY <1>1, <1>2, <1>6, <1>7, <1>8, LastParts DEF IndexSize, AfterHeader
<1>10. ParseTypeOK'
  BY <1>1, <1>3, SameFile DEF ParseTypeOK, file_vars
<1>11. OfLast'
  BY <1>2, <1>3, <1>7, <1>8, <1>9, SameFile DEF OfLast
<1>12. AtEnd' /\ HeaderDecoded'
  BY <1>3, <1>5 DEF AtEnd, HeaderDecoded
<1>13. ragged' = ragged /\ SingleStreamIsParsed'
  BY <1>3 DEF file_vars, SingleStreamIsParsed
<1> QED
  BY <1>3, <1>10, <1>11, <1>12, <1>13 DEF ParseIInv

LEMMA DecodeIndexStep == ParseIInv /\ DecodeIndex => ParseIInv'
<1> SUFFICES ASSUME ParseIInv, DecodeIndex PROVE ParseIInv'
  OBVIOUS
<1>1. ParseTypeOK /\ AtEnd /\ OfLast /\ HeaderDecoded
  BY DEF ParseIInv
<1>2. /\ phase = "index" /\ PartAt(offset, "index", footer, streams[footer].index)
      /\ pos' = pos - (streams[footer].blocks + HeaderSize) /\ offset' = pos'
      /\ phase' = "header" /\ UNCHANGED file_vars /\ footer' = footer
      /\ stream_padding' = stream_padding /\ combined_index' = combined_index
  BY DEF DecodeIndex
<1>3. /\ combined_index = << >> /\ footer = LastStream /\ Padding = 0 /\ stream_padding = 0
      /\ Intact(AfterIndex + 1, AfterIndex + HeaderSize)
      /\ pos = Begin + AfterHeader /\ offset = pos
  BY <1>1, <1>2 DEF HeaderDecoded, OfLast
<1>4. streams[footer].index = IndexSize /\ streams[footer].blocks = Blocks
  BY <1>3 DEF IndexSize, Blocks
<1>5. Intact(AfterHeader + 1, AfterIndex)
  BY <1>1, <1>2, <1>3, <1>4, PartsOfLast
<1>6. pos' = Begin
  BY <1>1, <1>2, <1>3, <1>4, LastParts DEF AfterHeader
<1>7. ParseTypeOK'
  BY <1>1, <1>2, SameFile DEF ParseTypeOK, file_vars
<1>8. OfLast'
  BY <1>2, <1>3, <1>5, <1>6, SameFile DEF OfLast
<1>9. AtEnd' /\ HeaderDecoded'
  BY <1>2, <1>3 DEF AtEnd, HeaderDecoded
<1>10. ragged' = ragged /\ SingleStreamIsParsed'
  BY <1>2 DEF file_vars, SingleStreamIsParsed
<1> QED
  BY <1>2, <1>7, <1>8, <1>9, <1>10 DEF ParseIInv

LEMMA DecodeHeaderStep == ParseIInv /\ DecodeHeader => ParseIInv'
<1> SUFFICES ASSUME ParseIInv, DecodeHeader PROVE ParseIInv'
  OBVIOUS
<1>1. ParseTypeOK /\ AtEnd /\ OfLast /\ HeaderDecoded
  BY DEF ParseIInv
<1>2. /\ phase = "header" /\ PartAt(offset, "header", footer, HeaderSize)
      /\ offset' = offset + HeaderSize
      /\ combined_index' =
           <<[stream |-> footer, padding |-> stream_padding]>> \o combined_index
      /\ phase' = "footer" /\ UNCHANGED file_vars /\ pos' = pos /\ footer' = footer
      /\ stream_padding' = stream_padding
  BY DEF DecodeHeader
<1>3. /\ combined_index = << >> /\ footer = LastStream /\ Padding = 0 /\ stream_padding = 0
      /\ Intact(AfterIndex + 1, AfterIndex + HeaderSize) /\ Intact(AfterHeader + 1, AfterIndex)
      /\ pos = Begin /\ offset = pos
  BY <1>1, <1>2 DEF HeaderDecoded, OfLast
<1>4. Intact(1, HeaderSize)
  BY <1>1, <1>2, <1>3, PartsOfLast
<1>5. PICK entry : entry = [stream |-> LastStream, padding |-> 0]
  OBVIOUS
<1>6. combined_index' = <<[stream |-> LastStream, padding |-> 0]>>
  <2>1. <<entry>> \in Seq({entry}) /\ <<entry>> \o << >> = <<entry>>
    BY ConcatEmptySeq
  <2> QED
    BY <1>2, <1>3, <1>5, <2>1
<1>7. combined_index' # << >>
  BY <1>6
<1>8. ParseTypeOK'
  BY <1>1, <1>2, SameFile DEF ParseTypeOK, file_vars
<1>9. AtEnd'
  BY <1>7 DEF AtEnd
<1>10. OfLast'
  BY <1>2, <1>3, SameFile DEF OfLast
<1>11. HeaderDecoded'
  BY <1>2, <1>3, <1>4, <1>6, <1>7, SameFile DEF HeaderDecoded
<1>12. ragged' = ragged /\ SingleStreamIsParsed'
  BY <1>2 DEF file_vars, SingleStreamIsParsed
<1> QED
  BY <1>2, <1>8, <1>9, <1>10, <1>11, <1>12 DEF ParseIInv

LEMMA ReturnStep == ParseIInv /\ Return => ParseIInv'
<1> SUFFICES ASSUME ParseIInv, Return PROVE ParseIInv'
  OBVIOUS
<1>1. ParseTypeOK /\ AtEnd /\ OfLast /\ HeaderDecoded /\ (ragged = 1 => phase \in {"size", "rejected"})
  BY DEF ParseIInv
<1>2. /\ phase = "footer" /\ pos = 0 /\ phase' = "returned" /\ UNCHANGED file_vars
      /\ pos' = pos /\ offset' = offset /\ footer' = footer
      /\ stream_padding' = stream_padding /\ combined_index' = combined_index
  BY DEF Return
<1>3. combined_index # << >>
  BY <1>1, <1>2 DEF AtEnd
<1>4. ParseTypeOK'
  BY <1>1, <1>2, SameFile DEF ParseTypeOK, file_vars
<1>5. AtEnd'
  BY <1>2 DEF AtEnd
<1>6. OfLast'
  BY <1>1, <1>2, <1>3, SameFile DEF OfLast
<1>7. HeaderDecoded'
  BY <1>1, <1>2, <1>3, SameFile DEF HeaderDecoded
<1>8. ragged' = ragged /\ SingleStreamIsParsed'
  BY <1>2 DEF file_vars, SingleStreamIsParsed
<1> QED
  BY <1>1, <1>2, <1>4, <1>5, <1>6, <1>7, <1>8 DEF ParseIInv

(* A file that xz writes is not turned away in any phase.                  *)
LEMMA RejectStep == ParseIInv /\ Reject => ParseIInv'
<1> SUFFICES ASSUME ParseIInv, Reject PROVE ParseIInv'
  OBVIOUS
<1>1. ParseTypeOK /\ AtEnd /\ OfLast /\ HeaderDecoded
  BY DEF ParseIInv
<1>2. /\ phase' = "rejected" /\ UNCHANGED file_vars
      /\ pos' = pos /\ offset' = offset /\ footer' = footer
      /\ stream_padding' = stream_padding /\ combined_index' = combined_index
  BY DEF Reject
<1>3. ParseTypeOK' /\ ragged' = ragged
  BY <1>1, <1>2, SameFile DEF ParseTypeOK, file_vars
<1>4. AtEnd'
  BY <1>2 DEF AtEnd
<1>5. combined_index # << >> => phase \in {"footer", "returned", "rejected"}
  BY <1>1 DEF HeaderDecoded
<1>6. OfLast'
  BY <1>1, <1>2, <1>5, SameFile DEF OfLast
<1>7. HeaderDecoded'
  BY <1>1, <1>2, SameFile DEF HeaderDecoded
<1>8. SingleStreamIsParsed'
  <2> SUFFICES ASSUME LastStream = 1, Padding = 0, ragged = 0, DamagedPart \in {"none", "block"}
               PROVE  FALSE
    <3>1. streams' = streams /\ ragged' = ragged /\ DamagedPart' = DamagedPart
      BY <1>2, SameFile DEF file_vars
    <3> QED
      BY <3>1 DEF SingleStreamIsParsed, LastStream, Padding
  <2>1. /\ Intact(1, HeaderSize) /\ Intact(AfterHeader + 1, AfterIndex)
        /\ Intact(AfterIndex + 1, AfterIndex + HeaderSize)
    BY <1>1, SoundBesidesBlocks
  <2>2. /\ PartAt(Begin, "header", LastStream, HeaderSize)
        /\ PartAt(Begin + AfterHeader, "index", LastStream, IndexSize)
        /\ PartAt(Length - HeaderSize, "footer", LastStream, HeaderSize)
    BY <1>1, <2>1, PartsOfLast
  <2>3. /\ Begin = 0 /\ HeaderSize \in Nat \ {0} /\ Blocks \in Nat /\ IndexSize \in Nat
        /\ Length = HeaderSize + Blocks + IndexSize + HeaderSize
        /\ LastStream \in DOMAIN streams
    BY <1>1, LastParts
  <2>4. CASE phase = "size" /\ ragged # 0
    BY <2>4
  <2>5. CASE /\ phase = "footer" /\ pos > 0
             /\ \/ ~FooterReadable
                \/ ~ZeroAt(offset) /\ \A s \in DOMAIN streams : ~FooterOf(s)
    <3>1. combined_index = << >>
      BY <1>1, <2>3, <2>5 DEF HeaderDecoded
    <3>2. /\ offset = Length /\ pos = Length - stream_padding
          /\ stream_padding > 0 => Units(streams)[Length].part = "padding"
      BY <1>1, <2>5, <3>1 DEF AtEnd
    <3>3. stream_padding = 0
      BY <1>1, <3>2, LastUnit DEF ParseTypeOK
    <3>4. FooterReadable
      BY <2>3, <3>2, <3>3 DEF FooterReadable
    <3>5. FooterOf(LastStream)
      <4>1. pos - HeaderSize >= streams[LastStream].index + HeaderSize
        BY <2>3, <3>2, <3>3 DEF IndexSize
      <4> QED
        BY <2>2, <3>2, <4>1 DEF FooterOf
    <3> QED
      BY <2>3, <2>5, <3>4, <3>5
  <2>6. CASE /\ phase = "index"
             /\ \/ ~PartAt(offset, "index", footer, streams[footer].index)
                \/ pos < streams[footer].blocks + HeaderSize
    <3>1. footer = LastStream /\ pos = Begin + AfterHeader /\ offset = pos
      BY <1>1, <2>6 DEF OfLast
    <3>2. streams[footer].index = IndexSize /\ streams[footer].blocks = Blocks
      BY <3>1 DEF IndexSize, Blocks
    <3>3. ~(pos < streams[footer].blocks + HeaderSize)
      BY <2>3, <3>1, <3>2 DEF AfterHeader
    <3> QED
      BY <2>2, <2>6, <3>1, <3>2, <3>3
  <2>7. CASE phase = "header" /\ ~PartAt(offset, "header", footer, HeaderSize)
    <3>1. footer = LastStream /\ pos = Begin /\ offset = pos
      BY <1>1, <2>7 DEF OfLast
    <3> QED
      BY <2>2, <2>7, <3>1
  <2> QED
    BY <2>4, <2>5, <2>6, <2>7 DEF Reject
<1> QED
  BY <1>2, <1>3, <1>4, <1>6, <1>7, <1>8 DEF ParseIInv

(* The last stream, decoded or not, is the only one that can be.           *)
THEOREM ParseInvariance == ParseSpec => []ParseIInv
<1>1. ParseInit => ParseIInv
  BY ParseStart
<1>2. ParseIInv /\ [ParseNext]_parse_vars => ParseIInv'
  <2> SUFFICES ASSUME ParseIInv, [ParseNext]_parse_vars PROVE ParseIInv'
    OBVIOUS
  <2>1. CASE CheckSize
    BY <2>1, CheckSizeStep
  <2>2. CASE SkipPadding
    BY <2>2, SkipPaddingStep
  <2>3. CASE DecodeFooter
    BY <2>3, DecodeFooterStep
  <2>4. CASE DecodeIndex
    BY <2>4, DecodeIndexStep
  <2>5. CASE DecodeHeader
    BY <2>5, DecodeHeaderStep
  <2>6. CASE Return
    BY <2>6, ReturnStep
  <2>7. CASE Reject
    BY <2>7, RejectStep
  <2>8. CASE UNCHANGED parse_vars
    <3>1. UNCHANGED file_vars
      BY <2>8 DEF parse_vars, file_vars
    <3>2. /\ phase' = phase /\ pos' = pos /\ offset' = offset /\ footer' = footer
          /\ stream_padding' = stream_padding /\ combined_index' = combined_index
          /\ streams' = streams /\ damaged' = damaged /\ ragged' = ragged
      BY <2>8 DEF parse_vars
    <3>3. ParseTypeOK /\ AtEnd /\ OfLast /\ HeaderDecoded
      BY DEF ParseIInv
    <3>4. ParseTypeOK'
      BY <3>1, <3>2, <3>3, SameFile DEF ParseTypeOK
    <3>5. AtEnd'
      BY <3>1, <3>2, <3>3, SameFile DEF AtEnd
    <3>6. OfLast'
      BY <3>1, <3>2, <3>3, SameFile DEF OfLast
    <3>7. HeaderDecoded'
      BY <3>1, <3>2, <3>3, SameFile DEF HeaderDecoded
    <3>8. SingleStreamIsParsed'
      BY <3>1, <3>2, SameFile DEF ParseIInv, SingleStreamIsParsed
    <3> QED
      BY <3>2, <3>4, <3>5, <3>6, <3>7, <3>8 DEF ParseIInv
  <2> QED
    BY <2>1, <2>2, <2>3, <2>4, <2>5, <2>6, <2>7, <2>8 DEF ParseNext
<1> QED
  BY <1>1, <1>2, PTL DEF ParseSpec

(* Files of several streams, and padded ones, are never accepted: the      *)
(* offset that the next footer is looked for at is not that of pos.        *)
THEOREM OnlySingleStreamsAreReturned ==
  ParseSpec => [](phase = "returned" => Len(streams) = 1 /\ streams[1].padding = 0)
<1>1. ParseIInv => (phase = "returned" => Len(streams) = 1 /\ streams[1].padding = 0)
  <2> SUFFICES ASSUME ParseIInv, phase = "returned"
               PROVE  Len(streams) = 1 /\ streams[1].padding = 0
    OBVIOUS
  <2>1. ParseTypeOK /\ pos = 0 /\ pos = Begin /\ Padding = 0
    BY DEF ParseIInv, HeaderDecoded, OfLast
  <2>2. LastStream = 1
    BY <2>1, LastParts
  <2> QED
    BY <2>1, <2>2 DEF LastStream, Padding
<1> QED
  BY <1>1, ParseInvariance, PTL

(* parse_indexes() returns the index of every stream of the file, with the *)
(* padding behind it, and none for a file that is damaged besides blocks.  *)
THEOREM ReturnedIndexIsTheFile == ParseSpec => []ReturnedIndexIsExact
<1>1. ParseIInv => ReturnedIndexIsExact
  <2> SUFFICES ASSUME ParseIInv, phase = "returned"
               PROVE  /\ ragged = 0 /\ DamagedPart \in {"none", "block"}
                      /\ combined_index = [s \in DOMAIN streams |->
                                            [stream |-> s, padding |-> streams[s].padding]]
    BY DEF ReturnedIndexIsExact
  <2>1. ParseTypeOK /\ OfLast /\ HeaderDecoded /\ ragged = 0
    BY DEF ParseIInv, ParseTypeOK
  <2>2. /\ pos = 0 /\ pos = Begin /\ Intact(1, HeaderSize)
        /\ combined_index = <<[stream |-> LastStream, padding |-> 0]>>
    BY <2>1 DEF HeaderDecoded
  <2>3. /\ Padding = 0 /\ Intact(AfterHeader + 1, AfterIndex)
        /\ Intact(AfterIndex + 1, AfterIndex + HeaderSize)
    BY <2>1 DEF OfLast
  <2>4. DamagedPart \in {"none", "block"}
    BY <2>1, <2>2, <2>3, OnlyBlocksLeft
  <2>5. LastStream = 1 /\ DOMAIN streams = 1..1
    BY <2>1, <2>2, LastParts
  <2>6. [s \in DOMAIN streams |-> [stream |-> s, padding |-> streams[s].padding]]
        = <<[stream |-> 1, padding |-> 0]>>
    BY <2>3, <2>5 DEF Padding
  <2> QED
    BY <2>1, <2>2, <2>4, <2>5, <2>6
<1> QED
  BY <1>1, ParseInvariance, PTL

(* What xz writes by default, one stream without padding, is parsed.       *)
THEOREM WhatXzWritesIsParsed == ParseSpec => []SingleStreamIsParsed
<1>1. ParseIInv => SingleStreamIsParsed
  BY DEF ParseIInv
<1> QED
  BY <1>1, ParseInvariance, PTL

-----------------------------------------------------------------------------
(* Pxzcat.                                                                 *)

USE ConstantsAssumption DEF Thread, Block, Position, Damage, NoThread, Uninitialized,
  input, caller, global, worker, Goto

(* Every part of the initial state has its type.                            *)
LEMMA InitType == Init => TypeOK
<1> SUFFICES ASSUME Init PROVE TypeOK
  OBVIOUS
<1>1. out \in [DOMAIN out -> Byte]
  BY DEF Init
<1>2. \A t \in Thread : Len(outbuf[t]) <= BufferSize
  BY DEF Init
<1>3. damage \in [Block -> Damage]
  BY DEF Init
<1>4. iter_mutex \in Thread \cup {NoThread} /\ status \in [Thread -> {-1, 0, Uninitialized}]
  BY DEF Init
<1>5. outbuf \in [Thread -> Seq(Byte)] /\ oposition \in [Thread -> Nat]
  BY DEF Init
<1>6. /\ created \in 0..NrThreads /\ joined \in 0..NrThreads /\ nr_errors \in 0..joined
      /\ iter \in 0..NrBlocks /\ blk \in [Thread -> 0..NrBlocks]
  BY DEF Init
<1>7. content \in [Position -> Byte] /\ iter_finished \in BOOLEAN
  BY DEF Init
<1>8. /\ main = "open"
      /\ pc = [t \in Thread |-> "unborn"]
  BY DEF Init
<1> QED
  BY <1>1, <1>2, <1>3, <1>4, <1>5, <1>6, <1>7, <1>8 DEF TypeOK

(* The steps of the caller keep the types.                                  *)
LEMMA CallerType == TypeOK /\ Caller => TypeOK'
<1> SUFFICES ASSUME TypeOK, Caller PROVE TypeOK'
  OBVIOUS
<1>1. CASE OpenOutput
  BY <1>1 DEF TypeOK, OpenOutput
<1>2. CASE TruncateToOne
  BY <1>2 DEF TypeOK, TruncateToOne, Truncated
<1>3. CASE ZeroFirst
  BY <1>3 DEF TypeOK, ZeroFirst
<1>4. CASE Extend
  BY <1>4 DEF TypeOK, Extend, Truncated
<1>5. CASE PrepareFails
  BY <1>5 DEF TypeOK, PrepareFails
<1>6. CASE CreateThread
  <2>1. created \in Thread /\ created' \in 0..NrThreads
    BY <1>6 DEF TypeOK, CreateThread
  <2>2. pc' \in [Thread -> {"unborn", "start", "lock", "next", "copy", "unlock",
                        "finish", "header", "decode", "write", "done"}]
    BY <1>6, <2>1 DEF TypeOK, CreateThread
  <2> QED
    BY <1>6, <2>1, <2>2 DEF TypeOK, CreateThread
<1>7. CASE CreateFails
  BY <1>7 DEF TypeOK, CreateFails
<1>8. CASE JoinThread
  <2>1. joined' \in 0..NrThreads /\ nr_errors' \in 0..joined'
    BY SMTT(30), <1>8 DEF TypeOK, JoinThread
  <2> QED
    BY <1>8, <2>1 DEF TypeOK, JoinThread
<1>9. CASE CheckErrors
  BY <1>9 DEF TypeOK, CheckErrors
<1>10. CASE CloseFiles
  BY <1>10 DEF TypeOK, CloseFiles
<1> QED
  BY <1>1, <1>2, <1>3, <1>4, <1>5, <1>6, <1>7, <1>8, <1>9, <1>10 DEF Caller

-----------------------------------------------------------------------------
(* What a step of the caller, and one of a worker, leaves alone.           *)

LEMMA CallerKeeps ==
  ASSUME Caller
  PROVE  /\ UNCHANGED <<content, damage, iter, iter_finished, iter_mutex, blk,
                        oposition, outbuf, status>>
         /\ CreateThread \/ UNCHANGED pc
  BY DEF Caller, OpenOutput, TruncateToOne, ZeroFirst, Extend, PrepareFails,
         CreateThread, CreateFails, JoinThread, CheckErrors, CloseFiles

(* A worker touches nothing of another thread, and is alive.                *)
LEMMA WorkerKeeps ==
  ASSUME TypeOK, NEW t \in Thread, Worker(t)
  PROVE  /\ UNCHANGED <<content, damage, main, created, joined, nr_errors>>
         /\ \A u \in Thread \ {t} :
              /\ pc'[u] = pc[u]
              /\ blk'[u] = blk[u]
              /\ oposition'[u] = oposition[u]
              /\ outbuf'[u] = outbuf[u]
              /\ status'[u] = status[u]
         /\ pc[t] \notin {"unborn", "done"}
         /\ pc'[t] # "unborn"
<1> USE DEF TypeOK
<1>1. CASE WorkerStart(t)
  BY <1>1 DEF WorkerStart
<1>2. CASE Lock(t)
  BY <1>2 DEF Lock
<1>3. CASE IterNext(t)
  BY <1>3 DEF IterNext
<1>4. CASE IterExhausted(t)
  BY <1>4 DEF IterExhausted
<1>5. CASE CopyIter(t)
  BY <1>5 DEF CopyIter
<1>6. CASE Unlock(t)
  BY <1>6 DEF Unlock
<1>7. CASE UnlockAndFinish(t)
  BY <1>7 DEF UnlockAndFinish
<1>8. CASE ReadHeader(t)
  BY <1>8 DEF ReadHeader
<1>9. CASE SkipZeroes(t)
  BY <1>9 DEF SkipZeroes
<1>10. CASE FillBuffer(t)
  BY <1>10 DEF FillBuffer
<1>11. CASE Pwrite(t)
  BY <1>11 DEF Pwrite
<1>12. CASE EndBlock(t)
  BY <1>12 DEF EndBlock
<1>13. CASE BlockFails(t)
  BY <1>13 DEF BlockFails
<1> QED
  BY <1>1, <1>2, <1>3, <1>4, <1>5, <1>6, <1>7, <1>8, <1>9, <1>10, <1>11, <1>12,
     <1>13 DEF Worker

-----------------------------------------------------------------------------
(* A buffer that was decoded.                                              *)
LEMMA DecodedBuffer ==
  ASSUME IInv, NEW t \in Thread, pc[t] = "decode", NEW buf \in Decoded(t)
  PROVE  /\ buf \in Seq(Byte)
         /\ Len(buf) \in 1..BufferSize
         /\ damage[blk[t]] = "none" =>
              /\ oposition[t] + Len(buf) <= EndOf(t)
              /\ \A i \in 1..Len(buf) : buf[i] = content[oposition[t] + i - 1]
<1>1. /\ oposition[t] \in Nat
      /\ Extent(blk[t]) \subseteq Position
      /\ blk[t] \in Block
      /\ Offset[blk[t]] \in Nat /\ Size[blk[t]] \in Nat
      /\ Offset[blk[t]] <= oposition[t]
      /\ damage[blk[t]] \in {"none", "data"}
      /\ damage[blk[t]] = "none" => oposition[t] <= EndOf(t)
      /\ content \in [Position -> Byte]
  BY SMTT(30), IndexAssumption DEF IInv, TypeOK, ClaimInv, PositionInv, InPlace, Holding
<1>2. CASE damage[blk[t]] = "data"
  <2>1. PICK n \in 1..Smaller(BufferSize, Total - oposition[t]) : buf \in [1..n -> Byte]
    BY <1>2 DEF Decoded
  <2>2. n \in 1..BufferSize
    BY <1>1, <2>1 DEF Smaller
  <2> QED
    BY <1>2, <2>1, <2>2
<1>3. CASE damage[blk[t]] = "none"
  <2>1. EndOf(t) \in Nat /\ oposition[t] <= EndOf(t)
    BY <1>1, <1>3 DEF EndOf
  <2>2. PICK n \in Int : /\ n = Smaller(BufferSize, EndOf(t) - oposition[t])
                         /\ n # 0
                         /\ buf = [i \in 1..n |-> content[oposition[t] + i - 1]]
    BY <1>1, <1>3, <2>1 DEF Decoded, Smaller
  <2>3. n \in 1..BufferSize /\ oposition[t] + n <= EndOf(t)
    BY <1>1, <2>1, <2>2 DEF Smaller
  <2>4. \A i \in 1..n : oposition[t] + i - 1 \in Extent(blk[t])
    <3> SUFFICES ASSUME NEW i \in 1..n PROVE oposition[t] + i - 1 \in Extent(blk[t])
      OBVIOUS
    <3>1. /\ Offset[blk[t]] <= oposition[t] + i - 1
          /\ oposition[t] + i - 1 <= Offset[blk[t]] + Size[blk[t]] - 1
      BY SMTT(30), <1>1, <2>3 DEF EndOf
    <3> QED
      BY <1>1, <3>1 DEF Extent
  <2>5. buf \in [1..n -> Byte]
    BY <1>1, <2>2, <2>4
  <2>6. Len(buf) = n /\ buf \in Seq(Byte)
    BY <2>3, <2>5
  <2>7. \A i \in 1..Len(buf) : buf[i] = content[oposition[t] + i - 1]
    BY <2>2, <2>6
  <2> QED
    BY <2>3, <2>6, <2>7
<1> QED
  BY <1>1, <1>2, <1>3

(* What is left of a buffer after a short write.                           *)
LEMMA RestOfBuffer ==
  ASSUME NEW buf \in Seq(Byte), NEW r \in 1..Len(buf)
  PROVE  LET rest == SubSeq(buf, r + 1, Len(buf))
         IN  /\ rest \in Seq(Byte)
             /\ Len(rest) = Len(buf) - r
             /\ \A i \in 1..Len(rest) : rest[i] = buf[r + i]
<1>1. \A i \in (r + 1)..Len(buf) : buf[i] \in Byte
  OBVIOUS
<1>2. r + 1 \in Int /\ Len(buf) \in Int
  OBVIOUS
<1> QED
  BY <1>1, <1>2, SubSeqProperties

(* The steps of a worker keep the types.                                    *)
LEMMA WorkerType ==
  ASSUME IInv, NEW t \in Thread, Worker(t)
  PROVE  TypeOK'
<1> USE DEF TypeOK
<1>0. TypeOK
  BY DEF IInv
<1>1. CASE WorkerStart(t)
  BY <1>0, <1>1 DEF WorkerStart
<1>2. CASE Lock(t)
  BY <1>0, <1>2 DEF Lock
<1>3. CASE IterNext(t)
  <2>1. iter' \in 0..NrBlocks
    BY <1>3 DEF IterNext
  <2>2. pc' \in [Thread -> {"unborn", "start", "lock", "next", "copy", "unlock",
                        "finish", "header", "decode", "write", "done"}]
    BY <1>0, <1>3 DEF IterNext
  <2> QED
    BY <1>0, <1>3, <2>1, <2>2 DEF IterNext
<1>4. CASE IterExhausted(t)
  BY <1>0, <1>4 DEF IterExhausted
<1>5. CASE CopyIter(t)
  BY <1>0, <1>5 DEF CopyIter
<1>6. CASE Unlock(t)
  BY <1>0, <1>6 DEF Unlock
<1>7. CASE UnlockAndFinish(t)
  BY <1>0, <1>7 DEF UnlockAndFinish
<1>8. CASE ReadHeader(t)
  <2>1. blk[t] \in Block /\ Offset[blk[t]] \in Nat
    BY <1>8, IndexAssumption DEF IInv, ClaimInv, Holding, ReadHeader
  <2> QED
    BY <1>0, <1>8, <2>1 DEF ReadHeader
<1>9. CASE SkipZeroes(t)
  <2>1. PICK buf \in Decoded(t) : oposition' = [oposition EXCEPT ![t] = @ + Len(buf)]
    BY <1>9 DEF SkipZeroes
  <2>2. Len(buf) \in Nat
    BY <1>9, <2>1, DecodedBuffer DEF SkipZeroes
  <2>3. oposition' \in [Thread -> Nat]
    BY SMTT(30), <1>0, <2>1, <2>2
  <2> QED
    BY <1>0, <1>9, <2>3 DEF SkipZeroes
<1>10. CASE FillBuffer(t)
  <2>1. PICK buf \in Decoded(t) : outbuf' = [outbuf EXCEPT ![t] = buf]
    BY <1>10 DEF FillBuffer
  <2>2. buf \in Seq(Byte) /\ Len(buf) <= BufferSize
    BY <1>10, <2>1, DecodedBuffer DEF FillBuffer
  <2>3. /\ outbuf' \in [Thread -> Seq(Byte)]
        /\ \A u \in Thread : Len(outbuf'[u]) <= BufferSize
    BY <1>0, <2>1, <2>2
  <2> QED
    BY <1>0, <1>10, <2>3 DEF FillBuffer
<1>11. CASE Pwrite(t)
  <2>1. PICK r \in 1..Len(outbuf[t]) :
          /\ out' = [p \in DOMAIN out |->
                       IF p \in oposition[t]..(oposition[t] + r - 1)
                       THEN outbuf[t][p - oposition[t] + 1] ELSE out[p]]
          /\ oposition' = [oposition EXCEPT ![t] = @ + r]
          /\ outbuf' = [outbuf EXCEPT ![t] = SubSeq(@, r + 1, Len(@))]
          /\ Goto(t, IF r = Len(outbuf[t]) THEN "decode" ELSE "write")
    BY <1>11 DEF Pwrite
  <2>2. outbuf[t] \in Seq(Byte) /\ oposition[t] \in Nat /\ Len(outbuf[t]) <= BufferSize
    BY <1>0
  <2>3. out' \in [DOMAIN out' -> Byte]
    <3>1. \A p \in oposition[t]..(oposition[t] + r - 1) :
            outbuf[t][p - oposition[t] + 1] \in Byte
      BY <2>2
    <3> QED
      BY <1>0, <2>1, <3>1
  <2>4. /\ outbuf' \in [Thread -> Seq(Byte)]
        /\ \A u \in Thread : Len(outbuf'[u]) <= BufferSize
    <3>1. /\ SubSeq(outbuf[t], r + 1, Len(outbuf[t])) \in Seq(Byte)
          /\ Len(SubSeq(outbuf[t], r + 1, Len(outbuf[t]))) <= BufferSize
      BY <2>2, RestOfBuffer
    <3> QED
      BY <1>0, <2>1, <3>1
  <2>5. oposition' \in [Thread -> Nat]
    <3>1. oposition[t] + r \in Nat
      BY <2>2
    <3> QED
      BY <1>0, <2>1, <3>1
  <2> QED
    BY <1>0, <1>11, <2>1, <2>3, <2>4, <2>5 DEF Pwrite
<1>12. CASE EndBlock(t)
  BY <1>0, <1>12 DEF EndBlock
<1>13. CASE BlockFails(t)
  BY <1>0, <1>13 DEF BlockFails
<1> QED
  BY <1>1, <1>2, <1>3, <1>4, <1>5, <1>6, <1>7, <1>8, <1>9, <1>10, <1>11, <1>12,
     <1>13 DEF Worker

-----------------------------------------------------------------------------
(* The control part of the invariant: mutex, threads, caller, iterator.    *)

LEMMA MutexCaller == ASSUME IInv, Caller PROVE MutexInv'
<1>1. CASE CreateThread
  BY SMTT(30), <1>1, CallerKeeps DEF IInv, TypeOK, MutexInv, ThreadInv, InCritical, CreateThread
<1>2. CASE UNCHANGED pc
  BY <1>2, CallerKeeps DEF IInv, MutexInv, InCritical
<1> QED
  BY <1>1, <1>2, CallerKeeps

(* The same for the steps of a worker.                                      *)
LEMMA MutexWorker == ASSUME IInv, NEW t \in Thread, Worker(t) PROVE MutexInv'
<1>0. /\ MutexInv /\ TypeOK
      /\ \A u \in Thread \ {t} : pc'[u] = pc[u]
  BY WorkerKeeps DEF IInv
<1>1. CASE Lock(t)
  <2>1. iter_mutex = NoThread /\ iter_mutex' = t /\ pc'[t] = "next"
    BY <1>0, <1>1 DEF Lock, TypeOK
  <2> QED
    BY <1>0, <2>1 DEF MutexInv, InCritical
<1>2. CASE Unlock(t) \/ UnlockAndFinish(t)
  <2>1. /\ pc[t] \in {"unlock", "finish"} /\ pc'[t] \in {"header", "done"}
        /\ iter_mutex' = NoThread
    BY <1>0, <1>2 DEF Unlock, UnlockAndFinish, TypeOK
  <2> QED
    BY <1>0, <2>1 DEF MutexInv, InCritical
<1>3. CASE ~Lock(t) /\ ~Unlock(t) /\ ~UnlockAndFinish(t)
  <2>1. UNCHANGED iter_mutex
    BY <1>3 DEF Worker, WorkerStart, IterNext, IterExhausted, CopyIter, ReadHeader,
       SkipZeroes, FillBuffer, Pwrite, EndBlock, BlockFails
  <2>2. InCritical(t)' <=> InCritical(t)
    BY SMTT(30), <1>0, <1>3 DEF Worker, WorkerStart, IterNext, IterExhausted, CopyIter,
       ReadHeader, SkipZeroes, FillBuffer, Pwrite, EndBlock, BlockFails,
       InCritical, TypeOK
  <2> QED
    BY <1>0, <2>1, <2>2 DEF MutexInv, InCritical
<1> QED
  BY <1>1, <1>2, <1>3

(* The status of a thread follows its life.                                 *)
LEMMA ThreadCaller == ASSUME IInv, Caller PROVE ThreadInv'
<1>1. CASE CreateThread
  <2>1. created \in Thread /\ created' = created + 1
    BY <1>1 DEF IInv, TypeOK, CreateThread
  <2>2. pc' = [pc EXCEPT ![created] = "start"] /\ UNCHANGED status
    BY <1>1 DEF CreateThread
  <2>3. pc = [u \in Thread |-> pc[u]] /\ ThreadInv
    BY DEF IInv, TypeOK
  <2> QED
    BY <2>1, <2>2, <2>3 DEF ThreadInv
<1>2. CASE UNCHANGED <<pc, created>>
  BY <1>2, CallerKeeps DEF IInv, ThreadInv
<1>3. CreateThread \/ UNCHANGED <<pc, created>>
  BY DEF Caller, OpenOutput, TruncateToOne, ZeroFirst, Extend, PrepareFails,
         CreateThread, CreateFails, JoinThread, CheckErrors, CloseFiles
<1> QED
  BY <1>1, <1>2, <1>3

(* The same for the steps of a worker.                                      *)
LEMMA ThreadWorker == ASSUME IInv, NEW t \in Thread, Worker(t) PROVE ThreadInv'
<1> USE DEF ThreadInv
<1>0. /\ ThreadInv /\ TypeOK /\ UNCHANGED created
      /\ \A u \in Thread \ {t} : pc'[u] = pc[u] /\ status'[u] = status[u]
  BY WorkerKeeps DEF IInv
<1>1. CASE WorkerStart(t)
  <2>1. pc[t] = "start" /\ pc'[t] \in {"lock", "done"} /\ status'[t] = -1
    BY <1>0, <1>1 DEF WorkerStart, TypeOK
  <2> QED
    BY <1>0, <1>1, <2>1 DEF WorkerStart
<1>2. CASE Lock(t)
  BY <1>0, <1>2 DEF Lock, TypeOK
<1>3. CASE IterNext(t)
  BY SMTT(30), <1>0, <1>3 DEF IterNext, TypeOK
<1>4. CASE IterExhausted(t)
  BY SMTT(30), <1>0, <1>4 DEF IterExhausted, TypeOK
<1>5. CASE CopyIter(t)
  BY <1>0, <1>5 DEF CopyIter, TypeOK
<1>6. CASE Unlock(t)
  BY <1>0, <1>6 DEF Unlock, TypeOK
<1>7. CASE UnlockAndFinish(t)
  BY <1>0, <1>7 DEF UnlockAndFinish, TypeOK
<1>8. CASE ReadHeader(t)
  BY <1>0, <1>8 DEF ReadHeader, TypeOK
<1>9. CASE SkipZeroes(t)
  BY <1>0, <1>9 DEF SkipZeroes, TypeOK
<1>10. CASE FillBuffer(t)
  BY SMTT(30), <1>0, <1>10 DEF FillBuffer, TypeOK
<1>11. CASE Pwrite(t)
  <2>1. pc[t] = "write" /\ pc'[t] \in {"decode", "write"} /\ UNCHANGED status
    BY <1>0, <1>11 DEF Pwrite, TypeOK
  <2> QED
    BY <1>0, <2>1
<1>12. CASE EndBlock(t)
  BY <1>0, <1>12 DEF EndBlock, TypeOK
<1>13. CASE BlockFails(t)
  BY SMTT(30), <1>0, <1>13 DEF BlockFails, TypeOK
<1> QED
  BY <1>1, <1>2, <1>3, <1>4, <1>5, <1>6, <1>7, <1>8, <1>9, <1>10, <1>11,
     <1>12, <1>13 DEF Worker

(* The iterator is finished only when no block is left.                     *)
LEMMA IterCaller == ASSUME IInv, Caller PROVE IterInv'
<1>1. CASE CreateThread
  BY <1>1, CallerKeeps DEF IInv, TypeOK, IterInv, NonEmptyAfter, CreateThread
<1>2. CASE UNCHANGED pc
  BY <1>2, CallerKeeps DEF IInv, IterInv, NonEmptyAfter
<1> QED
  BY <1>1, <1>2, CallerKeeps

(* The same for the steps of a worker.                                      *)
LEMMA IterWorker == ASSUME IInv, NEW t \in Thread, Worker(t) PROVE IterInv'
<1> USE DEF IterInv, NonEmptyAfter
<1>0. /\ IterInv /\ TypeOK
      /\ \A u \in Thread \ {t} : pc'[u] = pc[u] /\ status'[u] = status[u]
  BY WorkerKeeps DEF IInv
<1>1. CASE WorkerStart(t)
  <2>1. pc[t] = "start" /\ pc'[t] \in {"lock", "done"} /\ status'[t] = -1
    BY <1>0, <1>1 DEF WorkerStart, TypeOK
  <2> QED
    BY <1>0, <1>1, <2>1 DEF WorkerStart
<1>2. CASE Lock(t)
  BY <1>0, <1>2 DEF Lock, TypeOK
<1>3. CASE IterNext(t)
  BY <1>0, <1>3 DEF IterNext, TypeOK
<1>4. CASE IterExhausted(t)
  BY <1>0, <1>4 DEF IterExhausted, TypeOK
<1>5. CASE CopyIter(t)
  BY <1>0, <1>5 DEF CopyIter, TypeOK
<1>6. CASE Unlock(t)
  BY <1>0, <1>6 DEF Unlock, TypeOK
<1>7. CASE UnlockAndFinish(t)
  BY <1>0, <1>7 DEF UnlockAndFinish, TypeOK
<1>8. CASE ReadHeader(t)
  BY <1>0, <1>8 DEF ReadHeader, TypeOK
<1>9. CASE SkipZeroes(t)
  BY <1>0, <1>9 DEF SkipZeroes, TypeOK
<1>10. CASE FillBuffer(t)
  BY <1>0, <1>10 DEF FillBuffer, TypeOK
<1>11. CASE Pwrite(t)
  BY <1>0, <1>11 DEF Pwrite, TypeOK
<1>12. CASE EndBlock(t)
  BY <1>0, <1>12 DEF EndBlock, TypeOK
<1>13. CASE BlockFails(t)
  BY <1>0, <1>13 DEF BlockFails, TypeOK
<1> QED
  BY <1>1, <1>2, <1>3, <1>4, <1>5, <1>6, <1>7, <1>8, <1>9, <1>10, <1>11,
     <1>12, <1>13 DEF Worker

(* A step that takes no block from the iterator leaves the claims alone.   *)
LEMMA ClaimKept ==
  ASSUME ClaimInv, UNCHANGED iter,
         \A u \in Thread : pc'[u] = "copy" => pc[u] = "copy",
         \A u \in Thread : Holding(u)' => Holding(u) /\ blk'[u] = blk[u]
  PROVE  ClaimInv'
  BY DEF ClaimInv

(* Claims are exclusive: the caller does not change them.                   *)
LEMMA ClaimCaller == ASSUME IInv, Caller PROVE ClaimInv'
<1>1. CASE CreateThread
  BY <1>1, CallerKeeps, ClaimKept DEF IInv, TypeOK, Holding, CreateThread
<1>2. CASE UNCHANGED pc
  BY <1>2, CallerKeeps, ClaimKept DEF IInv, Holding
<1> QED
  BY <1>1, <1>2, CallerKeeps

(* A worker claims only the block that the iterator has just reached.       *)
LEMMA ClaimWorker == ASSUME IInv, NEW t \in Thread, Worker(t) PROVE ClaimInv'
<1>0. /\ ClaimInv /\ TypeOK /\ MutexInv
      /\ \A u \in Thread \ {t} : pc'[u] = pc[u] /\ blk'[u] = blk[u]
  BY WorkerKeeps DEF IInv
<1>1. CASE IterNext(t)
  <2>1. PICK b \in Block : IsNext(iter, b) /\ iter' = b
    BY <1>1 DEF IterNext
  <2>2. Size[b] > 0 /\ b > iter
    BY <2>1 DEF IsNext, NonEmptyAfter
  <2>3. \A u \in Thread : Holding(u)' => Holding(u) /\ blk'[u] = blk[u]
    BY <1>0, <1>1 DEF IterNext, Holding, TypeOK
  <2>4. \A u \in Thread : Holding(u) => blk[u] < b
    BY SMTT(30), <1>0, <2>2 DEF ClaimInv, TypeOK
  <2> QED
    BY <1>0, <2>1, <2>2, <2>3, <2>4 DEF ClaimInv
<1>2. CASE CopyIter(t)
  <2>1. /\ pc[t] = "copy" /\ pc'[t] = "unlock" /\ blk'[t] = iter
        /\ UNCHANGED iter
    BY <1>0, <1>2 DEF CopyIter, TypeOK
  <2>2. \A u \in Thread \ {t} : Holding(u)' => Holding(u) /\ blk'[u] = blk[u]
    BY <1>0 DEF Holding
  <2>3. \A u \in Thread : pc'[u] # "copy"
    BY <1>0, <2>1 DEF MutexInv, InCritical
  <2>4. \A u \in Thread \ {t} : Holding(u) => blk[u] # iter
    BY <1>0, <2>1 DEF ClaimInv
  <2> QED
    BY <1>0, <2>1, <2>2, <2>3, <2>4 DEF ClaimInv
<1>3. CASE ~IterNext(t) /\ ~CopyIter(t)
  <2>1. UNCHANGED iter /\ (pc'[t] = "copy" => pc[t] = "copy")
    BY <1>0, <1>3 DEF Worker, WorkerStart, Lock, IterExhausted, Unlock, UnlockAndFinish,
       ReadHeader, SkipZeroes, FillBuffer, Pwrite, EndBlock, BlockFails, TypeOK
  <2>2. Holding(t)' => Holding(t) /\ blk'[t] = blk[t]
    BY <1>0, <1>3 DEF Worker, WorkerStart, Lock, IterExhausted, Unlock, UnlockAndFinish,
       ReadHeader, SkipZeroes, FillBuffer, Pwrite, EndBlock, BlockFails, TypeOK, Holding
  <2>3. \A u \in Thread : pc'[u] = "copy" => pc[u] = "copy"
    BY <1>0, <2>1
  <2>4. \A u \in Thread : Holding(u)' => Holding(u) /\ blk'[u] = blk[u]
    BY <1>0, <2>2 DEF Holding
  <2> QED
    BY <1>0, <2>1, <2>3, <2>4, ClaimKept
<1> QED
  BY <1>1, <1>2, <1>3

(* Positions in the blocks: the caller does not change them.                *)
LEMMA PositionCaller == ASSUME IInv, Caller PROVE PositionInv'
<1>1. CASE CreateThread
  BY <1>1, CallerKeeps DEF IInv, TypeOK, PositionInv, InPlace, EndOf, CreateThread
<1>2. CASE UNCHANGED pc
  BY <1>2, CallerKeeps DEF IInv, PositionInv, InPlace, EndOf
<1> QED
  BY <1>1, <1>2, CallerKeeps

(* A worker stays within its block, also after a short write.               *)
LEMMA PositionWorker == ASSUME IInv, NEW t \in Thread, Worker(t) PROVE PositionInv'
<1>0. /\ TypeOK /\ PositionInv
      /\ \A u \in Thread \ {t} : /\ pc'[u] = pc[u] /\ blk'[u] = blk[u]
                                 /\ oposition'[u] = oposition[u]
                                 /\ outbuf'[u] = outbuf[u]
      /\ UNCHANGED <<content, damage>>
  BY WorkerKeeps DEF IInv
<1>1. \A u \in Thread \ {t} : InPlace(u)'
  BY <1>0 DEF PositionInv, InPlace, EndOf
<1>2. pc[t] \in {"header", "decode", "write"} =>
        /\ blk[t] \in Block /\ Offset[blk[t]] \in Nat /\ Size[blk[t]] \in Nat
        /\ oposition[t] \in Nat /\ outbuf[t] \in Seq(Byte)
        /\ EndOf(t) = Offset[blk[t]] + Size[blk[t]]
        /\ damage[blk[t]] \in Damage
  BY <1>0, IndexAssumption DEF IInv, ClaimInv, Holding, TypeOK, EndOf
<1>3. CASE pc'[t] \notin {"decode", "write"}
  BY <1>1, <1>3 DEF PositionInv, InPlace
<1>4. CASE ReadHeader(t)
  <2>1. /\ pc'[t] = "decode" /\ oposition'[t] = Offset[blk[t]]
        /\ UNCHANGED <<blk, damage>>
        /\ pc[t] = "header" /\ damage[blk[t]] # "header"
    BY <1>0, <1>4, <1>2 DEF ReadHeader, TypeOK
  <2>2. InPlace(t)'
    BY <1>2, <2>1 DEF InPlace, EndOf
  <2> QED
    BY <1>1, <2>2 DEF PositionInv
<1>5. CASE SkipZeroes(t)
  <2>1. PICK buf \in Decoded(t) : oposition' = [oposition EXCEPT ![t] = @ + Len(buf)]
    BY <1>5 DEF SkipZeroes
  <2>2. /\ Len(buf) \in Nat
        /\ damage[blk[t]] = "none" => oposition[t] + Len(buf) <= EndOf(t)
    BY <1>5, <2>1, DecodedBuffer DEF SkipZeroes
  <2>3. /\ pc[t] = "decode" /\ pc'[t] = "decode" /\ UNCHANGED <<blk, damage>>
        /\ oposition'[t] = oposition[t] + Len(buf)
    BY <1>0, <1>5, <2>1 DEF SkipZeroes, TypeOK
  <2>4. InPlace(t)
    BY <1>0 DEF PositionInv
  <2>5. InPlace(t)'
    BY <1>2, <2>2, <2>3, <2>4 DEF InPlace, EndOf
  <2> QED
    BY <1>1, <2>5 DEF PositionInv
<1>6. CASE FillBuffer(t)
  <2>1. PICK buf \in Decoded(t) : outbuf' = [outbuf EXCEPT ![t] = buf]
    BY <1>6 DEF FillBuffer
  <2>2. damage[blk[t]] = "none" =>
          /\ oposition[t] + Len(buf) <= EndOf(t)
          /\ \A i \in 1..Len(buf) : buf[i] = content[oposition[t] + i - 1]
    BY <1>6, <2>1, DecodedBuffer DEF FillBuffer
  <2>3. /\ pc[t] = "decode" /\ pc'[t] = "write"
        /\ UNCHANGED <<blk, damage, oposition, content>>
        /\ outbuf'[t] = buf
    BY <1>0, <1>6, <2>1 DEF FillBuffer, TypeOK
  <2>4. InPlace(t)
    BY <1>0 DEF PositionInv
  <2>5. InPlace(t)'
    BY <2>2, <2>3, <2>4 DEF InPlace, EndOf
  <2> QED
    BY <1>1, <2>5 DEF PositionInv
<1>7. CASE Pwrite(t)
  <2>1. PICK r \in 1..Len(outbuf[t]) :
          /\ oposition' = [oposition EXCEPT ![t] = @ + r]
          /\ outbuf' = [outbuf EXCEPT ![t] = SubSeq(@, r + 1, Len(@))]
          /\ Goto(t, IF r = Len(outbuf[t]) THEN "decode" ELSE "write")
    BY <1>7 DEF Pwrite
  <2>2. /\ pc[t] = "write" /\ pc'[t] \in {"decode", "write"}
        /\ UNCHANGED <<blk, damage, content>>
        /\ oposition'[t] = oposition[t] + r
        /\ outbuf'[t] = SubSeq(outbuf[t], r + 1, Len(outbuf[t]))
    BY <1>0, <1>7, <2>1 DEF Pwrite, TypeOK
  <2>3. /\ Len(outbuf'[t]) = Len(outbuf[t]) - r
        /\ \A i \in 1..Len(outbuf'[t]) : outbuf'[t][i] = outbuf[t][r + i]
    BY <1>2, <2>2, RestOfBuffer
  <2>4. InPlace(t)
    BY <1>0 DEF PositionInv
  <2>5. CASE damage[blk[t]] = "none"
    <3>1. /\ oposition[t] + Len(outbuf[t]) <= EndOf(t)
          /\ \A i \in 1..Len(outbuf[t]) :
               outbuf[t][i] = content[oposition[t] + i - 1]
      BY <2>2, <2>4, <2>5 DEF InPlace
    <3>2. /\ Len(outbuf[t]) \in Nat /\ r \in Nat /\ r <= Len(outbuf[t])
          /\ oposition[t] \in Nat /\ EndOf(t) \in Nat
      BY SMTT(30), <1>2, <2>2
    <3>3. oposition'[t] + Len(outbuf'[t]) <= EndOf(t) /\ oposition'[t] <= EndOf(t)
      BY <2>2, <2>3, <3>1, <3>2
    <3>4. \A i \in 1..Len(outbuf'[t]) : outbuf'[t][i] = content[oposition'[t] + i - 1]
      <4> SUFFICES ASSUME NEW i \in 1..Len(outbuf'[t])
                   PROVE  outbuf'[t][i] = content[oposition'[t] + i - 1]
        OBVIOUS
      <4>1. r + i \in 1..Len(outbuf[t])
        BY <2>3, <3>2
      <4>2. outbuf'[t][i] = content[oposition[t] + (r + i) - 1]
        BY <2>3, <3>1, <4>1
      <4>3. oposition[t] + (r + i) - 1 = oposition'[t] + i - 1
        BY <2>2, <2>3, <3>2
      <4> QED
        BY <4>2, <4>3
    <3>5. Offset[blk[t]] <= oposition'[t]
      BY <1>2, <2>2, <2>4, <3>2 DEF InPlace
    <3>6. InPlace(t)'
      BY <2>2, <2>5, <3>3, <3>4, <3>5 DEF InPlace, EndOf
    <3> QED
      BY <1>1, <3>6 DEF PositionInv
  <2>6. CASE damage[blk[t]] # "none"
    <3>1. Offset[blk[t]] <= oposition[t] + r
      BY <1>2, <2>2, <2>4 DEF InPlace
    <3>2. InPlace(t)'
      BY <2>2, <2>4, <2>6, <3>1 DEF InPlace
    <3> QED
      BY <1>1, <3>2 DEF PositionInv
  <2> QED
    BY <2>5, <2>6
<1>8. ReadHeader(t) \/ SkipZeroes(t) \/ FillBuffer(t) \/ Pwrite(t)
        \/ pc'[t] \notin {"decode", "write"}
  BY <1>0 DEF Worker, WorkerStart, Lock, IterNext, IterExhausted, CopyIter, Unlock,
     UnlockAndFinish, EndBlock, BlockFails, TypeOK
<1> QED
  BY <1>3, <1>4, <1>5, <1>6, <1>7, <1>8

-----------------------------------------------------------------------------
(* The caller.                                                             *)

LEMMA CallerCaller == ASSUME IInv, Caller PROVE CallerInv'
<1> USE DEF CallerInv, Preparing
<1>0. /\ TypeOK /\ CallerInv /\ ThreadInv
      /\ NrThreads \in Nat \ {0}
  BY ConstantsAssumption DEF IInv
<1>1. CASE OpenOutput
  BY <1>0, <1>1 DEF OpenOutput
<1>2. CASE TruncateToOne
  BY <1>0, <1>2 DEF TruncateToOne
<1>3. CASE ZeroFirst
  BY <1>0, <1>3 DEF ZeroFirst
<1>4. CASE Extend
  BY <1>0, <1>4 DEF Extend
<1>5. CASE PrepareFails
  BY <1>0, <1>5 DEF PrepareFails
<1>6. CASE CreateThread
  <2>1. /\ main = "create" /\ joined = 0 /\ UNCHANGED <<joined, nr_errors, status>>
        /\ created' = created + 1
        /\ main' = IF created' = NrThreads THEN "join" ELSE "create"
    BY <1>0, <1>6 DEF CreateThread
  <2> QED
    BY <1>0, <2>1 DEF TypeOK
<1>7. CASE CreateFails
  BY <1>0, <1>7 DEF CreateFails
<1>8. CASE JoinThread
  <2>1. /\ main = "join" /\ joined \in Thread /\ pc[joined] = "done"
        /\ joined' = joined + 1 /\ joined \in Nat
        /\ UNCHANGED <<main, created, iter, pc, status>>
        /\ nr_errors' = IF status[joined] = -1 THEN nr_errors + 1 ELSE nr_errors
    BY <1>0, <1>8 DEF JoinThread, TypeOK
  <2>2. status[joined] \in {-1, 0} /\ nr_errors \in Nat
    BY <1>0, <2>1 DEF ThreadInv, TypeOK
  <2>3. \A t \in Thread : t < joined' => t < joined \/ t = joined
    BY <2>1
  <2> QED
    BY <1>0, <2>1, <2>2, <2>3
<1>9. CASE CheckErrors
  BY <1>0, <1>9 DEF CheckErrors, TypeOK
<1>10. CASE CloseFiles
  BY <1>0, <1>10 DEF CloseFiles
<1> QED
  BY <1>1, <1>2, <1>3, <1>4, <1>5, <1>6, <1>7, <1>8, <1>9, <1>10 DEF Caller

(* The same for the steps of a worker.                                      *)
LEMMA CallerWorker == ASSUME IInv, NEW t \in Thread, Worker(t) PROVE CallerInv'
<1>0. /\ TypeOK /\ CallerInv /\ ThreadInv
      /\ UNCHANGED <<main, created, joined, nr_errors>>
      /\ \A u \in Thread \ {t} : pc'[u] = pc[u] /\ status'[u] = status[u]
      /\ pc[t] \notin {"unborn", "done"}
  BY WorkerKeeps DEF IInv
<1>1. ~Preparing /\ ~(t < joined)
  BY <1>0 DEF ThreadInv, CallerInv, TypeOK
<1> QED
  BY <1>0, <1>1 DEF CallerInv, Preparing

-----------------------------------------------------------------------------
(* The output file.                                                        *)

LEMMA PrepareCaller == ASSUME IInv, Caller PROVE PrepareInv'
<1> USE DEF PrepareInv, Filling
<1>0. TypeOK /\ PrepareInv
  BY DEF IInv
<1>1. CASE TruncateToOne
  <2>1. 0..(1 - 1) = {0}
    OBVIOUS
  <2> QED
    BY <1>1, <2>1 DEF TruncateToOne, Truncated
<1>2. CASE ZeroFirst
  <2>1. DOMAIN out = {0} /\ out' = [out EXCEPT ![0] = Zero] /\ main' = "extend"
    BY <1>0, <1>2 DEF ZeroFirst
  <2> QED
    BY <1>0, <2>1 DEF TypeOK
<1>3. CASE Extend
  BY <1>3 DEF Extend, Truncated
<1>4. CASE UNCHANGED out /\ main' \notin {"zero", "extend"} /\ (Filling' => Filling)
  BY <1>0, <1>4
<1>5. \/ TruncateToOne \/ ZeroFirst \/ Extend
      \/ UNCHANGED out /\ main' \notin {"zero", "extend"} /\ (Filling' => Filling)
  BY DEF Caller, OpenOutput, PrepareFails, CreateThread, CreateFails, JoinThread,
         CheckErrors, CloseFiles
<1> QED
  BY <1>1, <1>2, <1>3, <1>4, <1>5

(* The workers do not change the size of the file.                          *)
LEMMA PrepareWorker == ASSUME IInv, NEW t \in Thread, Worker(t) PROVE PrepareInv'
<1>0. /\ PrepareInv /\ CallerInv /\ ThreadInv /\ TypeOK
      /\ UNCHANGED main /\ pc[t] # "unborn"
  BY WorkerKeeps DEF IInv
<1>1. ~Preparing
  BY <1>0 DEF CallerInv, ThreadInv, TypeOK
<1>2. DOMAIN out' = DOMAIN out
  BY DEF Worker, WorkerStart, Lock, IterNext, IterExhausted, CopyIter, Unlock,
     UnlockAndFinish, ReadHeader, SkipZeroes, FillBuffer, Pwrite, EndBlock, BlockFails
<1> QED
  BY <1>0, <1>1, <1>2 DEF PrepareInv, Preparing, Filling

(* A block that was claimed once stays claimed.                            *)
LEMMA UnclaimedWorker ==
  ASSUME IInv, NEW t \in Thread, Worker(t), NEW b \in Block, Unclaimed(b)'
  PROVE  Unclaimed(b)
<1>0. /\ TypeOK
      /\ \A u \in Thread \ {t} : pc'[u] = pc[u]
  BY WorkerKeeps DEF IInv
<1>1. CASE IterNext(t)
  BY SMTT(30), <1>0, <1>1 DEF IterNext, IsNext, NonEmptyAfter, Unclaimed, TypeOK
<1>2. CASE ~IterNext(t)
  <2>1. UNCHANGED iter /\ (pc'[t] = "copy" => pc[t] = "copy")
    BY <1>0, <1>2 DEF Worker, WorkerStart, Lock, IterExhausted, CopyIter, Unlock,
       UnlockAndFinish, ReadHeader, SkipZeroes, FillBuffer, Pwrite, EndBlock,
       BlockFails, TypeOK
  <2> QED
    BY <1>0, <2>1 DEF Unclaimed
<1> QED
  BY <1>1, <1>2

(* A worker completes no block but its own.                                 *)
LEMMA CompleteWorker ==
  ASSUME IInv, NEW t \in Thread, Worker(t),
         NEW b \in Block, Size[b] > 0, Complete(b)'
  PROVE  Complete(b) \/ (EndBlock(t) /\ blk[t] = b)
<1>0. /\ TypeOK /\ MutexInv /\ ThreadInv
      /\ \A u \in Thread \ {t} : /\ pc'[u] = pc[u] /\ blk'[u] = blk[u]
                                 /\ status'[u] = status[u]
      /\ pc[t] # "done"
  BY WorkerKeeps DEF IInv
<1>1. ~Unclaimed(b)' /\ ~Held(b)' /\ ~Lost(b)'
  BY DEF Complete
<1>2. ~Lost(b)
  BY <1>0, <1>1 DEF Lost, Failed
<1>3. ~Held(b) \/ (EndBlock(t) /\ blk[t] = b)
  <2>1. \A u \in Thread \ {t} : ~(Holding(u) /\ blk[u] = b)
    BY <1>0, <1>1 DEF Held, Holding
  <2>2. CASE EndBlock(t)
    BY <2>1, <2>2 DEF Held
  <2>3. CASE BlockFails(t)
    <3>1. /\ pc'[t] = "done" /\ status'[t] = status[t] /\ status[t] = -1
          /\ blk'[t] = blk[t]
      BY SMTT(30), <1>0, <2>3 DEF BlockFails, TypeOK, ThreadInv
    <3>2. blk[t] # b
      BY <1>1, <3>1 DEF Lost, Failed
    <3> QED
      BY <2>1, <3>2 DEF Held
  <2>4. CASE ~EndBlock(t) /\ ~BlockFails(t)
    <3>1. Holding(t) => Holding(t)' /\ blk'[t] = blk[t]
      BY <1>0, <2>4 DEF Worker, WorkerStart, Lock, IterNext, IterExhausted, CopyIter,
         Unlock, UnlockAndFinish, ReadHeader, SkipZeroes, FillBuffer, Pwrite,
         Holding, TypeOK
    <3> QED
      BY <1>1, <2>1, <3>1 DEF Held
  <2> QED
    BY <2>2, <2>3, <2>4
<1>4. ~Unclaimed(b)
  <2>1. CASE IterNext(t)
    <3>1. PICK c \in Block : IsNext(iter, c) /\ iter' = c
      BY <2>1 DEF IterNext
    <3>2. pc[t] = "next" /\ pc'[t] = "copy"
      BY <1>0, <2>1 DEF IterNext, TypeOK
    <3>3. \A u \in Thread : pc[u] # "copy"
      BY <1>0, <3>2 DEF MutexInv, InCritical
    <3>4. b < c
      BY <1>1, <3>1, <3>2 DEF Unclaimed
    <3>5. ~(b > iter)
      BY <3>1, <3>4 DEF IsNext, NonEmptyAfter
    <3> QED
      BY <3>3, <3>5 DEF Unclaimed
  <2>2. CASE CopyIter(t)
    <3>1. pc'[t] = "unlock" /\ blk'[t] = iter /\ UNCHANGED iter /\ pc[t] = "copy"
      BY <1>0, <2>2 DEF CopyIter, TypeOK
    <3>2. b # iter
      BY <1>1, <3>1 DEF Held, Holding
    <3> QED
      BY <1>1, <3>1, <3>2 DEF Unclaimed
  <2>3. CASE ~IterNext(t) /\ ~CopyIter(t)
    <3>1. UNCHANGED iter /\ (pc[t] = "copy" => pc'[t] = "copy")
      BY <1>0, <2>3 DEF Worker, WorkerStart, Lock, IterExhausted, Unlock,
         UnlockAndFinish, ReadHeader, SkipZeroes, FillBuffer, Pwrite, EndBlock,
         BlockFails, TypeOK
    <3> QED
      BY <1>0, <1>1, <3>1 DEF Unclaimed
  <2> QED
    BY <2>1, <2>2, <2>3
<1> QED
  BY <1>2, <1>3, <1>4 DEF Complete

(* A step that writes nothing and moves no thread within its block.        *)
LEMMA OutputKept ==
  ASSUME OutputInv, Filling' => Filling, UNCHANGED <<out, content, damage>>,
         \A b \in Block : Unclaimed(b)' => Unclaimed(b),
         \A u \in Thread : Holding(u)' =>
           Holding(u) /\ blk'[u] = blk[u] /\ Written(u)' = Written(u),
         \A b \in Block : Size[b] > 0 /\ Complete(b)' => Complete(b)
  PROVE  OutputInv'
<1> SUFFICES ASSUME Sound' PROVE UnclaimedInv' /\ HeldInv' /\ CompleteInv'
  BY DEF OutputInv
<1>1. UnclaimedInv /\ HeldInv /\ CompleteInv
  BY DEF OutputInv, Sound
<1>2. UnclaimedInv'
  BY <1>1 DEF UnclaimedInv, Extent
<1>3. HeldInv'
  BY <1>1 DEF HeldInv, Extent
<1>4. \A b \in Block : Extent(b) # {} => Size[b] > 0
  BY IndexAssumption DEF Extent
<1>5. CompleteInv'
  BY <1>1, <1>4 DEF CompleteInv
<1> QED
  BY <1>2, <1>3, <1>5

(* The caller does not disturb the data in the output file.                 *)
LEMMA OutputCaller == ASSUME IInv, Caller PROVE OutputInv' /\ CompleteIsSound'
<1>0. /\ TypeOK /\ ThreadInv /\ CallerInv /\ OutputInv /\ CompleteIsSound
      /\ UNCHANGED <<content, damage, iter, blk, oposition, status>>
      /\ CreateThread \/ UNCHANGED pc
  BY CallerKeeps DEF IInv
<1>1. \A u \in Thread : \/ pc'[u] = pc[u]
                        \/ pc[u] = "unborn" /\ pc'[u] = "start"
  BY SMTT(30), <1>0 DEF CreateThread, TypeOK, ThreadInv
<1>2. \A b \in Block : /\ Unclaimed(b)' <=> Unclaimed(b)
                       /\ Complete(b)' <=> Complete(b)
  <2>1. \A u \in Thread : /\ pc'[u] = "copy" <=> pc[u] = "copy"
                          /\ pc'[u] = "done" <=> pc[u] = "done"
                          /\ Holding(u)' <=> Holding(u)
    BY <1>1 DEF Holding
  <2> QED
    BY <1>0, <2>1 DEF Unclaimed, Complete, Held, Lost, Failed
<1>3. CompleteIsSound'
  BY <1>0, <1>2 DEF CompleteIsSound
<1>4. CASE Extend
  <2>1. /\ main = "extend" /\ main' = "create"
        /\ out' = Truncated(out, Total)
        /\ out = [p \in {0} |-> Zero]
    BY <1>4 DEF Extend, IInv, PrepareInv
  <2>2. \A p \in Position : out'[p] = Zero
    BY <2>1 DEF Truncated
  <2>3. \A b \in Block : Extent(b) \subseteq Position
    BY IndexAssumption
  <2>4. \A u \in Thread : pc'[u] = "unborn"
    BY <1>0, <1>4 DEF CallerInv, Preparing, ThreadInv, TypeOK, Extend
  <2>5. \A b \in Block : ~Complete(b)'
    <3>1. iter' = 0
      BY <1>0, <2>1 DEF CallerInv, Preparing
    <3> QED
      BY <3>1 DEF Complete, Unclaimed
  <2> QED
    BY <1>3, <2>2, <2>3, <2>4, <2>5
       DEF OutputInv, UnclaimedInv, HeldInv, CompleteInv, Holding
<1>5. CASE UNCHANGED out /\ (Filling' => Filling)
  <2>1. \A u \in Thread : Holding(u)' =>
           Holding(u) /\ blk'[u] = blk[u] /\ Written(u)' = Written(u)
    BY <1>0, <1>1 DEF Holding, Written
  <2> QED
    BY <1>0, <1>2, <1>3, <1>5, <2>1, OutputKept
<1>6. CASE UNCHANGED pc /\ ~Filling'
  BY <1>3, <1>6 DEF OutputInv, UnclaimedInv, HeldInv, CompleteInv
<1>7. \/ Extend
      \/ UNCHANGED out /\ (Filling' => Filling)
      \/ UNCHANGED pc /\ ~Filling'
  BY DEF Caller, OpenOutput, TruncateToOne, ZeroFirst, PrepareFails, CreateThread,
         CreateFails, JoinThread, CheckErrors, CloseFiles, Filling
<1> QED
  BY <1>4, <1>5, <1>6, <1>7

(* A block is completed only if its check is right.                         *)
LEMMA CompleteIsSoundWorker ==
  ASSUME IInv, NEW t \in Thread, Worker(t) PROVE CompleteIsSound'
<1>1. CompleteIsSound /\ UNCHANGED damage
  BY WorkerKeeps DEF IInv
<1>2. EndBlock(t) => damage[blk[t]] = "none"
  BY DEF EndBlock
<1> QED
  BY <1>1, <1>2, CompleteWorker DEF CompleteIsSound

(* The writing steps: what is true of a thread that holds a sound block.   *)
LEMMA SoundBlock ==
  ASSUME IInv, Sound, NEW t \in Thread, Holding(t)
  PROVE  /\ blk[t] \in Block /\ damage[blk[t]] = "none"
         /\ oposition[t] \in Nat
         /\ Offset[blk[t]] \in Nat /\ Size[blk[t]] \in Nat
         /\ EndOf(t) = Offset[blk[t]] + Size[blk[t]]
  BY IndexAssumption DEF IInv, ClaimInv, TypeOK, Sound, EndOf

(* A pwrite() of a thread that holds a sound block writes content, and     *)
(* nowhere but in the block.                                               *)
WritesContent(t, r) ==
  /\ oposition'[t] = oposition[t] + r
  /\ oposition[t]..(oposition[t] + r - 1) \subseteq Extent(blk[t])
  /\ DOMAIN out' = DOMAIN out
  /\ \A p \in DOMAIN out :
       out'[p] = IF p \in oposition[t]..(oposition[t] + r - 1)
                 THEN content[p] ELSE out[p]

LEMMA PwriteSound ==
  ASSUME IInv, Sound, NEW t \in Thread, Pwrite(t)
  PROVE  \E r \in Nat : WritesContent(t, r)
<1>0. /\ TypeOK /\ PositionInv /\ pc[t] = "write" /\ Holding(t)
  BY DEF IInv, Pwrite, Holding
<1>1. PICK r \in 1..Len(outbuf[t]) :
        /\ out' = [p \in DOMAIN out |->
                     IF p \in oposition[t]..(oposition[t] + r - 1)
                     THEN outbuf[t][p - oposition[t] + 1] ELSE out[p]]
        /\ oposition' = [oposition EXCEPT ![t] = @ + r]
  BY DEF Pwrite
<1>2. /\ oposition[t] \in Nat /\ Len(outbuf[t]) \in Nat
      /\ r \in Nat /\ r <= Len(outbuf[t])
      /\ Offset[blk[t]] \in Nat /\ Size[blk[t]] \in Nat
  <2>1. outbuf[t] \in Seq(Byte)
    BY <1>0 DEF TypeOK
  <2> QED
    BY <1>0, <1>1, <2>1, SoundBlock
<1>3. /\ Offset[blk[t]] <= oposition[t]
      /\ oposition[t] + Len(outbuf[t]) <= Offset[blk[t]] + Size[blk[t]]
  BY <1>0, SoundBlock DEF PositionInv, InPlace, EndOf
<1>4. \A i \in 1..Len(outbuf[t]) : outbuf[t][i] = content[oposition[t] + i - 1]
  BY <1>0, SoundBlock DEF PositionInv, InPlace
<1>5. ASSUME NEW p \in oposition[t]..(oposition[t] + r - 1)
      PROVE  p \in Extent(blk[t])
  <2>1. p \in Int /\ oposition[t] <= p /\ p <= oposition[t] + r - 1
    BY <1>2
  <2>2. Offset[blk[t]] <= p
    BY <1>2, <1>3, <2>1
  <2>3. p + 1 <= oposition[t] + Len(outbuf[t])
    BY <1>2, <2>1
  <2>4. p + 1 <= Offset[blk[t]] + Size[blk[t]]
    <3>1. /\ oposition[t] + Len(outbuf[t]) \in Int
          /\ Offset[blk[t]] + Size[blk[t]] \in Int /\ p + 1 \in Int
      BY SMTT(30), <1>2, <2>1
    <3>2. oposition[t] + Len(outbuf[t]) <= Offset[blk[t]] + Size[blk[t]]
      BY <1>3
    <3> QED
      BY <2>3, <3>1, <3>2
  <2> QED
    BY <1>2, <2>1, <2>2, <2>4 DEF Extent
<1>6. ASSUME NEW p \in oposition[t]..(oposition[t] + r - 1)
      PROVE  outbuf[t][p - oposition[t] + 1] = content[p]
  <2>1. p - oposition[t] + 1 \in 1..Len(outbuf[t])
    BY <1>2
  <2>2. oposition[t] + (p - oposition[t] + 1) - 1 = p
    BY <1>2
  <2> QED
    BY <1>4, <2>1, <2>2
<1>7. oposition'[t] = oposition[t] + r
  BY <1>0, <1>1 DEF TypeOK
<1>8. /\ DOMAIN out' = DOMAIN out
      /\ \A p \in DOMAIN out :
           out'[p] = IF p \in oposition[t]..(oposition[t] + r - 1)
                     THEN content[p] ELSE out[p]
  BY <1>1, <1>6
<1> QED
  BY <1>2, <1>5, <1>7, <1>8 DEF WritesContent

(* The workers fill the file with the data, block by block.                 *)
LEMMA OutputWorker == ASSUME IInv, NEW t \in Thread, Worker(t) PROVE OutputInv'
<1>0. /\ TypeOK /\ OutputInv /\ PositionInv /\ ClaimInv /\ PrepareInv
      /\ \A u \in Thread \ {t} : /\ pc'[u] = pc[u] /\ blk'[u] = blk[u]
                                 /\ oposition'[u] = oposition[u]
      /\ UNCHANGED <<content, damage, main>>
  BY WorkerKeeps DEF IInv
<1>1. \A u \in Thread \ {t} :
        (Holding(u)' <=> Holding(u)) /\ Written(u)' = Written(u)
  BY <1>0 DEF Holding, Written
<1>2. \A b \in Block : Unclaimed(b)' => Unclaimed(b)
  BY UnclaimedWorker
<1>3. \A b \in Block : Size[b] > 0 /\ Complete(b)' =>
        Complete(b) \/ (EndBlock(t) /\ blk[t] = b)
  BY CompleteWorker
<1>4. (Filling' <=> Filling) /\ (Sound' <=> Sound)
  BY <1>0 DEF Filling, Sound
<1>5. CASE ~CopyIter(t) /\ ~SkipZeroes(t) /\ ~Pwrite(t) /\ ~EndBlock(t)
  <2>1. UNCHANGED out
    BY <1>5 DEF Worker, WorkerStart, Lock, IterNext, IterExhausted, Unlock,
       UnlockAndFinish, ReadHeader, FillBuffer, BlockFails
  <2>2. Holding(t)' => Holding(t) /\ blk'[t] = blk[t] /\ Written(t)' = Written(t)
    BY SMTT(30), <1>0, <1>5 DEF Worker, WorkerStart, Lock, IterNext, IterExhausted, Unlock,
       UnlockAndFinish, ReadHeader, FillBuffer, BlockFails, Holding, Written, TypeOK
  <2>3. \A u \in Thread : Holding(u)' =>
          Holding(u) /\ blk'[u] = blk[u] /\ Written(u)' = Written(u)
    BY <1>0, <1>1, <2>2
  <2> QED
    BY <1>0, <1>2, <1>3, <1>4, <1>5, <2>1, <2>3, OutputKept
<1> SUFFICES ASSUME Sound', Filling'
             PROVE  UnclaimedInv' /\ HeldInv' /\ CompleteInv'
  BY DEF OutputInv, UnclaimedInv, HeldInv, CompleteInv
<1>6. UnclaimedInv /\ HeldInv /\ CompleteInv /\ Filling /\ Sound
  BY <1>0, <1>4 DEF OutputInv
<1>7. \A b \in Block : Extent(b) # {} => Size[b] > 0
  BY IndexAssumption DEF Extent
<1>8. CASE CopyIter(t)
  <2>1. /\ pc[t] = "copy" /\ pc'[t] = "unlock" /\ blk'[t] = iter
        /\ UNCHANGED <<out, iter>> /\ iter \in Block
    BY <1>0, <1>8 DEF CopyIter, ClaimInv, TypeOK
  <2>2. UnclaimedInv'
    BY <1>2, <1>6, <2>1 DEF UnclaimedInv, Extent
  <2>3. \A p \in Extent(iter) : out[p] = Zero /\ ~(p < Offset[iter])
    <3>1. \A p \in Extent(iter) : out[p] = Zero
      BY <1>6, <2>1 DEF UnclaimedInv, Unclaimed
    <3>2. Offset[iter] \in Nat /\ Size[iter] \in Nat
      BY <2>1, IndexAssumption
    <3>3. \A p \in Extent(iter) : ~(p < Offset[iter])
      BY <3>2 DEF Extent
    <3> QED
      BY <3>1, <3>3
  <2>4. Written(t)' = Offset[iter]
    BY <2>1 DEF Written
  <2>5. HeldInv'
    BY <1>0, <1>1, <1>6, <2>1, <2>3, <2>4 DEF HeldInv, Extent
  <2>6. \A b \in Block : Size[b] > 0 /\ Complete(b)' => Complete(b)
    BY <1>3, <2>1 DEF EndBlock
  <2>7. CompleteInv'
    BY <1>0, <1>6, <1>7, <2>1, <2>6 DEF CompleteInv
  <2> QED
    BY <2>2, <2>5, <2>7
<1>9. CASE SkipZeroes(t)
  <2>1. PICK buf \in Decoded(t) :
          /\ IsZero(buf)
          /\ oposition' = [oposition EXCEPT ![t] = @ + Len(buf)]
    BY <1>9 DEF SkipZeroes
  <2>2. /\ pc[t] = "decode" /\ pc'[t] = "decode" /\ UNCHANGED <<blk, iter, out>>
        /\ oposition'[t] = oposition[t] + Len(buf)
        /\ Holding(t) /\ Holding(t)'
    BY <1>0, <1>9, <2>1 DEF SkipZeroes, TypeOK, Holding
  <2>3. /\ Len(buf) \in Nat
        /\ \A i \in 1..Len(buf) : content[oposition[t] + i - 1] = Zero
    <3>1. damage[blk[t]] = "none"
      BY <1>6, <2>2, SoundBlock
    <3>2. /\ Len(buf) \in Nat
          /\ \A i \in 1..Len(buf) : buf[i] = content[oposition[t] + i - 1]
      BY <2>1, <2>2, <3>1, DecodedBuffer
    <3> QED
      BY <2>1, <3>2 DEF IsZero
  <2>4. Written(t) = oposition[t] /\ Written(t)' = oposition[t] + Len(buf)
    BY <2>2 DEF Written
  <2>5. \A p \in Extent(blk[t]) :
          out[p] = IF p < Written(t)' THEN content[p] ELSE Zero
    <3> SUFFICES ASSUME NEW p \in Extent(blk[t])
                 PROVE  out[p] = IF p < Written(t)' THEN content[p] ELSE Zero
      OBVIOUS
    <3>1. p \in Int /\ oposition[t] \in Nat
      BY <1>6, <2>2, SoundBlock DEF Extent
    <3>2. out[p] = IF p < oposition[t] THEN content[p] ELSE Zero
      BY <1>6, <2>2, <2>4 DEF HeldInv
    <3>3. CASE oposition[t] <= p /\ p < oposition[t] + Len(buf)
      <4>1. p - oposition[t] + 1 \in 1..Len(buf)
        BY <2>3, <3>1, <3>3
      <4>2. oposition[t] + (p - oposition[t] + 1) - 1 = p
        BY <3>1
      <4> QED
        BY <2>3, <2>4, <3>1, <3>2, <3>3, <4>1, <4>2
    <3>4. CASE ~(oposition[t] <= p /\ p < oposition[t] + Len(buf))
      BY <2>3, <2>4, <3>1, <3>2, <3>4
    <3> QED
      BY <3>3, <3>4
  <2>6. HeldInv'
    BY <1>0, <1>1, <1>6, <2>2, <2>5 DEF HeldInv, Extent
  <2>7. UnclaimedInv'
    BY <1>2, <1>6, <2>2 DEF UnclaimedInv, Extent
  <2>8. \A b \in Block : Size[b] > 0 /\ Complete(b)' => Complete(b)
    BY <1>0, <1>3, <2>2 DEF EndBlock, TypeOK
  <2>9. CompleteInv'
    BY <1>0, <1>6, <1>7, <2>2, <2>8 DEF CompleteInv
  <2> QED
    BY <2>6, <2>7, <2>9
<1>10. CASE Pwrite(t)
  <2>1. PICK r \in Nat : WritesContent(t, r)
    BY <1>6, <1>10, PwriteSound
  <2>2. /\ pc[t] = "write" /\ pc'[t] \in {"decode", "write"}
        /\ UNCHANGED <<blk, iter>>
        /\ oposition'[t] = oposition[t] + r
        /\ Holding(t) /\ Holding(t)'
    BY <1>0, <1>10, <2>1 DEF Pwrite, TypeOK, Holding, WritesContent
  <2>3. oposition[t] \in Nat
    BY <1>6, <2>2, SoundBlock
  <2>4. DOMAIN out = Position /\ \A b \in Block : Extent(b) \subseteq Position
    BY <1>0, <1>6, IndexAssumption DEF PrepareInv
  <2>5. \A p \in oposition[t]..(oposition[t] + r - 1) : p \in Extent(blk[t])
    BY <2>1 DEF WritesContent
  <2>6. \A p \in Position :
          out'[p] = IF p \in oposition[t]..(oposition[t] + r - 1)
                    THEN content[p] ELSE out[p]
    BY <2>1, <2>4 DEF WritesContent
  <2>7. \A b \in Block \ {blk[t]} : \A p \in Extent(b) : out'[p] = out[p]
    <3>1. \A b \in Block \ {blk[t]} : Extent(b) \cap Extent(blk[t]) = {}
      BY <1>6, <2>2, SoundBlock, IndexAssumption
    <3> QED
      BY <2>4, <2>5, <2>6, <3>1
  <2>8. Written(t) = oposition[t] /\ Written(t)' = oposition[t] + r
    BY <2>2 DEF Written
  <2>9. \A p \in Extent(blk[t]) :
           out'[p] = IF p < Written(t)' THEN content[p] ELSE Zero
    <3> SUFFICES ASSUME NEW p \in Extent(blk[t])
                 PROVE  out'[p] = IF p < Written(t)' THEN content[p] ELSE Zero
      OBVIOUS
    <3>1. p \in Position /\ p \in Int
      <4>1. blk[t] \in Block
        BY <1>6, <2>2, SoundBlock
      <4>2. p \in Position
        BY <2>4, <4>1
      <4> QED
        BY <4>2
    <3>2. out[p] = IF p < oposition[t] THEN content[p] ELSE Zero
      BY <1>6, <2>2, <2>8 DEF HeldInv
    <3> QED
      BY <2>3, <2>6, <2>8, <3>1, <3>2
  <2>10. \A u \in Thread \ {t} : Holding(u) => blk[u] # blk[t] /\ blk[u] \in Block
    BY <1>0, <2>2 DEF ClaimInv
  <2>11. HeldInv'
    <3> SUFFICES ASSUME NEW u \in Thread, Holding(u)', NEW p \in Extent(blk'[u])
                 PROVE  out'[p] = IF p < Written(u)' THEN content'[p] ELSE Zero
      BY DEF HeldInv, Extent
    <3>1. CASE u = t
      BY <1>0, <2>2, <2>9, <3>1
    <3>2. CASE u # t
      BY <1>0, <1>1, <1>6, <2>2, <2>7, <2>10, <3>2 DEF HeldInv
    <3> QED
      BY <3>1, <3>2
  <2>12. UnclaimedInv'
    <3>1. ~Unclaimed(blk[t])
      BY SMTT(30), <1>0, <2>2 DEF ClaimInv, Unclaimed, TypeOK
    <3> QED
      BY <1>2, <1>6, <2>7, <3>1 DEF UnclaimedInv, Extent
  <2>13. CompleteInv'
    <3>1. ~Complete(blk[t])
      BY <2>2 DEF Complete, Held
    <3>2. \A b \in Block : Size[b] > 0 /\ Complete(b)' => Complete(b)
      BY <1>0, <1>3, <2>2 DEF EndBlock, TypeOK
    <3> QED
      BY <1>0, <1>6, <1>7, <2>7, <3>1, <3>2 DEF CompleteInv
  <2> QED
    BY <2>11, <2>12, <2>13
<1>11. CASE EndBlock(t)
  <2>1. /\ pc[t] = "decode" /\ pc'[t] = "lock" /\ UNCHANGED <<blk, iter, out>>
        /\ oposition[t] = EndOf(t) /\ Holding(t)
    BY <1>0, <1>11 DEF EndBlock, TypeOK, Holding
  <2>2. \A p \in Extent(blk[t]) : out[p] = content[p]
    <3>1. \A p \in Extent(blk[t]) : p < Written(t)
      BY <1>6, <2>1, SoundBlock DEF Written, Extent
    <3> QED
      BY <1>6, <2>1, <3>1 DEF HeldInv
  <2>3. HeldInv'
    BY <1>0, <1>1, <1>6, <2>1 DEF HeldInv, Holding, Extent
  <2>4. UnclaimedInv'
    BY <1>2, <1>6, <2>1 DEF UnclaimedInv, Extent
  <2>5. CompleteInv'
    BY <1>0, <1>3, <1>6, <1>7, <2>1, <2>2 DEF CompleteInv, Extent
  <2> QED
    BY <2>3, <2>4, <2>5
<1> QED
  BY <1>5, <1>8, <1>9, <1>10, <1>11 DEF OutputInv

-----------------------------------------------------------------------------
(* The invariant is inductive.                                             *)

LEMMA InitInv == Init => IInv
<1> SUFFICES ASSUME Init PROVE IInv
  OBVIOUS
<1>1. TypeOK
  BY InitType
<1>2. /\ \A t \in Thread : pc[t] = "unborn" /\ status[t] = Uninitialized
      /\ main = "open" /\ iter = 0 /\ created = 0 /\ joined = 0
      /\ iter_mutex = NoThread /\ iter_finished = FALSE
  BY DEF Init
<1>3. MutexInv /\ ThreadInv
  BY <1>2 DEF MutexInv, InCritical, ThreadInv
<1>4. CallerInv /\ IterInv
  BY <1>2 DEF CallerInv, IterInv, Preparing
<1>5. ClaimInv /\ PositionInv
  BY <1>2 DEF ClaimInv, Holding, PositionInv, InPlace
<1>6. PrepareInv /\ OutputInv
  BY <1>2 DEF PrepareInv, OutputInv, UnclaimedInv, HeldInv, CompleteInv, Filling
<1>7. CompleteIsSound
  BY <1>2 DEF CompleteIsSound, Complete, Unclaimed
<1> QED
  BY <1>1, <1>3, <1>4, <1>5, <1>6, <1>7 DEF IInv

(* So does a step that changes nothing.                                     *)
LEMMA StutterInv == IInv /\ UNCHANGED vars => IInv'
<1> SUFFICES ASSUME IInv, UNCHANGED vars PROVE IInv'
  OBVIOUS
<1> USE DEF vars
<1>1. TypeOK' /\ MutexInv' /\ ThreadInv' /\ CallerInv' /\ IterInv'
  BY DEF IInv, TypeOK, MutexInv, InCritical, ThreadInv, CallerInv, Preparing,
         IterInv, NonEmptyAfter
<1>2. ClaimInv' /\ PositionInv'
  BY DEF IInv, ClaimInv, Holding, PositionInv, InPlace, EndOf
<1>3. PrepareInv' /\ OutputInv' /\ CompleteIsSound'
  BY DEF IInv, PrepareInv, OutputInv, Sound, UnclaimedInv, HeldInv, CompleteInv,
         CompleteIsSound, Complete, Unclaimed, Held, Lost, Failed, Holding, Written,
         Filling, Extent
<1> QED
  BY <1>1, <1>2, <1>3 DEF IInv

(* Every step keeps the invariant.                                          *)
LEMMA NextInv == IInv /\ [Next]_vars => IInv'
<1> SUFFICES ASSUME IInv, [Next]_vars PROVE IInv'
  OBVIOUS
<1>1. CASE Caller
  BY <1>1, CallerType, MutexCaller, ThreadCaller, CallerCaller, IterCaller,
     ClaimCaller, PositionCaller, PrepareCaller, OutputCaller DEF IInv
<1>2. ASSUME NEW t \in Thread, Worker(t) PROVE IInv'
  BY <1>2, WorkerType, MutexWorker, ThreadWorker, CallerWorker, IterWorker,
     ClaimWorker, PositionWorker, PrepareWorker, OutputWorker,
     CompleteIsSoundWorker DEF IInv
<1>3. CASE UNCHANGED vars
  BY <1>3, StutterInv
<1> QED
  BY <1>1, <1>2, <1>3 DEF Next

(* The inductive invariant holds in every reachable state.                  *)
THEOREM Invariance == Spec => []IInv
  BY InitInv, NextInv, PTL DEF Spec

-----------------------------------------------------------------------------
(* What follows from it.                                                   *)

(* Every variable of the decompressor stays in its type.                   *)
THEOREM TypeCorrect == Spec => []TypeOK
<1>1. IInv => TypeOK
  BY DEF IInv
<1> QED
  BY <1>1, Invariance, PTL

(* For any number of threads and any index: no two workers work on the     *)
(* same block.                                                             *)
THEOREM BlocksAreExclusive == Spec => []BlocksNotShared
<1>1. IInv => BlocksNotShared
  BY DEF IInv, ClaimInv, BlocksNotShared
<1> QED
  BY <1>1, Invariance, PTL

(* A worker that ends without an error has seen the end of the index.      *)
THEOREM AllBlocksClaimed == Spec => []NoBlockLeftBehind
<1>1. IInv => NoBlockLeftBehind
  BY DEF IInv, TypeOK, IterInv, NonEmptyAfter, NoBlockLeftBehind
<1> QED
  BY <1>1, Invariance, PTL

(* Once all threads were started, none of them outlives the call.          *)
THEOREM WorkersAreJoined == Spec => []NoWorkerOutlivesCall
<1>1. IInv => NoWorkerOutlivesCall
  BY DEF IInv, CallerInv, NoWorkerOutlivesCall, Thread
<1> QED
  BY <1>1, Invariance, PTL

(* Once the caller has found no error, every block has been completed.     *)
LEMMA AllComplete ==
  ASSUME IInv, main \in {"close", "returned"}
  PROVE  /\ \A b \in Block : Size[b] > 0 => Complete(b)
         /\ Sound
         /\ out = content
<1>1. \A t \in Thread : pc[t] = "done" /\ status[t] = 0
  BY SMTT(30) DEF IInv, CallerInv, TypeOK
<1>2. iter_finished /\ NonEmptyAfter(iter) = {}
  <2>1. 0 \in Thread
    OBVIOUS
  <2> QED
    BY <1>1, <2>1 DEF IInv, IterInv
<1>3. \A b \in Block : Size[b] > 0 => Complete(b)
  BY <1>1, <1>2 DEF NonEmptyAfter, Complete, Unclaimed, Held, Holding, Lost, Failed
<1>4. Sound
  BY <1>3 DEF IInv, CompleteIsSound, Sound
<1>5. out \in [Position -> Byte] /\ content \in [Position -> Byte]
  BY DEF IInv, TypeOK, PrepareInv, Filling
<1>6. \A p \in Position : out[p] = content[p]
  <2> SUFFICES ASSUME NEW p \in Position PROVE out[p] = content[p]
    OBVIOUS
  <2>1. PICK b \in Block : p \in Extent(b)
    BY IndexAssumption
  <2>2. Size[b] > 0
    BY <2>1, IndexAssumption DEF Extent
  <2> QED
    BY <1>3, <1>4, <2>1, <2>2 DEF IInv, OutputInv, CompleteInv, Filling
<1> QED
  BY <1>3, <1>4, <1>5, <1>6

(* A call that returns normally has produced exactly the data.             *)
THEOREM OutputIsExact == Spec => []SuccessIsExact
<1>1. IInv => SuccessIsExact
  BY AllComplete DEF SuccessIsExact, Sound
<1> QED
  BY <1>1, Invariance, PTL

(* No failure of a worker is lost.                                         *)
THEOREM FailuresAreReported == Spec => FailureIsReported
<1>1. IInv /\ IInv' /\ [Next]_vars =>
        [(\E t \in Thread : Failed(t)) => main' # "returned"]_vars
  <2> SUFFICES ASSUME IInv, IInv', Next, NEW t \in Thread, Failed(t),
                      main' = "returned"
               PROVE  FALSE
    OBVIOUS
  <2>1. pc[t] = "done" /\ status[t] = -1
    BY DEF Failed
  <2>2. status'[t] = 0
    BY DEF IInv, CallerInv, TypeOK
  <2>3. CASE Caller
    BY <2>1, <2>2, <2>3, CallerKeeps
  <2>4. CASE \E u \in Thread : Worker(u)
    BY <2>1, <2>2, <2>4, WorkerKeeps DEF IInv
  <2> QED
    BY <2>3, <2>4 DEF Next
<1> QED
  BY <1>1, Invariance, PTL DEF Spec, FailureIsReported

(* The only step of a worker that changes the output file.                 *)
LEMMA OnlyPwriteWrites ==
  ASSUME NEW t \in Thread, Worker(t) PROVE Pwrite(t) \/ UNCHANGED out
  BY DEF Worker, WorkerStart, Lock, IterNext, IterExhausted, CopyIter, Unlock,
         UnlockAndFinish, ReadHeader, SkipZeroes, FillBuffer, EndBlock, BlockFails

(* From a sound input no worker writes outside the block that it holds.    *)
THEOREM WritesAreLocal == Spec => WritesStayInBlock
<1>1. IInv /\ [Next]_vars =>
        [(Sound /\ main \in {"create", "join", "close", "returned", "raised"}) =>
           \A p \in DOMAIN out : out'[p] # out[p] =>
             \E t \in Thread : Holding(t) /\ p \in Extent(blk[t])]_vars
  <2> SUFFICES ASSUME IInv, Next, Sound,
                      main \in {"create", "join", "close", "returned", "raised"},
                      NEW p \in DOMAIN out, out'[p] # out[p]
               PROVE  \E t \in Thread : Holding(t) /\ p \in Extent(blk[t])
    OBVIOUS
  <2>1. ~Caller
    BY DEF Caller, OpenOutput, TruncateToOne, ZeroFirst, Extend, PrepareFails,
           CreateThread, CreateFails, JoinThread, CheckErrors, CloseFiles
  <2>2. PICK t \in Thread : Pwrite(t)
    BY <2>1, OnlyPwriteWrites DEF Next
  <2>3. PICK r \in Nat : WritesContent(t, r)
    BY <2>2, PwriteSound
  <2> QED
    BY <2>2, <2>3 DEF WritesContent, Pwrite, Holding
<1> QED
  BY <1>1, Invariance, PTL DEF Spec, WritesStayInBlock

-----------------------------------------------------------------------------
(* The refinement: every step of the threads is a step of XzOutput, or     *)
(* changes nothing that it can see.                                        *)

LEMMA InitRefines == Init => Promise!AInit
  BY DEF Init, Promise!AInit, Preparing, Promise!Positions, Sound

(* The steps of the caller.                                                 *)
LEMMA CallerRefines ==
  ASSUME IInv, Caller PROVE [Promise!ANext]_(Promise!avars)
<1> USE DEF Promise!ANext, Promise!avars, Preparing
<1>0. UNCHANGED content /\ (Sound' <=> Sound)
  BY CallerKeeps DEF Sound
<1>1. CASE UNCHANGED out /\ main' = main
  BY <1>0, <1>1
<1>2. CASE OpenOutput \/ TruncateToOne \/ ZeroFirst
  BY <1>0, <1>2 DEF OpenOutput, TruncateToOne, ZeroFirst
<1>3. CASE Extend
  <2>1. main = "extend" /\ main' = "create"
    BY <1>3 DEF Extend
  <2>2. out' = [p \in Position |-> Zero]
    BY <1>3, <2>1 DEF Extend, Truncated, IInv, PrepareInv
  <2>3. Promise!Prepare
    BY <1>0, <2>1, <2>2 DEF Promise!Prepare, Promise!Positions
  <2> QED
    BY <2>3
<1>4. CASE main' = "raised" /\ main # "raised" /\ main # "returned"
  <2>1. Promise!Raise
    BY <1>0, <1>4 DEF Promise!Raise
  <2> QED
    BY <2>1
<1>5. CASE CreateThread \/ JoinThread \/ CheckErrors
  BY <1>0, <1>4, <1>5 DEF CreateThread, JoinThread, CheckErrors
<1>6. CASE CloseFiles
  <2>1. CASE main' = "returned"
    <3>1. Sound /\ out = content /\ main = "close" /\ UNCHANGED out
      BY <1>6, AllComplete DEF CloseFiles
    <3>2. Promise!Return
      BY <1>0, <2>1, <3>1 DEF Promise!Return
    <3> QED
      BY <3>2
  <2> QED
    BY <1>4, <1>6, <2>1 DEF CloseFiles
<1>7. CASE PrepareFails \/ CreateFails
  BY <1>4, <1>7 DEF PrepareFails, CreateFails
<1> QED
  BY <1>2, <1>3, <1>5, <1>6, <1>7 DEF Caller

(* The steps of a worker.                                                   *)
LEMMA WorkerRefines ==
  ASSUME IInv, NEW t \in Thread, Worker(t)
  PROVE  [Promise!ANext]_(Promise!avars)
<1> USE DEF Promise!ANext, Promise!avars, Preparing
<1>0. content' = content /\ main' = main /\ Sound' = Sound /\ TypeOK'
  BY WorkerKeeps, WorkerType DEF Sound, IInv
<1>1. CASE UNCHANGED out
  BY <1>0, <1>1
<1>2. CASE main = "raised"
  BY <1>0, <1>2
<1>3. CASE Pwrite(t) /\ main # "raised"
  <2>1. ~Preparing
    BY <1>3 DEF Pwrite, IInv, CallerInv, ThreadInv, TypeOK
  <2>2. main # "returned"
    <3>1. pc[t] # "done"
      BY <1>3 DEF Pwrite
    <3> QED
      BY <3>1 DEF IInv, CallerInv, TypeOK
  <2>3. main \in {"create", "join", "close"}
    BY <1>3, <2>1, <2>2 DEF IInv, TypeOK
  <2>4. DOMAIN out = Position /\ DOMAIN out' = Position
    BY <1>3, <2>3 DEF IInv, PrepareInv, Filling, Pwrite
  <2>5. out' \in [Position -> Byte]
    BY <1>0, <2>4 DEF TypeOK
  <2>6. Sound => \A p \in Position : out'[p] \in {out[p], content[p]}
    BY <1>3, <2>4, PwriteSound DEF WritesContent
  <2>7. Promise!Fill
    BY <1>0, <2>3, <2>5, <2>6 DEF Promise!Fill, Promise!Positions
  <2> QED
    BY <2>7
<1> QED
  BY <1>1, <1>2, <1>3, OnlyPwriteWrites

(* The threads, their locks and their short writes keep the promise that   *)
(* pxzcat() makes of the output file.                                      *)
THEOREM Refinement == Spec => ImplementsXzOutput
<1>1. IInv /\ [Next]_vars => [Promise!ANext]_(Promise!avars)
  <2>1. CASE UNCHANGED vars
    BY <2>1 DEF vars, Promise!avars, Preparing, Sound
  <2> QED
    BY <2>1, CallerRefines, WorkerRefines DEF Next
<1> QED
  BY <1>1, InitRefines, Invariance, PTL DEF Spec, ImplementsXzOutput, Promise!ASpec
=============================================================================
