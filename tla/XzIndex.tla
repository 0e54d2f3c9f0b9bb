------------------------------ MODULE XzIndex ------------------------------
(***************************************************************************)
(* parse_indexes() of builder/pxzcat-c.c: the file is read backwards, from *)
(* the footer of each stream to its index and its header, and the indexes  *)
(* are combined.  The code keeps its own position, pos, and shares the     *)
(* file offset with the kernel; footers are found relative to the latter.  *)
(*                                                                         *)
(* Sizes are in units of 4 bytes, the granularity of the xz format.  A     *)
(* file is a sequence of units; each says which part of which stream it    *)
(* belongs to and whether it is intact, which is all that the decoders of  *)
(* liblzma can tell (every part but the blocks carries a checksum).        *)
(***************************************************************************)
EXTENDS Integers, Sequences, SequencesExt

CONSTANTS MaxStreams, MaxBlocks, MaxIndex, MaxPadding   \* bounds on a file

HeaderSize == 3     \* LZMA_STREAM_HEADER_SIZE, header and footer alike

ASSUME BoundsAssumption ==
  /\ MaxStreams \in Nat \ {0}
  /\ MaxBlocks \in Nat
  /\ MaxIndex \in Nat \ {0}
  /\ MaxPadding \in Nat

VARIABLES
  streams,         \* what the file was made of
  damaged,         \* the position of a unit that was overwritten, or 0
  ragged,          \* bytes that follow the last whole unit
  phase,           \* where the parser is
  pos,             \* pos
  offset,          \* the file offset of fd
  footer,          \* the stream whose footer was decoded last
  stream_padding,
  combined_index   \* [stream, padding] of each stream, first stream first

file_vars == <<streams, damaged, ragged>>
parse_vars == <<streams, damaged, ragged, phase, pos, offset, footer, stream_padding,
          combined_index>>

-----------------------------------------------------------------------------
(* The file.                                                               *)

StreamShape == [blocks : 0..MaxBlocks, index : 1..MaxIndex, padding : 0..MaxPadding]

Part(s, name, size) == [k \in 1..size |-> [stream |-> s, part |-> name, k |-> k]]

Units(strs) ==
  FlattenSeq([s \in DOMAIN strs |->
    Part(s, "header", HeaderSize) \o Part(s, "block", strs[s].blocks)
    \o Part(s, "index", strs[s].index) \o Part(s, "footer", HeaderSize)
    \o Part(s, "padding", strs[s].padding)])

Length == Len(Units(streams))

(* A whole, intact part of a stream begins at offset p.                    *)
PartAt(p, name, s, size) ==
  /\ p >= 0 /\ p + size <= Length
  /\ SubSeq(Units(streams), p + 1, p + size) = Part(s, name, size)
  /\ damaged \notin (p + 1)..(p + size)

ZeroAt(p) == Units(streams)[p].part = "padding" /\ damaged # p

ParseInit ==
  /\ streams \in UNION {[1..n -> StreamShape] : n \in 1..MaxStreams}
  /\ damaged \in 0..Length
  /\ ragged \in 0..1
  /\ phase = "size"
  /\ pos = Length
  /\ offset = Length
  /\ footer = 0
  /\ stream_padding = 0
  /\ combined_index = << >>

-----------------------------------------------------------------------------
(* "Check file size is a multiple of 4 bytes."                             *)
CheckSize ==
  /\ phase = "size"
  /\ ragged = 0
  /\ phase' = "footer"
  /\ UNCHANGED <<file_vars, pos, offset, footer, stream_padding, combined_index>>

(* lseek (fd, -12, SEEK_CUR) and a read of 12 bytes leave the offset where *)
(* it was; there must be room for both.                                    *)
FooterReadable == pos >= HeaderSize /\ offset >= HeaderSize

(* Mutant: the position is not moved.                                      *)
SkipPadding_Mutant ==
  /\ phase = "footer"
  /\ pos > 0
  /\ FooterReadable
  /\ ZeroAt(offset)
  /\ UNCHANGED parse_vars

SkipPadding ==
  /\ phase = "footer"
  /\ pos > 0
  /\ FooterReadable
  /\ ZeroAt(offset)
  /\ stream_padding' = stream_padding + 1
  /\ pos' = pos - 1
  /\ UNCHANGED <<file_vars, phase, offset, footer, combined_index>>

FooterOf(s) ==
  /\ PartAt(offset - HeaderSize, "footer", s, HeaderSize)
  /\ pos - HeaderSize >= streams[s].index + HeaderSize

DecodeFooter ==
  /\ phase = "footer"
  /\ pos > 0
  /\ FooterReadable
  /\ \E s \in DOMAIN streams :
       /\ FooterOf(s)
       /\ footer' = s
       /\ pos' = pos - HeaderSize - streams[s].index
  /\ offset' = pos'
  /\ phase' = "index"
  /\ UNCHANGED <<file_vars, stream_padding, combined_index>>

(* Mutant: the header is not counted.                                      *)
DecodeIndex_Mutant ==
  /\ phase = "index"
  /\ PartAt(offset, "index", footer, streams[footer].index)
  /\ pos' = pos - streams[footer].blocks
  /\ pos' >= 0
  /\ offset' = pos'
  /\ phase' = "header"
  /\ UNCHANGED <<file_vars, footer, stream_padding, combined_index>>

(* The index says how large the blocks are: pos moves to the header.       *)
DecodeIndex ==
  /\ phase = "index"
  /\ PartAt(offset, "index", footer, streams[footer].index)
  /\ pos' = pos - (streams[footer].blocks + HeaderSize)
  /\ pos' >= 0
  /\ offset' = pos'
  /\ phase' = "header"
  /\ UNCHANGED <<file_vars, footer, stream_padding, combined_index>>

(* Mutant: the header is not decoded nor compared.                         *)
DecodeHeader_Mutant ==
  /\ phase = "header"
  /\ offset' = offset + HeaderSize
  /\ combined_index' =
       <<[stream |-> footer, padding |-> stream_padding]>> \o combined_index
  /\ phase' = "footer"
  /\ UNCHANGED <<file_vars, pos, footer, stream_padding>>

(* The header is read and compared with the footer, and the index of this  *)
(* stream is put in front of those of the streams that follow.             *)
DecodeHeader ==
  /\ phase = "header"
  /\ PartAt(offset, "header", footer, HeaderSize)
  /\ offset' = offset + HeaderSize
  /\ combined_index' =
       <<[stream |-> footer, padding |-> stream_padding]>> \o combined_index
  /\ phase' = "footer"
  /\ UNCHANGED <<file_vars, pos, footer, stream_padding>>

Return ==
  /\ phase = "footer"
  /\ pos = 0
  /\ phase' = "returned"
  /\ UNCHANGED <<file_vars, pos, offset, footer, stream_padding, combined_index>>

(* A failed seek, read, decode or comparison raises an exception.          *)
Reject ==
  /\ \/ phase = "size" /\ ragged # 0
     \/ /\ phase = "footer" /\ pos > 0
        /\ \/ ~FooterReadable
           \/ ~ZeroAt(offset) /\ \A s \in DOMAIN streams : ~FooterOf(s)
     \/ /\ phase = "index"
        /\ \/ ~PartAt(offset, "index", footer, streams[footer].index)
           \/ pos < streams[footer].blocks + HeaderSize
     \/ phase = "header" /\ ~PartAt(offset, "header", footer, HeaderSize)
  /\ phase' = "rejected"
  /\ UNCHANGED <<file_vars, pos, offset, footer, stream_padding, combined_index>>

ParseNext ==
  \/ CheckSize \/ SkipPadding \/ DecodeFooter \/ DecodeIndex \/ DecodeHeader
  \/ Return \/ Reject

ParseSpec == ParseInit /\ [][ParseNext]_parse_vars
FairParseSpec == ParseSpec /\ WF_parse_vars(ParseNext)

-----------------------------------------------------------------------------
DamagedPart == IF damaged = 0 THEN "none" ELSE Units(streams)[damaged].part

(* An index that is returned describes the whole file: every stream once,  *)
(* in order, with the padding that follows it, and it is never returned    *)
(* for a file with damage outside the blocks.                              *)
ReturnedIndexIsExact ==
  phase = "returned" =>
    /\ ragged = 0
    /\ DamagedPart \in {"none", "block"}
    /\ combined_index = [s \in DOMAIN streams |->
                           [stream |-> s, padding |-> streams[s].padding]]

(* A file of one stream without padding, which is what xz writes, is       *)
(* parsed, unless it is damaged outside its blocks.                        *)
SingleStreamIsParsed ==
  (/\ Len(streams) = 1 /\ streams[1].padding = 0
   /\ ragged = 0 /\ DamagedPart \in {"none", "block"}) => phase # "rejected"

(* Parsing ends: the loop over the streams cannot go on for ever.          *)
ParsingEnds == <>(phase \in {"returned", "rejected"})
=============================================================================
