----------------------------- MODULE MCGuestScan -----------------------------
(* Two guests and two threads, and one guest at a time of three (MaxThreads  *)
(* limits the pool).  Offsets: sector 63, 2048 bytes, 4K, 64K.               *)
EXTENDS GuestScan

Ext(blocks, bfree, bavail, bsize, mounts) ==
  [type |-> "ext4", mounts |-> mounts, bsize |-> bsize, blocks |-> blocks,
   bfree |-> bfree, bavail |-> bavail, files |-> 3, ffree |-> 2]
Swap == [Ext(0, 0, 0, 512, FALSE) EXCEPT !.type = "swap"]

L(starts) == [label |-> TRUE, starts |-> starts]
NoLabel == [label |-> FALSE, starts |-> <<>>]
G(addable, devices, fses) == [addable |-> addable, devices |-> devices, fses |-> fses]
Aligned == G(TRUE, <<L(<<65536>>), NoLabel>>, <<Ext(7, 3, 2, 4096, TRUE), Swap>>)
Old     == G(TRUE, <<NoLabel, L(<<32256, 4096>>)>>, <<Swap, Ext(5, 2, 1, 512, TRUE)>>)
Small   == G(TRUE, <<L(<<4096>>)>>, <<Ext(5, 5, 5, 1024, FALSE), Ext(0, 0, 0, 1024, TRUE)>>)
Odd     == G(TRUE, <<L(<<0, 2048>>)>>, <<>>)
Gone    == G(FALSE, <<>>, <<>>)

None == [program |-> "scan", drives |-> <<>>, args |-> <<>>, uuid |-> FALSE,
         quiet |-> FALSE, csv |-> FALSE, human |-> FALSE, inodes |-> FALSE]
Df == [None EXCEPT !.program = "df"]
AllGuests ==
  {None, [None EXCEPT !.uuid = TRUE, !.quiet = TRUE], [None EXCEPT !.args = <<"x">>],
   [Df EXCEPT !.uuid = TRUE, !.csv = TRUE], [Df EXCEPT !.human = TRUE],
   [Df EXCEPT !.human = TRUE, !.csv = TRUE], [Df EXCEPT !.inodes = TRUE]}
OneGuest ==
  {[None EXCEPT !.drives = <<"disk">>, !.uuid = uuid] : uuid \in BOOLEAN} \cup
  {[Df EXCEPT !.drives = drives, !.args = args] :
     drives \in {<<>>, <<"disk">>}, args \in {<<"guest">>, <<"disk", "other">>}}

MCDomains == {"a", "b", "c"}
Three == {<<Aligned, Old, Small>>, <<Old, Small, Gone>>, <<Odd, Small, Aligned>>,
          <<Aligned, Aligned, Aligned>>}
MCSetups ==
  {[opt |-> o, guest |-> [a |-> x[1], b |-> x[2], c |-> x[3]]] : o \in AllGuests, x \in Three}
  \cup {[opt |-> o, guest |-> [a |-> x]] : o \in OneGuest, x \in {Aligned, Old, Odd, Gone}}
  \cup {[opt |-> o, guest |-> <<>>] : o \in AllGuests}
=============================================================================
