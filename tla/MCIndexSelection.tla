-------------------------- MODULE MCIndexSelection --------------------------
(* Instances of IndexSelection for TLC.  As strings the revisions are in   *)
(* the order "10" < "1z" < "9", so that 9, the string 1z and 10 form a     *)
(* cycle.                                                                  *)
EXTENDS IndexSelection

MCRev == {[int |-> TRUE, value |-> 9, rank |-> 3],
          [int |-> TRUE, value |-> 10, rank |-> 1],
          [int |-> FALSE, value |-> 0, rank |-> 2]}
MCArch == {"i386", "i686"}
MCNormal == [a \in MCArch |-> "i386"]
=============================================================================
