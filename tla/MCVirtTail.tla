----------------------------- MODULE MCVirtTail -----------------------------
(* One file to which the guest does anything while reads fail; one file that *)
(* grows or is deleted while any call may fail, of a local drive; and two    *)
(* files that grow or are deleted, never by a lot between two polls.         *)
EXTENDS VirtTail

MCSetups ==
  {[files |-> 1, local |-> FALSE, guestMay |-> GuestOperation, mayFail |-> {"read"},
    mtimes |-> {1, 2}, aLot |-> 1, rounds |-> 1],
   [files |-> 1, local |-> TRUE, guestMay |-> {"append", "delete"}, mayFail |-> Call,
    mtimes |-> {1}, aLot |-> 1, rounds |-> 2],
   [files |-> 2, local |-> FALSE, guestMay |-> {"append", "delete"}, mayFail |-> {},
    mtimes |-> {1}, aLot |-> 2, rounds |-> 1]}
=============================================================================
