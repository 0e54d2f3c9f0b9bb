------------------------------ MODULE VirtTail ------------------------------
(***************************************************************************)
(* virt-tail, tail/tail.c: do_tail() polls the disk image of a running     *)
(* guest.  Each poll launches an appliance, looks at every file named on   *)
(* the command line, displays what changed, waits, and reopens the         *)
(* libguestfs handle.  The guest goes on writing meanwhile, and SIGINT or  *)
(* SIGQUIT may arrive at any moment and run user_cancel(), which uses the  *)
(* global handle.                                                          *)
(*                                                                         *)
(* A file is a generation (each rewrite starts a new one), a size and an   *)
(* mtime; the data is the positions below the size, each a fixed run of    *)
(* lines.  The mtime is set by the guest's clock and is only ever compared *)
(* for equality.  Positions are displayed whole.                           *)
(*                                                                         *)
(* The appliance caches what it has read of the disk: it may go on seeing  *)
(* a file as it was when it was launched, or see it anew at any moment,    *)
(* also between the statns and the read of one file.                       *)
(***************************************************************************)
EXTENDS Integers

CONSTANTS
  MaxSize,        \* bound on the size of a file
  MaxGeneration,  \* bound on how often a file is rewritten
  TailSize,       \* how much guestfs_tail returns (10 lines)
  Setups          \* what is tried: a set of Setup

GuestOperation == {"append", "rewrite", "delete"}
Call == {"stat drive", "launch", "stat", "read", "reopen"}

\* files: argc; local: is there a -a drive, whose mtime can be looked at?  guestMay
\* and mayFail: what the guest does and the calls that can fail; aLot: growth beyond
\* which only the end is shown (10000 bytes); rounds: of the wait loop (10).
Setup == [files : Nat \ {0}, local : BOOLEAN, guestMay : SUBSET GuestOperation,
          mayFail : SUBSET Call, mtimes : SUBSET Nat, aLot : Nat, rounds : Nat \ {0}]

ASSUME ConstantsAssumption ==
  /\ MaxSize \in Nat \ {0}
  /\ MaxGeneration \in Nat \ {0}
  /\ TailSize \in Nat \ {0}
  /\ Setups \subseteq Setup

Pos == 0..(MaxSize - 1)

VARIABLES
  \* the environment
  guest,         \* the files on the disk image now
  setup,         \* what is tried
  drive,         \* the drive's mtime relative to time (&t), see WroteToDrive
  \* do_tail()
  pc, quit, first_iteration, prev_file_displayed,
  i,             \* the file being checked
  round,         \* i of the wait loop
  processed,
  file,          \* struct follow: last size and mtime of each file
  \* the appliance and the handles
  view,          \* the files as the appliance sees them
  stat,          \* what guestfs_statns returned for the file being displayed
  g,             \* is the handle that the global g points to "open"?
  g2,            \* the new handle of reopen_handle()
  \* what is on the terminal
  banner,        \* the file named by the last banner, 0 if there was none
  last,          \* the file whose content was displayed last, 0 if none
  seen,          \* the generation of each file displayed last, 0 if none
  shown,         \* how often each position of it was displayed
  missed,        \* files whose last display failed, was short, or came too late
  unread         \* files that were ever missed, or whose tail had grown since the stat

NrFiles == setup.files
Local == setup.local
GuestMay == setup.guestMay
MayFail == setup.mayFail
ALot == setup.aLot
Mtime == setup.mtimes
WaitRounds == setup.rounds
File == 1..NrFiles

env_vars == <<guest, setup, drive>>
handles == <<g, g2>>
screen == <<banner, last, seen, shown, missed, unread>>
vars == <<guest, setup, drive, pc, quit, first_iteration, prev_file_displayed,
          i, round, processed, file, view, stat, g, g2, banner, last, seen,
          shown, missed, unread>>

NoStat == [exists |-> FALSE, generation |-> 1, size |-> 0, mtime |-> 0]

Init ==
  /\ setup \in Setups
  /\ guest \in [File -> [exists : BOOLEAN, generation : {1}, size : 0..MaxSize,
                         mtime : Mtime]]
  /\ drive = "unchanged"
  /\ pc = "start"
  /\ quit = FALSE
  /\ first_iteration = TRUE
  /\ prev_file_displayed = 0
  /\ i = 1
  /\ round = 0
  /\ processed = 0
  /\ file = [f \in File |-> [mtime |-> 0, size |-> 0]]
  /\ view = guest
  /\ stat = NoStat
  /\ g = "open"
  /\ g2 = "none"
  /\ banner = 0
  /\ last = 0
  /\ seen = [f \in File |-> 0]
  /\ shown = [f \in File |-> [p \in Pos |-> 0]]
  /\ missed = {}
  /\ unread = {}

-----------------------------------------------------------------------------
(* The guest and the user.                                                 *)

(* The mtime of the drive after a write, compared with time t of the wait  *)
(* loop: less than 30 seconds after t, or 30 seconds or more.              *)
WroteToDrive ==
  drive' \in IF pc = "wait" THEN {"changed", "changed late"} ELSE {"changed"}

GuestSteps == UNCHANGED <<setup, pc, quit, first_iteration, prev_file_displayed,
                          i, round, processed, file, view, stat, handles, screen>>

Append(f) ==
  /\ "append" \in GuestMay
  /\ guest[f].exists
  /\ \E s \in (guest[f].size + 1)..MaxSize, m \in Mtime :
       guest' = [guest EXCEPT ![f].size = s, ![f].mtime = m]
  /\ WroteToDrive
  /\ GuestSteps

(* The file is truncated, rotated, overwritten or created anew.            *)
Rewrite(f) ==
  /\ "rewrite" \in GuestMay
  /\ guest[f].generation < MaxGeneration
  /\ \E s \in 0..MaxSize, m \in Mtime :
       guest' = [guest EXCEPT ![f] =
                   [exists |-> TRUE, generation |-> guest[f].generation + 1,
                    size |-> s, mtime |-> m]]
  /\ WroteToDrive
  /\ GuestSteps

Delete(f) ==
  /\ "delete" \in GuestMay
  /\ guest[f].exists
  /\ guest' = [guest EXCEPT ![f].exists = FALSE]
  /\ WroteToDrive
  /\ GuestSteps

(* The appliance sees a file anew.                                         *)
NewView(f) ==
  /\ pc \in {"check", "display"}
  /\ view[f] # guest[f]
  /\ view' = [view EXCEPT ![f] = guest[f]]
  /\ UNCHANGED <<env_vars, pc, quit, first_iteration, prev_file_displayed, i, round,
                 processed, file, stat, handles, screen>>

(* SIGINT or SIGQUIT once the handlers are installed: user_cancel().  On   *)
(* an open handle guestfs_user_cancel stops uploads and downloads, of      *)
(* which there are none; on one that is closed it writes to memory that is *)
(* freed, which may be harmless or a crash.                                *)
UserCancel ==
  /\ pc \notin {"exited", "crashed"}
  /\ quit' = TRUE
  /\ pc' \in IF g = "closed" THEN {pc, "crashed"} ELSE {pc}
  /\ UNCHANGED <<env_vars, first_iteration, prev_file_displayed, i, round,
                 processed, file, view, stat, handles, screen>>

-----------------------------------------------------------------------------
(* do_tail(); "return" and "fail" stand for return 0 and return -1.        *)

AtMostPc == UNCHANGED <<env_vars, quit, first_iteration, prev_file_displayed, i,
                        round, processed, file, view, stat, handles, screen>>

(* A call that fails ends the loop with an error.                          *)
Fails(where, call) ==
  /\ pc = where
  /\ call \in MayFail
  /\ pc' = "fail"
  /\ AtMostPc

CallFails ==
  \/ Local /\ (Fails("start", "stat drive") \/ Fails("wait", "stat drive"))
  \/ Fails("launch", "launch")
  \/ Fails("check", "stat")
  \/ Fails("create", "reopen")

(* The first disk_mtime().                                                 *)
Start == pc = "start" /\ pc' = "top" /\ AtMostPc

(* Mutant: the loop does not look at quit.                                 *)
Top_Mutant == pc = "top" /\ pc' = "launch" /\ AtMostPc

Top ==
  /\ pc = "top"
  /\ pc' = IF quit THEN "return" ELSE "launch"
  /\ AtMostPc

(* Add the drives, launch the appliance, inspect and mount.                *)
Launch ==
  /\ pc = "launch"
  /\ view' = guest
  /\ i' = 1
  /\ processed' = 0
  /\ pc' = "check"
  /\ UNCHANGED <<env_vars, quit, first_iteration, prev_file_displayed, round,
                 file, stat, handles, screen>>

Checking(f) == pc = "check" /\ i = f

(* ENOENT: "treat as if the file was empty size", with the time now.       *)
Missing(f) ==
  /\ Checking(f)
  /\ ~view[f].exists
  /\ \E now \in Mtime : file' = [file EXCEPT ![f] = [mtime |-> now, size |-> 0]]
  /\ i' = i + 1
  /\ UNCHANGED <<env_vars, pc, quit, first_iteration, prev_file_displayed, round,
                 processed, view, stat, handles, screen>>

Changed(f, s) == file[f].mtime # s.mtime \/ file[f].size # s.size

Unchanged(f) ==
  /\ Checking(f)
  /\ view[f].exists
  /\ ~Changed(f, view[f])
  /\ processed' = processed + 1
  /\ i' = i + 1
  /\ UNCHANGED <<env_vars, pc, quit, first_iteration, prev_file_displayed, round,
                 file, view, stat, handles, screen>>

(* The file changed and something is going to be displayed.                *)
Notice(f) ==
  /\ Checking(f)
  /\ view[f].exists
  /\ Changed(f, view[f])
  /\ stat' = view[f]
  /\ processed' = processed + 1
  /\ pc' = "display"
  /\ UNCHANGED <<env_vars, quit, first_iteration, prev_file_displayed, i, round,
                 file, view, handles, screen>>

(* The positions to display: all the new ones if the file grew a bit, up   *)
(* to the size in stat; the last few that tail finds now if it grew a lot, *)
(* shrank or stayed the same size.                                         *)
GrewALot(f) == stat.size > file[f].size + ALot
GrewABit(f) == ~GrewALot(f) /\ stat.size > file[f].size

(* Mutant: one byte too few is read.                                       *)
ToDisplay_Mutant(f) ==
  IF GrewABit(f)
  THEN {p \in Pos : file[f].size <= p /\ p < stat.size - 1 /\ p < view[f].size}
  ELSE {p \in Pos : p < view[f].size /\ p >= view[f].size - TailSize}

ToDisplay(f) ==
  IF GrewABit(f)
  THEN {p \in Pos : file[f].size <= p /\ p < stat.size /\ p < view[f].size}
  ELSE {p \in Pos : p < view[f].size /\ p >= view[f].size - TailSize}

Capped(n) == IF n > 2 THEN 2 ELSE n    \* bound: 2 stands for "more than once"

DisplayedAfter(f, positions) ==
  [p \in Pos |->
     Capped((IF seen[f] = view[f].generation THEN shown[f][p] ELSE 0)
            + (IF p \in positions THEN 1 ELSE 0))]

(* The file has been read; it may have been rewritten since statns.        *)
ReadAll(f) ==
  /\ view[f].exists
  /\ shown' = [shown EXCEPT ![f] = DisplayedAfter(f, ToDisplay(f))]
  /\ missed' = IF view[f].generation = stat.generation THEN missed \ {f} ELSE missed \cup {f}
  /\ unread' = IF view[f].generation = stat.generation
                  /\ (GrewABit(f) \/ view[f].size = stat.size)
               THEN unread ELSE unread \cup {f}

(* pread or tail fails, or pread returns less than there is.  Nobody is    *)
(* told, and the loop carries on.                                          *)
ReadLess(f) ==
  /\ "read" \in MayFail \/ ~view[f].exists
  /\ \E n \in IF GrewABit(f) /\ view[f].exists THEN 0..(stat.size - 1) ELSE {0} :
       shown' = [shown EXCEPT ![f] = DisplayedAfter(f, {p \in ToDisplay(f) : p < n})]
  /\ missed' = missed \cup {f}
  /\ unread' = unread \cup {f}

(* Mutant: a banner only if nothing has been displayed before.             *)
Banner_Mutant(f) ==
  /\ banner' = IF prev_file_displayed = 0 THEN f ELSE banner
  /\ prev_file_displayed' = f

Banner(f) ==
  /\ banner' = IF f # prev_file_displayed THEN f ELSE banner
  /\ prev_file_displayed' = f

(* Mutant: the recorded size is that of the file after it was displayed.   *)
Follow_Mutant(f) ==
  file' = [file EXCEPT ![f] = [mtime |-> stat.mtime, size |-> view[f].size]]

Follow(f) == file' = [file EXCEPT ![f] = [mtime |-> stat.mtime, size |-> stat.size]]

Display(f) ==
  /\ pc = "display" /\ i = f
  /\ Banner(f)
  /\ seen' = [seen EXCEPT ![f] = view[f].generation]
  /\ last' = f
  /\ ReadAll(f) \/ ReadLess(f)
  /\ Follow(f)
  /\ stat' = NoStat
  /\ i' = i + 1
  /\ pc' = "check"
  /\ UNCHANGED <<env_vars, quit, first_iteration, round, processed, view, handles>>

(* All files are checked.  None was found: an error the first time, an     *)
(* ordinary exit later.  Otherwise the wait loop starts: time (&t).        *)
AllChecked ==
  /\ pc = "check"
  /\ i > NrFiles
  /\ pc' = IF processed > 0 THEN "wait"
           ELSE IF first_iteration THEN "fail" ELSE "return"
  /\ round' = 0
  /\ drive' = "unchanged"
  /\ UNCHANGED <<guest, setup, quit, first_iteration, prev_file_displayed, i,
                 processed, file, view, stat, handles, screen>>

(* sleep (30), disk_mtime, and if (drvt-t < 30) break;  for a libvirt      *)
(* guest disk_mtime returns 0.                                             *)
LessThan30 == ~Local \/ drive # "changed late"

Wait ==
  /\ pc = "wait"
  /\ round' = round + 1
  /\ pc' = IF LessThan30 \/ round' = WaitRounds THEN "create" ELSE "wait"
  /\ drive' = "unchanged"
  /\ UNCHANGED <<guest, setup, quit, first_iteration, prev_file_displayed, i,
                 processed, file, view, stat, handles, screen>>

(* reopen_handle(): guestfs_create and copy the settings ...               *)
CreateHandle ==
  /\ pc = "create"
  /\ g2' = "open"
  /\ pc' = "close"
  /\ UNCHANGED <<env_vars, quit, first_iteration, prev_file_displayed, i, round,
                 processed, file, view, stat, g, screen>>

(* ... guestfs_close (g) ...                                               *)
CloseHandle ==
  /\ pc = "close"
  /\ g' = "closed"
  /\ pc' = "assign"
  /\ UNCHANGED <<env_vars, quit, first_iteration, prev_file_displayed, i, round,
                 processed, file, view, stat, g2, screen>>

(* Mutant: the global is left pointing to the closed handle.               *)
AssignHandle_Mutant ==
  /\ pc = "assign"
  /\ g2' = "none"
  /\ first_iteration' = FALSE
  /\ pc' = "top"
  /\ UNCHANGED <<env_vars, quit, prev_file_displayed, i, round, processed, file,
                 view, stat, g, screen>>

(* ... and g = g2.                                                         *)
AssignHandle ==
  /\ pc = "assign"
  /\ g' = g2
  /\ g2' = "none"
  /\ first_iteration' = FALSE
  /\ pc' = "top"
  /\ UNCHANGED <<env_vars, quit, prev_file_displayed, i, round, processed, file,
                 view, stat, screen>>

(* main() after do_tail(): close the handle ...                            *)
CloseAtEnd ==
  /\ pc \in {"return", "fail"}
  /\ g' = "closed"
  /\ pc' = "exit"
  /\ UNCHANGED <<env_vars, quit, first_iteration, prev_file_displayed, i, round,
                 processed, file, view, stat, g2, screen>>

(* ... and exit.                                                           *)
Exit == pc = "exit" /\ pc' = "exited" /\ AtMostPc

-----------------------------------------------------------------------------
Guest == \E f \in File : Append(f) \/ Rewrite(f) \/ Delete(f) \/ NewView(f)

DoTail ==
  \/ Start \/ Top \/ Launch
  \/ \E f \in File : Missing(f) \/ Unchanged(f) \/ Notice(f) \/ Display(f)
  \/ AllChecked \/ Wait
  \/ CreateHandle \/ CloseHandle \/ AssignHandle
  \/ CallFails
  \/ CloseAtEnd \/ Exit

Next == DoTail \/ Guest \/ UserCancel

Spec == Init /\ [][Next]_vars

(* virt-tail runs; the guest and the user need not do anything.            *)
FairSpec == Spec /\ WF_vars(DoTail)

-----------------------------------------------------------------------------
(* A file that is only appended to, never by a lot between two polls, is   *)
(* displayed completely and no part of it twice, however the polls, and    *)
(* the statns and the read of one poll, fall between the writes and        *)
(* whatever happens to the other files (do_tail, tail.c 364-417).  Except  *)
(* for files of which a read failed or was short, and for one that was     *)
(* empty for statns and not for tail: what tail shows then is shown again. *)
AppendsShownOnce ==
  ALot >= MaxSize =>
  \A f \in File \ unread : (guest[f].exists /\ guest[f].generation = 1) =>
    shown[f] = [p \in Pos |-> IF p < file[f].size THEN 1 ELSE 0]

(* Whatever the guest does to a file (rewrites it, shrinks it, deletes it  *)
(* and makes a new one), a change that is noticed puts the end of the file *)
(* on the terminal: as statns saw it, or as it had become when it was      *)
(* read.  Except when that read failed, was short, or found the file       *)
(* rewritten since statns.                                                 *)
EndIsShown ==
  \A f \in File \ missed : (seen[f] # 0 /\ file[f].size > 0) =>
    \E p \in Pos : p >= file[f].size - 1 /\ shown[f][p] > 0

(* With more than one file, output is attributed to the right one: the     *)
(* last banner on the terminal names the file whose content was displayed  *)
(* last, over any number of polls and handles (the comment in do_tail,     *)
(* tail.c 370-373; with a single file it says that there is no banner, and *)
(* the code prints one).                                                   *)
OutputIsUnderItsBanner == NrFiles > 1 => last = banner

(* The loop, which is meant to run for ever, ends on ^C from every point,   *)
(* also in the middle of the wait loop, and when "None of the listed files *)
(* was found in the guest, or they all get deleted": once they are gone    *)
(* for good (do_tail, tail.c 288, 420-445).  It ends in an orderly way, or *)
(* by the crash that ^C on a closed handle may be.                         *)
NoFile == \A f \in File : ~guest[f].exists
Ended == pc \in {"exited", "crashed"}
TailEnds == (quit ~> Ended) /\ ([]<>~NoFile \/ <>Ended)

(* Every poll works on an open handle, and the handle is not leaked: the   *)
(* loop holds one, reopen_handle() two for a moment.                       *)
LoopHandleIsOpen ==
  /\ pc \in {"start", "top", "launch", "check", "display", "wait", "create"}
       => g = "open" /\ g2 = "none"
  /\ pc = "assign" => g2 = "open"

=============================================================================
