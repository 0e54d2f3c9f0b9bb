---------------------------- MODULE VirtTailProofs ----------------------------
(***************************************************************************)
(* Proofs about VirtTail, for any number of files, any sizes, and whatever *)
(* the guest, the user and the library do.                                 *)
(***************************************************************************)
EXTENDS VirtTail, TLAPS

-----------------------------------------------------------------------------
(* The inductive invariant, in named parts.                                *)

Place == {"start", "top", "launch", "check", "display", "wait", "create", "close",
          "assign", "return", "fail", "exit", "exited", "crashed"}
GuestFile == [exists : BOOLEAN, generation : 1..MaxGeneration, size : 0..MaxSize,
              mtime : Nat]

GuestFiles == [File -> GuestFile]
FollowFiles == [File -> [mtime : Nat, size : 0..MaxSize]]
SeenFiles == [File -> 0..MaxGeneration]
ShownFiles == [File -> [Pos -> 0..2]]

TypeOK ==
  /\ setup \in Setups
  /\ guest \in GuestFiles
  /\ drive \in {"unchanged", "changed", "changed late"}
  /\ pc \in Place
  /\ quit \in BOOLEAN /\ first_iteration \in BOOLEAN
  /\ prev_file_displayed \in Nat /\ banner \in Nat /\ last \in Nat
  /\ i \in Nat /\ round \in Nat /\ processed \in Nat
  /\ file \in FollowFiles
  /\ view \in GuestFiles
  /\ stat \in GuestFile
  /\ g \in {"open", "closed"}
  /\ g2 \in {"none", "open"}
  /\ seen \in SeenFiles
  /\ shown \in ShownFiles
  /\ missed \subseteq File /\ unread \subseteq File

(* The handles, also inside reopen_handle().                               *)
HandleInv == /\ LoopHandleIsOpen
             /\ pc = "close" => g = "open" /\ g2 = "open"

(* prev_file_displayed is the file of the last banner, with one file too.  *)
BannerInv == banner = prev_file_displayed /\ last = banner

(* A file seen earlier and the same file later.  Within a generation it    *)
(* only grows, its mtime changes only together with its size, and once it  *)
(* is deleted it does not come back.                                       *)
Older(a, b) ==
  /\ a.generation <= b.generation
  /\ a.generation = b.generation =>
       /\ a.size <= b.size
       /\ a.size = b.size => a.mtime = b.mtime
       /\ b.exists => a.exists

ViewInv == \A f \in File : Older(view[f], guest[f])

(* A file that has existed all the time and was never rewritten.  The size *)
(* that was recorded is not larger than the one that is seen later, and    *)
(* with the same size comes the same mtime.                                *)
Original(f) == guest[f].exists /\ guest[f].generation = 1

Tracks(f, s) ==
  Original(f) =>
    /\ file[f].size <= s.size
    /\ file[f].size = s.size /\ s.size > 0 => file[f].mtime = s.mtime

GrowthInv == \A f \in File : Tracks(f, view[f])

(* Between statns and the read.                                            *)
DisplayInv ==
  pc = "display" =>
    /\ i \in File
    /\ Older(stat, view[i])
    /\ Changed(i, stat)
    /\ Tracks(i, stat)

(* What was displayed of it is of its only generation.                     *)
Seen(f) == Original(f) => seen[f] = 1 \/ (seen[f] = 0 /\ file[f].size = 0)
SeenInv == \A f \in File : Seen(f)

(* What EndIsShown and AppendsShownOnce say of one file.                   *)
EndShown(f) ==
  seen[f] # 0 /\ file[f].size > 0 => \E p \in Pos : p >= file[f].size - 1 /\ shown[f][p] > 0
Exact(size) == [p \in Pos |-> IF p < size THEN 1 ELSE 0]
ShownOnce(f) == ALot >= MaxSize /\ Original(f) => shown[f] = Exact(file[f].size)

IInv == TypeOK /\ HandleInv /\ BannerInv /\ ViewInv /\ GrowthInv /\ DisplayInv
          /\ SeenInv /\ EndIsShown /\ AppendsShownOnce

-----------------------------------------------------------------------------
(* What the setup says never changes.                                      *)
LEMMA SetupFixed ==
  [Next]_vars => /\ setup' = setup /\ File' = File
                 /\ GuestFiles' = GuestFiles /\ FollowFiles' = FollowFiles
                 /\ SeenFiles' = SeenFiles /\ ShownFiles' = ShownFiles
<1> SUFFICES ASSUME [Next]_vars
             PROVE  setup' = setup
  BY DEF File, NrFiles, GuestFiles, FollowFiles, SeenFiles, ShownFiles
<1> USE DEF env_vars
<1>1. CASE Guest
  BY <1>1 DEF Guest, Append, Rewrite, Delete, GuestSteps, NewView
<1>2. CASE Start \/ Top \/ CallFails \/ Launch
  BY <1>2 DEF Start, Top, CallFails, Fails, AtMostPc, Launch
<1>3. ASSUME NEW f \in File, Missing(f) \/ Unchanged(f) \/ Notice(f) \/ Display(f)
      PROVE  setup' = setup
  BY <1>3 DEF Missing, Unchanged, Notice, Display
<1>4. CASE AllChecked \/ Wait \/ CreateHandle \/ CloseHandle \/ AssignHandle
  BY <1>4 DEF AllChecked, Wait, CreateHandle, CloseHandle, AssignHandle
<1>5. CASE CloseAtEnd \/ Exit \/ UserCancel \/ UNCHANGED vars
  BY <1>5 DEF CloseAtEnd, Exit, AtMostPc, UserCancel, vars
<1> QED
  BY <1>1, <1>2, <1>3, <1>4, <1>5 DEF Next, DoTail

LEMMA SetupType ==
  ASSUME setup \in Setups
  PROVE  /\ NrFiles \in Nat \ {0} /\ File = 1..NrFiles
         /\ Mtime \subseteq Nat /\ ALot \in Nat
  BY ConstantsAssumption DEF ConstantsAssumption, Setup, NrFiles, Mtime, ALot, File

LEMMA NumberTypes ==
  ASSUME TypeOK
  PROVE  /\ i \in Nat /\ round \in Nat /\ processed \in Nat
         /\ NrFiles \in Nat \ {0} /\ File = 1..NrFiles /\ File \subseteq Nat
         /\ Mtime \subseteq Nat /\ ALot \in Nat
         /\ MaxGeneration \in Nat \ {0} /\ MaxSize \in Nat \ {0}
         /\ TailSize \in Nat \ {0}
<1>1. setup \in Setups /\ i \in Nat /\ round \in Nat /\ processed \in Nat
  BY DEF TypeOK
<1>2. File \subseteq Nat
  BY <1>1, SetupType
<1> QED
  BY <1>1, <1>2, SetupType, ConstantsAssumption DEF ConstantsAssumption

(* The type of a file after a change by the guest.                         *)
LEMMA GuestChanges ==
  ASSUME TypeOK, NEW f \in File, NEW r \in GuestFile
  PROVE  [guest EXCEPT ![f] = r] \in GuestFiles
  BY DEF TypeOK, GuestFiles

LEMMA NextGeneration ==
  ASSUME NEW n \in 1..MaxGeneration, n < MaxGeneration
  PROVE  n + 1 \in 1..MaxGeneration
  BY ConstantsAssumption DEF ConstantsAssumption

LEMMA AppendedType ==
  ASSUME NEW r \in GuestFile, NEW s \in 0..MaxSize, NEW m \in Nat
  PROVE  [r EXCEPT !.size = s, !.mtime = m] \in GuestFile
  BY DEF GuestFile

LEMMA FieldTypes ==
  ASSUME TypeOK, NEW f \in File
  PROVE  /\ guest[f] \in GuestFile /\ view[f] \in GuestFile
         /\ guest[f].exists \in BOOLEAN /\ guest[f].generation \in 1..MaxGeneration
         /\ guest[f].size \in 0..MaxSize /\ guest[f].mtime \in Nat
         /\ view[f].exists \in BOOLEAN /\ view[f].generation \in 1..MaxGeneration
         /\ view[f].size \in 0..MaxSize /\ view[f].mtime \in Nat
         /\ file[f].mtime \in Nat /\ file[f].size \in 0..MaxSize
         /\ stat.size \in 0..MaxSize /\ stat.mtime \in Nat
         /\ stat.generation \in 1..MaxGeneration
<1>1. guest[f] \in GuestFile /\ view[f] \in GuestFile /\ stat \in GuestFile
  BY DEF TypeOK, GuestFiles
<1>2. file[f] \in [mtime : Nat, size : 0..MaxSize]
  BY DEF TypeOK, FollowFiles
<1> QED
  BY <1>1, <1>2 DEF GuestFile

(* What is recorded of a file.                                             *)
LEMMA FollowChanges ==
  ASSUME TypeOK, NEW f \in File, NEW m \in Nat, NEW s \in 0..MaxSize
  PROVE  [file EXCEPT ![f] = [mtime |-> m, size |-> s]] \in FollowFiles
  BY DEF TypeOK, FollowFiles

(* The counts that are displayed for a file stay counts.                   *)
LEMMA DisplayedType ==
  ASSUME TypeOK, NEW f \in File, NEW positions
  PROVE  DisplayedAfter(f, positions) \in [Pos -> 0..2]
<1>1. ASSUME NEW p \in Pos
      PROVE  shown[f][p] \in 0..2
  BY DEF TypeOK, ShownFiles
<1>2. ASSUME NEW n \in Nat
      PROVE  Capped(n) \in 0..2
  BY DEF Capped
<1>3. ASSUME NEW p \in Pos
      PROVE  (IF seen[f] = view[f].generation THEN shown[f][p] ELSE 0)
               + (IF p \in positions THEN 1 ELSE 0) \in Nat
  <2>1. (IF seen[f] = view[f].generation THEN shown[f][p] ELSE 0) \in Nat
    BY <1>1
  <2> QED
    BY <2>1
<1> QED
  BY <1>2, <1>3 DEF DisplayedAfter

LEMMA TypeStep == TypeOK /\ HandleInv /\ [Next]_vars => TypeOK'
<1> SUFFICES ASSUME TypeOK, HandleInv, [Next]_vars
             PROVE  TypeOK'
  OBVIOUS
<1>0. /\ setup' = setup /\ File' = File
      /\ GuestFiles' = GuestFiles /\ FollowFiles' = FollowFiles
      /\ SeenFiles' = SeenFiles /\ ShownFiles' = ShownFiles
  BY SetupFixed
<1> USE DEF Place, env_vars, handles, screen
<1>1. ASSUME NEW f \in File, Append(f)
      PROVE  TypeOK'
  <2>1. PICK s \in (guest[f].size + 1)..MaxSize, m \in Mtime :
          guest' = [guest EXCEPT ![f].size = s, ![f].mtime = m]
    BY <1>1 DEF Append
  <2>2. s \in 0..MaxSize /\ m \in Nat
    BY NumberTypes, FieldTypes
  <2>3. [guest[f] EXCEPT !.size = s, !.mtime = m] \in GuestFile
    BY <2>2, FieldTypes, AppendedType
  <2>4. guest' = [guest EXCEPT ![f] = [guest[f] EXCEPT !.size = s, !.mtime = m]]
    BY <2>1
  <2>5. guest' \in GuestFiles
    BY <2>3, <2>4, GuestChanges
  <2> QED
    BY <1>0, <1>1, <2>5 DEF TypeOK, Append, WroteToDrive, GuestSteps
<1>2. ASSUME NEW f \in File, Rewrite(f)
      PROVE  TypeOK'
  <2>1. PICK s \in 0..MaxSize, m \in Mtime :
          guest' = [guest EXCEPT ![f] = [exists |-> TRUE,
                      generation |-> guest[f].generation + 1, size |-> s, mtime |-> m]]
    BY <1>2 DEF Rewrite
  <2>2. guest[f].generation < MaxGeneration /\ m \in Nat
    BY <1>2, NumberTypes DEF Rewrite
  <2>3. guest[f].generation + 1 \in 1..MaxGeneration
    BY <2>2, FieldTypes, NextGeneration
  <2>4. guest' \in GuestFiles
    BY <2>1, <2>2, <2>3, GuestChanges DEF GuestFile
  <2> QED
    BY <1>0, <1>2, <2>4 DEF TypeOK, Rewrite, WroteToDrive, GuestSteps
<1>3. ASSUME NEW f \in File, Delete(f)
      PROVE  TypeOK'
  <2>1. guest' \in GuestFiles
    BY <1>3 DEF Delete, TypeOK, GuestFiles, GuestFile
  <2> QED
    BY <1>0, <1>3, <2>1 DEF TypeOK, Delete, WroteToDrive, GuestSteps
<1>4. ASSUME NEW f \in File, Missing(f)
      PROVE  TypeOK'
  <2>1. PICK now \in Mtime : file' = [file EXCEPT ![f] = [mtime |-> now, size |-> 0]]
    BY <1>4 DEF Missing
  <2>2. now \in Nat /\ 0 \in 0..MaxSize /\ i + 1 \in Nat
    BY NumberTypes
  <2>3. file' \in FollowFiles
    BY <2>1, <2>2, FollowChanges
  <2> QED
    BY <1>0, <1>4, <2>2, <2>3 DEF TypeOK, Missing
<1>5. ASSUME NEW f \in File, Unchanged(f)
      PROVE  TypeOK'
  <2>1. i + 1 \in Nat /\ processed + 1 \in Nat
    BY NumberTypes
  <2> QED
    BY <1>0, <1>5, <2>1 DEF TypeOK, Unchanged
<1>6. ASSUME NEW f \in File, Display(f)
      PROVE  TypeOK'
  <2>1. f \in Nat /\ i + 1 \in Nat
    BY NumberTypes
  <2>2. file' \in FollowFiles
    BY <1>6, FieldTypes, FollowChanges DEF Display, Follow
  <2>3. view[f].generation \in 0..MaxGeneration
    BY FieldTypes, NumberTypes
  <2>4. seen' \in SeenFiles
    BY <1>6, <2>3 DEF TypeOK, SeenFiles, Display
  <2>5. PICK positions : shown' = [shown EXCEPT ![f] = DisplayedAfter(f, positions)]
    BY <1>6 DEF Display, ReadAll, ReadLess
  <2>6. shown' \in ShownFiles
    BY <2>5, DisplayedType DEF TypeOK, ShownFiles
  <2>7. missed' \subseteq File /\ unread' \subseteq File
    BY <1>6 DEF TypeOK, Display, ReadAll, ReadLess
  <2>8. banner' \in Nat /\ prev_file_displayed' \in Nat /\ last' \in Nat
    BY <1>6, <2>1 DEF TypeOK, Display, Banner
  <2>9. stat' \in GuestFile'
    BY <1>6, NumberTypes DEF Display, NoStat, GuestFile
  <2> QED
    BY <1>0, <1>6, <2>1, <2>2, <2>4, <2>6, <2>7, <2>8, <2>9 DEF TypeOK, Display
<1>7. CASE Start
  BY <1>0, <1>7 DEF TypeOK, Start, AtMostPc
<1>8. CASE Top
  BY <1>0, <1>8 DEF TypeOK, Top, AtMostPc
<1>9. CASE Launch
  BY <1>0, <1>9 DEF TypeOK, Launch
<1>10. CASE AllChecked
  BY <1>0, <1>10 DEF TypeOK, AllChecked
<1>11. CASE Wait
  <2>1. pc' \in {"create", "wait"}
    BY <1>11 DEF Wait
  <2>2. round' \in Nat
    BY <1>11, NumberTypes DEF Wait
  <2> QED
    BY <1>0, <1>11, <2>1, <2>2 DEF TypeOK, Wait
<1>12. CASE CreateHandle
  BY <1>0, <1>12 DEF TypeOK, CreateHandle
<1>13. CASE CloseHandle
  BY <1>0, <1>13 DEF TypeOK, CloseHandle
<1>14. CASE AssignHandle
  BY <1>0, <1>14 DEF TypeOK, AssignHandle, HandleInv, LoopHandleIsOpen
<1>15. CASE CallFails
  BY <1>0, <1>15 DEF TypeOK, CallFails, Fails, AtMostPc
<1>16. CASE CloseAtEnd \/ Exit
  BY <1>0, <1>16 DEF TypeOK, CloseAtEnd, Exit, AtMostPc
<1>17. CASE UserCancel
  BY <1>0, <1>17 DEF TypeOK, UserCancel
<1>18. CASE UNCHANGED vars
  BY <1>0, <1>18 DEF TypeOK, vars
<1>19. ASSUME NEW f \in File, NewView(f)
      PROVE  TypeOK'
  <2>1. view' \in GuestFiles
    BY <1>19, FieldTypes DEF NewView, TypeOK, GuestFiles
  <2> QED
    BY <1>0, <1>19, <2>1 DEF TypeOK, NewView
<1>20. ASSUME NEW f \in File, Notice(f)
      PROVE  TypeOK'
  <2>1. processed + 1 \in Nat /\ view[f] \in GuestFile
    BY NumberTypes, FieldTypes
  <2> QED
    BY <1>0, <1>20, <2>1 DEF TypeOK, Notice
<1> QED
  BY <1>1, <1>2, <1>3, <1>4, <1>5, <1>6, <1>7, <1>8, <1>9, <1>10, <1>11,
     <1>12, <1>13, <1>14, <1>15, <1>16, <1>17, <1>18, <1>19, <1>20
     DEF Next, DoTail, Guest

(* Only reopen_handle() and the end of main change the handles.            *)
LEMMA HandleStep == HandleInv /\ [Next]_vars => HandleInv'
<1> SUFFICES ASSUME HandleInv, [Next]_vars
             PROVE  HandleInv'
  OBVIOUS
<1> USE DEF HandleInv, LoopHandleIsOpen, env_vars, handles, screen
<1>1. ASSUME NEW f \in File, Append(f)
      PROVE  HandleInv'
  BY <1>1 DEF Append, WroteToDrive, GuestSteps
<1>2. ASSUME NEW f \in File, Rewrite(f)
      PROVE  HandleInv'
  BY <1>2 DEF Rewrite, WroteToDrive, GuestSteps
<1>3. ASSUME NEW f \in File, Delete(f)
      PROVE  HandleInv'
  BY <1>3 DEF Delete, WroteToDrive, GuestSteps
<1>4. ASSUME NEW f \in File, Missing(f)
      PROVE  HandleInv'
  BY <1>4 DEF Missing, Checking
<1>5. ASSUME NEW f \in File, Unchanged(f)
      PROVE  HandleInv'
  BY <1>5 DEF Unchanged, Checking
<1>6. ASSUME NEW f \in File, Display(f)
      PROVE  HandleInv'
  BY <1>6 DEF Display
<1>7. CASE Start
  BY <1>7 DEF Start, AtMostPc
<1>8. CASE Top
  BY <1>8 DEF Top, AtMostPc
<1>9. CASE Launch
  BY <1>9 DEF Launch
<1>10. CASE AllChecked
  BY <1>10 DEF AllChecked
<1>11. CASE Wait
  BY <1>11 DEF Wait
<1>12. CASE CreateHandle
  BY <1>12 DEF CreateHandle
<1>13. CASE CloseHandle
  BY <1>13 DEF CloseHandle
<1>14. CASE AssignHandle
  BY <1>14 DEF AssignHandle
<1>15. CASE CallFails
  BY <1>15 DEF CallFails, Fails, AtMostPc
<1>16. CASE CloseAtEnd \/ Exit
  BY <1>16 DEF CloseAtEnd, Exit, AtMostPc
<1>17. CASE UserCancel
  BY <1>17 DEF UserCancel
<1>18. CASE UNCHANGED vars
  BY <1>18 DEF vars
<1>19. ASSUME NEW f \in File, NewView(f)
      PROVE  HandleInv'
  BY <1>19 DEF NewView
<1>20. ASSUME NEW f \in File, Notice(f)
      PROVE  HandleInv'
  BY <1>20 DEF Notice, Checking
<1> QED
  BY <1>1, <1>2, <1>3, <1>4, <1>5, <1>6, <1>7, <1>8, <1>9, <1>10, <1>11,
     <1>12, <1>13, <1>14, <1>15, <1>16, <1>17, <1>18, <1>19, <1>20
     DEF Next, DoTail, Guest

(* A banner is printed exactly when the file changes.                      *)
LEMMA BannerStep == BannerInv /\ [Next]_vars => BannerInv'
<1> SUFFICES ASSUME BannerInv, [Next]_vars
             PROVE  BannerInv'
  OBVIOUS
<1> USE DEF BannerInv, env_vars, handles, screen
<1>1. ASSUME NEW f \in File, Append(f)
      PROVE  BannerInv'
  BY <1>1 DEF Append, WroteToDrive, GuestSteps
<1>2. ASSUME NEW f \in File, Rewrite(f)
      PROVE  BannerInv'
  BY <1>2 DEF Rewrite, WroteToDrive, GuestSteps
<1>3. ASSUME NEW f \in File, Delete(f)
      PROVE  BannerInv'
  BY <1>3 DEF Delete, WroteToDrive, GuestSteps
<1>4. ASSUME NEW f \in File, Missing(f)
      PROVE  BannerInv'
  BY <1>4 DEF Missing, Checking
<1>5. ASSUME NEW f \in File, Unchanged(f)
      PROVE  BannerInv'
  BY <1>5 DEF Unchanged, Checking
<1>6. ASSUME NEW f \in File, Display(f)
      PROVE  BannerInv'
  BY <1>6 DEF Display, Banner
<1>7. CASE Start
  BY <1>7 DEF Start, AtMostPc
<1>8. CASE Top
  BY <1>8 DEF Top, AtMostPc
<1>9. CASE Launch
  BY <1>9 DEF Launch
<1>10. CASE AllChecked
  BY <1>10 DEF AllChecked
<1>11. CASE Wait
  BY <1>11 DEF Wait
<1>12. CASE CreateHandle
  BY <1>12 DEF CreateHandle
<1>13. CASE CloseHandle
  BY <1>13 DEF CloseHandle
<1>14. CASE AssignHandle
  BY <1>14 DEF AssignHandle
<1>15. CASE CallFails
  BY <1>15 DEF CallFails, Fails, AtMostPc
<1>16. CASE CloseAtEnd \/ Exit
  BY <1>16 DEF CloseAtEnd, Exit, AtMostPc
<1>17. CASE UserCancel
  BY <1>17 DEF UserCancel
<1>18. CASE UNCHANGED vars
  BY <1>18 DEF vars
<1>19. ASSUME NEW f \in File, NewView(f)
      PROVE  BannerInv'
  BY <1>19 DEF NewView
<1>20. ASSUME NEW f \in File, Notice(f)
      PROVE  BannerInv'
  BY <1>20 DEF Notice, Checking
<1> QED
  BY <1>1, <1>2, <1>3, <1>4, <1>5, <1>6, <1>7, <1>8, <1>9, <1>10, <1>11,
     <1>12, <1>13, <1>14, <1>15, <1>16, <1>17, <1>18, <1>19, <1>20
     DEF Next, DoTail, Guest

-----------------------------------------------------------------------------
(* What is displayed.  Most steps leave the files, what the appliance sees *)
(* of them and the terminal alone.                                         *)

Quiet == /\ UNCHANGED <<guest, view, file, stat, seen, shown, missed, unread>>
         /\ pc' = "display" => pc = "display" /\ i' = i

(* Sees anew some files, none of them while it is displayed ...            *)
Sees == /\ UNCHANGED <<guest, file, stat, seen, shown, missed, unread>>
        /\ pc' = "display" => pc = "display" /\ i' = i
        /\ \A h \in File : view'[h] = view[h] \/ view'[h] = guest[h]

(* ... or changes a file.                                                  *)
GuestStep(f) == Append(f) \/ Rewrite(f) \/ Delete(f)

LEMMA StepKinds ==
  ASSUME TypeOK, [Next]_vars
  PROVE  \/ \E f \in File : GuestStep(f) \/ Missing(f) \/ Notice(f) \/ Display(f)
         \/ Sees \/ Quiet
<1> USE DEF Quiet, env_vars, screen
<1>1. CASE Start \/ Top \/ CallFails
  BY <1>1 DEF Start, Top, CallFails, Fails, AtMostPc
<1>2. ASSUME NEW f \in File, Unchanged(f)
      PROVE  Quiet
  BY <1>2 DEF Unchanged, Checking
<1>3. CASE AllChecked \/ Wait
  BY <1>3 DEF AllChecked, Wait
<1>4. CASE CreateHandle \/ CloseHandle \/ AssignHandle
  BY <1>4 DEF CreateHandle, CloseHandle, AssignHandle
<1>5. CASE CloseAtEnd \/ Exit \/ UserCancel \/ UNCHANGED vars
  BY <1>5 DEF CloseAtEnd, Exit, AtMostPc, UserCancel, vars
<1>6. CASE Launch
  BY <1>6 DEF Launch, Sees
<1>7. ASSUME NEW f \in File, NewView(f)
      PROVE  Sees
  BY <1>7 DEF NewView, Sees, TypeOK, GuestFiles
<1> QED
  BY <1>1, <1>2, <1>3, <1>4, <1>5, <1>6, <1>7 DEF Next, DoTail, Guest, GuestStep

LEMMA GuestKeeps ==
  ASSUME NEW f \in File, GuestStep(f)
  PROVE  UNCHANGED <<view, file, stat, pc, i, seen, shown, missed, unread>>
  BY DEF GuestStep, Append, Rewrite, Delete, GuestSteps, screen

(* What a step on one file does to it, and that it leaves the others alone. *)
LEMMA AppendEffect ==
  ASSUME TypeOK, NEW f \in File, Append(f)
  PROVE  /\ guest[f].exists
         /\ guest'[f].exists = guest[f].exists /\ guest'[f].generation = guest[f].generation
         /\ guest'[f].size \in Int /\ guest'[f].size > guest[f].size
         /\ \A h \in File : h # f => guest'[h] = guest[h]
<1>1. guest \in [File -> GuestFile] /\ guest[f] \in GuestFile /\ guest[f].size \in 0..MaxSize
  BY FieldTypes DEF TypeOK, GuestFiles
<1>2. PICK s \in (guest[f].size + 1)..MaxSize, m \in Mtime :
        guest' = [guest EXCEPT ![f].size = s, ![f].mtime = m]
  BY DEF Append
<1>3. guest'[f] = [guest[f] EXCEPT !.size = s, !.mtime = m]
  BY <1>1, <1>2
<1>4. s \in Int /\ s > guest[f].size
  BY <1>1, <1>2, NumberTypes
<1>5. guest'[f].exists = guest[f].exists /\ guest'[f].generation = guest[f].generation
        /\ guest'[f].size = s
  BY <1>1, <1>3 DEF GuestFile
<1>6. \A h \in File : h # f => guest'[h] = guest[h]
  BY <1>1, <1>2
<1> QED
  BY <1>4, <1>5, <1>6 DEF Append

(* Whatever the guest does to a file, it is the same file later; and one   *)
(* that still has never been touched had not been before.                  *)
LEMMA GuestEffect ==
  ASSUME TypeOK, NEW f \in File, GuestStep(f), NEW h \in File
  PROVE  Older(guest[h], guest'[h]) /\ (Original(h)' => Original(h))
<1>1. guest \in [File -> GuestFile] /\ guest[h] \in GuestFile
      /\ guest[h].generation \in 1..MaxGeneration /\ guest[h].size \in 0..MaxSize
  BY FieldTypes DEF TypeOK, GuestFiles
<1>2. CASE guest'[h] = guest[h]
  BY <1>1, <1>2 DEF Older, Original
<1>3. CASE h = f /\ Append(f)
  BY <1>1, <1>3, AppendEffect DEF Older, Original
<1>4. CASE h = f /\ Rewrite(f)
  <2>1. guest'[f].generation = guest[f].generation + 1
    BY <1>1, <1>4 DEF Rewrite
  <2> QED
    BY <1>1, <1>4, <2>1 DEF Older, Original
<1>5. CASE h = f /\ Delete(f)
  <2>1. guest'[f] = [guest[f] EXCEPT !.exists = FALSE]
    BY <1>1, <1>5 DEF Delete
  <2>2. /\ guest'[f].exists = FALSE /\ guest'[f].generation = guest[f].generation
        /\ guest'[f].size = guest[f].size /\ guest'[f].mtime = guest[f].mtime
    BY <1>1, <1>5, <2>1 DEF GuestFile
  <2> QED
    BY <1>1, <1>5, <2>2 DEF Older, Original
<1>6. CASE h # f
  <2>1. guest'[h] = guest[h]
    BY <1>1, <1>6, AppendEffect DEF GuestStep, Rewrite, Delete
  <2> QED
    BY <1>2, <2>1
<1> QED
  BY <1>3, <1>4, <1>5, <1>6 DEF GuestStep

LEMMA MissingEffect ==
  ASSUME TypeOK, NEW f \in File, Missing(f)
  PROVE  /\ ~view[f].exists /\ file'[f].size = 0 /\ pc' # "display"
         /\ UNCHANGED <<guest, view, seen, shown, missed, unread>>
         /\ \A h \in File : h # f => file'[h] = file[h]
<1>1. /\ ~view[f].exists /\ pc' # "display"
      /\ UNCHANGED <<guest, view, seen, shown, missed, unread>>
  BY DEF Missing, Checking, env_vars, screen
<1>2. PICK now \in Mtime : file' = [file EXCEPT ![f] = [mtime |-> now, size |-> 0]]
  BY DEF Missing
<1>3. file'[f] = [mtime |-> now, size |-> 0] /\ \A h \in File : h # f => file'[h] = file[h]
  BY <1>2 DEF TypeOK, FollowFiles
<1> QED
  BY <1>1, <1>3

LEMMA NoticeEffect ==
  ASSUME NEW f \in File, Notice(f)
  PROVE  /\ i = f /\ i' = f /\ stat' = view[f] /\ Changed(f, view[f])
         /\ UNCHANGED <<guest, view, file, seen, shown, missed, unread>>
  BY DEF Notice, Checking, env_vars, screen

LEMMA DisplayEffect ==
  ASSUME TypeOK, NEW f \in File, Display(f)
  PROVE  /\ pc = "display" /\ i = f /\ pc' # "display"
         /\ UNCHANGED <<guest, view>>
         /\ file'[f].mtime = stat.mtime /\ file'[f].size = stat.size
         /\ seen'[f] = view[f].generation
         /\ f \notin missed' \/ f \notin unread' =>
              /\ shown'[f] = DisplayedAfter(f, ToDisplay(f))
              /\ view[f].generation = stat.generation
         /\ f \notin unread' =>
              /\ f \notin unread
              /\ GrewABit(f) \/ view[f].size = stat.size
         /\ \A h \in File : h # f =>
              /\ file'[h] = file[h] /\ seen'[h] = seen[h] /\ shown'[h] = shown[h]
              /\ h \in missed' <=> h \in missed
              /\ h \in unread' <=> h \in unread
<1>1. pc = "display" /\ i = f /\ pc' # "display" /\ UNCHANGED <<guest, view>>
  BY DEF Display, env_vars
<1>2. /\ seen'[f] = view[f].generation
      /\ \A h \in File : h # f => seen'[h] = seen[h]
  BY DEF Display, TypeOK, SeenFiles
<1>3. /\ file'[f] = [mtime |-> stat.mtime, size |-> stat.size]
      /\ \A h \in File : h # f => file'[h] = file[h]
  BY DEF Display, Follow, TypeOK, FollowFiles
<1>4. file'[f].mtime = stat.mtime /\ file'[f].size = stat.size
  BY <1>3
<1>5. CASE ReadLess(f)
  <2>1. f \in missed' /\ f \in unread'
    BY <1>5 DEF ReadLess
  <2>2. \A h \in File : h # f => (h \in missed' <=> h \in missed) /\ (h \in unread' <=> h \in unread)
    BY <1>5 DEF ReadLess
  <2>3. \A h \in File : h # f => shown'[h] = shown[h]
    BY <1>5 DEF ReadLess, TypeOK, ShownFiles
  <2> QED
    BY <1>1, <1>2, <1>3, <1>4, <2>1, <2>2, <2>3
<1>6. CASE ReadAll(f)
  <2>1. shown'[f] = DisplayedAfter(f, ToDisplay(f)) /\ \A h \in File : h # f => shown'[h] = shown[h]
    BY <1>6 DEF ReadAll, TypeOK, ShownFiles
  <2>2. /\ f \notin missed' => view[f].generation = stat.generation
        /\ \A h \in File : h # f => (h \in missed' <=> h \in missed)
    BY <1>6 DEF ReadAll
  <2>3. /\ f \notin unread' => /\ view[f].generation = stat.generation
                               /\ GrewABit(f) \/ view[f].size = stat.size
                               /\ f \notin unread
        /\ \A h \in File : h # f => (h \in unread' <=> h \in unread)
    BY <1>6 DEF ReadAll
  <2> QED
    BY <1>1, <1>2, <1>3, <1>4, <2>1, <2>2, <2>3
<1> QED
  BY <1>5, <1>6 DEF Display

-----------------------------------------------------------------------------
(* Older is an order.                                                      *)
LEMMA OlderReflexive ==
  ASSUME NEW a \in GuestFile
  PROVE  Older(a, a)
<1>1. a.generation \in Int /\ a.size \in Int
  BY DEF GuestFile
<1> QED
  BY <1>1 DEF Older

LEMMA OlderTransitive ==
  ASSUME NEW a \in GuestFile, NEW b \in GuestFile, NEW c \in GuestFile,
         Older(a, b), Older(b, c)
  PROVE  Older(a, c)
<1>1. /\ a.generation \in Int /\ b.generation \in Int /\ c.generation \in Int
      /\ a.size \in Int /\ b.size \in Int /\ c.size \in Int
  BY DEF GuestFile
<1>2. a.generation <= c.generation
  BY <1>1 DEF Older
<1>3. ASSUME a.generation = c.generation
      PROVE  /\ a.size <= c.size
             /\ a.size = c.size => a.mtime = c.mtime
             /\ c.exists => a.exists
  <2>1. a.generation = b.generation /\ b.generation = c.generation
    BY <1>1, <1>3 DEF Older
  <2>2. a.size <= b.size /\ b.size <= c.size
    BY <2>1 DEF Older
  <2>3. a.size = c.size => a.size = b.size /\ b.size = c.size
    BY <1>1, <2>2
  <2> QED
    BY <1>1, <2>1, <2>2, <2>3 DEF Older
<1> QED
  BY <1>2, <1>3 DEF Older

(* Of a file that was never touched, an older sight is of the same.        *)
LEMMA OriginalSeen ==
  ASSUME TypeOK, ViewInv, NEW f \in File, Original(f)
  PROVE  view[f].exists /\ view[f].generation = 1
<1>1. Older(view[f], guest[f]) /\ view[f].generation \in 1..MaxGeneration
  BY FieldTypes DEF ViewInv
<1> QED
  BY <1>1, NumberTypes DEF Older, Original

LEMMA ViewStep ==
  TypeOK /\ TypeOK' /\ ViewInv /\ [Next]_vars => ViewInv'
<1> SUFFICES ASSUME TypeOK, TypeOK', ViewInv, [Next]_vars, NEW h \in File
             PROVE  Older(view[h], guest[h])'
  BY SetupFixed DEF ViewInv
<1>1. /\ Older(view[h], guest[h])
      /\ guest[h] \in GuestFile /\ view[h] \in GuestFile
      /\ guest'[h] \in GuestFile /\ view'[h] \in GuestFile
  <2>1. File' = File /\ GuestFiles' = GuestFiles
    BY SetupFixed
  <2> QED
    BY <2>1, FieldTypes DEF ViewInv, TypeOK, GuestFiles
<1>2. ASSUME NEW f \in File, GuestStep(f)
      PROVE  Older(view'[h], guest'[h])
  <2>1. Older(guest[h], guest'[h]) /\ view' = view
    BY <1>2, GuestEffect, GuestKeeps
  <2> QED
    BY <1>1, <2>1, OlderTransitive
<1>3. ASSUME NEW f \in File, Missing(f) \/ Notice(f) \/ Display(f)
      PROVE  Older(view'[h], guest'[h])
  BY <1>1, <1>3, MissingEffect, NoticeEffect, DisplayEffect
<1>4. CASE Sees
  BY <1>1, <1>4, OlderReflexive DEF Sees
<1>5. CASE Quiet
  BY <1>1, <1>5 DEF Quiet
<1> QED
  BY <1>2, <1>3, <1>4, <1>5, StepKinds

(* What was recorded stays in order with what is seen later.               *)
LEMMA TracksLater ==
  ASSUME NEW f \in File, NEW a \in GuestFile, NEW b \in GuestFile,
         Older(a, b), a.generation = b.generation, Tracks(f, a),
         file[f].size \in Int
  PROVE  Tracks(f, b)
<1>1. /\ a.size \in Int /\ b.size \in Int
      /\ a.size <= b.size /\ (a.size = b.size => a.mtime = b.mtime)
  BY DEF Older, GuestFile
<1> QED
  BY <1>1 DEF Tracks

LEMMA GrowthStep ==
  TypeOK /\ ViewInv /\ GrowthInv /\ DisplayInv /\ [Next]_vars => GrowthInv'
<1> SUFFICES ASSUME TypeOK, ViewInv, GrowthInv, DisplayInv, [Next]_vars, NEW h \in File
             PROVE  Tracks(h, view[h])'
  BY SetupFixed DEF GrowthInv
<1>1. /\ Tracks(h, view[h]) /\ Older(view[h], guest[h])
      /\ guest[h] \in GuestFile /\ view[h] \in GuestFile /\ stat \in GuestFile
      /\ file[h].size \in Int
  <2>1. file[h].size \in 0..MaxSize /\ MaxSize \in Nat
    BY FieldTypes, NumberTypes
  <2>2. guest[h] \in GuestFile /\ view[h] \in GuestFile /\ stat \in GuestFile
    BY FieldTypes DEF TypeOK
  <2> QED
    BY <2>1, <2>2 DEF GrowthInv, ViewInv
<1>2. ASSUME NEW f \in File, GuestStep(f)
      PROVE  Tracks(h, view[h])'
  BY <1>1, <1>2, GuestEffect, GuestKeeps DEF Tracks
<1>3. ASSUME NEW f \in File, Missing(f)
      PROVE  Tracks(h, view[h])'
  <2>1. UNCHANGED <<guest, view>>
    BY <1>3, MissingEffect
  <2>2. CASE h = f
    BY <1>3, <2>1, <2>2, MissingEffect, OriginalSeen DEF Tracks, Original
  <2>3. CASE h # f
    BY <1>1, <1>3, <2>1, <2>3, MissingEffect DEF Tracks, Original
  <2> QED
    BY <2>2, <2>3
<1>4. ASSUME NEW f \in File, Notice(f)
      PROVE  Tracks(h, view[h])'
  BY <1>1, <1>4, NoticeEffect DEF Tracks, Original
<1>5. ASSUME NEW f \in File, Display(f)
      PROVE  Tracks(h, view[h])'
  <2>1. UNCHANGED <<guest, view>>
    BY <1>5, DisplayEffect
  <2>2. CASE h = f
    <3> SUFFICES ASSUME Original(f)
                 PROVE  Tracks(f, view[f])'
      BY <2>1, <2>2 DEF Tracks, Original
    <3>1. Older(stat, view[f]) /\ stat.generation \in 1..MaxGeneration
      BY <1>5, DisplayEffect, FieldTypes DEF DisplayInv
    <3>2. view[f].generation = 1
      BY OriginalSeen
    <3>3. stat.generation = view[f].generation
      BY <3>1, <3>2, NumberTypes DEF Older
    <3> QED
      BY <1>5, <2>1, <3>1, <3>3, DisplayEffect DEF Older, Tracks
  <2>3. CASE h # f
    BY <1>1, <1>5, <2>1, <2>3, DisplayEffect DEF Tracks, Original
  <2> QED
    BY <2>2, <2>3
<1>6. CASE Sees
  <2>1. CASE view'[h] = view[h]
    BY <1>1, <1>6, <2>1 DEF Sees, Tracks, Original
  <2>2. CASE view'[h] = guest[h]
    <3>1. Original(h) => Tracks(h, guest[h])
      <4> SUFFICES ASSUME Original(h)
                   PROVE  Tracks(h, guest[h])
        OBVIOUS
      <4>1. view[h].generation = guest[h].generation
        BY OriginalSeen DEF Original
      <4> QED
        BY <1>1, <4>1, TracksLater
    <3> QED
      BY <1>6, <2>2, <3>1 DEF Sees, Tracks, Original
  <2> QED
    BY <1>6, <2>1, <2>2 DEF Sees
<1>7. CASE Quiet
  BY <1>1, <1>7 DEF Quiet, Tracks, Original
<1> QED
  BY <1>2, <1>3, <1>4, <1>5, <1>6, <1>7, StepKinds

(* What statns said is older than what the appliance sees when it reads.   *)
LEMMA DisplayStep ==
  TypeOK /\ ViewInv /\ GrowthInv /\ DisplayInv /\ [Next]_vars => DisplayInv'
<1> SUFFICES ASSUME TypeOK, ViewInv, GrowthInv, DisplayInv, [Next]_vars, pc' = "display"
             PROVE  /\ i' \in File
                    /\ Older(stat', view'[i'])
                    /\ Changed(i, stat)'
                    /\ Tracks(i, stat)'
  BY SetupFixed DEF DisplayInv
<1>1. ASSUME NEW f \in File, GuestStep(f)
      PROVE  /\ i' \in File
             /\ Older(stat', view'[i'])
             /\ Changed(i, stat)'
             /\ Tracks(i, stat)'
  <2>1. UNCHANGED <<view, file, stat, pc, i>>
    BY <1>1, GuestKeeps
  <2>2. i \in File /\ Older(stat, view[i]) /\ Changed(i, stat) /\ Tracks(i, stat)
    BY <2>1 DEF DisplayInv
  <2>3. Original(i)' => Original(i)
    BY <1>1, <2>1, <2>2, GuestEffect DEF Original
  <2> QED
    BY <2>1, <2>2, <2>3 DEF Changed, Tracks
<1>2. ASSUME NEW f \in File, Missing(f) \/ Display(f)
      PROVE  FALSE
  BY <1>2, MissingEffect, DisplayEffect
<1>3. ASSUME NEW f \in File, Notice(f)
      PROVE  /\ i' \in File
             /\ Older(stat', view'[i'])
             /\ Changed(i, stat)'
             /\ Tracks(i, stat)'
  <2>1. i' = f /\ stat' = view[f] /\ Changed(f, view[f]) /\ UNCHANGED <<guest, view, file>>
    BY <1>3, NoticeEffect
  <2>2. Older(view[f], view[f]) /\ Tracks(f, view[f])
    BY FieldTypes, OlderReflexive DEF GrowthInv
  <2> QED
    BY <2>1, <2>2 DEF Changed, Tracks, Original
<1>4. CASE Sees
  <2>1. i' = i /\ pc = "display" /\ UNCHANGED <<guest, file, stat>>
    BY <1>4 DEF Sees
  <2>2. i \in File /\ Older(stat, view[i]) /\ Changed(i, stat) /\ Tracks(i, stat)
    BY <2>1 DEF DisplayInv
  <2>3. view'[i] = view[i] \/ view'[i] = guest[i]
    BY <1>4, <2>2 DEF Sees
  <2>4. Older(stat, guest[i])
    <3>1. /\ Older(view[i], guest[i])
          /\ stat \in GuestFile /\ view[i] \in GuestFile /\ guest[i] \in GuestFile
      BY <2>2, FieldTypes DEF ViewInv, TypeOK
    <3> QED
      BY <2>2, <3>1, OlderTransitive
  <2> QED
    BY <2>1, <2>2, <2>3, <2>4 DEF Changed, Tracks, Original
<1>5. CASE Quiet
  <2>1. i' = i /\ pc = "display" /\ UNCHANGED <<guest, view, file, stat>>
    BY <1>5 DEF Quiet
  <2> QED
    BY <2>1 DEF DisplayInv, Changed, Tracks, Original
<1> QED
  BY <1>1, <1>2, <1>3, <1>4, <1>5, StepKinds

LEMMA SeenStep ==
  TypeOK /\ ViewInv /\ SeenInv /\ [Next]_vars => SeenInv'
<1> SUFFICES ASSUME TypeOK, ViewInv, SeenInv, [Next]_vars, NEW h \in File
             PROVE  Seen(h)'
  BY SetupFixed DEF SeenInv
<1>1. Seen(h)
  BY DEF SeenInv
<1>2. ASSUME NEW f \in File, GuestStep(f)
      PROVE  Seen(h)'
  BY <1>1, <1>2, GuestEffect, GuestKeeps DEF Seen
<1>3. ASSUME NEW f \in File, Missing(f)
      PROVE  Seen(h)'
  <2>1. UNCHANGED <<guest, view, seen>>
    BY <1>3, MissingEffect
  <2>2. CASE h = f
    BY <1>3, <2>1, <2>2, MissingEffect, OriginalSeen DEF Seen, Original
  <2>3. CASE h # f
    BY <1>1, <1>3, <2>1, <2>3, MissingEffect DEF Seen, Original
  <2> QED
    BY <2>2, <2>3
<1>4. ASSUME NEW f \in File, Notice(f)
      PROVE  Seen(h)'
  BY <1>1, <1>4, NoticeEffect DEF Seen, Original
<1>5. ASSUME NEW f \in File, Display(f)
      PROVE  Seen(h)'
  <2>1. UNCHANGED <<guest, view>>
    BY <1>5, DisplayEffect
  <2>2. CASE h = f
    BY <1>5, <2>1, <2>2, DisplayEffect, OriginalSeen DEF Seen, Original
  <2>3. CASE h # f
    BY <1>1, <1>5, <2>1, <2>3, DisplayEffect DEF Seen, Original
  <2> QED
    BY <2>2, <2>3
<1>6. CASE Sees \/ Quiet
  BY <1>1, <1>6 DEF Sees, Quiet, Seen, Original
<1> QED
  BY <1>2, <1>3, <1>4, <1>5, <1>6, StepKinds

(* Displaying a position counts it.                                        *)
LEMMA DisplayedCounts ==
  ASSUME TypeOK, NEW f \in File, NEW p \in ToDisplay(f), p \in Pos
  PROVE  DisplayedAfter(f, ToDisplay(f))[p] > 0
<1>1. PICK n \in Nat : n = IF seen[f] = view[f].generation THEN shown[f][p] ELSE 0
  <2>1. shown[f][p] \in 0..2
    BY DEF TypeOK, ShownFiles
  <2>2. shown[f][p] \in Nat
    BY <2>1
  <2> QED
    BY <2>2
<1>2. DisplayedAfter(f, ToDisplay(f))[p] = Capped(n + 1)
  BY <1>1 DEF DisplayedAfter
<1>3. Capped(n + 1) > 0
  BY DEF Capped
<1> QED
  BY <1>2, <1>3

(* Whatever the sizes, the end that statns saw, or a later one, is among   *)
(* the positions that are displayed.                                       *)
LEMMA EndIsDisplayed ==
  ASSUME TypeOK, NEW f \in File, stat.size > 0, stat.size <= view[f].size
  PROVE  \E p \in Pos : p >= stat.size - 1 /\ DisplayedAfter(f, ToDisplay(f))[p] > 0
<1>1. /\ view[f].size \in 0..MaxSize /\ file[f].size \in 0..MaxSize
      /\ stat.size \in 0..MaxSize
      /\ MaxSize \in Nat /\ TailSize \in Nat \ {0}
  BY FieldTypes, NumberTypes
<1>2. CASE GrewABit(f)
  <2>1. PICK p \in Pos : p = stat.size - 1
    BY <1>1 DEF Pos
  <2>2. p \in ToDisplay(f)
    BY <1>1, <1>2, <2>1 DEF ToDisplay, GrewABit
  <2> QED
    BY <1>1, <2>1, <2>2, DisplayedCounts
<1>3. CASE ~GrewABit(f)
  <2>1. PICK p \in Pos : p = view[f].size - 1
    BY <1>1 DEF Pos
  <2>2. p \in ToDisplay(f)
    BY <1>1, <1>3, <2>1 DEF ToDisplay
  <2>3. p >= stat.size - 1
    BY <1>1, <2>1
  <2> QED
    BY <2>2, <2>3, DisplayedCounts
<1> QED
  BY <1>2, <1>3

LEMMA EndStep ==
  TypeOK /\ DisplayInv /\ EndIsShown /\ [Next]_vars => EndIsShown'
<1> SUFFICES ASSUME TypeOK, DisplayInv, EndIsShown, [Next]_vars,
                    NEW h \in File, h \notin missed'
             PROVE  EndShown(h)'
  BY SetupFixed DEF EndIsShown, EndShown, Pos
<1>1. h \notin missed => EndShown(h)
  BY DEF EndIsShown, EndShown
<1>2. ASSUME NEW f \in File, GuestStep(f)
      PROVE  EndShown(h)'
  BY <1>1, <1>2, GuestKeeps DEF EndShown
<1>3. ASSUME NEW f \in File, Missing(f)
      PROVE  EndShown(h)'
  <2>1. UNCHANGED <<seen, shown, missed>>
    BY <1>3, MissingEffect
  <2>2. CASE h = f
    BY <1>3, <2>2, MissingEffect DEF EndShown
  <2>3. CASE h # f
    BY <1>1, <1>3, <2>1, <2>3, MissingEffect DEF EndShown
  <2> QED
    BY <2>2, <2>3
<1>4. ASSUME NEW f \in File, Notice(f)
      PROVE  EndShown(h)'
  BY <1>1, <1>4, NoticeEffect DEF EndShown
<1>5. ASSUME NEW f \in File, Display(f)
      PROVE  EndShown(h)'
  <2>1. CASE h = f
    <3> SUFFICES ASSUME stat.size > 0
                 PROVE  \E p \in Pos : p >= stat.size - 1 /\ shown'[f][p] > 0
      BY <1>5, <2>1, DisplayEffect DEF EndShown
    <3>1. Older(stat, view[f]) /\ view[f].generation = stat.generation
          /\ shown'[f] = DisplayedAfter(f, ToDisplay(f))
      BY <1>5, <2>1, DisplayEffect DEF DisplayInv
    <3>2. stat.size <= view[f].size
      BY <3>1 DEF Older
    <3> QED
      BY <3>1, <3>2, EndIsDisplayed
  <2>2. CASE h # f
    BY <1>1, <1>5, <2>2, DisplayEffect DEF EndShown
  <2> QED
    BY <2>1, <2>2
<1>6. CASE Sees \/ Quiet
  BY <1>1, <1>6 DEF Sees, Quiet, EndShown
<1> QED
  BY <1>2, <1>3, <1>4, <1>5, <1>6, StepKinds

(* What is displayed of a file that only grows is exactly what is new.     *)
LEMMA NewIsDisplayed ==
  ASSUME TypeOK, ViewInv, NEW f \in File, ALot >= MaxSize, Original(f), Seen(f),
         Older(stat, view[f]), view[f].generation = stat.generation,
         Changed(f, stat), Tracks(f, stat), GrewABit(f) \/ view[f].size = stat.size,
         shown[f] = Exact(file[f].size)
  PROVE  DisplayedAfter(f, ToDisplay(f)) = Exact(stat.size)
<1>1. /\ view[f].size \in 0..MaxSize /\ file[f].size \in 0..MaxSize
      /\ stat.size \in 0..MaxSize
      /\ MaxSize \in Nat /\ TailSize \in Nat /\ ALot \in Nat
  BY FieldTypes, NumberTypes
<1>2. /\ view[f].generation = 1 /\ file[f].size <= stat.size /\ stat.size <= view[f].size
      /\ seen[f] = 1 \/ (seen[f] = 0 /\ file[f].size = 0)
      /\ stat.size = file[f].size => stat.size = 0 /\ view[f].size = 0
  <2>1. /\ file[f].size <= stat.size
        /\ file[f].size = stat.size /\ stat.size > 0 => file[f].mtime = stat.mtime
    BY DEF Tracks
  <2>2. seen[f] = 1 \/ (seen[f] = 0 /\ file[f].size = 0)
    BY DEF Seen
  <2>3. stat.size = file[f].size => stat.size = 0
    <3> SUFFICES ASSUME stat.size = file[f].size, stat.size > 0
                 PROVE  FALSE
      BY <1>1
    <3> QED
      BY <2>1 DEF Changed
  <2>4. stat.size = file[f].size => view[f].size = stat.size
    BY <1>1 DEF GrewABit
  <2>5. view[f].generation = 1 /\ stat.size <= view[f].size
    BY OriginalSeen DEF Older
  <2> QED
    BY <2>1, <2>2, <2>3, <2>4, <2>5
<1>3. ASSUME NEW p \in Pos
      PROVE  p \in ToDisplay(f) <=> file[f].size <= p /\ p < stat.size
  <2>1. CASE stat.size > file[f].size
    <3>1. GrewABit(f)
      BY <1>1, <2>1 DEF GrewABit, GrewALot
    <3> QED
      BY <1>1, <1>2, <3>1 DEF ToDisplay, Pos
  <2>2. CASE stat.size = file[f].size
    <3>1. ~GrewABit(f)
      BY <1>1, <2>2 DEF GrewABit
    <3> QED
      BY <1>1, <1>2, <2>2, <3>1 DEF ToDisplay, Pos
  <2> QED
    BY <1>1, <1>2, <2>1, <2>2
<1>4. ASSUME NEW p \in Pos
      PROVE  (IF seen[f] = view[f].generation THEN shown[f][p] ELSE 0)
               = IF p < file[f].size THEN 1 ELSE 0
  BY <1>1, <1>2 DEF Exact, Pos
<1>5. ASSUME NEW p \in Pos
      PROVE  DisplayedAfter(f, ToDisplay(f))[p] = IF p < stat.size THEN 1 ELSE 0
  <2>1. DisplayedAfter(f, ToDisplay(f))[p]
          = Capped((IF p < file[f].size THEN 1 ELSE 0)
                   + (IF p \in ToDisplay(f) THEN 1 ELSE 0))
    BY <1>4 DEF DisplayedAfter
  <2>2. p \in Int
    BY DEF Pos
  <2> QED
    BY <1>1, <1>2, <1>3, <2>1, <2>2 DEF Capped
<1> QED
  BY <1>5 DEF DisplayedAfter, Exact

LEMMA ShownOncePerFile ==
  AppendsShownOnce <=> \A f \in File : f \in unread \/ ShownOnce(f)
  BY DEF AppendsShownOnce, ShownOnce, Original, Exact

LEMMA AppendsStep ==
  TypeOK /\ ViewInv /\ DisplayInv /\ SeenInv /\ AppendsShownOnce /\ [Next]_vars
    => AppendsShownOnce'
<1> SUFFICES ASSUME TypeOK, ViewInv, DisplayInv, SeenInv, AppendsShownOnce, [Next]_vars,
                    NEW h \in File, h \notin unread'
             PROVE  ShownOnce(h)'
  BY SetupFixed DEF AppendsShownOnce, ShownOnce, Original, Exact
<1>0. ALot' = ALot
  BY SetupFixed DEF ALot
<1>1. h \notin unread => ShownOnce(h)
  BY ShownOncePerFile
<1>2. ASSUME NEW f \in File, GuestStep(f)
      PROVE  ShownOnce(h)'
  BY <1>0, <1>1, <1>2, GuestEffect, GuestKeeps DEF ShownOnce, Exact
<1>3. ASSUME NEW f \in File, Missing(f)
      PROVE  ShownOnce(h)'
  <2>1. UNCHANGED <<guest, view, shown, unread>>
    BY <1>3, MissingEffect
  <2>2. CASE h = f
    BY <1>0, <1>3, <2>1, <2>2, MissingEffect, OriginalSeen DEF ShownOnce, Original
  <2>3. CASE h # f
    BY <1>0, <1>1, <1>3, <2>1, <2>3, MissingEffect DEF ShownOnce, Original, Exact
  <2> QED
    BY <2>2, <2>3
<1>4. ASSUME NEW f \in File, Notice(f)
      PROVE  ShownOnce(h)'
  BY <1>0, <1>1, <1>4, NoticeEffect DEF ShownOnce, Original, Exact
<1>5. ASSUME NEW f \in File, Display(f)
      PROVE  ShownOnce(h)'
  <2>1. UNCHANGED <<guest, view>>
    BY <1>5, DisplayEffect
  <2>2. CASE h = f
    <3> SUFFICES ASSUME ALot >= MaxSize, Original(f)
                 PROVE  shown'[f] = Exact(stat.size)
      BY <1>0, <1>5, <2>1, <2>2, DisplayEffect DEF ShownOnce, Original, Exact
    <3>1. /\ f \notin unread /\ view[f].generation = stat.generation
          /\ GrewABit(f) \/ view[f].size = stat.size
          /\ shown'[f] = DisplayedAfter(f, ToDisplay(f))
      BY <1>5, <2>2, DisplayEffect
    <3>2. Older(stat, view[f]) /\ Changed(f, stat) /\ Tracks(f, stat)
      BY <1>5, DisplayEffect DEF DisplayInv
    <3>3. shown[f] = Exact(file[f].size) /\ Seen(f)
      BY <1>1, <2>2, <3>1 DEF ShownOnce, SeenInv
    <3> QED
      BY <3>1, <3>2, <3>3, NewIsDisplayed
  <2>3. CASE h # f
    BY <1>0, <1>1, <1>5, <2>1, <2>3, DisplayEffect DEF ShownOnce, Original, Exact
  <2> QED
    BY <2>2, <2>3
<1>6. CASE Sees \/ Quiet
  BY <1>0, <1>1, <1>6 DEF Sees, Quiet, ShownOnce, Original, Exact
<1> QED
  BY <1>2, <1>3, <1>4, <1>5, <1>6, StepKinds

-----------------------------------------------------------------------------
(* Theorems.                                                               *)

LEMMA InitIInv == Init => IInv
<1> SUFFICES ASSUME Init
             PROVE  IInv
  OBVIOUS
<1>1. setup \in Setups /\ File \subseteq Nat /\ Mtime \subseteq Nat
      /\ MaxSize \in Nat /\ MaxGeneration \in Nat \ {0}
  BY SetupType, ConstantsAssumption DEF ConstantsAssumption, Init
<1>2. [exists : BOOLEAN, generation : {1}, size : 0..MaxSize, mtime : Mtime] \subseteq GuestFile
  <2> SUFFICES ASSUME NEW m \in [exists : BOOLEAN, generation : {1}, size : 0..MaxSize,
                                  mtime : Mtime]
               PROVE  m \in GuestFile
    OBVIOUS
  <2>1. m.mtime \in Mtime /\ m.generation = 1
    OBVIOUS
  <2>2. 1 \in 1..MaxGeneration
    BY <1>1
  <2>3. m.mtime \in Nat
    BY <1>1, <2>1
  <2> QED
    BY <2>1, <2>2, <2>3 DEF GuestFile
<1>3. guest \in GuestFiles /\ view \in GuestFiles
  BY <1>2 DEF Init, GuestFiles
<1>4. file \in FollowFiles
  BY <1>1 DEF Init, FollowFiles
<1>5. seen \in SeenFiles /\ shown \in ShownFiles /\ stat \in GuestFile
  BY <1>1 DEF Init, SeenFiles, ShownFiles, NoStat, GuestFile
<1>6. TypeOK
  BY <1>1, <1>3, <1>4, <1>5 DEF Init, TypeOK, Place
<1>7. HandleInv /\ BannerInv /\ DisplayInv
  BY DEF Init, HandleInv, LoopHandleIsOpen, BannerInv, DisplayInv
<1>8. ASSUME NEW f \in File
      PROVE  /\ Older(view[f], guest[f]) /\ Tracks(f, view[f]) /\ Seen(f)
             /\ seen[f] = 0 /\ shown[f] = [p \in Pos |-> 0] /\ file[f].size = 0
  <2>1. file[f].size = 0 /\ seen[f] = 0 /\ view = guest
    BY DEF Init
  <2>2. shown[f] = [p \in Pos |-> 0]
    BY DEF Init
  <2> QED
    BY <1>6, <2>1, <2>2, FieldTypes DEF Older, Tracks, Seen, Original
<1>9. ViewInv /\ GrowthInv /\ SeenInv /\ EndIsShown
  BY <1>8 DEF ViewInv, GrowthInv, SeenInv, EndIsShown
<1>10. [p \in Pos |-> 0] = Exact(0)
  BY DEF Exact, Pos
<1>11. AppendsShownOnce
  BY <1>8, <1>10, ShownOncePerFile DEF ShownOnce
<1> QED
  BY <1>6, <1>7, <1>9, <1>11 DEF IInv

(* The inductive invariant holds for any number of files of any size.      *)
THEOREM Invariance == Spec => []IInv
<1>1. IInv /\ [Next]_vars => IInv'
  BY TypeStep, HandleStep, BannerStep, ViewStep, GrowthStep, DisplayStep, SeenStep,
     EndStep, AppendsStep DEF IInv
<1> QED
  BY <1>1, InitIInv, PTL DEF Spec

(* Every variable stays in its type.                                       *)
THEOREM TypeCorrect == Spec => []TypeOK
<1>1. IInv => TypeOK
  BY DEF IInv, HandleInv, BannerInv
<1> QED
  BY <1>1, Invariance, PTL

(* Every poll works on an open handle, and none is leaked.                 *)
THEOREM HandlesAreOpen == Spec => []LoopHandleIsOpen
<1>1. IInv => LoopHandleIsOpen
  BY DEF IInv, HandleInv, BannerInv
<1> QED
  BY <1>1, Invariance, PTL

(* With any number of files above one, the last banner names the file      *)
(* whose content was displayed last.                                       *)
THEOREM BannersAreRight == Spec => []OutputIsUnderItsBanner
<1>1. IInv => OutputIsUnderItsBanner
  BY DEF IInv, BannerInv, OutputIsUnderItsBanner
<1> QED
  BY <1>1, Invariance, PTL

(* A change that is noticed puts the end of the file on the terminal,      *)
(* however the guest rewrites, shrinks and deletes its files, also between *)
(* the statns and the read of one of them.                                 *)
THEOREM EndsAreShown == Spec => []EndIsShown
<1>1. IInv => EndIsShown
  BY DEF IInv, HandleInv, BannerInv
<1> QED
  BY <1>1, Invariance, PTL

(* A file that only grows, never by a lot between two polls, is displayed  *)
(* completely and no part of it twice, for any number of files and polls.  *)
THEOREM AppendsAreShownOnce == Spec => []AppendsShownOnce
<1>1. IInv => AppendsShownOnce
  BY DEF IInv, HandleInv, BannerInv
<1> QED
  BY <1>1, Invariance, PTL
=============================================================================
