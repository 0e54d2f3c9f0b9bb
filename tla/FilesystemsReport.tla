-------------------------- MODULE FilesystemsReport --------------------------
(***************************************************************************)
(* virt-filesystems (filesystems/filesystems.c): lists the filesystems,    *)
(* logical volumes, volume groups, physical volumes, partitions and block  *)
(* devices of a guest.  Rows of text are kept until the widths of all      *)
(* columns are known; rows of CSV are given to stdio at once, which writes *)
(* them when it likes, in blocks that need not end where a row ends.       *)
(* libguestfs, which looks into the guest, is external.                    *)
(*                                                                         *)
(* A field is a sequence of tokens, so that commas, quotes, spaces and     *)
(* line ends, which matter in CSV, are tokens of their own; a field that C *)
(* has as NULL is None.                                                    *)
(***************************************************************************)
EXTENDS Integers, Sequences, SequencesExt, FiniteSetsExt

CONSTANTS Guests,       \* what the guests contain
          CommandLines  \* sequences of options that are tried

None == <<"none">>

\* write_csv_field quotes a field that has one of these.
Special == {"space", "quote", "newline", "comma"}
Text == Seq(STRING \cup Special)
Name == {t \in Text : t \notin {<<>>, None}}

(***************************************************************************)
(* A guest: sequences of filesystems, logical volumes and so on, each with *)
(* its name and what the library says of it.  md lists the devices of a    *)
(* RAID, whose name is /dev/md and digits; uuids are those vgpvuuids gives.*)
(***************************************************************************)
Kinds == <<"filesystem", "lv", "vg", "pv", "partition", "device">>

FilesystemEntry == [name : Name, vfs : Text, label : Text, uuid : Text, version : Text,
               size : Text, subvolume : BOOLEAN, mounts : BOOLEAN, md : Seq(Text)]
LvEntry == [vg : Name, name : STRING, size : Text, uuid : Text]
VgEntry == [name : Name, uuids : Seq(Text), size : Text, uuid : Text]
PvEntry == [name : Name, uuid : Text, size : Text]
PartitionEntry == [name : Name, device : Text, table : STRING, id : Text, size : Text]
DeviceEntry == [name : Name, size : Text, md : Seq(Text)]

Entries(kind) ==
  CASE kind = "filesystem" -> FilesystemEntry
    [] kind = "lv" -> LvEntry
    [] kind = "vg" -> VgEntry
    [] kind = "pv" -> PvEntry
    [] kind = "partition" -> PartitionEntry
    [] OTHER -> DeviceEntry

ASSUME GuestsAssumption ==
  \A g \in Guests, k \in DOMAIN Kinds : g[Kinds[k]] \in Seq(Entries(Kinds[k]))

VARIABLES contents,     \* what the guest contains
          options,      \* what main has made of the command line
          current,      \* index in Kinds of the function of do_output that runs, 0 before
          done,         \* entries of its list that are done
          rows,         \* rows that text mode keeps
          printout,     \* rows of text on standard output
          csv_output,   \* tokens of CSV that putchar and printf were given
          written,      \* how many of them stdio has written to standard output
          full,         \* standard output takes no more (its disk is full, say)
          exit_status   \* -1 while the program runs, 139 after a crash

report_vars ==
  <<contents, options, current, done, rows, printout, csv_output, written, full, exit_status>>

-----------------------------------------------------------------------------
(* main.                                                                     *)

Selects(name) ==
  CASE name = "all" -> {"filesystem", "extra", "lv", "vg", "pv", "partition", "device"}
    [] name = "extra" -> {"filesystem", "extra"}
    [] name = "filesystems" -> {"filesystem"}
    [] name = "lvs" -> {"lv"} [] name = "vgs" -> {"vg"} [] name = "pvs" -> {"pv"}
    [] name = "parts" -> {"partition"}
    [] name = "blkdevs" -> {"device"}
    [] OTHER -> {}

HandleOption(o, name) ==
  [o EXCEPT !.output = @ \cup Selects(name), !.flags = @ \cup ({name} \cap
     {"csv", "human", "long", "uuid", "fs-version", "no-title", "add", "unknown"})]

NoOptions == [output |-> {}, flags |-> {}]

Has(flag) == flag \in options.flags
Output == IF options.output = {} THEN {"filesystem"} ELSE options.output

DisplayOrder ==
  <<"Name", "Type", "VFS", "Label", "MBR", "Size", "Parent", "UUID", "FSVersion">>
ColumnNames == Range(DisplayOrder)

\* The bits of columns.
Displayed(c) ==
  CASE c = "Name" -> TRUE
    [] c \in {"Type", "Size", "Parent"} -> Has("long")
    [] c \in {"VFS", "Label"} -> Has("long") /\ "filesystem" \in Output
    [] c = "MBR" -> Has("long") /\ "partition" \in Output
    [] c = "UUID" -> Has("long") /\ Has("uuid")
    [] OTHER -> Has("long") /\ Has("fs-version")

\* The elements of s at the places of K, in the order of s.
Selected(s, K) == FlattenSeq([k \in DOMAIN s |-> IF k \in K THEN <<s[k]>> ELSE <<>>])

Columns == Selected(DisplayOrder, {k \in DOMAIN DisplayOrder : Displayed(DisplayOrder[k])})

Shows(column) == \E k \in DOMAIN Columns : Columns[k] = column

ReportInit ==
  /\ contents \in Guests
  /\ \E args \in CommandLines : options = FoldLeft(HandleOption, NoOptions, args)
  /\ current = 0 /\ done = 0
  /\ rows = <<>> /\ printout = <<>> /\ csv_output = <<>> /\ written = 0 /\ full = FALSE
  /\ exit_status = -1

-----------------------------------------------------------------------------
(* write_row_strings and below.                                              *)

\* Quotes within the field are forgotten.
WriteCsvField_Mutant(field) ==
  CASE field = None -> <<>>
    [] field # None /\ Range(field) \cap Special = {} -> field
    [] OTHER -> <<"quote">> \o field \o <<"quote">>

\* A quote within quotes is doubled.
WriteCsvField(field) ==
  CASE field = None -> <<>>
    [] field # None /\ Range(field) \cap Special = {} -> field
    [] OTHER -> <<"quote">>
                \o FlattenSeq([k \in DOMAIN field |-> IF field[k] = "quote"
                                 THEN <<"quote", "quote">> ELSE <<field[k]>>])
                \o <<"quote">>

WriteCsvRow(row) ==
  FlattenSeq([k \in DOMAIN row |-> IF k = 1 THEN WriteCsvField(row[k])
                                   ELSE <<"comma">> \o WriteCsvField(row[k])])
  \o <<"newline">>

WriteRowStrings(row) ==
  IF Has("csv") THEN csv_output' = csv_output \o WriteCsvRow(row) /\ UNCHANGED rows
                ELSE rows' = Append(rows, row) /\ UNCHANGED csv_output

\* write_row: the fields of the columns that are shown.
WriteRow(fields) == WriteRowStrings([k \in DOMAIN Columns |-> fields[Columns[k]]])

\* do_output_title.
Titled == Has("long") /\ ~Has("no-title")
Headings == [k \in DOMAIN Columns |-> <<Columns[k]>>]

\* max_width: a column in which every row has NULL is left out.
Widened == {k \in DOMAIN Columns : \E r \in Range(rows) : r[k] # None}
Kept == Selected([k \in DOMAIN Columns |-> k], Widened)
ShownFields(row) == [k \in DOMAIN Kept |-> IF row[Kept[k]] \in {None, <<>>} THEN <<"-">>
                                     ELSE row[Kept[k]]]

-----------------------------------------------------------------------------
(* The rows of do_output_filesystems, do_output_lvs and so on.               *)

Row(name, type) ==
  [column \in ColumnNames |-> CASE column = "Name" -> name
                                [] column = "Type" -> <<type>>
                                [] column = "Parent" -> <<>>
                                [] OTHER -> None]

\* join_strings (",", ...)
JoinStrings(names) ==
  FlattenSeq([k \in DOMAIN names |-> IF k = 1 THEN names[k] ELSE <<"comma">> \o names[k]])

\* Swap and unknown filesystems are skipped without --extra.
Skipped(fs) == "extra" \notin Output /\ fs.vfs \in {<<"swap">>, <<"unknown">>}

\* The UUID goes where the version of the filesystem should.
FilesystemRow_Mutant(fs) ==
  [Row(fs.name, "filesystem") EXCEPT
     !["VFS"] = fs.vfs, !["Label"] = fs.label, !["UUID"] = fs.version,
     !["FSVersion"] = fs.uuid, !["Size"] = IF fs.subvolume THEN None ELSE fs.size,
     !["Parent"] = JoinStrings(fs.md)]

\* A btrfs subvolume has no size; else it is that of the mounted filesystem, or of the
\* device if it cannot be mounted.
FilesystemRow(fs) ==
  [Row(fs.name, "filesystem") EXCEPT
     !["VFS"] = fs.vfs, !["Label"] = fs.label, !["UUID"] = fs.uuid,
     !["FSVersion"] = fs.version, !["Size"] = IF fs.subvolume THEN None ELSE fs.size,
     !["Parent"] = JoinStrings(fs.md)]

\* The name of a logical volume up to its last slash is the volume group.
LvRow(lv) == [Row(Append(lv.vg, lv.name), "lv") EXCEPT
                !["Size"] = lv.size, !["UUID"] = lv.uuid, !["Parent"] = lv.vg]

\* p never moves past a letter or digit: each of the 32 is compared with the first.
IsLetterOrDigit(c) == c # "-"
ComparePvuuids(pvuuid1, pvuuid2) ==
  LET first == SelectSeq(pvuuid1, IsLetterOrDigit)
  IN IF first # <<>> /\ \A k \in DOMAIN pvuuid2 : pvuuid2[k] = first[1] THEN 1 ELSE 0

\* The first PV for which compare_pvuuids returns 0, or the UUID.
ResolvePv(pvuuid) ==
  LET found == {k \in DOMAIN contents["pv"] : ComparePvuuids(pvuuid, contents["pv"][k].uuid) = 0}
  IN IF found = {} THEN pvuuid ELSE contents["pv"][Min(found)].name

ParentsOfVg(vg) == [k \in DOMAIN vg.uuids |-> ResolvePv(vg.uuids[k])]

VgRow(vg) == [Row(vg.name, "vg") EXCEPT
                !["Size"] = vg.size, !["UUID"] = vg.uuid, !["Parent"] = JoinStrings(ParentsOfVg(vg))]

PvRow(pv) == [Row(pv.name, "pv") EXCEPT !["Size"] = pv.size, !["UUID"] = pv.uuid]

\* get_mbr_id: the type byte of a partition in an MBR table.
PartitionRow(part) ==
  [Row(part.name, "partition") EXCEPT
     !["Size"] = part.size, !["Parent"] = part.device,
     !["MBR"] = IF part.table = "msdos" THEN part.id ELSE None]

DeviceRow(device) == [Row(device.name, "device") EXCEPT
                        !["Size"] = device.size, !["Parent"] = JoinStrings(device.md)]

Entry == contents[Kinds[current]][done + 1]
RowOf(kind, e) ==
  CASE kind = "filesystem" -> FilesystemRow(e)
    [] kind = "lv" -> LvRow(e)
    [] kind = "vg" -> VgRow(e)
    [] kind = "pv" -> PvRow(e)
    [] kind = "partition" -> PartitionRow(e)
    [] OTHER -> DeviceRow(e)

-----------------------------------------------------------------------------
(* do_output.                                                                *)

Unfinished == exit_status = -1
Listing == Unfinished /\ current \in DOMAIN Kinds /\ Kinds[current] \in Output
InList == Listing /\ done < Len(contents[Kinds[current]])

\* stdio writes some of what it has.
Flush ==
  /\ Unfinished /\ ~full
  /\ \E n \in (written + 1)..Len(csv_output) : written' = n
  /\ UNCHANGED <<contents, options, current, done, rows, printout, csv_output, full, exit_status>>

OutputFills ==
  /\ Unfinished /\ ~full
  /\ full' = TRUE
  /\ UNCHANGED <<contents, options, current, done, rows, printout, csv_output, written, exit_status>>

\* exit has stdio write what is left; nobody looks at whether it could.
Exit(status) ==
  /\ exit_status' = status
  /\ written' = IF full THEN written ELSE Len(csv_output)
  /\ UNCHANGED full

OptionsAreGood == Has("add") /\ ~Has("unknown") /\ ~(Has("human") /\ Has("csv"))

RefuseOptions ==
  /\ Unfinished /\ current = 0
  /\ ~OptionsAreGood
  /\ Exit(1)
  /\ UNCHANGED <<contents, options, current, done, rows, printout, csv_output>>

\* add_drives or guestfs_launch.
LaunchFails ==
  /\ Unfinished /\ current = 0
  /\ OptionsAreGood
  /\ Exit(1)
  /\ UNCHANGED <<contents, options, current, done, rows, printout, csv_output>>

\* The drives are added, the appliance is launched, and the title written.
Start ==
  /\ Unfinished /\ current = 0
  /\ OptionsAreGood
  /\ current' = 1
  /\ IF Titled THEN WriteRowStrings(Headings) ELSE UNCHANGED <<rows, csv_output>>
  /\ UNCHANGED <<contents, options, done, printout, written, full, exit_status>>

Skip ==
  /\ InList /\ Kinds[current] = "filesystem" /\ Skipped(Entry)
  /\ done' = done + 1
  /\ UNCHANGED <<contents, options, current, rows, printout, csv_output, written, full, exit_status>>

Write ==
  /\ InList
  /\ ~(Kinds[current] = "filesystem" /\ Skipped(Entry))
  /\ WriteRow(RowOf(Kinds[current], Entry))
  /\ done' = done + 1
  /\ UNCHANGED <<contents, options, current, printout, written, full, exit_status>>

\* statvfs fails although the mount has succeeded: its result is not checked.  What
\* stdio still has is lost in the crash.
StatFails ==
  /\ InList /\ Kinds[current] = "filesystem" /\ ~Skipped(Entry)
  /\ Shows("Size") /\ ~Entry.subvolume /\ Entry.mounts
  /\ exit_status' = 139
  /\ UNCHANGED <<contents, options, current, done, rows, printout, csv_output, written, full>>

NextKind ==
  /\ Unfinished /\ current \in DOMAIN Kinds
  /\ ~InList
  /\ current' = current + 1 /\ done' = 0
  /\ UNCHANGED <<contents, options, rows, printout, csv_output, written, full, exit_status>>

\* Each list, each canonical name and most columns need a call.
LibraryFails ==
  /\ Listing /\ (InList \/ done = 0)
  /\ Exit(1)
  /\ UNCHANGED <<contents, options, current, done, rows, printout, csv_output>>

\* do_output_end, return to main and exit.
Table == [k \in DOMAIN rows |-> ShownFields(rows[k])]
PrintTable ==
  \/ Has("csv") /\ UNCHANGED printout
  \/ ~Has("csv") /\ ~full /\ printout' = Table
  \/ ~Has("csv") /\ full /\ \E n \in 0..Len(rows) : printout' = SubSeq(Table, 1, n)

End ==
  /\ Unfinished /\ current > Len(Kinds)
  /\ PrintTable
  /\ Exit(0)
  /\ UNCHANGED <<contents, options, current, done, rows, csv_output>>

ReportNext ==
  \/ Flush \/ OutputFills \/ RefuseOptions \/ LaunchFails \/ Start
  \/ Skip \/ Write \/ StatFails \/ NextKind \/ LibraryFails \/ End

ReportSpec == ReportInit /\ [][ReportNext]_report_vars

-----------------------------------------------------------------------------
(* Properties.                                                               *)

\* How a reader of CSV goes on after one more token.
Read(r, c) ==
  CASE r.quoted /\ c = "quote" -> [r EXCEPT !.quoted = FALSE, !.closed = TRUE]
    [] r.quoted /\ c # "quote" -> [r EXCEPT !.field = Append(@, c)]
    [] ~r.quoted /\ c = "quote" ->
         [r EXCEPT !.quoted = TRUE, !.field = IF r.closed THEN Append(@, c) ELSE @]
    [] ~r.quoted /\ c = "comma" ->
         [r EXCEPT !.row = Append(@, r.field), !.field = <<>>, !.closed = FALSE]
    [] ~r.quoted /\ c = "newline" ->
         [r EXCEPT !.rows = Append(@, Append(r.row, r.field)), !.row = <<>>, !.field = <<>>,
                   !.closed = FALSE]
    [] OTHER -> [r EXCEPT !.field = Append(@, c)]

ReadUpTo[n \in 0..Len(csv_output)] ==
  IF n = 0 THEN [rows |-> <<>>, row |-> <<>>, field |-> <<>>, quoted |-> FALSE, closed |-> FALSE]
  ELSE Read(ReadUpTo[n - 1], csv_output[n])

\* What a reader of standard output has got so far.
ReadCsv == ReadUpTo[written]

\* What was asked for, in order.
Wanted(kind, e) == kind # "filesystem" \/ ~Skipped(e)
Listed(kind) ==
  IF kind \notin Output THEN <<>>
  ELSE FlattenSeq([n \in DOMAIN contents[kind] |->
                     IF Wanted(kind, contents[kind][n]) THEN << <<kind, contents[kind][n]>> >>
                                                        ELSE <<>>])
Objects == FlattenSeq([k \in DOMAIN Kinds |-> Listed(Kinds[k])])

\* The rows below the title.
Below(lines) == IF Titled /\ lines # <<>> THEN Tail(lines) ELSE lines

Blank(field) == field \in {<<>>, <<"-">>, None}
Agrees(field, value) == field = value \/ (Blank(field) /\ Blank(value))

\* The field under a heading.
Under(title, row, column) == row[CHOOSE k \in DOMAIN title : title[k] = <<column>>]

\* A row describes an object; the parents of a volume group are left to
\* VgParentsAreItsPvs.
Describes(title, row, kind, o) ==
  /\ row[1] = IF kind = "lv" THEN Append(o.vg, o.name) ELSE o.name
  /\ Titled =>
       /\ Under(title, row, "Type") = <<kind>>
       /\ Agrees(Under(title, row, "Size"),
                 IF kind = "filesystem" /\ o.subvolume THEN <<>> ELSE o.size)
       /\ Shows("Label") =>
            Agrees(Under(title, row, "Label"), IF kind = "filesystem" THEN o.label ELSE <<>>)
       /\ Shows("VFS") =>
            Agrees(Under(title, row, "VFS"), IF kind = "filesystem" THEN o.vfs ELSE <<>>)
       /\ Shows("UUID") =>
            Agrees(Under(title, row, "UUID"),
                   IF kind \in {"partition", "device"} THEN <<>> ELSE o.uuid)
       /\ Shows("FSVersion") =>
            Agrees(Under(title, row, "FSVersion"),
                   IF kind = "filesystem" THEN o.version ELSE <<>>)
       /\ Shows("MBR") =>
            Agrees(Under(title, row, "MBR"),
                   IF kind = "partition" /\ o.table = "msdos" THEN o.id ELSE <<>>)
       /\ kind # "vg" =>
            Agrees(Under(title, row, "Parent"),
                   CASE kind = "lv" -> o.vg
                     [] kind = "partition" -> o.device
                     [] kind = "pv" -> <<>>
                     [] OTHER -> JoinStrings(o.md))

AreDescribed(lines) ==
  LET body == Below(lines)
      objects == Objects
  IN /\ Len(body) <= Len(objects)
     /\ \A n \in DOMAIN body : Describes(lines[1], body[n], objects[n][1], objects[n][2])

\* After a successful exit everything that was selected is listed once, in order, with
\* each value under its heading although empty columns are left out, unless standard
\* output took no more, which no one looks at; a text report that fails prints nothing
\* at all (do_output, do_output_end).
ReportIsComplete ==
  /\ exit_status = 0 /\ ~full =>
       LET lines == IF Has("csv") THEN ReadCsv.rows ELSE printout
       IN AreDescribed(lines) /\ Len(Below(lines)) = Len(Objects)
  /\ exit_status # 0 => printout = <<>>

\* Whatever the names and labels in the guest contain, and wherever stdio, the program
\* or the disk stops, the rows that a reader has got to the end of have the right number
\* of fields and describe the first of the objects in order; a row is left torn only by a
\* crash or by an output that takes no more, never by an error the program sees
\* (write_row_strings, write_csv_field; virt-filesystems.pod, "Note about CSV format").
CsvReadsBack ==
  Has("csv") =>
    /\ \A n \in DOMAIN ReadCsv.rows : Len(ReadCsv.rows[n]) = Len(Columns)
    /\ AreDescribed(ReadCsv.rows)
    /\ exit_status \in {0, 1} /\ ~full =>
         ~ReadCsv.quoted /\ ReadCsv.row = <<>> /\ ReadCsv.field = <<>>

\* The parents of a volume group are the physical volumes whose UUIDs it has (the
\* comment in parents_of_vg, filesystems.c 880).
VgParentsAreItsPvs ==
  exit_status = 0 /\ ~full /\ Titled =>
    LET lines == IF Has("csv") THEN ReadCsv.rows ELSE printout
        PvOf(uuid) == CHOOSE pv \in Range(contents["pv"]) :
                        pv.uuid = SelectSeq(uuid, IsLetterOrDigit)
        Parents(vg) == [k \in DOMAIN vg.uuids |-> PvOf(vg.uuids[k]).name]
    IN \A n \in DOMAIN Below(lines) : Objects[n][1] = "vg" =>
         Under(lines[1], Below(lines)[n], "Parent") = JoinStrings(Parents(Objects[n][2]))
=============================================================================
