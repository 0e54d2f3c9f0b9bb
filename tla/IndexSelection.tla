--------------------------- MODULE IndexSelection ---------------------------
(***************************************************************************)
(* How virt-builder picks a template out of the indexes of all its sources *)
(* (builder/builder.ml): remove_duplicates scans the concatenated index    *)
(* twice, with a hash table of one revision for each (name, arch), and     *)
(* selected_cli_item resolves the os-version of the command line, which    *)
(* may be an alias.                                                        *)
(*                                                                         *)
(* A string revision is represented by its rank among the strings, and an  *)
(* integer revision also by the rank of its decimal form, since the two    *)
(* are compared as strings.                                                *)
(***************************************************************************)
EXTENDS Integers, Sequences

CONSTANTS
  Name,        \* os-versions
  Alias,       \* aliases that are not os-versions
  Arch,        \* spellings of architectures
  Normal,      \* normalize_arch: Normal[a] is a spelling too (common/mltools)
  Rev,         \* revisions: records [int, value, rank]
  MaxLength    \* bound on the length of the index

ASSUME IndexAssumption ==
  /\ Name # {} /\ Name \cap Alias = {}
  /\ Normal \in [Arch -> Arch]
  /\ \A a \in Arch : Normal[Normal[a]] = Normal[a]
  /\ Rev \subseteq [int : BOOLEAN, value : Int, rank : Int]
  /\ MaxLength \in Nat

Entry == [name : Name, arch : Arch, revision : Rev, aliases : SUBSET Alias]
Id == Name \X Arch

VARIABLES
  index,      \* the index entries of all sources, in the order of the sources
  arg, arch,  \* what the command line asks for: an os-version or alias, and
              \* an architecture, already normalized
  phase,      \* "fill", "filter", "select", "selected" or "not found"
  k,          \* the position of the entry that is looked at
  nseen,      \* the hash table, from some of the ids to revisions
  kept,       \* positions of the entries that were not filtered out
  item        \* the position of the selected entry, 0 before that

selection_vars == <<index, arg, arch, phase, k, nseen, kept, item>>

(* The results of List.compare: only the sign matters.                     *)
CompareRevisions(r1, r2) ==
  IF r1.int /\ r2.int THEN r1.value - r2.value ELSE r1.rank - r2.rank

IdOf(entry) == <<entry.name, entry.arch>>

SelectionInit ==
  /\ index \in UNION {[1..n -> Entry] : n \in 0..MaxLength}
  /\ arg \in Name \cup Alias
  /\ arch \in {Normal[a] : a \in Arch}
  /\ phase = "fill"
  /\ k = 1
  /\ nseen = << >>
  /\ kept = << >>
  /\ item = 0

Bind(table, id, rev) ==
  [i \in DOMAIN table \cup {id} |-> IF i = id THEN rev ELSE table[i]]
Unbind(table, id) == [i \in DOMAIN table \ {id} |-> table[i]]

(* "Fill an hash ..."                                                      *)
Fill ==
  /\ phase = "fill" /\ k <= Len(index)
  /\ LET id == IdOf(index[k])  rev == index[k].revision
     IN nseen' = IF id \notin DOMAIN nseen \/ CompareRevisions(nseen[id], rev) > 0
                 THEN Bind(nseen, id, rev) ELSE nseen
  /\ k' = k + 1
  /\ UNCHANGED <<index, arg, arch, phase, kept, item>>

(* Mutant: the second scan starts where the first one ended.               *)
FillDone_Mutant ==
  /\ phase = "fill" /\ k > Len(index)
  /\ phase' = "filter"
  /\ UNCHANGED <<index, arg, arch, k, nseen, kept, item>>

FillDone ==
  /\ phase = "fill" /\ k > Len(index)
  /\ phase' = "filter"
  /\ k' = 1
  /\ UNCHANGED <<index, arg, arch, nseen, kept, item>>

(* "Take the first occurrency ..., removing it from the hash so the other  *)
(* occurrences are ignored."                                               *)
Taken(entry) ==
  IdOf(entry) \in DOMAIN nseen /\ nseen[IdOf(entry)] = entry.revision

(* Mutant: the entries are kept in the reverse order.                      *)
Filter_Mutant ==
  /\ phase = "filter" /\ k <= Len(index)
  /\ IF Taken(index[k])
     THEN /\ kept' = <<k>> \o kept
          /\ nseen' = Unbind(nseen, IdOf(index[k]))
     ELSE UNCHANGED <<kept, nseen>>
  /\ k' = k + 1
  /\ UNCHANGED <<index, arg, arch, phase, item>>

Filter ==
  /\ phase = "filter" /\ k <= Len(index)
  /\ IF Taken(index[k])
     THEN /\ kept' = Append(kept, k)
          /\ nseen' = Unbind(nseen, IdOf(index[k]))
     ELSE UNCHANGED <<kept, nseen>>
  /\ k' = k + 1
  /\ UNCHANGED <<index, arg, arch, phase, item>>

FilterDone ==
  /\ phase = "filter" /\ k > Len(index)
  /\ phase' = "select"
  /\ UNCHANGED <<index, arg, arch, k, nseen, kept, item>>

(* List.find on the index without duplicates: the first entry that fits.   *)
First(positions) == kept[CHOOSE j \in positions : \A l \in positions : j <= l]
HasAlias(entry) == arg \in entry.aliases
Aliased == {j \in DOMAIN kept : HasAlias(index[kept[j]])}
ResolvedArg == IF Aliased = {} THEN arg ELSE index[First(Aliased)].name

(* Mutant: the architecture of the entry is not normalized.                *)
IsWanted_Mutant(entry) == entry.name = ResolvedArg /\ arch = entry.arch

IsWanted(entry) == entry.name = ResolvedArg /\ arch = Normal[entry.arch]
Wanted == {j \in DOMAIN kept : IsWanted(index[kept[j]])}

Select ==
  /\ phase = "select"
  /\ IF Wanted = {}
     THEN phase' = "not found" /\ UNCHANGED item
     ELSE phase' = "selected" /\ item' = First(Wanted)
  /\ UNCHANGED <<index, arg, arch, k, nseen, kept>>

SelectionNext == Fill \/ FillDone \/ Filter \/ FilterDone \/ Select
SelectionSpec == SelectionInit /\ [][SelectionNext]_selection_vars

-----------------------------------------------------------------------------
Filtered == phase \in {"select", "selected", "not found"}
KeptPositions == {kept[j] : j \in 1..Len(kept)}

(* Every template that some source offers is in the result, exactly once:  *)
(* whatever the order of the revisions, mixed strings and integers too, no *)
(* template is lost between the two scans.                                 *)
EachTemplateOnce ==
  Filtered => \A p \in 1..Len(index) :
    \E q \in KeptPositions :
      /\ IdOf(index[q]) = IdOf(index[p])
      /\ \A r \in KeptPositions : IdOf(index[r]) = IdOf(index[p]) => r = q

(* The sources come in order of preference: of equal revisions the one of  *)
(* the earlier source is kept, and the result is in the order of the       *)
(* sources.                                                                *)
EarlierSourceWins ==
  /\ \A j \in 1..Len(kept), l \in 1..Len(kept) : j < l => kept[j] < kept[l]
  /\ \A q \in KeptPositions, p \in 1..Len(index) :
       (IdOf(index[p]) = IdOf(index[q]) /\ index[p].revision = index[q].revision)
         => q <= p

(* An os-version that some source offers for the architecture is found,    *)
(* unless it is hidden behind an alias of another template.                *)
OfferedIsFound ==
  (phase = "not found" /\ \A p \in 1..Len(index) : arg \notin index[p].aliases) =>
    \A p \in 1..Len(index) : ~(index[p].name = arg /\ Normal[index[p].arch] = arch)
=============================================================================
